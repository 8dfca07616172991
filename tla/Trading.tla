------------------------------- MODULE Trading -------------------------------
(***************************************************************************)
(* A trading policy at work on the market of one run: the policy decides on*)
(* what it sees, the market moves on, and the server applies the command to*)
(* whatever the market has become (strategy.py, _run_trading).             *)
(*                                                                         *)
(* The steps between a decision and the next one -- send, result, reconcile*)
(* -- are those of Session, which proves that a decision is only ever made *)
(* on a snapshot reflecting every earlier command (DecidesOnSettled).  Here*)
(* they are two: Decide, on a snapshot current at that moment, and Apply,  *)
(* any number of market steps later.  A snapshot that is already old when  *)
(* the policy reads it is a Decide followed by those market steps.         *)
(*                                                                         *)
(* The market is external: other stations, production and upkeep, and the  *)
(* server's validation of commands, as the client relies on them.          *)
(***************************************************************************)
EXTENDS TradingPolicy, SimplifiedPolicy

CONSTANTS
  Simplified,     \* which policy: config.simplified_trading
  MaxLatency,     \* bound: delays span up to this many ticks
  StartStocks,    \* bounds of the market: stocks to start from,
  StartAds,       \*   what partners advertise from the first tick on,
  Productions,    \*   units of specialty one tick may produce,
  PartnerTerms,   \*   what partners offer us (give and receive are theirs),
  PartnerAds,     \*   what they advertise later,
  MaxOffers,      \*   offers made in a run,
  MaxRestarts     \*   restarts of the client

ASSUME TradingAssumption ==
  /\ Simplified \in BOOLEAN
  /\ MaxLatency \in Nat \ {0} /\ MaxOffers \in Nat /\ MaxRestarts \in Nat
  /\ StartStocks \subseteq Bundles /\ Productions \subseteq Nat
  /\ PartnerTerms \subseteq [give : Bundles, receive : Bundles]
  /\ StartAds \subseteq
       [Stations -> [selling : SUBSET Resource, seeking : SUBSET Resource, expires : Nat]]
  /\ PartnerAds \subseteq [selling : SUBSET Resource, seeking : SUBSET Resource]

VARIABLES
  tick, alive,     \* alive: the run is running and this station has not failed
  stock,           \* this station's inventory
  offers, lastId,  \* offers the server still calls open; the last id it gave
  ads,             \* each station's active advertisement
  records,         \* stored request results
  served,          \* our commands the server counted in this tick
  delivered,       \* <<station, resource>> pairs of our settled transactions
  memory,          \* the policy object
  command,         \* the command decided and not yet applied
  restarts

marketVars == <<tick, alive, stock, offers, lastId, ads, delivered>>
vars == <<tick, alive, stock, offers, lastId, ads, delivered, records, served,
          memory, command, restarts>>

view == [tick |-> tick, alive |-> alive, stock |-> stock, offers |-> offers,
         ads |-> ads, records |-> records, delivered |-> delivered]

Init ==
  /\ tick = 0 /\ alive = TRUE /\ stock \in StartStocks
  /\ offers = {} /\ lastId = 0 /\ ads \in StartAds
  /\ records = 0 /\ served = 0 /\ delivered = {}
  /\ memory = NewMemory(0) /\ command = NoCommand /\ restarts = 0

-----------------------------------------------------------------------------
(* The client.                                                             *)

Chosen(l) ==
  IF Simplified THEN SimplifiedDecisions(view, memory) ELSE Decisions(view, memory, l)

(* choose returns a decision, and record() counts it before it is sent.    *)
Decide ==
  /\ command = NoCommand
  /\ \E l \in 1..MaxLatency : \E d \in Chosen(l) :
       command' = d /\ memory' = Record(AtTick(memory, view), d)
  /\ UNCHANGED <<marketVars, records, served, restarts>>

(* The process is started anew: a fresh policy counts the records it finds.*)
(* The server fences the old connection, so its command is gone.           *)
Restart ==
  /\ restarts < MaxRestarts
  /\ restarts' = restarts + 1 /\ command' = NoCommand
  /\ memory' = NewMemory(records)
  /\ UNCHANGED <<marketVars, records, served>>

-----------------------------------------------------------------------------
(* The server applies the command, or refuses it.                          *)

Open(id) == {o \in offers : o.id = id /\ ~Expired(o, view)}
OurOpen  == {o \in offers : o.from = Self /\ ~Expired(o, view)}

(* A settled trade: what this station pays and gets.                       *)
Settle(pays, gets, partner) ==
  /\ Covers(stock, pays)
  /\ stock' = Plus(Minus(stock, pays), gets)
  /\ delivered' = delivered \cup {<<partner, r>> : r \in {q \in Resource : gets[q] > 0}}

ApplyOffer ==
  /\ command.kind = "offer" /\ lastId < MaxOffers
  /\ Covers(stock, command.give) /\ tick < command.expires
  /\ Cardinality(OurOpen) < MaxOpenOffers
  /\ lastId' = lastId + 1
  /\ offers' = offers \cup
       {[id |-> lastId + 1, from |-> Self, to |-> command.to, give |-> command.give,
         receive |-> command.receive, created |-> tick, expires |-> command.expires]}
  /\ UNCHANGED <<stock, ads, delivered>>

ApplyAccept ==
  /\ command.kind = "accept"
  /\ \E o \in Open(command.offer) :
       Settle(o.receive, o.give, o.from) /\ offers' = offers \ {o}
  /\ UNCHANGED <<lastId, ads>>

ApplyWithdraw ==
  /\ command.kind = "withdraw"
  /\ \E o \in Open(command.offer) : offers' = offers \ {o}
  /\ UNCHANGED <<stock, lastId, ads, delivered>>

ApplyAdvertise ==
  /\ command.kind = "advertise" /\ tick < command.ad.expires
  /\ ads' = [ads EXCEPT ![Self] = command.ad]
  /\ UNCHANGED <<stock, offers, lastId, delivered>>

Apply ==
  /\ alive /\ served < CommandsPerTick /\ records < MaxRecords
  /\ ApplyOffer \/ ApplyAccept \/ ApplyWithdraw \/ ApplyAdvertise
  /\ records' = records + 1 /\ served' = served + 1 /\ command' = NoCommand
  /\ UNCHANGED <<tick, alive, memory, restarts>>

(* A refusal for any other reason is stored as well.                       *)
Refuse ==
  /\ command # NoCommand /\ served < CommandsPerTick /\ records < MaxRecords
  /\ records' = records + 1 /\ served' = served + 1 /\ command' = NoCommand
  /\ UNCHANGED <<marketVars, memory, restarts>>

(* RATE_LIMITED names the tick to retry at, or none.                       *)
RateLimit ==
  /\ command # NoCommand /\ served >= CommandsPerTick
  /\ \E retryAfter \in {0, tick + 1} :
       memory' = [memory EXCEPT !.retryTick = AtLeast(memory.tick + 1, retryAfter)]
  /\ records' \in {records, AtMost(records + 1, MaxRecords)}
  /\ command' = NoCommand
  /\ UNCHANGED <<marketVars, served, restarts>>

-----------------------------------------------------------------------------
(* The market.                                                             *)

(* One tick: upkeep is paid as far as stock goes, then production arrives. *)
(* What has expired may go on being listed as open.                        *)
Tick ==
  /\ tick < Duration
  /\ tick' = tick + 1 /\ served' = 0
  /\ \E n \in Productions :
       stock' = Plus(LessUpTo(stock, Upkeep), Only(Specialty, n))
  /\ alive' \in (IF Covers(stock, Upkeep) THEN {alive} ELSE {alive, FALSE})
  /\ \/ offers' = {o \in offers : tick + 1 < o.expires}
     \/ offers' = {o \in offers : tick < o.expires}
  /\ UNCHANGED <<lastId, ads, delivered, records, memory, command, restarts>>

(* A partner accepts our offer, if we can still pay.                       *)
PartnerAccepts ==
  /\ alive
  /\ \E o \in OurOpen : Settle(o.give, o.receive, o.to) /\ offers' = offers \ {o}
  /\ UNCHANGED <<tick, alive, lastId, ads, records, served, memory, command, restarts>>

PartnerOffers ==
  /\ lastId < MaxOffers /\ tick < Duration
  /\ lastId' = lastId + 1
  /\ \E p \in Partners, terms \in PartnerTerms :
       offers' = offers \cup
         {[id |-> lastId + 1, from |-> p, to |-> Self, give |-> terms.give,
           receive |-> terms.receive, created |-> tick, expires |-> tick + MaxOfferTtl]}
  /\ UNCHANGED <<tick, alive, stock, ads, delivered, records, served, memory, command, restarts>>

PartnerWithdraws ==
  /\ \E o \in Incoming(view) : offers' = offers \ {o}
  /\ UNCHANGED <<tick, alive, stock, lastId, ads, delivered, records, served, memory, command,
                 restarts>>

PartnerAdvertises ==
  /\ \E p \in Partners, a \in PartnerAds :
       /\ ads[p] = NoAd \/ Expired(ads[p], view)
       /\ ads' = [ads EXCEPT ![p] = [selling |-> a.selling, seeking |-> a.seeking,
                                     expires |-> tick + MaxPublicationTtl]]
  /\ UNCHANGED <<tick, alive, stock, offers, lastId, delivered, records, served, memory, command,
                 restarts>>

Terminated == tick = Duration /\ UNCHANGED vars

Client == Decide \/ Restart
Server == Apply \/ Refuse \/ RateLimit
World  == Tick \/ PartnerAccepts \/ PartnerOffers \/ PartnerWithdraws \/ PartnerAdvertises

Next == Client \/ Server \/ World \/ Terminated

Spec == Init /\ [][Next]_vars
=============================================================================
