-------------------------- MODULE TradingProperties --------------------------
(***************************************************************************)
(* What the policies promise on a market that moves between a decision and *)
(* its effect; see Trading.                                                *)
(***************************************************************************)
EXTENDS Trading

Ticks  == 0..Duration
Offers == [id : Nat, from : Stations, to : Stations, give : Bundles, receive : Bundles,
           created : Nat, expires : Nat]
Ads    == [selling : SUBSET Resource, seeking : SUBSET Resource, expires : Nat]
Keys   == {"withdraw", "accept", "partner", "advertise"} \X Nat \X Stations
Memories ==
  [tick : Int, attempted : SUBSET Keys, sentThisTick : Nat, sentTotal : Nat, retryTick : Nat,
   partnerTurn : [Partners -> Int], lastAdTick : Int]
Commands ==
  {NoCommand} \cup [kind : {"withdraw", "accept"}, offer : Nat]
    \cup [kind : {"advertise"}, ad : Ads]
    \cup [kind : {"offer"}, to : Partners, give : Bundles, receive : Bundles, expires : Nat]

(* Every variable has its type; quantities never go below zero.            *)
TypeOK ==
  /\ tick \in Ticks /\ alive \in BOOLEAN /\ stock \in Bundles
  /\ \A o \in offers : o \in Offers
  /\ lastId \in Nat /\ ads \in [Stations -> Ads] /\ records \in Nat /\ served \in Nat
  /\ delivered \in SUBSET (Stations \X Resource)
  /\ memory \in Memories /\ command \in Commands /\ restarts \in Nat

(* The longest an offer of ours is open, however long the server would let *)
(* it be (strategy.py asks for max(5, 2L+1) ticks).                        *)
LongestLife ==
  AtMost(MaxOfferTtl, IF Simplified THEN OFFER_TTL_TICKS ELSE AtLeast(5, 2 * MaxLatency + 1))

(* An emergency purchase leaves upkeep for three ticks, a floor that holds *)
(* on the day it is decided and on the three that follow: so much of its   *)
(* life may be left after that.  The simplified policy has one floor for   *)
(* all its offers, and it lasts as long as they do.                        *)
Overhang == IF Simplified THEN 0 ELSE AtLeast(0, LongestLife - 4)

Firm(o) == tick < o.expires - Overhang

(* Whenever a partner accepts, we can pay.  While an offer of ours outlives*)
(* no floor, the stock covers what it gives and all else that is promised  *)
(* of that resource, however late the decisions took effect and even if the*)
(* policy never acts again (the reserve and the lifetime in `spendable',   *)
(* the emergency reserve, the commitments subtracted in `available').      *)
FirmOffersCovered ==
  LET promised == Promised(OurOpen) IN
  \A r \in Resource, o \in OurOpen : Firm(o) /\ o.give[r] > 0 => promised[r] <= stock[r]

(* ARCHITECTURE.md: "Outgoing offers retain upkeep for their lifetime": as *)
(* long as any is open, the stock covers all of them together.  So it is   *)
(* with the simplified policy; an emergency purchase of the others may be  *)
(* open for longer than upkeep was kept back for it.                       *)
CommitmentsCovered == Covers(stock, Promised(OurOpen))

(* Never two open offers to one partner, nor more open offers than the     *)
(* rules allow, as the server counts them (`busy' and the length of        *)
(* `outgoing' are read from a snapshot).                                   *)
OpenOffersLimited ==
  /\ Cardinality(OurOpen) <= MaxOpenOffers
  /\ \A o, q \in OurOpen : o.to = q.to => o = q
  /\ command.kind = "offer" => \A o \in OurOpen : o.to # command.to

(* The lifetime budget is never overrun: a command finds room for its      *)
(* result at the server, across restarts, and the policy's count of what it*)
(* sent is no lower than the server's count of what it stored.             *)
BudgetKept ==
  /\ records <= MaxRecords
  /\ command # NoCommand => records < MaxRecords /\ records < memory.sentTotal
  /\ records <= memory.sentTotal

(* Routine decisions -- advertisements, gifts, purchases and paid trades   *)
(* that rescue nothing -- leave the last EMERGENCY_RESERVE records alone   *)
(* (routine_ok in every branch that spends them).                          *)
Emergency(d, l) ==
  \/ d.kind = "withdraw"
  \/ d.kind = "accept" /\ \E o \in offers : o.id = d.offer /\ (IsGift(o) \/ Rescues(o, view, l))
  \/ d.kind = "offer" /\ \E r \in Critical(view, l) : d.receive[r] > 0

RoutineLeavesReserve ==
  [][command' # NoCommand /\ command' # command =>
       \/ \E l \in 1..MaxLatency : Emergency(command', l)
       \/ MaxRecords - memory'.sentTotal >= EMERGENCY_RESERVE]_vars

(* No settled trade, ours or a partner's, takes more units than it brings, *)
(* but for gifts of specialty (favorable_or_equal; the 1:1 offers).        *)
Gift(o) == IsGift(o) /\ \A r \in Resource \ {Specialty} : o.give[r] = 0

TradesAreFavorable ==
  [][tick' = tick =>
       \/ Units(stock') >= Units(stock)
       \/ \E o \in offers \ offers' : o.from = Self /\ Gift(o)]_vars

(* What we do not produce leaves only for upkeep, or to buy specialty      *)
(* ("never give away either of them", but for the survival exception).     *)
ImportsAreKept ==
  [][tick' = tick =>
       \/ \A r \in Resource \ {Specialty} : stock'[r] >= stock[r]
       \/ stock'[Specialty] > stock[Specialty]]_vars

(* A restrained gift never leaves us short: while one is open, what is not *)
(* promised covers the upkeep of the reserve and of the gift's remaining   *)
(* ticks, short of an offer's longest life.  That much later trades may    *)
(* take: they are held to the reserve on the day they are accepted.        *)
(* (can_gift, and the safety checks of what is decided while it is open.)  *)
GiftsSpareTheReserve ==
  \A o \in OurOpen : IsGift(o) =>
    Covers(Available(view), Buffer(view, RESERVE_TICKS - LongestLife + (o.expires - tick)))

(* The simplified policy never orders a resource twice: no two open offers *)
(* at the server buy the same resource (`pending').                        *)
OneOrderPerResource ==
  \A o, q \in OurOpen : o # q => \A r \in Resource : ~(Buys(o, r) /\ Buys(q, r))

(* ARCHITECTURE.md: a safety withdrawal is never the thing that runs out of*)
(* budget: while commitments are unsafe there is a record left to withdraw *)
(* with.                                                                   *)
WithdrawalHasBudget ==
  command = NoCommand /\ alive /\ Remaining(view) > 0 /\ Unsafe(view, 1) =>
    Spent(view, memory) < MaxRecords

(* BaseStrategy's docstring: if our specialty falls below the reserve, "we *)
(* seek and accept trades for it too, funded from whichever other resource *)
(* we can spare": with a favorable, safe offer of it at hand and nothing to*)
(* withdraw, the policy accepts something.                                 *)
SpecialtyRescueAccepted ==
  LET m == AtTick(memory, view)
      rescue == {o \in Incoming(view) :
                   /\ Specialty \in Critical(view, 1) /\ Brings(o, Specialty)
                   /\ ~Expired(o, view) /\ Affordable(o, view) /\ Safe(o, view, 1)
                   /\ Favorable(o) /\ Key(Accept(o)) \notin m.attempted}
  IN command = NoCommand /\ MayAct(view, m) /\ ~Unsafe(view, 1) /\ rescue # {} =>
       \E d \in Chosen(1) : d.kind = "accept"
=============================================================================
