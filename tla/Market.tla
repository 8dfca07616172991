------------------------------- MODULE Market -------------------------------
(***************************************************************************)
(* What a policy knows and what it may decide: the parts of a snapshot that*)
(* choose reads (domain/world.py, offers.py, advertisements.py), the       *)
(* policy's own memory (strategy.py, BaseStrategy.__init__ and record) and *)
(* the commands it can issue.                                              *)
(*                                                                         *)
(* A view `w' is a record: the tick, whether the run is running and the    *)
(* station alive, the stock, the open offers, each station's active        *)
(* advertisement, the number of stored request results, and the pairs      *)
(* <<station, resource>> that settled transactions have delivered.  Offers *)
(* stay `open' past their expiry until the server says so.                 *)
(***************************************************************************)
EXTENDS Resources, FiniteSets, FiniteSetsExt

CONSTANTS
  Self, Partners,          \* this station, and the others
  Specialty, Upkeep,       \* self.specialty, self.upkeep_per_tick
  Duration,                \* rules.duration_ticks
  MaxOfferTtl,             \* rules.max_offer_ttl_ticks
  MaxPublicationTtl,       \* rules.max_publication_ttl_ticks
  CommandsPerTick,         \* rules.new_commands_per_station_per_tick
  MaxRecords,              \* rules.max_request_records_per_station
  MaxOpenOffers,           \* rules.max_open_outgoing_offers
  RESERVE_TICKS,           \* class attributes of the policy in use
  TARGET_TICKS

ASSUME RulesAssumption ==
  /\ Self \notin Partners
  /\ Specialty \in Resource /\ Upkeep \in Bundles
  /\ Duration \in Nat /\ MaxOfferTtl \in Nat /\ MaxPublicationTtl \in Nat
  /\ RESERVE_TICKS \in Nat /\ TARGET_TICKS \in Nat
  /\ CommandsPerTick \in Nat /\ MaxRecords \in Nat /\ MaxOpenOffers \in Nat

Stations == Partners \cup {Self}
NoAd     == [selling |-> {}, seeking |-> {}, expires |-> 0]

(* is_expired_by: unusable from the tick named on.                         *)
Expired(x, w) == w.tick >= x.expires

IsGift(o) == IsZero(o.receive)

Outgoing(w) == {o \in w.offers : o.from = Self /\ ~Expired(o, w)}
Incoming(w) == {o \in w.offers : o.to = Self}

Promised(offers) ==
  [r \in Resource |-> MapThenSumSet(LAMBDA o : o.give[r], offers)]

Committed(w) == Promised(Outgoing(w))
Available(w) == LessUpTo(w.stock, Committed(w))

Remaining(w) == AtLeast(0, Duration - w.tick)

(* Upkeep for `ticks' ticks, or to the end of the run if that is sooner.   *)
Buffer(w, ticks) == Scaled(Upkeep, AtMost(ticks, Remaining(w)))

(* An offer nets r for its recipient, or for its proposer.                 *)
Brings(o, r) == o.give[r] > o.receive[r]
Buys(o, r)   == o.receive[r] > o.give[r]

(* Mutant: partners we have an open offer with are asked again.            *)
AdvertisedByAnyone(w) ==
  {p \in Partners : w.ads[p] # NoAd /\ ~Expired(w.ads[p], w)}

(* Advertisements of stations we have no open offer with.                  *)
Advertised(w) ==
  {p \in Partners : /\ w.ads[p] # NoAd /\ ~Expired(w.ads[p], w)
                    /\ \A o \in Outgoing(w) : o.to # p}

OwnAd(w) == IF Expired(w.ads[Self], w) THEN NoAd ELSE w.ads[Self]

-----------------------------------------------------------------------------
(* The policy's memory.                                                    *)

NewMemory(records) ==
  [tick |-> -1, attempted |-> {}, sentThisTick |-> 0, sentTotal |-> records,
   retryTick |-> 0, partnerTurn |-> [p \in Partners |-> -1], lastAdTick |-> -100]

(* choose forgets the attempts of earlier ticks.                           *)
AtTick(m, w) ==
  IF m.tick = w.tick THEN m
  ELSE [m EXCEPT !.tick = w.tick, !.attempted = {}, !.sentThisTick = 0]

Spent(w, m) == AtLeast(m.sentTotal, w.records)

(* Mutant: one command too many.                                           *)
MayActOnceMore(w, m) ==
  /\ w.alive /\ Remaining(w) > 0 /\ w.tick >= m.retryTick
  /\ m.sentThisTick < CommandsPerTick /\ Spent(w, m) <= MaxRecords

(* The conditions under which either policy decides at all.                *)
MayAct(w, m) ==
  /\ w.alive /\ Remaining(w) > 0 /\ w.tick >= m.retryTick
  /\ m.sentThisTick < CommandsPerTick /\ Spent(w, m) < MaxRecords

-----------------------------------------------------------------------------
(* Commands.                                                               *)

NoCommand == [kind |-> "none"]

Withdraw(o)  == [kind |-> "withdraw", offer |-> o.id]
Accept(o)    == [kind |-> "accept", offer |-> o.id]
Advertise(selling, seeking, expires) ==
  [kind |-> "advertise", ad |-> [selling |-> selling, seeking |-> seeking, expires |-> expires]]
Propose(p, give, receive, expires) ==
  [kind |-> "offer", to |-> p, give |-> give, receive |-> receive, expires |-> expires]

(* The key a decision is remembered by.                                    *)
Key(d) ==
  CASE d.kind \in {"withdraw", "accept"} -> <<d.kind, d.offer, Self>>
    [] d.kind = "offer"                  -> <<"partner", 0, d.to>>
    [] OTHER                             -> <<d.kind, 0, Self>>

(* decision() drops what was already tried in this tick.                   *)
Fresh(m, decisions) == {d \in decisions : Key(d) \notin m.attempted}

(* record(): a decision counts from the moment it is sent.                 *)
Record(m, d) ==
  [m EXCEPT
     !.attempted    = @ \cup {Key(d)},
     !.sentThisTick = @ + 1,
     !.sentTotal    = @ + 1,
     !.partnerTurn  = IF d.kind = "offer" THEN [@ EXCEPT ![d.to] = m.sentTotal + 1] ELSE @,
     !.lastAdTick   = IF d.kind = "advertise" THEN m.tick ELSE @]

(* The first in a loop's order, whatever breaks its ties.                  *)
First(S, Before(_, _)) == {x \in S : \A y \in S : ~Before(y, x)}
=============================================================================
