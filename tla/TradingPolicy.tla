---------------------------- MODULE TradingPolicy ----------------------------
(***************************************************************************)
(* BaseStrategy and RestrainedTradingStrategy (strategy.py): the decisions *)
(* `choose' may return on a view w with memory m, when the slowest recent  *)
(* delay spans l ticks.  The empty set stands for None.  More than one     *)
(* decision stands for an order the code leaves to ids, to set iteration   *)
(* or to the order of the snapshot's lists.                                *)
(***************************************************************************)
EXTENDS Market

CONSTANTS BATCH_TICKS, EMERGENCY_RESERVE,
          SEEK_SPECIALTY_TO_TARGET,
          GiftsKeepReserve   \* RestrainedTradingStrategy.can_gift overrides the default

ASSUME PolicyAssumption ==
  /\ BATCH_TICKS \in Nat /\ EMERGENCY_RESERVE \in Nat
  /\ SEEK_SPECIALTY_TO_TARGET \in BOOLEAN /\ GiftsKeepReserve \in BOOLEAN

ReserveTicks(l) == AtLeast(RESERVE_TICKS, 3 + 2 * (l - 1))
TargetTicks(l)  == AtLeast(TARGET_TICKS, 3 + 3 * l)
UrgencyTicks(l) == AtLeast(3, 2 * l + 1)

FloorOfTwo(w) == Buffer(w, 2)  \* mutant: a rescue may spend a tick's upkeep more

Reserve(w, l)       == Buffer(w, ReserveTicks(l))
EmergencyReserve(w) == Buffer(w, 3)

Needs(w, l)    == LessUpTo(Buffer(w, TargetTicks(l)), Available(w))
Critical(w, l) == {r \in Resource : Available(w)[r] < Buffer(w, UrgencyTicks(l))[r]}

(* Mutant: routine spending reaches into the reserve by one.               *)
RoutineOkAtReserve(w, m) == MaxRecords - Spent(w, m) >= EMERGENCY_RESERVE

(* Routine spending stops while EMERGENCY_RESERVE records are left.        *)
RoutineOk(w, m) == MaxRecords - Spent(w, m) > EMERGENCY_RESERVE

Seeking(w, l) ==
  {r \in Resource : /\ Needs(w, l)[r] > 0
                    /\ r # Specialty \/ SEEK_SPECIALTY_TO_TARGET}
    \cup {r \in {Specialty} : r \in Critical(w, l)}

-----------------------------------------------------------------------------
(* 1. Withdraw commitments that eat into the reserve; while a rescue is    *)
(* outstanding the reserve is the emergency one.                           *)

CommitmentReserve(w, l) ==
  IF \E o \in Outgoing(w), r \in Critical(w, l) : Buys(o, r)
  THEN EmergencyReserve(w) ELSE Reserve(w, l)

Unsafe(w, l) == ~Covers(LessUpTo(w.stock, CommitmentReserve(w, l)), Committed(w))

Withdrawals(w) == {Withdraw(o) : o \in Outgoing(w)}

-----------------------------------------------------------------------------
(* 2. Accept what partners offer; their `give' is what we get.             *)

Rescues(o, w, l) == \E r \in Critical(w, l) : Brings(o, r)

Affordable(o, w) == Covers(Available(w), o.receive)

Safe(o, w, l) ==
  LET available == Available(w)
      after == Plus(Minus(available, o.receive), o.give)
      floor == IF Rescues(o, w, l) THEN EmergencyReserve(w) ELSE Reserve(w, l)
  IN \A r \in Resource : after[r] >= AtMost(available[r], floor[r])

PaysAnything(o, w, l) == TRUE  \* mutant: imports may be given away

PaysOnlySpecialty(o, w, l) ==
  \/ \A r \in Resource \ {Specialty} : o.receive[r] = 0
  \/ /\ SEEK_SPECIALTY_TO_TARGET /\ Specialty \in Seeking(w, l)
     /\ o.receive[Specialty] = 0 /\ o.give[Specialty] > 0

AnyPrice(o) == TRUE  \* mutant: the price does not matter

Favorable(o) == Units(o.give) >= Units(o.receive)

Acceptable(o, w, m, l) ==
  /\ ~Expired(o, w) /\ Affordable(o, w) /\ Safe(o, w, l)
  /\ \/ IsGift(o)
     \/ /\ PaysOnlySpecialty(o, w, l) /\ Favorable(o)
        /\ \E r \in Seeking(w, l) : Brings(o, r)
        /\ RoutineOk(w, m) \/ Rescues(o, w, l)

(* Rescues first, then gifts, then the oldest.                             *)
Acceptances(w, m, l) ==
  LET Rank(o) == (IF Rescues(o, w, l) THEN 0 ELSE 2) + (IF IsGift(o) THEN 0 ELSE 1)
      Earlier(a, b) == Rank(a) < Rank(b) \/ (Rank(a) = Rank(b) /\ a.created < b.created)
      open == {o \in Incoming(w) :
                 Acceptable(o, w, m, l) /\ Key(Accept(o)) \notin m.attempted}
  IN {Accept(o) : o \in First(open, Earlier)}

-----------------------------------------------------------------------------
(* 3. Advertise surplus specialty and what is sought.                      *)

Advertisements(w, m, l) ==
  LET available == Available(w)
      selling == IF available[Specialty] > Reserve(w, l)[Specialty] THEN {Specialty} ELSE {}
      seeking == Seeking(w, l)
      own     == OwnAd(w)
      refresh == own = NoAd \/ own.expires <= w.tick + 1
      changed == own # NoAd /\ (own.selling # selling \/ own.seeking # seeking)
      ttl     == AtMost(AtMost(10, MaxPublicationTtl), Remaining(w))
  IN IF /\ RoutineOk(w, m) /\ selling \cup seeking # {}
        /\ refresh \/ (changed /\ w.tick >= m.lastAdTick + 3)
        /\ ttl > 0
     THEN Fresh(m, {Advertise(selling, seeking, w.tick + ttl)}) ELSE {}

-----------------------------------------------------------------------------
(* 4. and 5. Offers: purchases, then gifts.                                *)

OfferTtl(w, l) == AtMost(AtMost(AtLeast(5, 2 * l + 1), MaxOfferTtl), Remaining(w))

(* What is left when upkeep is kept for the reserve and the offer's life.  *)
Spendable(w, l) == LessUpTo(Available(w), Buffer(w, ReserveTicks(l) + OfferTtl(w, l)))

Confirmed(w, r) == {p \in Partners : <<p, r>> \in w.delivered}

(* sorted(not_produced): the alphabetical order of the resources' names.   *)
PaymentRank == [components |-> 1, food |-> 2, water |-> 3]

Payments(need) == IF need = Specialty THEN Resource \ {Specialty} ELSE {Specialty}

Amount(need, payment, w, l) ==
  LET urgent == need \in Critical(w, l)
      pool   == IF urgent THEN LessUpTo(Available(w), EmergencyReserve(w)) ELSE Spendable(w, l)
      cap    == AtLeast(IF urgent THEN 6 ELSE 3,
                        Upkeep[need] * AtLeast(3 * l, IF urgent THEN 3 ELSE BATCH_TICKS))
  IN AtMost(AtMost(cap, pool[payment]), Needs(w, l)[need])

Purchases(w, m, l) ==
  LET available == Available(w)
      critical == Critical(w, l)
      wanted == {r \in Seeking(w, l) :
                   \/ r \in critical
                   \/ RoutineOk(w, m) /\ Advertisements(w, m, l) = {}}
      options ==
        {c \in [need : wanted, to : Advertised(w), pay : Resource] :
           /\ c.need \in w.ads[c.to].selling
           /\ Confirmed(w, c.need) = {} \/ c.to \in Confirmed(w, c.need)
           /\ c.pay \in Payments(c.need) \cap w.ads[c.to].seeking
           /\ Amount(c.need, c.pay, w, l) > 0
           /\ <<"partner", 0, c.to>> \notin m.attempted}
      Sooner(a, b) ==
        \/ a \in critical /\ b \notin critical
        \/ /\ a \in critical <=> b \in critical
           /\ available[a] * AtLeast(1, Upkeep[b]) < available[b] * AtLeast(1, Upkeep[a])
      Earlier(a, b) ==
        \/ Sooner(a.need, b.need)
        \/ a.need = b.need /\ m.partnerTurn[a.to] < m.partnerTurn[b.to]
        \/ a.need = b.need /\ a.to = b.to /\ PaymentRank[a.pay] < PaymentRank[b.pay]
  IN {LET amount == Amount(c.need, c.pay, w, l) IN
      Propose(c.to, Only(c.pay, amount), Only(c.need, amount), w.tick + OfferTtl(w, l))
        : c \in First(options, Earlier)}

GiftAnyway(w, l) == TRUE  \* mutant: can_gift of the default policy

MayGift(w, l) ==
  GiftsKeepReserve => Covers(Available(w), Buffer(w, ReserveTicks(l) + OfferTtl(w, l)))

Gifts(w, m, l) ==
  LET amount == AtMost(2, Spendable(w, l)[Specialty])
      takers == {p \in Advertised(w) : /\ Specialty \in w.ads[p].seeking
                                       /\ <<"partner", 0, p>> \notin m.attempted}
      Earlier(p, q) == m.partnerTurn[p] < m.partnerTurn[q]
  IN IF RoutineOk(w, m) /\ MayGift(w, l) /\ amount > 0
     THEN {Propose(p, Only(Specialty, amount), Zero, w.tick + OfferTtl(w, l))
             : p \in First(takers, Earlier)}
     ELSE {}

-----------------------------------------------------------------------------
(* choose                                                                  *)

Trades(w, m, l) ==
  LET purchases == Purchases(w, m, l)
      notices   == Advertisements(w, m, l)
      mayOffer  == Cardinality(Outgoing(w)) < MaxOpenOffers /\ OfferTtl(w, l) > 0
  IN CASE mayOffer /\ purchases # {} -> purchases
       [] OTHER -> IF notices # {} \/ ~mayOffer THEN notices ELSE Gifts(w, m, l)

Decisions(w, memory, l) ==
  LET m == AtTick(memory, w)
      acceptances == Acceptances(w, m, l)
  IN CASE ~MayAct(w, m) -> {}
       [] MayAct(w, m) /\ Unsafe(w, l) -> Fresh(m, Withdrawals(w))
       [] OTHER -> IF acceptances # {} THEN acceptances ELSE Trades(w, m, l)
=============================================================================
