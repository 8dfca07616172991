---------------------------- MODULE PolicyProofs -----------------------------
(***************************************************************************)
(* What the two policies may decide: the form of every decision, its types,*)
(* and how much of the stock it leaves. No state of the market but the view*)
(* a policy decides on is used here; TradingProofs carries these facts to  *)
(* the moment a decision takes effect.                                     *)
(***************************************************************************)
EXTENDS TradingProperties, PromiseProofs

(* A decision of the default or restrained policy is one of its branches.  *)
LEMMA DecisionForms ==
  ASSUME NEW w, NEW memory0, NEW l, NEW d \in Decisions(w, memory0, l)
  PROVE  LET m == AtTick(memory0, w) IN
         \/ \E o \in Outgoing(w) : d = Withdraw(o)
         \/ \E o \in Incoming(w) : d = Accept(o) /\ Acceptable(o, w, m, l)
         \/ d \in Advertisements(w, m, l)
         \/ /\ Cardinality(Outgoing(w)) < MaxOpenOffers /\ OfferTtl(w, l) > 0
            /\ d \in Purchases(w, m, l) \cup Gifts(w, m, l)
<1> DEFINE m == AtTick(memory0, w)
<1>1. Fresh(m, Withdrawals(w)) \subseteq Withdrawals(w)
  BY DEF Fresh
<1>2. \A x \in Acceptances(w, m, l) : \E o \in Incoming(w) : x = Accept(o) /\ Acceptable(o, w, m, l)
  BY DEF Acceptances, First
<1> HIDE DEF m
<1>3. \/ d \in Fresh(m, Withdrawals(w)) \/ d \in Acceptances(w, m, l) \/ d \in Trades(w, m, l)
  BY DEF Decisions, m
<1>4. d \in Trades(w, m, l) =>
        \/ d \in Advertisements(w, m, l)
        \/ /\ Cardinality(Outgoing(w)) < MaxOpenOffers /\ OfferTtl(w, l) > 0
           /\ d \in Purchases(w, m, l) \cup Gifts(w, m, l)
  BY DEF Trades
<1> QED BY <1>1, <1>2, <1>3, <1>4 DEF Withdrawals, m

(* So is one of the simplified policy.                                     *)
LEMMA SimplifiedForms ==
  ASSUME NEW w, NEW memory0, NEW d \in SimplifiedDecisions(w, memory0)
  PROVE  LET m == AtTick(memory0, w) IN
         \/ \E o \in Outgoing(w) : d = Withdraw(o)
         \/ \E o \in Incoming(w) : d = Accept(o) /\ Welcome(o, w)
         \/ d \in Notices(w, m)
         \/ MayOffer(w) /\ d \in Refills(w, m) \cup Shares(w, m)
<1> DEFINE m == AtTick(memory0, w)
<1>1. \A x \in Releases(w, m) : \E o \in Outgoing(w) : x = Withdraw(o)
  BY DEF Releases, First
<1>2. \A x \in Welcomes(w, m) : \E o \in Incoming(w) : x = Accept(o) /\ Welcome(o, w)
  BY DEF Welcomes, First
<1> HIDE DEF m
<1>3. \/ d \in Releases(w, m) \/ d \in Welcomes(w, m) \/ d \in Moves(w, m)
  BY DEF SimplifiedDecisions, m
<1>4. d \in Moves(w, m) =>
        d \in Notices(w, m) \/ (MayOffer(w) /\ d \in Refills(w, m) \cup Shares(w, m))
  BY DEF Moves
<1> QED BY <1>1, <1>2, <1>3, <1>4 DEF m

(* What a purchase, a gift, a refill and a share look like.                *)
LEMMA PurchaseForm ==
  ASSUME NEW w, NEW m, NEW l, NEW d \in Purchases(w, m, l)
  PROVE  \E need \in Seeking(w, l), pay \in Resource, p \in Advertised(w) :
           /\ need \in Critical(w, l) \/ RoutineOk(w, m)
           /\ pay \in Payments(need)
           /\ Amount(need, pay, w, l) > 0
           /\ d = Propose(p, Only(pay, Amount(need, pay, w, l)),
                          Only(need, Amount(need, pay, w, l)), w.tick + OfferTtl(w, l))
BY DEF Purchases, First

LEMMA GiftForm ==
  ASSUME NEW w, NEW m, NEW l, NEW d \in Gifts(w, m, l)
  PROVE  /\ RoutineOk(w, m) /\ MayGift(w, l) /\ AtMost(2, Spendable(w, l)[Specialty]) > 0
         /\ \E p \in Advertised(w) :
              d = Propose(p, Only(Specialty, AtMost(2, Spendable(w, l)[Specialty])), Zero,
                          w.tick + OfferTtl(w, l))
BY DEF Gifts, First

LEMMA RefillForm ==
  ASSUME NEW w, NEW m, NEW d \in Refills(w, m)
  PROVE  \E need \in Short(w) \ Ordered(w), pay \in Resource, p \in Advertised(w) :
           /\ IF need = Specialty THEN pay # Specialty ELSE pay = Specialty
           /\ RefillAmount(need, pay, w) > 0
           /\ d = Propose(p, Only(pay, RefillAmount(need, pay, w)),
                          Only(need, RefillAmount(need, pay, w)), w.tick + RefillTtl(w))
BY DEF Refills, First

LEMMA ShareForm ==
  ASSUME NEW w, NEW m, NEW d \in Shares(w, m)
  PROVE  /\ AtMost(2, AtMost(Disposable(w)[Specialty], Spare(w)[Specialty])) > 0
         /\ \E p \in Advertised(w) :
              d = Propose(p, Only(Specialty, AtMost(2, AtMost(Disposable(w)[Specialty],
                                                              Spare(w)[Specialty]))),
                          Zero, w.tick + RefillTtl(w))
BY DEF Shares, First

(* What a policy sees has its type.                                        *)
Seen(w) ==
  /\ w.tick \in Ticks /\ w.stock \in Bundles /\ w.records \in Nat
  /\ IsFiniteSet(w.offers) /\ \A o \in w.offers : o \in Offers
  /\ w.ads \in [Stations -> Ads]

(* Products of naturals, which the prover does not multiply by itself.     *)
LEMMA Products ==
  ASSUME NEW a \in Nat, NEW b \in Nat, NEW c \in Nat
  PROVE  /\ a * c \in Nat /\ a * c = c * a /\ (a + 1) * c = a * c + c
         /\ a <= b => a * c <= b * c
<1>1. a * c \in Nat /\ a * c = c * a /\ (a + 1) * c = a * c + c
  OBVIOUS
<1>2. ASSUME a <= b PROVE a * c <= b * c
  <2> DEFINE e == b - a
  <2>1. e \in Nat /\ b = a + e
    BY <1>2
  <2> HIDE DEF e
  <2>2. b * c = a * c + e * c /\ a * c \in Nat /\ e * c \in Nat
    BY <2>1
  <2> QED BY <2>2
<1> QED BY <1>1, <1>2

(* A buffer covers upkeep tick by tick, up to its length or to the end of  *)
(* the run.                                                                *)
LEMMA BufferIs ==
  ASSUME NEW w, Seen(w), NEW t \in Nat
  PROVE  /\ Buffer(w, t) \in Bundles
         /\ \A r \in Resource, k \in 0..t : k <= Remaining(w) => k * Upkeep[r] <= Buffer(w, t)[r]
<1> DEFINE n == AtMost(t, Remaining(w))
<1>1. n \in Nat /\ \A k \in 0..t : k <= Remaining(w) => k <= n
  BY RulesAssumption DEF Seen, Ticks, Remaining, AtLeast, AtMost
<1> HIDE DEF n
<1>2. \A r \in Resource : Upkeep[r] \in Nat
  BY RulesAssumption DEF Bundles
<1>3. Buffer(w, t) = [r \in Resource |-> Upkeep[r] * n]
  BY DEF Buffer, Scaled, n
<1>4. \A r \in Resource : Upkeep[r] * n = n * Upkeep[r]
  BY <1>1, <1>2, Products
<1>5. Buffer(w, t) \in Bundles
  BY <1>1, <1>2, <1>3, <1>4, Products DEF Bundles
<1>6. ASSUME NEW r \in Resource, NEW k \in 0..t, k <= Remaining(w)
      PROVE  k * Upkeep[r] <= Buffer(w, t)[r]
  <2>1. k \in Nat /\ k <= n
    BY <1>1, <1>6
  <2>2. k * Upkeep[r] <= n * Upkeep[r]
    BY <2>1, <1>1, <1>2, Products
  <2> QED BY <2>2, <1>3, <1>4
<1> QED BY <1>5, <1>6

(* Clamped subtraction, and bundles of one resource.                       *)
LEMMA LessUpToIs ==
  ASSUME NEW a \in Bundles, NEW b \in Bundles
  PROVE  /\ LessUpTo(a, b) \in Bundles
         /\ \A r \in Resource : 
              /\ LessUpTo(a, b)[r] <= a[r] /\ LessUpTo(a, b)[r] >= a[r] - b[r]
              /\ LessUpTo(a, b)[r] > 0 => LessUpTo(a, b)[r] = a[r] - b[r]
BY DEF LessUpTo, Bundles

LEMMA OnlyIs ==
  ASSUME NEW r \in Resource, NEW n \in Nat
  PROVE  /\ Only(r, n) \in Bundles /\ Zero \in Bundles
         /\ \A s \in Resource : Only(r, n)[s] = IF s = r THEN n ELSE 0
         /\ \A s \in Resource : Zero[s] = 0
         /\ Units(Only(r, n)) = n /\ Units(Zero) = 0
BY DEF Only, Zero, Bundles, Units, Resource

(* What is available is what the stock holds beyond the commitments.       *)
LEMMA AvailableIs ==
  ASSUME NEW w, Seen(w)
  PROVE  /\ Giving(Outgoing(w)) /\ Committed(w) \in Bundles /\ Available(w) \in Bundles
         /\ \A r \in Resource : 
              /\ Available(w)[r] <= w.stock[r]
              /\ Available(w)[r] > 0 => Available(w)[r] = w.stock[r] - Committed(w)[r]
<1>1. Giving(Outgoing(w))
  BY FS_Subset DEF Seen, Outgoing, Giving, Offers
<1>2. Committed(w) \in Bundles
  BY <1>1, PromisedType DEF Committed
<1> QED BY <1>1, <1>2, LessUpToIs DEF Available, Seen

-----------------------------------------------------------------------------
(* Offers.                                                                 *)

(* The terms of every offer of ours: so much of one resource for as much of*)
(* another, one of the two being specialty, or a gift of specialty.        *)
EvenTerms(x) ==
  \E n \in Nat \ {0} :
    \/ \E need, pay \in Resource :
         /\ need # pay /\ Specialty \in {need, pay}
         /\ x.give = Only(pay, n) /\ x.receive = Only(need, n)
    \/ x.give = Only(Specialty, n) /\ x.receive = Zero

(* An offer a policy may decide on.                                        *)
Proposal(d, w) ==
  /\ d \in [kind : {"offer"}, to : Partners, give : Bundles, receive : Bundles, expires : Nat]
  /\ d.to \in Advertised(w) /\ Cardinality(Outgoing(w)) < MaxOpenOffers
  /\ d.expires <= w.tick + LongestLife /\ d.expires <= Duration
  /\ EvenTerms(d)

(* What is paid leaves upkeep for t ticks on top of all that is promised.  *)
Spares(d, w, t) ==
  \A r \in Resource : d.give[r] > 0 =>
    d.give[r] + Buffer(w, t)[r] <= w.stock[r] - Committed(w)[r]

SparesOnAccept(o, w, t) ==
  \A r \in Resource : o.receive[r] > o.give[r] =>
    o.receive[r] - o.give[r] + Buffer(w, t)[r] <= w.stock[r] - Committed(w)[r]

(* A longer buffer is no smaller.                                          *)
LEMMA BufferGrows ==
  ASSUME NEW w, Seen(w), NEW s \in Nat, NEW t \in Nat, s <= t
  PROVE  \A r \in Resource : Buffer(w, s)[r] <= Buffer(w, t)[r]
<1> SUFFICES ASSUME NEW r \in Resource PROVE Buffer(w, s)[r] <= Buffer(w, t)[r]
  OBVIOUS
<1> DEFINE k == AtMost(s, Remaining(w))
<1>1. Remaining(w) \in Nat /\ Upkeep[r] \in Nat
  BY RulesAssumption DEF Seen, Ticks, Remaining, AtLeast, Bundles
<1>2. k \in 0..t /\ k <= Remaining(w)
  BY <1>1 DEF AtMost
<1>3. Buffer(w, s)[r] = Upkeep[r] * k
  BY DEF Buffer, Scaled
<1> HIDE DEF k
<1>4. Upkeep[r] * k = k * Upkeep[r]
  BY <1>1, <1>2, Products
<1> QED BY <1>2, <1>3, <1>4, BufferIs

(* What is left above a buffer leaves any shorter buffer on top of what is *)
(* promised.                                                               *)
LEMMA SpareIs ==
  ASSUME NEW w, Seen(w), NEW s \in Nat, NEW t \in Nat, s <= t, NEW r \in Resource,
         NEW n \in Nat \ {0}, n <= LessUpTo(Available(w), Buffer(w, t))[r]
  PROVE  n + Buffer(w, s)[r] <= w.stock[r] - Committed(w)[r]
<1>1. Available(w) \in Bundles /\ Buffer(w, t) \in Bundles /\ Buffer(w, s) \in Bundles
  BY AvailableIs, BufferIs
<1>2. Buffer(w, s)[r] <= Buffer(w, t)[r]
  BY BufferGrows
<1> DEFINE x == LessUpTo(Available(w), Buffer(w, t))
<1>3. x[r] > 0 /\ x[r] = Available(w)[r] - Buffer(w, t)[r]
  BY <1>1, LessUpToIs DEF Bundles
<1>4. Available(w)[r] = w.stock[r] - Committed(w)[r]
  BY <1>1, <1>3, AvailableIs DEF Bundles
<1> HIDE DEF x
<1> QED BY <1>1, <1>2, <1>3, <1>4, AvailableIs DEF x, Bundles, Seen

(* How long an offer of ours may be open, and outlive an emergency floor.  *)
LEMMA LifeIs ==
  /\ LongestLife \in Nat /\ Overhang \in Nat
  /\ ~Simplified => LongestLife - Overhang <= 4
  /\ Simplified => Overhang = 0
BY RulesAssumption, TradingAssumption, SimplifiedAssumption
   DEF LongestLife, Overhang, AtMost, AtLeast

(* The thresholds of the default and restrained policies.                  *)
LEMMA PolicyTypes ==
  ASSUME NEW w, Seen(w), NEW l \in 1..MaxLatency
  PROVE  /\ ReserveTicks(l) \in Nat /\ ReserveTicks(l) >= 3 /\ ReserveTicks(l) >= RESERVE_TICKS
         /\ TargetTicks(l) \in Nat /\ UrgencyTicks(l) \in Nat
         /\ OfferTtl(w, l) \in Nat /\ (~Simplified => OfferTtl(w, l) <= LongestLife)
         /\ w.tick + OfferTtl(w, l) <= Duration
         /\ Needs(w, l) \in Bundles
         /\ Seeking(w, l) \subseteq Resource
<1>1. ReserveTicks(l) \in Nat /\ ReserveTicks(l) >= 3 /\ ReserveTicks(l) >= RESERVE_TICKS
  BY RulesAssumption, TradingAssumption DEF ReserveTicks, AtLeast
<1>2. TargetTicks(l) \in Nat /\ UrgencyTicks(l) \in Nat
  BY RulesAssumption, TradingAssumption DEF TargetTicks, UrgencyTicks, AtLeast
<1>3. /\ OfferTtl(w, l) \in Nat /\ (~Simplified => OfferTtl(w, l) <= LongestLife)
      /\ w.tick + OfferTtl(w, l) <= Duration
  BY RulesAssumption, TradingAssumption
     DEF OfferTtl, LongestLife, AtLeast, AtMost, Remaining, Seen, Ticks
<1>4. Needs(w, l) \in Bundles
  BY <1>2, BufferIs, AvailableIs, LessUpToIs DEF Needs
<1>5. Seeking(w, l) \subseteq Resource
  BY DEF Seeking, Critical
<1> QED BY <1>1, <1>2, <1>3, <1>4, <1>5

(* The amount of a purchase is affordable and spares the emergency reserve,*)
(* or the whole of it when nothing is urgent.                              *)
LEMMA AmountIs ==
  ASSUME NEW w, Seen(w), NEW l \in 1..MaxLatency, NEW need \in Resource, NEW pay \in Resource,
         Amount(need, pay, w, l) > 0
  PROVE  /\ Amount(need, pay, w, l) \in Nat \ {0}
         /\ Amount(need, pay, w, l) + Buffer(w, 3)[pay] <= w.stock[pay] - Committed(w)[pay]
         /\ need \notin Critical(w, l) =>
              Amount(need, pay, w, l) + Buffer(w, ReserveTicks(l))[pay]
                <= w.stock[pay] - Committed(w)[pay]
<1> DEFINE urgent == need \in Critical(w, l)
           keep == IF urgent THEN 3 ELSE ReserveTicks(l) + OfferTtl(w, l)
           pool == LessUpTo(Available(w), Buffer(w, keep))
           cap  == AtLeast(IF urgent THEN 6 ELSE 3,
                           Upkeep[need] * AtLeast(3 * l, IF urgent THEN 3 ELSE BATCH_TICKS))
<1>1. Amount(need, pay, w, l) = AtMost(AtMost(cap, pool[pay]), Needs(w, l)[need])
  BY DEF Amount, Spendable, EmergencyReserve
<1>2. keep \in Nat /\ keep >= 3 /\ (need \notin Critical(w, l) => keep >= ReserveTicks(l))
  BY PolicyTypes
<1>3. cap \in Nat
  <2> DEFINE u == Upkeep[need]
             b == AtLeast(3 * l, IF urgent THEN 3 ELSE BATCH_TICKS)
  <2>1. u \in Nat /\ b \in Nat
    BY RulesAssumption, PolicyAssumption, TradingAssumption DEF Bundles, AtLeast
  <2> HIDE DEF u, b
  <2>2. u * b \in Nat
    BY <2>1, Products
  <2> QED BY <2>2 DEF AtLeast, u, b
<1> HIDE DEF cap, keep
<1>4. Available(w) \in Bundles /\ Buffer(w, keep) \in Bundles
  BY <1>2, AvailableIs, BufferIs
<1>5. pool \in Bundles /\ Needs(w, l) \in Bundles
  BY <1>4, LessUpToIs, PolicyTypes
<1>6. Amount(need, pay, w, l) \in Nat \ {0} /\ Amount(need, pay, w, l) <= pool[pay]
  BY <1>1, <1>3, <1>5 DEF AtMost, Bundles
<1> QED BY <1>2, <1>6, SpareIs, PolicyTypes

(* A purchase or a gift is a proposal that spares the emergency reserve.   *)
LEMMA PurchaseIsProposal ==
  ASSUME NEW w, Seen(w), NEW l \in 1..MaxLatency, NEW m, NEW d \in Purchases(w, m, l),
         Cardinality(Outgoing(w)) < MaxOpenOffers, ~Simplified
  PROVE  Proposal(d, w) /\ Spares(d, w, 3)
<1>1. PICK need \in Seeking(w, l), pay \in Resource, p \in Advertised(w) :
        /\ pay \in Payments(need)
        /\ Amount(need, pay, w, l) > 0
        /\ d = Propose(p, Only(pay, Amount(need, pay, w, l)), Only(need, Amount(need, pay, w, l)),
                       w.tick + OfferTtl(w, l))
  BY PurchaseForm
<1> DEFINE n == Amount(need, pay, w, l)
           e == w.tick + OfferTtl(w, l)
<1>2. need \in Resource /\ p \in Partners
  BY PolicyTypes DEF Advertised
<1>3. n \in Nat \ {0} /\ n + Buffer(w, 3)[pay] <= w.stock[pay] - Committed(w)[pay]
  BY <1>1, <1>2, AmountIs
<1>4. e \in Nat /\ e <= w.tick + LongestLife /\ e <= Duration
  BY PolicyTypes, LifeIs, RulesAssumption DEF Seen, Ticks
<1>5. need # pay /\ Specialty \in {need, pay}
  BY <1>1 DEF Payments
<1>6. d = Propose(p, Only(pay, n), Only(need, n), e)
  BY <1>1
<1> HIDE DEF n, e
<1>7. /\ d \in [kind : {"offer"}, to : Partners, give : Bundles, receive : Bundles, expires : Nat]
      /\ d.to = p /\ d.give = Only(pay, n) /\ d.receive = Only(need, n) /\ d.expires = e
  BY <1>2, <1>3, <1>4, <1>6, OnlyIs DEF Propose
<1>8. EvenTerms(d)
  BY <1>2, <1>3, <1>5, <1>7 DEF EvenTerms
<1>9. Spares(d, w, 3)
  BY <1>3, <1>7, OnlyIs DEF Spares
<1> QED BY <1>1, <1>4, <1>7, <1>8, <1>9 DEF Proposal

LEMMA GiftIsProposal ==
  ASSUME NEW w, Seen(w), NEW l \in 1..MaxLatency, NEW m, NEW d \in Gifts(w, m, l),
         Cardinality(Outgoing(w)) < MaxOpenOffers, ~Simplified
  PROVE  Proposal(d, w) /\ Spares(d, w, 3)
<1> DEFINE n == AtMost(2, Spendable(w, l)[Specialty])
           e == w.tick + OfferTtl(w, l)
           t == ReserveTicks(l) + OfferTtl(w, l)
<1>1. PICK p \in Advertised(w) : d = Propose(p, Only(Specialty, n), Zero, e)
  BY GiftForm
<1>2. n > 0 /\ p \in Partners /\ Specialty \in Resource
  BY GiftForm, RulesAssumption DEF Advertised
<1>3. Spendable(w, l) = LessUpTo(Available(w), Buffer(w, t))
  BY DEF Spendable
<1>4. t \in Nat /\ t >= 3
  BY PolicyTypes
<1> HIDE DEF t
<1>5. Spendable(w, l) \in Bundles
  BY <1>3, <1>4, AvailableIs, BufferIs, LessUpToIs
<1>6. n \in Nat \ {0} /\ n <= Spendable(w, l)[Specialty]
  BY <1>2, <1>5 DEF AtMost, Bundles
<1> HIDE DEF n
<1>7. n + Buffer(w, 3)[Specialty] <= w.stock[Specialty] - Committed(w)[Specialty]
  BY <1>2, <1>3, <1>4, <1>6, SpareIs
<1>8. e \in Nat /\ e <= w.tick + LongestLife /\ e <= Duration
  BY PolicyTypes, LifeIs, RulesAssumption DEF Seen, Ticks
<1> HIDE DEF e
<1>9. /\ d \in [kind : {"offer"}, to : Partners, give : Bundles, receive : Bundles, expires : Nat]
      /\ d.to = p /\ d.give = Only(Specialty, n) /\ d.receive = Zero /\ d.expires = e
  BY <1>1, <1>2, <1>6, <1>8, OnlyIs DEF Propose
<1>10. EvenTerms(d)
  BY <1>6, <1>9 DEF EvenTerms
<1>11. Spares(d, w, 3)
  BY <1>2, <1>6, <1>7, <1>9, OnlyIs DEF Spares
<1> QED BY <1>1, <1>8, <1>9, <1>10, <1>11 DEF Proposal

(* A finite set of naturals has a maximum: the element with the smallest  *)
(* set of elements above it.                                               *)
LEMMA MaxIs ==
  ASSUME NEW A, A \subseteq Nat, IsFiniteSet(A), A # {}
  PROVE  Max(A) \in A /\ \A x \in A : x <= Max(A)
<1> DEFINE above(x) == {y \in A : y > x}
           tails == {above(x) : x \in A}
<1>1. PICK S \in tails : \A U \in tails : U \subseteq S => U = S
  <2>1. tails \in SUBSET (SUBSET A) /\ tails # {} /\ IsFiniteSet(A)
    OBVIOUS
  <2> HIDE DEF tails
  <2> QED BY ONLY <2>1, SmallestSubset
<1>2. PICK x \in A : S = above(x)
  BY <1>1
<1>3. ASSUME NEW y \in A, y > x PROVE FALSE
  <2>0. x \in Nat /\ y \in Nat /\ \A z \in A : z \in Nat
    BY <1>2
  <2>1. above(y) \subseteq above(x)
    <3>1. ASSUME NEW z \in A, z > y PROVE z > x
      <4>1. z \in Nat
        BY <2>0
      <4> QED BY <1>3, <2>0, <3>1, <4>1
    <3> QED BY <3>1
  <2>3. y \in above(x) /\ y \notin above(y)
    BY <1>3, <2>0
  <2>2. above(y) \in tails
    OBVIOUS
  <2> QED BY <1>1, <1>2, <2>1, <2>2, <2>3
<1>4. \A y \in A : x >= y
  BY <1>3
<1> QED BY <1>4 DEF Max

(* Every open offer of ours expires within the horizon.                    *)
LEMMA HorizonIs ==
  ASSUME NEW w, Seen(w)
  PROVE  Horizon(w) \in Nat /\ \A o \in Outgoing(w) : o.expires <= w.tick + Horizon(w)
<1> DEFINE S == Outgoing(w)
           A == {o.expires - w.tick : o \in S}
           f == [o \in S |-> o.expires - w.tick]
<1>1. IsFiniteSet(S)
  BY AvailableIs DEF Giving
<1>2. f \in Surjection(S, A)
  BY DEF Surjection
<1>3. IsFiniteSet(A)
  BY <1>1, <1>2, FS_Surjection
<1>4. \A o \in S : o.expires \in Nat /\ o.expires > w.tick /\ w.tick \in Nat
  BY RulesAssumption DEF Outgoing, Expired, Seen, Offers, Ticks
<1>5. A \subseteq Nat
  BY <1>4
<1> HIDE DEF A
<1>6. IsFiniteSet(A \cup {0}) /\ A \cup {0} = {0} \cup A
  BY <1>3, FS_AddElement
<1> DEFINE B == {0} \cup A
<1>7. B \in SUBSET Nat /\ IsFiniteSet(B) /\ B # {}
  BY <1>5, <1>6
<1>8. Horizon(w) = Max(B)
  BY DEF Horizon, A
<1>9. \A o \in S : o.expires - w.tick \in B
  BY DEF A
<1> HIDE DEF B, S
<1>10. Horizon(w) \in Nat /\ \A x \in B : x <= Horizon(w)
  BY <1>7, <1>8, MaxIs
<1> QED BY <1>4, <1>9, <1>10 DEF S

(* How long a proposal of the simplified policy and the offers that are    *)
(* open next to it may last.                                               *)
Covering(w) == RESERVE_TICKS + AtLeast(Horizon(w), RefillTtl(w))

LEMMA SimplifiedTypes ==
  ASSUME NEW w, Seen(w)
  PROVE  /\ RefillTtl(w) \in Nat /\ (Simplified => RefillTtl(w) <= LongestLife)
         /\ w.tick + RefillTtl(w) <= Duration
         /\ Covering(w) \in Nat /\ Covering(w) >= RefillTtl(w) /\ Covering(w) >= Horizon(w)
         /\ Disposable(w) = LessUpTo(Available(w), Buffer(w, Covering(w)))
         /\ Disposable(w) \in Bundles /\ Spare(w) \in Bundles /\ Target(w) \in Bundles
         /\ Short(w) \subseteq Resource
<1>1. /\ RefillTtl(w) \in Nat /\ (Simplified => RefillTtl(w) <= LongestLife)
      /\ w.tick + RefillTtl(w) <= Duration
  BY RulesAssumption, SimplifiedAssumption
     DEF RefillTtl, LongestLife, AtLeast, AtMost, Remaining, Seen, Ticks
<1>2. Covering(w) \in Nat /\ Covering(w) >= RefillTtl(w) /\ Covering(w) >= Horizon(w)
  BY <1>1, HorizonIs, RulesAssumption DEF Covering, AtLeast
<1>3. Disposable(w) = LessUpTo(Available(w), Buffer(w, Covering(w)))
  BY DEF Disposable, Covering
<1>4. Target(w) \in Bundles
  BY BufferIs, RulesAssumption DEF Target
<1>5. Disposable(w) \in Bundles /\ Spare(w) \in Bundles
  BY <1>2, <1>3, <1>4, AvailableIs, BufferIs, LessUpToIs DEF Spare
<1> QED BY <1>1, <1>2, <1>3, <1>4, <1>5 DEF Short

(* The amount of a refill is disposable.                                   *)
LEMMA RefillAmountIs ==
  ASSUME NEW w, Seen(w), NEW need \in Resource, NEW pay \in Resource,
         RefillAmount(need, pay, w) > 0
  PROVE  /\ RefillAmount(need, pay, w) \in Nat \ {0}
         /\ RefillAmount(need, pay, w) <= Disposable(w)[pay]
<1> DEFINE capacity == IF need = Specialty THEN AtMost(Disposable(w)[pay], Spare(w)[pay])
                                           ELSE Disposable(w)[pay]
<1>1. capacity \in Nat /\ capacity <= Disposable(w)[pay] /\ Disposable(w)[pay] \in Nat
  BY SimplifiedTypes DEF AtMost, Bundles
<1>2. Target(w)[need] - Available(w)[need] \in Int
  BY SimplifiedTypes, AvailableIs DEF Bundles
<1>3. RefillAmount(need, pay, w) = AtMost(Target(w)[need] - Available(w)[need], capacity)
  BY DEF RefillAmount
<1> HIDE DEF capacity
<1> QED BY <1>1, <1>2, <1>3 DEF AtMost

(* A refill or a share is a proposal that spares the reserve until the     *)
(* last open offer expires, and buys nothing that is on order.             *)
LEMMA SimplifiedProposal ==
  ASSUME NEW w, Seen(w), NEW m, NEW d \in Refills(w, m) \cup Shares(w, m), MayOffer(w),
         Simplified
  PROVE  /\ Proposal(d, w) /\ Spares(d, w, Covering(w)) /\ d.expires <= w.tick + Covering(w)
         /\ \A r \in Resource : Buys(d, r) => r \notin Ordered(w)
<1> DEFINE e == w.tick + RefillTtl(w)
<1>1. PICK pay \in Resource, n \in Nat \ {0}, p \in Partners, receive \in Bundles :
        /\ d = Propose(p, Only(pay, n), receive, e) /\ p \in Advertised(w)
        /\ n <= Disposable(w)[pay]
        /\ \/ pay = Specialty /\ receive = Zero
           \/ \E need \in Short(w) \ Ordered(w) :
                need # pay /\ Specialty \in {need, pay} /\ receive = Only(need, n)
  <2>1. CASE d \in Refills(w, m)
    <3>1. PICK need \in Short(w) \ Ordered(w), pay \in Resource, p \in Advertised(w) :
           /\ IF need = Specialty THEN pay # Specialty ELSE pay = Specialty
           /\ RefillAmount(need, pay, w) > 0
           /\ d = Propose(p, Only(pay, RefillAmount(need, pay, w)),
                          Only(need, RefillAmount(need, pay, w)), e)
      BY <2>1, RefillForm
    <3> DEFINE n == RefillAmount(need, pay, w)
    <3>2. need \in Resource /\ p \in Partners
      BY SimplifiedTypes DEF Advertised
    <3>3. n \in Nat \ {0} /\ n <= Disposable(w)[pay]
      BY <3>1, <3>2, RefillAmountIs
    <3>4. d = Propose(p, Only(pay, n), Only(need, n), e)
      BY <3>1
    <3> HIDE DEF n, e
    <3>5. Only(need, n) \in Bundles
      BY <3>2, <3>3, OnlyIs
    <3> QED BY <3>1, <3>2, <3>3, <3>4, <3>5
  <2>2. CASE d \in Shares(w, m)
    <3> DEFINE n == AtMost(2, AtMost(Disposable(w)[Specialty], Spare(w)[Specialty]))
    <3>1. n > 0
      BY <2>2, ShareForm
    <3>2. PICK p \in Advertised(w) : d = Propose(p, Only(Specialty, n), Zero, e)
      BY <2>2, ShareForm
    <3>3. n \in Nat \ {0} /\ n <= Disposable(w)[Specialty] /\ Specialty \in Resource
      BY <3>1, SimplifiedTypes, RulesAssumption DEF AtMost, Bundles
    <3>4. p \in Partners /\ Zero \in Bundles
      BY OnlyIs, <3>3 DEF Advertised
    <3> HIDE DEF n, e
    <3> QED BY <3>2, <3>3, <3>4
  <2> QED BY <2>1, <2>2
<1>2. e \in Nat /\ e <= w.tick + LongestLife /\ e <= Duration /\ e <= w.tick + Covering(w)
  BY SimplifiedTypes, LifeIs, RulesAssumption DEF Seen, Ticks
<1> HIDE DEF e
<1>3. /\ d \in [kind : {"offer"}, to : Partners, give : Bundles, receive : Bundles, expires : Nat]
      /\ d.to = p /\ d.give = Only(pay, n) /\ d.receive = receive /\ d.expires = e
  BY <1>1, <1>2, OnlyIs DEF Propose
<1>4. EvenTerms(d)
  BY <1>1, <1>3, SimplifiedTypes DEF EvenTerms
<1>5. n + Buffer(w, Covering(w))[pay] <= w.stock[pay] - Committed(w)[pay]
  BY <1>1, SimplifiedTypes, SpareIs
<1>6. Spares(d, w, Covering(w))
  BY <1>3, <1>5, OnlyIs DEF Spares
<1>7. \A r \in Resource : Buys(d, r) => r \notin Ordered(w)
  BY <1>1, <1>3, OnlyIs, SimplifiedTypes DEF Buys
<1> QED BY <1>1, <1>2, <1>3, <1>4, <1>6, <1>7 DEF Proposal, MayOffer

-----------------------------------------------------------------------------
(* Acceptances, and how far a decision is backed.                          *)

(* The terms of every trade a policy accepts: no fewer units than it costs,*)
(* paid in specialty alone or, for specialty, in anything else.            *)
Agreeable(o) ==
  /\ Units(o.give) >= Units(o.receive)
  /\ \/ \A r \in Resource \ {Specialty} : o.receive[r] = 0
     \/ o.receive[Specialty] = 0 /\ o.give[Specialty] > 0

(* A gift to us costs nothing.                                             *)
LEMMA GiftIsAgreeable ==
  ASSUME NEW o \in Offers, IsGift(o)
  PROVE  Agreeable(o) /\ \A r \in Resource : o.receive[r] <= o.give[r]
BY DEF IsGift, IsZero, Zero, Agreeable, Units, Offers, Bundles, Resource

(* A trade that leaves what is available above a floor spares the floor.   *)
LEMMA SafeSpares ==
  ASSUME NEW w, Seen(w), NEW o \in Offers, NEW t \in Nat, NEW floor \in Bundles,
         \A r \in Resource : Buffer(w, t)[r] <= floor[r],
         Covers(Available(w), o.receive),
         \A r \in Resource :
           Plus(Minus(Available(w), o.receive), o.give)[r] >= AtMost(Available(w)[r], floor[r])
  PROVE  SparesOnAccept(o, w, t)
<1> SUFFICES ASSUME NEW r \in Resource, o.receive[r] > o.give[r]
             PROVE  o.receive[r] - o.give[r] + Buffer(w, t)[r] <= w.stock[r] - Committed(w)[r]
  BY DEF SparesOnAccept
<1>1. o.receive[r] \in Nat /\ o.give[r] \in Nat /\ floor[r] \in Nat /\ Buffer(w, t)[r] \in Nat
  BY BufferIs DEF Offers, Bundles
<1>2. Available(w)[r] \in Nat /\ Available(w)[r] >= o.receive[r]
  BY AvailableIs DEF Covers, Bundles
<1>3. Available(w)[r] = w.stock[r] - Committed(w)[r]
  BY <1>1, <1>2, AvailableIs
<1>4. Available(w)[r] - o.receive[r] + o.give[r] >= AtMost(Available(w)[r], floor[r])
  BY DEF Plus, Minus
<1>5. Available(w)[r] - o.receive[r] + o.give[r] >= floor[r]
  BY <1>1, <1>2, <1>4 DEF AtMost
<1>6. floor[r] >= Buffer(w, t)[r]
  OBVIOUS
<1> QED BY <1>1, <1>2, <1>3, <1>5, <1>6

(* What the default and restrained policies accept is agreeable and spares *)
(* the emergency reserve ...                                               *)
LEMMA AcceptableIs ==
  ASSUME NEW w, Seen(w), NEW l \in 1..MaxLatency, NEW m, NEW o \in Offers,
         Acceptable(o, w, m, l)
  PROVE  Agreeable(o) /\ SparesOnAccept(o, w, 3)
<1>1. Agreeable(o)
  <2>1. CASE IsGift(o)
    BY <2>1, GiftIsAgreeable
  <2>2. CASE ~IsGift(o)
    BY <2>2 DEF Acceptable, PaysOnlySpecialty, Favorable, Agreeable
  <2> QED BY <2>1, <2>2
<1> DEFINE floor == IF Rescues(o, w, l) THEN EmergencyReserve(w) ELSE Reserve(w, l)
<1>2. floor \in Bundles /\ \A r \in Resource : Buffer(w, 3)[r] <= floor[r]
  <2>1. Buffer(w, 3) \in Bundles /\ Buffer(w, ReserveTicks(l)) \in Bundles
    BY PolicyTypes, BufferIs
  <2>2. \A r \in Resource : Buffer(w, 3)[r] <= Buffer(w, ReserveTicks(l))[r]
    BY PolicyTypes, BufferGrows
  <2> QED BY <2>1, <2>2 DEF EmergencyReserve, Reserve, Bundles
<1>3. Covers(Available(w), o.receive)
  BY DEF Acceptable, Affordable
<1>4. \A r \in Resource :
        Plus(Minus(Available(w), o.receive), o.give)[r] >= AtMost(Available(w)[r], floor[r])
  BY DEF Acceptable, Safe
<1> HIDE DEF floor
<1> QED BY <1>1, <1>2, <1>3, <1>4, SafeSpares

(* ... and what the simplified policy accepts spares its reserve until the *)
(* last open offer expires.                                                *)
LEMMA WelcomeIs ==
  ASSUME NEW w, Seen(w), NEW o \in Offers, Welcome(o, w)
  PROVE  Agreeable(o) /\ SparesOnAccept(o, w, RESERVE_TICKS + Horizon(w))
<1>1. CASE IsGift(o)
  <2>1. Agreeable(o) /\ \A r \in Resource : o.receive[r] <= o.give[r]
    BY <1>1, GiftIsAgreeable
  <2>2. \A r \in Resource : o.receive[r] \in Nat /\ o.give[r] \in Nat
    BY DEF Offers, Bundles
  <2> QED BY <2>1, <2>2 DEF SparesOnAccept
<1>2. CASE ~IsGift(o)
  <2>1. Payable(o, w) /\ Units(o.give) >= Units(o.receive) /\ Covers(Available(w), o.receive)
    BY <1>2 DEF Welcome
  <2>2. Agreeable(o)
    BY <2>1 DEF Payable, Agreeable
  <2>3. RESERVE_TICKS + Horizon(w) \in Nat
    BY HorizonIs, RulesAssumption
  <2>4. Guard(w) = Buffer(w, RESERVE_TICKS + Horizon(w)) /\ Guard(w) \in Bundles
    BY <2>3, BufferIs DEF Guard
  <2>5. \A r \in Resource :
          Plus(Minus(Available(w), o.receive), o.give)[r] >= AtMost(Available(w)[r], Guard(w)[r])
    BY <2>1 DEF Payable
  <2>6. \A r \in Resource : Buffer(w, RESERVE_TICKS + Horizon(w))[r] <= Guard(w)[r]
    BY <2>4 DEF Bundles
  <2> QED BY <2>1, <2>2, <2>3, <2>4, <2>5, <2>6, SafeSpares
<1> QED BY <1>1, <1>2

(* Some open offer pays with r and is still firm k ticks ahead.            *)
Lasts(w, r, k) == \E o \in Outgoing(w) : o.give[r] > 0 /\ w.tick + k < o.expires - Overhang

(* All that is promised, n more and upkeep for k ticks can be paid.        *)
Backs(w, r, k, n) == Committed(w)[r] + n + k * Upkeep[r] <= w.stock[r]

BackedOffer(d, w) ==
  \A r \in Resource, k \in Nat :
    d.give[r] > 0 /\ (w.tick + k < d.expires - Overhang \/ Lasts(w, r, k))
      => Backs(w, r, k, d.give[r])

BackedAccept(o, w) ==
  \A r \in Resource, k \in Nat :
    o.receive[r] > o.give[r] /\ Lasts(w, r, k) => Backs(w, r, k, o.receive[r] - o.give[r])

(* A buffer of t ticks lasts, with the day it is left on, as long as any   *)
(* offer that expires at e is firm.                                        *)
Reaches(w, t, e) == e <= Duration /\ e - Overhang <= w.tick + t + 1

(* Upkeep up to the last firm tick of an offer is within a buffer that     *)
(* reaches it.                                                             *)
LEMMA BufferLasts ==
  ASSUME NEW w, Seen(w), NEW t \in Nat, NEW e \in Nat, Reaches(w, t, e),
         NEW r \in Resource, NEW k \in Nat, w.tick + k < e - Overhang
  PROVE  k * Upkeep[r] <= Buffer(w, t)[r] /\ k * Upkeep[r] \in Nat /\ Buffer(w, t)[r] \in Nat
<1>1. w.tick \in Nat /\ k \in 0..t /\ k <= Remaining(w)
  BY LifeIs, RulesAssumption DEF Reaches, Seen, Ticks, Remaining, AtLeast
<1>2. Upkeep[r] \in Nat
  BY RulesAssumption DEF Bundles
<1> QED BY <1>1, <1>2, BufferIs, Products DEF Bundles

(* A decision that spares upkeep while the offers are firm is backed until *)
(* then.                                                                   *)
LEMMA SparesBacks ==
  ASSUME NEW w, Seen(w), NEW t \in Nat, \A o \in Outgoing(w) : Reaches(w, t, o.expires)
  PROVE  /\ \A d : Proposal(d, w) /\ Spares(d, w, t) /\ Reaches(w, t, d.expires) => BackedOffer(d, w)
         /\ \A o \in Offers : SparesOnAccept(o, w, t) => BackedAccept(o, w)
<1>1. \A r \in Resource : w.stock[r] \in Nat /\ Committed(w)[r] \in Nat
  BY AvailableIs DEF Seen, Bundles
<1>2. ASSUME NEW r \in Resource, NEW k \in Nat, NEW d, Proposal(d, w), Spares(d, w, t),
             Reaches(w, t, d.expires), d.give[r] > 0,
             w.tick + k < d.expires - Overhang \/ Lasts(w, r, k)
      PROVE  Backs(w, r, k, d.give[r])
  <2>1. d.give[r] \in Nat /\ d.expires \in Nat
    BY <1>2 DEF Proposal, Bundles
  <2>2. \A o \in Outgoing(w) : o.expires \in Nat
    BY DEF Outgoing, Seen, Offers
  <2>3. k * Upkeep[r] <= Buffer(w, t)[r] /\ k * Upkeep[r] \in Nat /\ Buffer(w, t)[r] \in Nat
    BY <1>2, <2>1, <2>2, BufferLasts DEF Lasts
  <2>4. d.give[r] + Buffer(w, t)[r] <= w.stock[r] - Committed(w)[r]
    BY <1>2 DEF Spares
  <2> QED BY <1>1, <2>1, <2>3, <2>4 DEF Backs
<1>3. ASSUME NEW r \in Resource, NEW k \in Nat, NEW o \in Offers, SparesOnAccept(o, w, t),
             o.receive[r] > o.give[r], Lasts(w, r, k)
      PROVE  Backs(w, r, k, o.receive[r] - o.give[r])
  <2>1. o.give[r] \in Nat /\ o.receive[r] \in Nat
    BY DEF Offers, Bundles
  <2>2. \A q \in Outgoing(w) : q.expires \in Nat
    BY DEF Outgoing, Seen, Offers
  <2>3. k * Upkeep[r] <= Buffer(w, t)[r] /\ k * Upkeep[r] \in Nat /\ Buffer(w, t)[r] \in Nat
    BY <1>3, <2>2, BufferLasts DEF Lasts
  <2>4. o.receive[r] - o.give[r] + Buffer(w, t)[r] <= w.stock[r] - Committed(w)[r]
    BY <1>3 DEF SparesOnAccept
  <2> QED BY <1>1, <2>1, <2>3, <2>4 DEF Backs
<1> QED BY <1>2, <1>3 DEF BackedOffer, BackedAccept

(* Advertisements are well typed.                                          *)
LEMMA AdvertisementType ==
  ASSUME NEW w, Seen(w), NEW l \in 1..MaxLatency, NEW m,
         NEW d \in Advertisements(w, m, l) \cup Notices(w, m)
  PROVE  d \in [kind : {"advertise"}, ad : Ads]
<1> DEFINE ttl == AtMost(AtMost(10, MaxPublicationTtl), Remaining(w))
<1>1. PICK s \in SUBSET Resource, k \in SUBSET Resource : d = Advertise(s, k, w.tick + ttl)
  <2>1. CASE d \in Advertisements(w, m, l)
    <3>1. PICK s \in {{}, {Specialty}} : d = Advertise(s, Seeking(w, l), w.tick + ttl)
      BY <2>1 DEF Advertisements, Fresh
    <3> QED BY <3>1, PolicyTypes, RulesAssumption
  <2>2. CASE d \in Notices(w, m)
    <3>1. PICK s \in {{}, {Specialty}} : d = Advertise(s, Short(w), w.tick + ttl)
      BY <2>2 DEF Notices, Fresh
    <3> QED BY <3>1, SimplifiedTypes, RulesAssumption
  <2> QED BY <2>1, <2>2
<1>2. w.tick + ttl \in Nat
  BY RulesAssumption DEF AtMost, Remaining, AtLeast, Seen, Ticks
<1> HIDE DEF ttl
<1> QED BY <1>1, <1>2 DEF Advertise, Ads

(* No offer of ours is firm for longer than the policy's floors reach.     *)
FloorsReach(w) ==
  \A o \in Outgoing(w) :
    o.expires <= Duration /\ (Simplified \/ Reaches(w, 3, o.expires))

(* What a decision is and what it may rely on.                             *)
LEMMA ChosenIs ==
  ASSUME Seen(view), NEW l \in 1..MaxLatency, NEW d \in Chosen(l)
  PROVE  \/ \E o \in Outgoing(view) : d = Withdraw(o)
         \/ \E o \in Incoming(view) :
              /\ d = Accept(o) /\ Agreeable(o)
              /\ FloorsReach(view) => BackedAccept(o, view)
         \/ d \in [kind : {"advertise"}, ad : Ads]
         \/ /\ Proposal(d, view)
            /\ Simplified => \A r \in Resource : Buys(d, r) => r \notin Ordered(view)
            /\ FloorsReach(view) => BackedOffer(d, view)
<1> DEFINE m == AtTick(memory, view)
           w == view
<1>0. \A o \in Incoming(w) : o \in Offers
  BY DEF Incoming, Seen
<1>1. ASSUME ~Simplified, NEW o \in Incoming(w), Acceptable(o, w, m, l)
      PROVE  Agreeable(o) /\ (FloorsReach(w) => BackedAccept(o, w))
  <2>1. Agreeable(o) /\ SparesOnAccept(o, w, 3)
    BY <1>0, <1>1, AcceptableIs
  <2>2. FloorsReach(w) => BackedAccept(o, w)
    BY <1>0, <1>1, <2>1, SparesBacks DEF FloorsReach
  <2> QED BY <2>1, <2>2
<1>2. ASSUME NEW o \in Incoming(w), Welcome(o, w)
      PROVE  Agreeable(o) /\ (FloorsReach(w) => BackedAccept(o, w))
  <2> DEFINE t == RESERVE_TICKS + Horizon(w)
  <2>1. Agreeable(o) /\ SparesOnAccept(o, w, t)
    BY <1>0, <1>2, WelcomeIs
  <2>2. t \in Nat /\ \A q \in Outgoing(w) : FloorsReach(w) => Reaches(w, t, q.expires)
    BY HorizonIs, LifeIs, RulesAssumption DEF FloorsReach, Reaches, Outgoing, Seen, Offers, Ticks
  <2> HIDE DEF t
  <2>3. FloorsReach(w) => BackedAccept(o, w)
    BY <1>0, <2>1, <2>2, SparesBacks
  <2> QED BY <2>1, <2>3
<1>3. ASSUME ~Simplified, Cardinality(Outgoing(w)) < MaxOpenOffers,
             d \in Purchases(w, m, l) \cup Gifts(w, m, l)
      PROVE  /\ Proposal(d, w)
             /\ FloorsReach(w) => BackedOffer(d, w)
  <2>1. Proposal(d, w) /\ Spares(d, w, 3)
    BY <1>3, PurchaseIsProposal, GiftIsProposal
  <2>2. Reaches(w, 3, d.expires)
    BY <1>3, <2>1, LifeIs, RulesAssumption DEF Proposal, Reaches, Seen, Ticks
  <2>3. FloorsReach(w) => BackedOffer(d, w)
    BY <1>3, <2>1, <2>2, SparesBacks DEF FloorsReach
  <2> QED BY <2>1, <2>3
<1>4. ASSUME Simplified, MayOffer(w), d \in Refills(w, m) \cup Shares(w, m)
      PROVE  /\ Proposal(d, w) /\ \A r \in Resource : Buys(d, r) => r \notin Ordered(w)
             /\ FloorsReach(w) => BackedOffer(d, w)
  <2>1. /\ Proposal(d, w) /\ Spares(d, w, Covering(w)) /\ d.expires <= w.tick + Covering(w)
        /\ \A r \in Resource : Buys(d, r) => r \notin Ordered(w)
    BY <1>4, SimplifiedProposal
  <2>2. /\ Covering(w) \in Nat /\ Reaches(w, Covering(w), d.expires)
        /\ \A q \in Outgoing(w) : FloorsReach(w) => Reaches(w, Covering(w), q.expires)
    <3>1. /\ w.tick \in Nat /\ d.expires \in Nat /\ d.expires <= Duration
          /\ \A q \in Outgoing(w) : q.expires \in Nat
      BY <2>1 DEF Proposal, Outgoing, Seen, Offers, Ticks
    <3> QED BY <2>1, <3>1, SimplifiedTypes, HorizonIs, LifeIs DEF FloorsReach, Reaches
  <2>3. FloorsReach(w) => BackedOffer(d, w)
    BY <2>1, <2>2, SparesBacks
  <2> QED BY <2>1, <2>3
<1>5. CASE Simplified
  <2>1. \/ \E o \in Outgoing(w) : d = Withdraw(o)
        \/ \E o \in Incoming(w) : d = Accept(o) /\ Welcome(o, w)
        \/ d \in Notices(w, m)
        \/ MayOffer(w) /\ d \in Refills(w, m) \cup Shares(w, m)
    BY <1>5, SimplifiedForms DEF Chosen
  <2>2. d \in Notices(w, m) => d \in [kind : {"advertise"}, ad : Ads]
    BY AdvertisementType
  <2> HIDE DEF m, w
  <2>3. QED BY <1>2, <1>4, <1>5, <2>1, <2>2 DEF w
<1>6. CASE ~Simplified
  <2>1. \/ \E o \in Outgoing(w) : d = Withdraw(o)
        \/ \E o \in Incoming(w) : d = Accept(o) /\ Acceptable(o, w, m, l)
        \/ d \in Advertisements(w, m, l)
        \/ Cardinality(Outgoing(w)) < MaxOpenOffers /\ d \in Purchases(w, m, l) \cup Gifts(w, m, l)
    BY <1>6, DecisionForms DEF Chosen
  <2>2. d \in Advertisements(w, m, l) => d \in [kind : {"advertise"}, ad : Ads]
    BY AdvertisementType
  <2> HIDE DEF m, w
  <2>3. QED BY <1>1, <1>3, <1>6, <2>1, <2>2 DEF w
<1> QED BY <1>5, <1>6
-----------------------------------------------------------------------------
(* What a restrained policy decides while a gift is open, or to open one.  *)

(* What may be spent of the reserve while a gift lasts is no more than the *)
(* ticks of its life; nothing is urgent above what is left.                *)
GiftFloor == RESERVE_TICKS - LongestLife

ReserveOutlastsGifts ==
  /\ ~Simplified /\ GiftsKeepReserve
  /\ GiftFloor >= 2 /\ GiftFloor >= 2 * MaxLatency

(* Upkeep k ticks ahead is to be kept for the sake of gift x, or of an open*)
(* gift; only what upkeep consumes is.                                     *)
Spans(x, w, k) ==
  IsGift(x) /\ w.tick + k <= Duration /\ w.tick + k <= GiftFloor + x.expires

Carries(w, k) == \E o \in Outgoing(w) : Spans(o, w, k)

Needed == {r \in Resource : Upkeep[r] > 0}
Ahead  == Nat \ {0}

CarriedStock(w) == \A r \in Needed, k \in Ahead : Carries(w, k) => Backs(w, r, k, 0)

CarriedOffer(d, w) ==
  \A r \in Needed, k \in Ahead :
    Carries(w, k) \/ Spans(d, w, k) => Backs(w, r, k, d.give[r])

CarriedAccept(o, w) ==
  \A r \in Needed, k \in Ahead :
    o.receive[r] > o.give[r] /\ Carries(w, k) => Backs(w, r, k, o.receive[r] - o.give[r])

GiftsInTime(w) == \A o \in Outgoing(w) : o.expires <= w.tick + LongestLife

(* The reserve reaches as far as any open gift does.                       *)
LEMMA ReserveReaches ==
  ASSUME NEW w, Seen(w), ReserveOutlastsGifts, GiftsInTime(w),
         NEW t \in Nat, t >= RESERVE_TICKS, NEW k \in Ahead, Carries(w, k), NEW r \in Resource
  PROVE  k * Upkeep[r] <= Buffer(w, t)[r]
<1>1. PICK o \in Outgoing(w) : Spans(o, w, k)
  BY DEF Carries
<1>2. o.expires \in Nat /\ o.expires <= w.tick + LongestLife /\ w.tick \in Nat /\ k \in Nat
  BY DEF GiftsInTime, Outgoing, Seen, Offers, Ticks, Ahead
<1>3. w.tick + k <= Duration /\ w.tick + k <= RESERVE_TICKS - LongestLife + o.expires
  BY <1>1 DEF Spans, GiftFloor
<1>4. k \in 0..t
  BY <1>2, <1>3, LifeIs, RulesAssumption
<1>5. k <= Remaining(w)
  BY <1>2, <1>3, RulesAssumption DEF Remaining, AtLeast
<1> QED BY <1>4, <1>5, BufferIs

(* While a gift is open and carried, nothing is critical.                  *)
LEMMA NothingCritical ==
  ASSUME NEW w, Seen(w), ReserveOutlastsGifts, CarriedStock(w), NEW l \in 1..MaxLatency,
         NEW o \in Outgoing(w), IsGift(o)
  PROVE  Critical(w, l) = {}
<1> SUFFICES ASSUME NEW r \in Resource PROVE Available(w)[r] >= Buffer(w, UrgencyTicks(l))[r]
  <2>1. \A r \in Resource : /\ Available(w)[r] \in Nat /\ Buffer(w, UrgencyTicks(l))[r] \in Nat
    BY AvailableIs, BufferIs, PolicyTypes DEF Bundles
  <2> QED BY <2>1 DEF Critical
<1> DEFINE k == AtMost(UrgencyTicks(l), Remaining(w))
           u == Upkeep[r]
<1>1. /\ w.tick \in Nat /\ o.expires \in Nat /\ w.tick < o.expires /\ w.tick <= Duration
      /\ Duration \in Nat
  BY RulesAssumption DEF Outgoing, Expired, Seen, Offers, Ticks
<1>2. UrgencyTicks(l) \in Nat /\ UrgencyTicks(l) <= GiftFloor + 1 /\ GiftFloor \in Int
  BY TradingAssumption, RulesAssumption, LifeIs
     DEF UrgencyTicks, AtLeast, ReserveOutlastsGifts, GiftFloor
<1>3. k \in Nat /\ w.tick + k <= Duration /\ w.tick + k <= GiftFloor + o.expires
  BY <1>1, <1>2 DEF Remaining, AtLeast, AtMost
<1>4. Buffer(w, UrgencyTicks(l))[r] = u * k
  BY DEF Buffer, Scaled
<1>5. u \in Nat /\ Available(w)[r] \in Nat
  BY AvailableIs, RulesAssumption DEF Bundles
<1> HIDE DEF k, u
<1>6. CASE k = 0 \/ u = 0
  <2>1. u * k = 0
    BY <1>3, <1>5, <1>6
  <2> QED BY <1>4, <1>5, <2>1
<1>7. CASE k # 0 /\ u # 0
  <2>1. r \in Needed /\ k \in Ahead
    BY <1>3, <1>5, <1>7 DEF Needed, Ahead, u
  <2>2. Spans(o, w, k)
    BY <1>3 DEF Spans
  <2>3. Backs(w, r, k, 0)
    BY <2>1, <2>2 DEF CarriedStock, Carries
  <2>4. Available(w)[r] >= w.stock[r] - Committed(w)[r]
    BY AvailableIs, LessUpToIs DEF Available, Seen
  <2>5. w.stock[r] \in Nat /\ Committed(w)[r] \in Nat /\ k * u \in Nat /\ u * k = k * u
    BY AvailableIs, <1>3, <1>5, Products DEF Seen, Bundles
  <2> QED BY <1>4, <1>5, <2>3, <2>4, <2>5 DEF Backs, u
<1> QED BY <1>6, <1>7

(* A purchase while a gift is open spares the whole reserve ...            *)
LEMMA PurchaseCarried ==
  ASSUME NEW w, Seen(w), ReserveOutlastsGifts, CarriedStock(w), GiftsInTime(w),
         NEW l \in 1..MaxLatency, NEW m, NEW d \in Purchases(w, m, l)
  PROVE  CarriedOffer(d, w)
<1>1. PICK need \in Seeking(w, l), pay \in Resource, p \in Advertised(w) :
        /\ Amount(need, pay, w, l) > 0
        /\ d = Propose(p, Only(pay, Amount(need, pay, w, l)), Only(need, Amount(need, pay, w, l)),
                       w.tick + OfferTtl(w, l))
  BY PurchaseForm
<1> DEFINE n == Amount(need, pay, w, l)
<1>2. need \in Resource
  BY PolicyTypes
<1>3. /\ n \in Nat \ {0}
      /\ need \notin Critical(w, l) =>
           n + Buffer(w, ReserveTicks(l))[pay] <= w.stock[pay] - Committed(w)[pay]
  BY <1>1, <1>2, AmountIs
<1>4. d.give = Only(pay, n) /\ d.receive = Only(need, n)
  BY <1>1 DEF Propose
<1> HIDE DEF n
<1>5. ~IsGift(d)
  BY <1>2, <1>3, <1>4, OnlyIs DEF IsGift, IsZero
<1> SUFFICES ASSUME NEW r \in Needed, NEW k \in Ahead, Carries(w, k)
             PROVE  Backs(w, r, k, d.give[r])
  BY <1>5 DEF CarriedOffer, Spans
<1>6. need \notin Critical(w, l)
  BY NothingCritical DEF Carries, Spans
<1>7. CASE r = pay
  <2>1. k * Upkeep[r] <= Buffer(w, ReserveTicks(l))[r] /\ Buffer(w, ReserveTicks(l))[r] \in Nat
    BY ReserveReaches, PolicyTypes, BufferIs DEF Needed, Bundles
  <2>2. k * Upkeep[r] \in Nat
    BY Products, RulesAssumption DEF Needed, Ahead, Bundles
  <2>3. w.stock[r] \in Nat /\ Committed(w)[r] \in Nat
    BY AvailableIs DEF Seen, Bundles, Needed
  <2>4. d.give[r] = n
    BY <1>3, <1>4, <1>7, OnlyIs
  <2> QED BY <1>3, <1>6, <1>7, <2>1, <2>2, <2>3, <2>4 DEF Backs
<1>8. CASE r # pay
  <2>1. d.give[r] = 0
    BY <1>3, <1>4, <1>8, OnlyIs DEF Needed
  <2> QED BY <2>1 DEF CarriedStock
<1> QED BY <1>7, <1>8

(* ... a gift spares it and the ticks of its own life ...                  *)
LEMMA GiftCarried ==
  ASSUME NEW w, Seen(w), ReserveOutlastsGifts, GiftsInTime(w),
         NEW l \in 1..MaxLatency, NEW m, NEW d \in Gifts(w, m, l)
  PROVE  CarriedOffer(d, w)
<1> DEFINE t == ReserveTicks(l) + OfferTtl(w, l)
           n == AtMost(2, Spendable(w, l)[Specialty])
<1>1. /\ MayGift(w, l) /\ n > 0
      /\ \E p \in Advertised(w) :
           d = Propose(p, Only(Specialty, n), Zero, w.tick + OfferTtl(w, l))
  BY GiftForm
<1>2. /\ t \in Nat /\ t >= RESERVE_TICKS /\ OfferTtl(w, l) \in Nat
      /\ ReserveTicks(l) \in Nat /\ ReserveTicks(l) >= RESERVE_TICKS
  BY PolicyTypes, RulesAssumption
<1>3. Covers(Available(w), Buffer(w, t))
  BY <1>1 DEF MayGift, ReserveOutlastsGifts
<1>4. Spendable(w, l) = LessUpTo(Available(w), Buffer(w, t))
  BY DEF Spendable
<1>5. Available(w) \in Bundles /\ Buffer(w, t) \in Bundles
  BY <1>2, AvailableIs, BufferIs
<1>6. d.give = Only(Specialty, n) /\ d.expires = w.tick + OfferTtl(w, l)
  BY <1>1 DEF Propose
<1>7. Spendable(w, l)[Specialty] \in Nat
  BY <1>4, <1>5, LessUpToIs, RulesAssumption DEF Bundles
<1>8. n \in Nat \ {0} /\ n <= LessUpTo(Available(w), Buffer(w, t))[Specialty]
  BY <1>1, <1>4, <1>7 DEF AtMost
<1> SUFFICES ASSUME NEW r \in Needed, NEW k \in Ahead, Carries(w, k) \/ Spans(d, w, k)
             PROVE  Backs(w, r, k, d.give[r])
  BY DEF CarriedOffer
<1>9. k * Upkeep[r] <= Buffer(w, t)[r]
  <2>1. CASE Carries(w, k)
    BY <1>2, <2>1, ReserveReaches DEF Needed
  <2>2. CASE Spans(d, w, k)
    <3>1. w.tick \in Nat /\ k \in Nat /\ w.tick + k <= Duration
          /\ w.tick + k <= RESERVE_TICKS - LongestLife + (w.tick + OfferTtl(w, l))
      BY <1>6, <2>2 DEF Spans, GiftFloor, Seen, Ticks, Ahead
    <3> HIDE DEF t
    <3>2. k \in 0..t /\ k <= Remaining(w)
      BY <1>2, <3>1, LifeIs, RulesAssumption DEF Remaining, AtLeast, t
    <3> QED BY <1>2, <3>2, BufferIs DEF Needed
  <2> QED BY <2>1, <2>2
<1>10. k * Upkeep[r] \in Nat /\ k * Upkeep[r] > 0 /\ r \in Resource
  <2>1. k \in Nat /\ Upkeep[r] \in Nat /\ 1 <= k /\ Upkeep[r] >= 1
    BY RulesAssumption DEF Needed, Ahead, Bundles
  <2>2. k * Upkeep[r] \in Nat /\ 1 * Upkeep[r] <= k * Upkeep[r]
    BY <2>1, Products
  <2> QED BY <2>1, <2>2 DEF Needed
<1>11. w.stock[r] \in Nat /\ Committed(w)[r] \in Nat /\ Buffer(w, t)[r] \in Nat
  BY <1>5, <1>10, AvailableIs DEF Seen, Bundles
<1> HIDE DEF t, n
<1>12. CASE r = Specialty
  <2>1. n + Buffer(w, t)[r] <= w.stock[r] - Committed(w)[r]
    BY <1>2, <1>8, <1>10, <1>12, SpareIs
  <2>2. d.give[r] = n
    BY <1>6, <1>8, <1>10, <1>12, OnlyIs
  <2> QED BY <1>8, <1>9, <1>10, <1>11, <2>1, <2>2 DEF Backs
<1>13. CASE r # Specialty
  <2>1. d.give[r] = 0
    BY <1>6, <1>8, <1>10, <1>13, OnlyIs, RulesAssumption
  <2>2. Available(w)[r] \in Nat /\ Available(w)[r] >= Buffer(w, t)[r]
    BY <1>3, <1>5, <1>10 DEF Covers, Bundles
  <2>3. Available(w)[r] = w.stock[r] - Committed(w)[r]
    BY <1>9, <1>10, <1>11, <2>2, AvailableIs
  <2> QED BY <1>9, <1>10, <1>11, <2>1, <2>2, <2>3 DEF Backs
<1> QED BY <1>12, <1>13

(* ... and a trade accepted while a gift is open rescues nothing, so it is *)
(* held to the reserve.                                                    *)
LEMMA AcceptCarried ==
  ASSUME NEW w, Seen(w), ReserveOutlastsGifts, CarriedStock(w), GiftsInTime(w),
         NEW l \in 1..MaxLatency, NEW m, NEW o \in Offers, Acceptable(o, w, m, l)
  PROVE  CarriedAccept(o, w)
<1> SUFFICES ASSUME NEW r \in Needed, NEW k \in Ahead, o.receive[r] > o.give[r], Carries(w, k)
             PROVE  Backs(w, r, k, o.receive[r] - o.give[r])
  BY DEF CarriedAccept
<1>1. ~Rescues(o, w, l)
  BY NothingCritical DEF Rescues, Carries, Spans
<1>2. /\ Covers(Available(w), o.receive)
      /\ \A q \in Resource : Plus(Minus(Available(w), o.receive), o.give)[q]
                               >= AtMost(Available(w)[q], Reserve(w, l)[q])
  BY <1>1 DEF Acceptable, Affordable, Safe
<1>3. /\ ReserveTicks(l) \in Nat /\ ReserveTicks(l) >= RESERVE_TICKS
      /\ Reserve(w, l) \in Bundles /\ Reserve(w, l) = Buffer(w, ReserveTicks(l))
  BY PolicyTypes, BufferIs DEF Reserve
<1>4. \A q \in Resource : Buffer(w, ReserveTicks(l))[q] <= Reserve(w, l)[q]
  BY <1>3 DEF Bundles
<1>5. SparesOnAccept(o, w, ReserveTicks(l))
  BY <1>2, <1>3, <1>4, SafeSpares
<1>6. k * Upkeep[r] <= Buffer(w, ReserveTicks(l))[r] /\ Buffer(w, ReserveTicks(l))[r] \in Nat
  BY <1>3, ReserveReaches DEF Needed, Bundles
<1>7. k * Upkeep[r] \in Nat /\ w.stock[r] \in Nat /\ Committed(w)[r] \in Nat
      /\ o.receive[r] \in Nat /\ o.give[r] \in Nat
  BY AvailableIs, Products, RulesAssumption DEF Needed, Ahead, Bundles, Seen, Offers
<1>8. o.receive[r] - o.give[r] + Buffer(w, ReserveTicks(l))[r] <= w.stock[r] - Committed(w)[r]
  BY <1>5 DEF SparesOnAccept, Needed
<1> QED BY <1>6, <1>7, <1>8 DEF Backs

(* What a restrained policy decides keeps what open gifts call for.        *)
LEMMA DecisionCarried ==
  ASSUME Seen(view), ReserveOutlastsGifts, CarriedStock(view), GiftsInTime(view),
         NEW l \in 1..MaxLatency, NEW d \in Chosen(l)
  PROVE  \/ \E o \in Outgoing(view) : d = Withdraw(o)
         \/ \E o \in Incoming(view) : d = Accept(o) /\ CarriedAccept(o, view)
         \/ d \in [kind : {"advertise"}, ad : Ads]
         \/ d.kind = "offer" /\ CarriedOffer(d, view)
<1> DEFINE m == AtTick(memory, view)
<1>1. \/ \E o \in Outgoing(view) : d = Withdraw(o)
      \/ \E o \in Incoming(view) : d = Accept(o) /\ Acceptable(o, view, m, l)
      \/ d \in Advertisements(view, m, l)
      \/ /\ Cardinality(Outgoing(view)) < MaxOpenOffers
         /\ d \in Purchases(view, m, l) \cup Gifts(view, m, l)
  BY DecisionForms DEF Chosen, ReserveOutlastsGifts
<1> HIDE DEF m
<1>2. \A o \in Incoming(view) : o \in Offers
  BY DEF Incoming, Seen
<1>3. \A o \in Incoming(view) : Acceptable(o, view, m, l) => CarriedAccept(o, view)
  BY <1>2, AcceptCarried
<1>4. d \in Advertisements(view, m, l) => d \in [kind : {"advertise"}, ad : Ads]
  BY AdvertisementType
<1>5. ASSUME Cardinality(Outgoing(view)) < MaxOpenOffers,
             d \in Purchases(view, m, l) \cup Gifts(view, m, l)
      PROVE  d.kind = "offer" /\ CarriedOffer(d, view)
  <2>1. Proposal(d, view)
    BY <1>5, PurchaseIsProposal, GiftIsProposal DEF ReserveOutlastsGifts
  <2>2. CarriedOffer(d, view)
    BY <1>5, PurchaseCarried, GiftCarried
  <2> QED BY <2>1, <2>2 DEF Proposal
<1> QED BY <1>1, <1>3, <1>4, <1>5

=============================================================================
