---------------------------- MODULE PromiseProofs ----------------------------
(***************************************************************************)
(* What the open offers promise together (Market!Promised): the sum of     *)
(* their payments, taken by a fold over the set of offers.  A fold over a  *)
(* finite set counts parcels, one for each unit that is given; everything  *)
(* else follows from the cardinalities of sets of parcels.                 *)
(***************************************************************************)
EXTENDS Market, FiniteSetTheorems, TLAPS

(* The units of r that the offers in S give, each under its offer's name.  *)
Parcels(S, r) == {p \in S \X Nat : p[2] \in 1..p[1].give[r]}

Giving(S) == IsFiniteSet(S) /\ \A o \in S : o.give \in Bundles

LEMMA ParcelsOfOne ==
  ASSUME NEW o, o.give \in Bundles, NEW r \in Resource
  PROVE  /\ IsFiniteSet(Parcels({o}, r))
         /\ Cardinality(Parcels({o}, r)) = o.give[r]
<1> DEFINE n == o.give[r]
<1>1. n \in Nat
  BY DEF Bundles
<1>2. Parcels({o}, r) = {o} \X (1..n)
  BY <1>1 DEF Parcels
<1> HIDE DEF n
<1>3. IsFiniteSet({o}) /\ Cardinality({o}) = 1
  BY FS_Singleton
<1>4. IsFiniteSet(1..n) /\ Cardinality(1..n) = n
  BY <1>1, FS_Interval
<1>5. /\ IsFiniteSet({o} \X (1..n))
      /\ Cardinality({o} \X (1..n)) = Cardinality({o}) * Cardinality(1..n)
  BY <1>3, <1>4, FS_Product
<1>6. 1 * n = n
  BY <1>1
<1> QED BY <1>2, <1>3, <1>4, <1>5, <1>6 DEF n

(* One offer more adds what it gives.                                      *)
LEMMA ParcelsOfMore ==
  ASSUME NEW S, NEW r \in Resource, IsFiniteSet(Parcels(S, r)),
         NEW o, o \notin S, o.give \in Bundles
  PROVE  /\ IsFiniteSet(Parcels(S \cup {o}, r))
         /\ Cardinality(Parcels(S \cup {o}, r)) = Cardinality(Parcels(S, r)) + o.give[r]
<1> DEFINE A == Parcels(S, r)
           B == Parcels({o}, r)
<1>1. IsFiniteSet(B) /\ Cardinality(B) = o.give[r]
  BY ParcelsOfOne
<1>2. Parcels(S \cup {o}, r) = A \cup B /\ A \cap B = {}
  BY DEF Parcels
<1> HIDE DEF A, B
<1>3. IsFiniteSet(A) BY DEF A
<1>4. /\ IsFiniteSet(A \cup B)
      /\ Cardinality(A \cup B) = Cardinality(A) + Cardinality(B) - Cardinality(A \cap B)
  BY <1>1, <1>3, FS_Union
<1>5. Cardinality({}) = 0 /\ Cardinality(A) \in Nat /\ Cardinality(B) \in Nat
  BY <1>1, <1>3, FS_EmptySet, FS_CardinalityType
<1>6. Cardinality(A \cap B) = 0
  BY <1>2, <1>5
<1>7. Cardinality(A \cup B) = Cardinality(A) + o.give[r]
  BY <1>1, <1>4, <1>5, <1>6
<1> QED BY <1>2, <1>4, <1>7 DEF A

(* A nonempty set of subsets of a finite set has a minimal element: this   *)
(* stands for induction on finite sets.                                    *)
LEMMA SmallestSubset ==
  ASSUME NEW S, IsFiniteSet(S), NEW T \in SUBSET (SUBSET S), T # {}
  PROVE  \E x \in T : \A y \in T : y \subseteq x => y = x
<1>1. IsWellFoundedOn(StrictSubsetOrdering(S), FiniteSubsetsOf(S))
  BY FS_StrictSubsetOrderingWellFounded
<1>2. T \subseteq FiniteSubsetsOf(S)
  BY FS_FiniteSubsetsOfFinite
<1>3. PICK x \in T : \A y \in T : ~(<<y, x>> \in StrictSubsetOrdering(S))
  BY <1>1, <1>2, WFMin
<1> QED BY <1>3 DEF StrictSubsetOrdering

LEMMA ParcelsFinite ==
  ASSUME NEW S, Giving(S), NEW r \in Resource
  PROVE  IsFiniteSet(Parcels(S, r))
<1> DEFINE bad == {U \in SUBSET S : ~IsFiniteSet(Parcels(U, r))}
<1>1. SUFFICES bad = {}
  OBVIOUS
<1>2. SUFFICES ASSUME bad # {} PROVE FALSE
  OBVIOUS
<1>3. PICK U \in bad : \A V \in bad : V \subseteq U => V = U
  <2>1. bad \in SUBSET (SUBSET S)
    OBVIOUS
  <2> HIDE DEF bad
  <2> QED BY <2>1, <1>2, SmallestSubset DEF Giving
<1>4. U # {}
  <2>1. Parcels({}, r) = {}
    BY DEF Parcels
  <2> QED BY <2>1, FS_EmptySet
<1>5. PICK o \in U : TRUE
  BY <1>4
<1>6. IsFiniteSet(Parcels(U \ {o}, r))
  BY <1>3, <1>5
<1>7. IsFiniteSet(Parcels((U \ {o}) \cup {o}, r))
  BY <1>5, <1>6, ParcelsOfMore DEF Giving
<1>8. (U \ {o}) \cup {o} = U
  BY <1>5
<1> QED BY <1>7, <1>8

-----------------------------------------------------------------------------
(* The fold is the function its recursion describes.                       *)

Some(S) == CHOOSE o \in S : TRUE

FoldStep(f, S, r) == IF S = {} THEN 0 ELSE Some(S).give[r] + f[S \ {Some(S)}]

LEMMA FoldOfPromises ==
  ASSUME NEW S, NEW r \in Resource, NEW F, F = [U \in SUBSET S |-> FoldStep(F, U, r)],
         \A G : G = [U \in SUBSET S |-> FoldStep(G, U, r)] => G = F
  PROVE  Promised(S)[r] = F[S]
<1>1. Promised(S)[r] = (CHOOSE f : f = [U \in SUBSET S |-> FoldStep(f, U, r)])[S]
  BY DEF Promised, MapThenSumSet, MapThenFoldSet, FoldStep, Some
<1>2. (CHOOSE f : f = [U \in SUBSET S |-> FoldStep(f, U, r)]) = F
  OBVIOUS
<1> QED BY <1>1, <1>2

(* Counting parcels satisfies the recursion, and nothing else does.        *)
LEMMA FoldCounts ==
  ASSUME NEW S, Giving(S), NEW r \in Resource
  PROVE  Promised(S)[r] = Cardinality(Parcels(S, r))
<1> DEFINE F == [U \in SUBSET S |-> Cardinality(Parcels(U, r))]
<1>0. \A U \in SUBSET S : U # {} => Some(U) \in U
  BY DEF Some
<1>1. ASSUME NEW U \in SUBSET S
      PROVE  F[U] = FoldStep(F, U, r)
  <2>1. CASE U = {}
    <3>1. Parcels({}, r) = {}
      BY DEF Parcels
    <3> QED BY <2>1, <3>1, FS_EmptySet DEF FoldStep
  <2>2. CASE U # {}
    <3> DEFINE o == Some(U)
               V == U \ {o}
    <3>1. o \in U
      BY <2>2, <1>0
    <3> HIDE DEF o
    <3>2. V \in SUBSET S /\ Giving(V) /\ o \notin V /\ V \cup {o} = U /\ o.give \in Bundles
      BY <3>1, FS_Subset DEF Giving
    <3> HIDE DEF V
    <3>3. IsFiniteSet(Parcels(V, r))
      BY <3>2, ParcelsFinite
    <3>4. Cardinality(Parcels(U, r)) = Cardinality(Parcels(V, r)) + o.give[r]
      BY <3>2, <3>3, ParcelsOfMore
    <3>5. Cardinality(Parcels(V, r)) \in Nat /\ o.give[r] \in Nat
      BY <3>2, <3>3, FS_CardinalityType DEF Bundles
    <3>6. FoldStep(F, U, r) = o.give[r] + F[V]
      BY <2>2 DEF FoldStep, o, V
    <3> QED BY <3>2, <3>4, <3>5, <3>6
  <2> QED BY <2>1, <2>2
<1>2. F = [U \in SUBSET S |-> FoldStep(F, U, r)]
  BY <1>1
<1>3. ASSUME NEW G, G = [U \in SUBSET S |-> FoldStep(G, U, r)]
      PROVE  G = F
  <2> DEFINE differs == {U \in SUBSET S : G[U] # F[U]}
  <2>1. SUFFICES ASSUME differs # {} PROVE FALSE
    BY <1>3
  <2>2. PICK U \in differs : \A V \in differs : V \subseteq U => V = U
    <3>1. differs \in SUBSET (SUBSET S)
      OBVIOUS
    <3> HIDE DEF differs
    <3> QED BY <3>1, <2>1, SmallestSubset DEF Giving
  <2>3. G[U] = FoldStep(G, U, r) /\ F[U] = FoldStep(F, U, r)
    BY <1>1, <1>3
  <2>4. U # {}
    BY <2>3 DEF FoldStep
  <2>5. Some(U) \in U
    BY <1>0, <2>4
  <2>6. G[U \ {Some(U)}] = F[U \ {Some(U)}]
    <3>1. U \ {Some(U)} \in SUBSET S /\ U \ {Some(U)} \subseteq U /\ U \ {Some(U)} # U
      BY <2>5
    <3> HIDE DEF F
    <3> QED BY <2>2, <3>1
  <2> HIDE DEF F
  <2> QED BY <2>3, <2>4, <2>6 DEF FoldStep
<1> HIDE DEF F
<1>4. Promised(S)[r] = F[S]
  BY <1>2, <1>3, FoldOfPromises
<1> QED BY <1>4 DEF F

-----------------------------------------------------------------------------
(* What the rest of the proofs use.                                        *)

LEMMA PromisedType ==
  ASSUME NEW S, Giving(S)
  PROVE  Promised(S) \in Bundles
<1>1. ASSUME NEW r \in Resource PROVE Promised(S)[r] \in Nat
  BY FoldCounts, ParcelsFinite, FS_CardinalityType
<1>2. Promised(S) = [r \in Resource |-> Promised(S)[r]]
  BY DEF Promised
<1> QED BY <1>1, <1>2 DEF Bundles

LEMMA PromisedMore ==
  ASSUME NEW S, Giving(S), NEW o, o \notin S, o.give \in Bundles, NEW r \in Resource
  PROVE  Promised(S \cup {o})[r] = Promised(S)[r] + o.give[r]
<1>1. Giving(S \cup {o})
  BY FS_AddElement DEF Giving
<1> QED BY <1>1, FoldCounts, ParcelsFinite, ParcelsOfMore

LEMMA PromisedLess ==
  ASSUME NEW S, Giving(S), NEW o \in S, NEW r \in Resource
  PROVE  Promised(S \ {o})[r] = Promised(S)[r] - o.give[r]
<1> DEFINE T == S \ {o}
<1>1. Giving(T) /\ o \notin T /\ o.give \in Bundles /\ T \cup {o} = S
  BY FS_Subset DEF Giving
<1> HIDE DEF T
<1>2. Promised(S)[r] = Promised(T)[r] + o.give[r]
  BY <1>1, PromisedMore
<1>3. Promised(T)[r] \in Nat /\ o.give[r] \in Nat
  BY <1>1, PromisedType DEF Bundles
<1> QED BY <1>2, <1>3 DEF T

LEMMA PromisedSubset ==
  ASSUME NEW S, Giving(S), NEW T \in SUBSET S, NEW r \in Resource
  PROVE  Promised(T)[r] <= Promised(S)[r]
<1>1. Giving(T)
  BY FS_Subset DEF Giving
<1>2. Parcels(T, r) \subseteq Parcels(S, r)
  BY DEF Parcels
<1>3. Cardinality(Parcels(T, r)) <= Cardinality(Parcels(S, r))
  BY <1>2, ParcelsFinite, FS_Subset
<1> QED BY <1>1, <1>3, FoldCounts

LEMMA PromisedNothing ==
  ASSUME NEW S, Giving(S), NEW r \in Resource, \A o \in S : o.give[r] = 0
  PROVE  Promised(S)[r] = 0
<1>1. Parcels(S, r) = {}
  BY DEF Parcels
<1> QED BY <1>1, FoldCounts, FS_EmptySet
=============================================================================
