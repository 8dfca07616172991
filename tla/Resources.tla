------------------------------ MODULE Resources ------------------------------
(***************************************************************************)
(* Bundles of the three resources and their arithmetic                     *)
(* (domain/resources.py, and the helpers at the top of strategy.py).       *)
(***************************************************************************)
EXTENDS Integers

Resource == {"water", "food", "components"}

Bundles == [Resource -> Nat]

Zero == [r \in Resource |-> 0]

(* bundle_of: n units of one resource.                                     *)
Only(resource, n) == [Zero EXCEPT ![resource] = n]

Plus(a, b) == [r \in Resource |-> a[r] + b[r]]

Less(a, b) == [r \in Resource |-> a[r] - b[r]]  \* mutant: shortfalls are not clamped

(* saturating_subtract clamps each resource at zero.                       *)
LessUpTo(a, b) == [r \in Resource |-> IF a[r] >= b[r] THEN a[r] - b[r] ELSE 0]

(* minus raises unless `a' covers `b': its callers have checked.           *)
Minus(a, b) == [r \in Resource |-> a[r] - b[r]]

Covers(a, b) == \A r \in Resource : a[r] >= b[r]

Scaled(a, ticks) == [r \in Resource |-> a[r] * ticks]

IsZero(a) == a = Zero

(* The sum over RESOURCES in the policies' favourable-or-equal tests.      *)
Units(a) == a["water"] + a["food"] + a["components"]

AtLeast(a, b) == IF a >= b THEN a ELSE b
AtMost(a, b)  == IF a <= b THEN a ELSE b
=============================================================================
