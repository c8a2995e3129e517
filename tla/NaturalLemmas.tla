--------------------------- MODULE NaturalLemmas ---------------------------
(***************************************************************************)
(* Least and greatest elements of sets of naturals, which the proofs about *)
(* auto-increment ids and positions need.                                  *)
(***************************************************************************)
EXTENDS Integers, WellFoundedInduction, TLAPS

(* A relation that contains < on Nat and is well founded gives every       *)
(* nonempty set of naturals a least element.                               *)
LEMMA LeastIn ==
    ASSUME NEW R, IsWellFoundedOn(R, Nat),
           \A x, y \in Nat : y < x => <<y, x>> \in R,
           NEW S \in SUBSET Nat, S # {}
    PROVE  \E p \in S : \A q \in S : p <= q
<1>1. PICK x \in S : \A y \in S : <<y, x>> \notin R
  BY WFMin
<1>2. SUFFICES ASSUME NEW y \in S PROVE x <= y
  OBVIOUS
<1>3. x \in Nat /\ y \in Nat
  OBVIOUS
<1>4. ~(y < x)
  BY <1>1, <1>3, Zenon
<1>5. QED
  BY <1>3, <1>4, SMT

(* Every nonempty set of naturals has a least element: the oldest row of a *)
(* query over auto-increment ids exists.                                   *)
LEMMA LeastNatural ==
    ASSUME NEW S \in SUBSET Nat, S # {}
    PROVE  \E p \in S : \A q \in S : p <= q
<1> DEFINE R == OpToRel(<, Nat)
<1>1. IsWellFoundedOn(R, Nat)
  BY NatLessThanWellFounded
<1>2. \A x, y \in Nat : y < x => <<y, x>> \in R
  BY DEF OpToRel
<1>3. QED
  <2> HIDE DEF R
  <2> QED BY <1>1, <1>2, LeastIn

(* Every nonempty subset of 1..n has a greatest element: SELECT max(id)    *)
(* over a bounded table finds one.                                         *)
LEMMA GreatestNatural ==
    ASSUME NEW n \in Nat, NEW S \in SUBSET (1..n), S # {}
    PROVE  \E p \in S : \A q \in S : q <= p
<1> DEFINE T == {n - q : q \in S}
<1>1. T \in SUBSET Nat
  OBVIOUS
<1>2. T # {}
  <2>1. PICK q \in S : TRUE
    OBVIOUS
  <2>2. n - q \in T
    OBVIOUS
  <2>3. QED BY <2>2
<1>3. PICK m \in T : \A r \in T : m <= r
  <2> HIDE DEF T
  <2> QED BY <1>1, <1>2, LeastNatural
<1>4. PICK p \in S : m = n - p
  OBVIOUS
<1>5. \A q \in S : n - p <= n - q
  BY <1>3, <1>4
<1>6. \A q \in S : q <= p
  BY <1>5
<1>7. QED
  BY <1>6

=============================================================================
