----------------------------- MODULE NaturalSets -----------------------------
(***************************************************************************)
(* Induction over the natural numbers and its consequences for sets of     *)
(* them, for the proofs of the other modules.                              *)
(***************************************************************************)
EXTENDS Integers, TLAPS, FiniteSetTheorems

(* Induction over the natural numbers, stated for a set: the library's rules *)
(* take an operator, which the backends cannot instantiate.  If k is missing *)
(* from S, then i |-> i + 1 injects the part of S below k into that part     *)
(* without 0.                                                                *)
LEMMA SetInduction ==
  ASSUME NEW S, 0 \in S, \A n \in Nat : n \in S => n + 1 \in S, NEW k \in Nat
  PROVE  k \in S
<1> SUFFICES ASSUME k \notin S PROVE FALSE OBVIOUS
<1> DEFINE A == {i \in 0 .. k : i \in S}
           B == A \ {0}
           f == [i \in A |-> i + 1]
<1>1. IsFiniteSet(A) /\ Cardinality(A) \in Nat
  <2>1. IsFiniteSet(0 .. k) BY FS_Interval
  <2>2. A \in SUBSET (0 .. k) OBVIOUS
  <2>3. IsFiniteSet(A) BY <2>1, <2>2, FS_Subset
  <2> QED BY <2>3, FS_CardinalityType
<1>2. 0 \in A OBVIOUS
<1>3. IsFiniteSet(B) /\ Cardinality(B) < Cardinality(A)
  <2>1. \A U, x : IsFiniteSet(U) => /\ IsFiniteSet(U \ {x})
                  /\ Cardinality(U \ {x}) = IF x \in U THEN Cardinality(U) - 1 ELSE Cardinality(U)
    BY FS_RemoveElement
  <2>2. IsFiniteSet(A \ {0}) /\ Cardinality(A \ {0}) = Cardinality(A) - 1
    <3> HIDE DEF A
    <3> QED BY <2>1, <1>1, <1>2
  <2> QED BY <2>2, <1>1
<1>4. f \in [A -> B]
  <2>1. ASSUME NEW i \in A PROVE i + 1 \in B BY <2>1
  <2> QED BY <2>1
<1>5. \E x, y \in A : x # y /\ f[x] = f[y]
  <2> HIDE DEF A, B, f
  <2> QED BY <1>1, <1>3, <1>4, FS_PigeonHole
<1> QED BY <1>5

(* A set of natural numbers that is not empty has a least element. *)
LEMMA LeastElement ==
  ASSUME NEW S \in SUBSET Nat, NEW k \in S
  PROVE  \E m \in S : \A n \in S : m <= n
<1> SUFFICES ASSUME \A m \in S : \E n \in S : n < m PROVE FALSE OBVIOUS
<1> DEFINE T == {n \in Nat : \A m \in S : n < m}
<1>1. 0 \in T
  <2>1. 0 \notin S BY 0 \in Nat
  <2> QED BY <2>1
<1>2. \A n \in Nat : n \in T => n + 1 \in T
  <2> SUFFICES ASSUME NEW n \in T PROVE n + 1 \in T OBVIOUS
  <2>1. n + 1 \notin S
    <3> SUFFICES ASSUME n + 1 \in S PROVE FALSE OBVIOUS
    <3>1. PICK m \in S : m < n + 1 OBVIOUS
    <3>2. n < m /\ m \in Nat BY <3>1
    <3> QED BY <3>1, <3>2
  <2>2. ASSUME NEW m \in S PROVE n + 1 < m
    <3>1. n < m /\ m # n + 1 /\ m \in Nat /\ n \in Nat BY <2>1
    <3> QED BY <3>1
  <2> QED BY <2>2
<1>3. k \in T
  <2> HIDE DEF T
  <2> QED BY <1>1, <1>2, SetInduction
<1> QED BY <1>3

(* One that is bounded has a greatest element. *)
LEMMA GreatestElement ==
  ASSUME NEW N \in Nat, NEW S \in SUBSET (0 .. N), S # {}
  PROVE  \E m \in S : \A n \in S : n <= m
<1> DEFINE T == {n \in 0 .. N : N - n \in S}
<1>1. PICK k \in S : TRUE OBVIOUS
<1>2. T \in SUBSET Nat /\ N - k \in T BY <1>1
<1>3. \E m \in T : \A n \in T : m <= n
  <2> HIDE DEF T
  <2> QED BY <1>2, LeastElement
<1>4. PICK m \in T : \A n \in T : m <= n BY <1>3
<1>5. ASSUME NEW n \in S PROVE n <= N - m
  <2>1. N - n \in T OBVIOUS
  <2> QED BY <1>4, <2>1
<1> QED BY <1>4, <1>5
=============================================================================
