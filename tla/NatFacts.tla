------------------------------ MODULE NatFacts ------------------------------
(***************************************************************************)
(* Induction over the naturals for sets instead of predicates, and what the *)
(* proofs about the kernel need of it: least and greatest elements.         *)
(***************************************************************************)
EXTENDS Integers, FiniteSets, FiniteSetTheorems, TLAPS

(* A set of naturals that holds 0 and is closed under successor holds them  *)
(* all: below a missing m, the successor would map its finite part into     *)
(* the same part without 0.                                                *)
LEMMA NatSetInduction ==
  ASSUME NEW P \in SUBSET Nat, 0 \in P, \A n \in P : n + 1 \in P
  PROVE  P = Nat
<1>1. SUFFICES ASSUME NEW m \in Nat, m \notin P PROVE FALSE
  OBVIOUS
<1> DEFINE A == P \cap (0 .. m)
           B == A \ {0}
           f == [x \in A |-> x + 1]
<1>2. IsFiniteSet(A)
  <2>1. IsFiniteSet(0 .. m)
    BY FS_Interval
  <2>2. A \in SUBSET (0 .. m)
    OBVIOUS
  <2>3. QED
    BY <2>1, <2>2, FS_Subset
<1>3. IsFiniteSet(B) /\ Cardinality(B) = Cardinality(A) - 1 /\ Cardinality(A) \in Nat
  BY SMTT(30), <1>2, FS_RemoveElement, FS_CardinalityType
<1>4. f \in [A -> B]
  BY <1>1
<1>5. \E x, y \in A : x # y /\ f[x] = f[y]
  <2> HIDE DEF A, B, f
  <2> QED
    BY <1>2, <1>3, <1>4, FS_PigeonHole
<1>6. QED
  BY <1>5, <1>1

(* Every non-empty set of naturals has a least element.                     *)
LEMMA LeastNat ==
  ASSUME NEW T \in SUBSET Nat, T # {}
  PROVE  \E x \in T : \A y \in T : x <= y
<1>1. SUFFICES ASSUME \A x \in T : \E y \in T : y < x PROVE FALSE
  OBVIOUS
<1> DEFINE P == {n \in Nat : \A y \in T : n <= y}
<1>2. 0 \in P
  OBVIOUS
<1>3. ASSUME NEW n \in P PROVE n + 1 \in P
  <2>1. n \notin T
    BY <1>1
  <2>2. QED
    BY <2>1
<1>4. P = Nat
  <2> HIDE DEF P
  <2>1. P \in SUBSET Nat
    BY DEF P
  <2>2. QED
    BY <2>1, <1>2, <1>3, NatSetInduction
<1>5. PICK y \in T : TRUE
  OBVIOUS
<1>6. y \in Nat /\ y + 1 \in P
  <2> HIDE DEF P
  <2> QED
    BY <1>4, <1>5
<1>7. QED
  BY <1>6

(* A bounded one has a greatest.                                           *)
LEMMA GreatestNat ==
  ASSUME NEW n \in Nat, NEW T \in SUBSET (0 .. n), T # {}
  PROVE  \E x \in T : \A y \in T : x >= y
<1> DEFINE U == {n - x : x \in T}
<1>1. U \in SUBSET Nat /\ U # {}
  <2>1. \A x \in T : n - x \in Nat
    OBVIOUS
  <2>2. QED
    BY <2>1
<1>2. PICK u \in U : \A v \in U : u <= v
  <2> HIDE DEF U
  <2> QED
    BY <1>1, LeastNat
<1>3. PICK x \in T : u = n - x
  BY <1>2
<1>4. ASSUME NEW y \in T PROVE x >= y
  BY <1>2, <1>3, n - y \in U
<1>5. QED
  BY <1>4
=============================================================================
