--------------------------- MODULE FiniteInduction ---------------------------
(***************************************************************************)
(* Induction in a form the provers can apply: over the subsets of a finite *)
(* set, with the set of those that satisfy what is proved.  From it, that  *)
(* a finite set of numbers can be put in ascending order.                  *)
(***************************************************************************)
EXTENDS FiniteSetTheorems, NaturalsInduction, TLAPS

\* A non-empty set of natural numbers has a least element.
LEMMA LeastOf ==
  ASSUME NEW S \in SUBSET Nat, S # {}
  PROVE  \E m \in S : \A k \in S : m <= k
<1>1. PICK m \in S : \A k \in S : <<k, m>> \notin OpToRel(<, Nat)
  BY WFMin, NatLessThanWellFounded
<1>2. ASSUME NEW k \in S PROVE m <= k
  <2>1. ~(k < m)
    BY <1>1 DEF OpToRel
  <2> QED
    BY <2>1
<1> QED
  BY <1>2

\* Induction over the subsets of a finite set.
LEMMA SubsetInduction ==
  ASSUME NEW S, IsFiniteSet(S), NEW C,
         \A T \in SUBSET S : (\A x \in T : T \ {x} \in C) => T \in C
  PROVE  S \in C /\ \A T \in SUBSET S : T \in C
<1> DEFINE bad == {n \in Nat : \E T \in SUBSET S : T \notin C /\ Cardinality(T) = n}
<1>1. ASSUME bad # {}
      PROVE  FALSE
  <2>1. PICK m \in bad : \A k \in bad : m <= k
    BY <1>1, LeastOf
  <2>2. PICK T \in SUBSET S : T \notin C /\ Cardinality(T) = m
    OBVIOUS
  <2>3. ASSUME NEW x \in T
        PROVE  T \ {x} \in C
    <3>1. Cardinality(T \ {x}) = m - 1 /\ m \in Nat
      BY <2>2, FS_RemoveElement, FS_Subset
    <3>2. Cardinality(T \ {x}) \in Nat
      BY FS_Subset, FS_CardinalityType
    <3>3. Cardinality(T \ {x}) \notin bad
      <4> HIDE DEF bad
      <4> QED
        BY <2>1, <3>1, <3>2
    <3> QED
      BY <3>2, <3>3
  <2> QED
    BY <2>2, <2>3
<1>2. ASSUME NEW T \in SUBSET S
      PROVE  T \in C
  <2>1. Cardinality(T) \in Nat
    BY FS_Subset, FS_CardinalityType
  <2> QED
    BY <1>1, <2>1
<1>3. S \in SUBSET S
  OBVIOUS
<1> QED
  BY <1>2, <1>3

-----------------------------------------------------------------------------
(* Sets of numbers in ascending order.                                     *)

Increasing(s) == \A i, j \in DOMAIN s : i < j => s[i] < s[j]
Enumerations(S) == {s \in [1..Cardinality(S) -> S] : Increasing(s)}

\* A finite set of numbers can be put in order.
LEMMA Enumerable ==
  ASSUME NEW S \in SUBSET Nat, IsFiniteSet(S)
  PROVE  Enumerations(S) # {}
<1> DEFINE C == {T \in SUBSET S : Enumerations(T) # {}}
<1>1. ASSUME NEW T \in SUBSET S, \A x \in T : T \ {x} \in C
      PROVE  T \in C
  <2>1. IsFiniteSet(T)
    BY FS_Subset
  <2>2. CASE T = {}
    <3>1. Cardinality(T) = 0 /\ 1..0 = {}
      BY <2>2, FS_EmptySet
    <3>2. [i \in 1..0 |-> 0] \in Enumerations(T)
      BY <2>2, <3>1 DEF Enumerations, Increasing
    <3> QED
      BY <3>2
  <2>3. CASE T # {}
    <3>1. PICK x \in T : \A y \in T : x <= y
      BY <2>3, LeastOf
    <3> DEFINE R == T \ {x}
               n == Cardinality(R)
    <3>2. n \in Nat /\ Cardinality(T) = n + 1
      <4>1. IsFiniteSet(R) /\ Cardinality(R) = Cardinality(T) - 1
        BY <2>1, <3>1, FS_RemoveElement
      <4>2. Cardinality(R) \in Nat /\ Cardinality(T) \in Nat
        BY <2>1, <4>1, FS_CardinalityType
      <4> QED
        BY <4>1, <4>2
    <3>3. PICK s \in [1..n -> R] : Increasing(s)
      <4>1. Enumerations(R) # {}
        BY <1>1
      <4> QED
        BY <4>1 DEF Enumerations
    <3> DEFINE t == [i \in 1..(n + 1) |-> IF i = 1 THEN x ELSE s[i - 1]]
    <3> HIDE DEF n
    <3>4. ASSUME NEW i \in 1..(n + 1), i # 1
          PROVE  i - 1 \in 1..n /\ s[i - 1] \in T /\ s[i - 1] > x
      <4>1. i - 1 \in 1..n
        BY <3>2, <3>4
      <4>2. s[i - 1] \in R
        BY <3>3, <4>1
      <4>3. s[i - 1] \in T /\ s[i - 1] # x /\ x \in Nat /\ s[i - 1] \in Nat
        BY <3>1, <4>2
      <4> QED
        BY <3>1, <4>1, <4>3
    <3>5. t \in [1..(n + 1) -> T]
      BY <3>4
    <3>6. ASSUME NEW i \in 1..(n + 1), NEW j \in 1..(n + 1), i < j
          PROVE  t[i] < t[j]
      <4>1. j # 1 /\ (i # 1 => i - 1 < j - 1)
        BY <3>2, <3>6
      <4>2. CASE i = 1
        BY <3>4, <4>1, <4>2
      <4>3. CASE i # 1
        BY <3>3, <3>4, <4>1, <4>3 DEF Increasing
      <4> QED
        BY <4>2, <4>3
    <3>7. t \in Enumerations(T)
      BY <3>2, <3>5, <3>6 DEF Enumerations, Increasing
    <3> QED
      BY <3>7
  <2> QED
    BY <2>2, <2>3
<1>2. S \in C
  <2> HIDE DEF C
  <2> QED
    BY <1>1, SubsetInduction
<1> QED
  BY <1>2

\* An increasing sequence as long as the set is meets all of the set.
LEMMA EnumeratesAll ==
  ASSUME NEW S \in SUBSET Nat, IsFiniteSet(S), NEW s \in Enumerations(S), NEW x \in S
  PROVE  \E i \in 1..Cardinality(S) : s[i] = x
<1> DEFINE n == Cardinality(S)
<1>1. n \in Nat
  BY FS_CardinalityType
<1>2. s \in [1..n -> S] /\ Increasing(s)
  BY DEF Enumerations
<1> HIDE DEF n
<1>3. ASSUME NEW i \in 1..n, NEW j \in 1..n, s[i] = s[j]
      PROVE  i = j
  <2>1. s[i] \in Nat /\ s[j] \in Nat
    BY <1>2
  <2>2. ~(i < j) /\ ~(j < i)
    BY <1>2, <1>3, <2>1 DEF Increasing
  <2> QED
    BY <1>1, <2>2
<1>4. s \in Injection(1..n, S)
  BY <1>2, <1>3 DEF Injection, IsInjective
<1>5. Cardinality(1..n) = n
  BY <1>1, FS_Interval
<1>6. s \in Surjection(1..n, S)
  BY <1>4, <1>5, FS_Injection DEF n
<1> QED
  BY <1>6 DEF Surjection, n
=============================================================================
