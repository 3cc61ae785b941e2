-------------------------------- MODULE DataFacts --------------------------------
(***************************************************************************)
(* Facts about finite sets and numbers that the proofs about the long-term *)
(* memory (graph, consolidation, retrieval) need.                          *)
(***************************************************************************)
EXTENDS Integers, FiniteSets, FiniteSetsExt, TLAPS, FiniteSetTheorems, WellFoundedInduction

\* The greatest and the least element of a set of integers, once it is known.
LEMMA MaxIs ==
  ASSUME NEW S \in SUBSET Int, NEW x \in S, \A y \in S : x >= y
  PROVE  Max(S) = x
<1>1. Max(S) \in S /\ \A y \in S : Max(S) >= y
  <2>1. \E z \in S : \A y \in S : z >= y
    OBVIOUS
  <2> QED
    BY <2>1, Zenon DEF Max
<1>2. Max(S) \in Int
  BY <1>1
<1> QED
  BY <1>1, <1>2

LEMMA MinIs ==
  ASSUME NEW S \in SUBSET Int, NEW x \in S, \A y \in S : x <= y
  PROVE  Min(S) = x
<1>1. Min(S) \in S /\ \A y \in S : Min(S) =< y
  <2>1. \E z \in S : \A y \in S : z =< y
    OBVIOUS
  <2> QED
    BY <2>1, Zenon DEF Min
<1>2. Min(S) \in Int
  BY <1>1
<1> QED
  BY <1>1, <1>2

LEMMA MaxOfTwo ==
  ASSUME NEW a \in Int, NEW b \in Int
  PROVE  Max({a, b}) = IF a >= b THEN a ELSE b
<1>1. CASE a >= b
  BY <1>1, \A y \in {a, b} : a >= y, MaxIs
<1>2. CASE ~(a >= b)
  BY <1>2, \A y \in {a, b} : b >= y, MaxIs
<1> QED
  BY <1>1, <1>2

LEMMA MinOfTwo ==
  ASSUME NEW a \in Int, NEW b \in Int
  PROVE  Min({a, b}) = IF a <= b THEN a ELSE b
<1>1. CASE a <= b
  BY <1>1, \A y \in {a, b} : a <= y, MinIs
<1>2. CASE ~(a <= b)
  BY <1>2, \A y \in {a, b} : b <= y, MinIs
<1> QED
  BY <1>1, <1>2

\* Every nonempty set of natural numbers has a least element.
LEMMA LeastNatural ==
  ASSUME NEW S \in SUBSET Nat, S # {}
  PROVE  \E x \in S : \A y \in S : x <= y
<1>1. PICK x \in S : \A y \in S : ~(<<y, x>> \in OpToRel(<, Nat))
  BY NatLessThanWellFounded, WFMin
<1>2. ASSUME NEW y \in S, y < x
      PROVE  FALSE
  <2>1. <<y, x>> \in OpToRel(<, Nat)
    BY <1>2 DEF OpToRel
  <2> QED
    BY <2>1, <1>1
<1> QED
  BY <1>2

\* A finite nonempty set of natural numbers has a greatest element, which is its Max:
\* a smallest set without one would have one after all.
LEMMA GreatestNatural ==
  ASSUME NEW S \in SUBSET Nat, IsFiniteSet(S), S # {}
  PROVE  Max(S) \in S /\ \A y \in S : y <= Max(S)
<1> DEFINE Greatest(T) == \E x \in T : \A y \in T : x >= y
<1> DEFINE Without == { n \in Nat : \E T \in SUBSET S : T # {} /\ Cardinality(T) = n /\ ~Greatest(T) }
<1>1. Without = {}
  <2> SUFFICES ASSUME Without # {} PROVE FALSE
    OBVIOUS
  <2>1. PICK n \in Without : \A k \in Without : n <= k
    BY LeastNatural
  <2>2. PICK T \in SUBSET S : T # {} /\ Cardinality(T) = n /\ ~Greatest(T)
    BY <2>1
  <2>3. PICK t \in T : TRUE
    BY <2>2
  <2>4. IsFiniteSet(T) /\ Cardinality(T) \in Nat
    BY FS_Subset, FS_CardinalityType
  <2>5. Cardinality(T \ {t}) = n - 1
    BY <2>2, <2>3, <2>4, FS_RemoveElement
  <2>6. T \ {t} # {}
    <3>1. ASSUME T = {t} PROVE Greatest(T)
      BY <3>1
    <3> QED
      BY <2>2, <2>3, <3>1
  <2>7. Greatest(T \ {t})
    <3>1. Cardinality(T \ {t}) \in Nat
      BY <2>4, FS_RemoveElement, FS_CardinalityType
    <3>2. n - 1 \notin Without
      BY <2>1
    <3> QED
      BY <2>5, <2>6, <3>1, <3>2
  <2>8. PICK x \in T \ {t} : \A y \in T \ {t} : x >= y
    BY <2>7
  <2>9. Greatest(T)
    <3>1. CASE x >= t
      BY <2>8, <3>1
    <3>2. CASE ~(x >= t)
      <4>1. \A y \in T : t >= y
        BY <2>8, <3>2
      <4> QED
        BY <4>1
    <3> QED
      BY <3>1, <3>2
  <2> QED
    BY <2>2, <2>9
<1>2. Greatest(S)
  BY <1>1, FS_CardinalityType
<1>3. PICK x \in S : \A y \in S : x >= y
  BY <1>2
<1>4. Max(S) = x
  BY <1>3, MaxIs
<1> QED
  BY <1>3, <1>4
=============================================================================
