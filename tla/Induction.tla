-------------------------------- MODULE Induction --------------------------------
(***************************************************************************)
(* Induction over data, by the least counterexample.  The induction        *)
(* theorems of the library take a predicate as a parameter, which none of  *)
(* the provers can instantiate; here a predicate is the set of what        *)
(* satisfies it.                                                           *)
(***************************************************************************)
EXTENDS Integers, Sequences, SequencesExt, FiniteSetTheorems, WellFoundedInduction, TLAPS

\* The order of the natural numbers, as a relation.
Below == {p \in Nat \X Nat : p[1] < p[2]}

LEMMA BelowIsWellFounded == IsWellFoundedOn(Below, Nat)
<1>1. OpToRel(<, Nat) = Below
  BY Zenon DEF Below, OpToRel
<1> QED BY <1>1, NatLessThanWellFounded, Zenon

LEMMA Least ==
  ASSUME NEW T, T \subseteq Nat, T # {}
  PROVE  \E x \in T : \A y \in T : x <= y
<1>1. PICK x \in T : \A y \in T : <<y, x>> \notin Below
  BY BelowIsWellFounded, WFMin, Zenon
<1>2. ASSUME NEW y \in T PROVE x <= y
  <2>1. x \in Nat /\ y \in Nat
    OBVIOUS
  <2>2. y < x => <<y, x>> \in Below
    BY <2>1 DEF Below
  <2> QED BY <1>1, <2>1, <2>2
<1> QED BY <1>2

\* What holds at 0, and at a number if it held before, holds up to the last one:
\* otherwise there is a least number at which it fails.
LEMMA UpTo ==
  ASSUME NEW n \in Nat, NEW S, 0 \in S, \A i \in 0..n : i # n /\ i \in S => i + 1 \in S
  PROVE  \A i \in 0..n : i \in S
<1> DEFINE T == (0..n) \ S
<1> SUFFICES ASSUME T # {} PROVE FALSE
  OBVIOUS
<1>1. T \subseteq Nat
  OBVIOUS
<1>2. PICK x \in T : \A y \in T : x <= y
  BY <1>1, Least
<1>3. x \in 1..n /\ x - 1 \in 0..n /\ x - 1 # n /\ x - 1 + 1 = x
  OBVIOUS
<1>4. x - 1 \in S
  BY <1>2, <1>3
<1> QED BY <1>3, <1>4

---------------------------------------------------------------------------
\* Finite sets.

\* A finite set is written out as a sequence of all of its elements.
LEMMA WrittenOut ==
  ASSUME NEW S, IsFiniteSet(S)
  PROVE  /\ SetToSeq(S) \in Seq(S) /\ \A x \in S : \E i \in 1..Len(SetToSeq(S)) : SetToSeq(S)[i] = x
         /\ \A i, j \in 1..Len(SetToSeq(S)) : SetToSeq(S)[i] = SetToSeq(S)[j] => i = j
<1>1. Cardinality(S) \in Nat /\ ExistsBijection(1..Cardinality(S), S)
  BY FS_CardinalityType
<1>2. PICK f : f \in Bijection(1..Cardinality(S), S)
  BY <1>1 DEF ExistsBijection
<1>3. f \in [1..Cardinality(S) -> S] /\ IsInjective(f)
  BY <1>2 DEF Bijection, Injection, Surjection, IsInjective
<1> DEFINE s == SetToSeq(S)
<1>4. s \in [1..Cardinality(S) -> S] /\ IsInjective(s)
  BY <1>3, Zenon DEF SetToSeq
<1> HIDE DEF s
<1>5. s \in Injection(1..Cardinality(S), S)
  BY <1>4 DEF Injection, IsInjective
<1>6. s \in Seq(S) /\ Len(s) = Cardinality(S)
  BY <1>1, <1>4
<1>7. ASSUME NEW x \in S PROVE \E i \in 1..Len(s) : s[i] = x
  <2> SUFFICES ASSUME \A i \in 1..Len(s) : s[i] # x PROVE FALSE
    OBVIOUS
  <2> DEFINE T == S \ {x}
  <2>1. IsFiniteSet(T) /\ Cardinality(T) = Cardinality(S) - 1
    BY FS_RemoveElement
  <2>2. s \in [1..Cardinality(S) -> T]
    BY <1>4, <1>6
  <2>3. IsFiniteSet(1..Cardinality(S)) /\ Cardinality(1..Cardinality(S)) = Cardinality(S)
    BY <1>1, FS_Interval
  <2> HIDE DEF T
  <2>4. Cardinality(T) < Cardinality(1..Cardinality(S))
    BY <1>1, <2>1, <2>3
  <2>5. PICK i, j \in 1..Cardinality(S) : i # j /\ s[i] = s[j]
    BY <2>1, <2>2, <2>3, <2>4, FS_PigeonHole, Zenon
  <2> QED BY <1>4, <2>5 DEF IsInjective
<1>8. \A i, j \in 1..Len(s) : s[i] = s[j] => i = j
  BY <1>4, <1>6 DEF IsInjective
<1> QED BY <1>6, <1>7, <1>8 DEF s

\* The functions from a finite set to a finite set: each is cut out of the pairs.
LEMMA FunctionsAreFinite ==
  ASSUME NEW D, NEW S, IsFiniteSet(D), IsFiniteSet(S)
  PROVE  IsFiniteSet([D -> S])
<1> DEFINE R == SUBSET (D \X S)
           F(r) == [i \in D |-> CHOOSE x : <<i, x>> \in r]
           T == {F(r) : r \in R}
           g == [r \in R |-> F(r)]
<1>1. IsFiniteSet(R)
  BY FS_Product, FS_SUBSET
<1>2. g \in Surjection(R, T)
  <2> HIDE DEF R, F
  <2> QED BY DEF Surjection
<1>3. IsFiniteSet(T)
  <2> HIDE DEF R, T, g
  <2> QED BY <1>1, <1>2, FS_Surjection
<1>4. ASSUME NEW f \in [D -> S] PROVE f \in T
  <2> DEFINE r == {p \in D \X S : p[2] = f[p[1]]}
  <2>1. \A i \in D : \A x : <<i, x>> \in r <=> x = f[i]
    OBVIOUS
  <2> HIDE DEF r
  <2>2. \A i \in D : (CHOOSE x : <<i, x>> \in r) = f[i]
    BY <2>1
  <2>3. F(r) = f
    BY <2>2
  <2>4. r \in R
    BY DEF r
  <2> HIDE DEF F, R
  <2> QED BY <2>3, <2>4
<1> HIDE DEF T
<1>5. [D -> S] \in SUBSET T
  BY <1>4
<1> QED BY <1>3, <1>5, FS_Subset

\* Every sequence of at most d numbers up to m.
LEMMA PathsAreFinite ==
  ASSUME NEW d \in Nat, NEW m \in Nat
  PROVE  IsFiniteSet(UNION {[1..k -> 1..m] : k \in 1..d})
<1> DEFINE F(k) == [1..k -> 1..m]
           T == {F(k) : k \in 1..d}
           g == [k \in 1..d |-> F(k)]
<1>1. g \in Surjection(1..d, T)
  <2> HIDE DEF F
  <2> QED BY DEF Surjection
<1>2. \A k \in 1..d : IsFiniteSet(F(k))
  <2> SUFFICES ASSUME NEW k \in 1..d PROVE IsFiniteSet(F(k))
    OBVIOUS
  <2>1. IsFiniteSet(1..k) /\ IsFiniteSet(1..m)
    BY FS_Interval
  <2> QED BY <2>1, FunctionsAreFinite
<1>3. IsFiniteSet(1..d)
  BY FS_Interval
<1> HIDE DEF F
<1>4. \A U \in T : IsFiniteSet(U)
  BY <1>2
<1> HIDE DEF g, T
<1>5. IsFiniteSet(T)
  BY <1>1, <1>3, FS_Surjection
<1>6. IsFiniteSet(UNION T)
  BY <1>4, <1>5, FS_UNION
<1> QED BY <1>6 DEF T, F

=============================================================================
