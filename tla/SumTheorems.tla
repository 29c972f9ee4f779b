---------------------------- MODULE SumTheorems ----------------------------
(***************************************************************************)
(* Sums over the values of a function on a finite set, as the community    *)
(* modules fold them: that the fold obeys its recursion, and what follows  *)
(* for sums of counters.  The library's induction theorems take operators, *)
(* which the provers cannot instantiate; its least-element theorem does    *)
(* not, and gives induction over sets.                                     *)
(***************************************************************************)
EXTENDS Functions, FiniteSetTheorems, TLAPS

\* A set of naturals with zero and the successor of each member is all of them.
LEMMA InductionOverNat ==
  ASSUME NEW T \in SUBSET Nat, 0 \in T, \A n \in T : n + 1 \in T
  PROVE  T = Nat
<1> SUFFICES ASSUME Nat \ T # {} PROVE FALSE
  OBVIOUS
<1>1. PICK x \in Nat \ T : \A y \in Nat \ T : ~(<<y, x>> \in OpToRel(<, Nat))
  <2> DEFINE R == OpToRel(<, Nat)
             U == Nat \ T
  <2>1. IsWellFoundedOn(R, Nat)
    BY NatLessThanWellFounded
  <2>2. U \subseteq Nat /\ U # {}
    OBVIOUS
  <2> HIDE DEF R, U
  <2>3. \E x \in U : \A y \in U : ~(<<y, x>> \in R)
    BY <2>1, <2>2, WFMin
  <2> QED
    BY <2>3 DEF R, U
<1>2. x \in Nat /\ x # 0 /\ x - 1 \in Nat /\ (x - 1) + 1 = x /\ x - 1 < x
  OBVIOUS
<1>3. <<x - 1, x>> \in OpToRel(<, Nat)
  BY <1>2 DEF OpToRel
<1> QED
  BY <1>1, <1>2, <1>3

\* A family with every subset of S whose proper subsets it has, has them all.
LEMMA InductionOverSubsets ==
  ASSUME NEW S, IsFiniteSet(S), NEW F,
         \A A \in SUBSET S :
           (\A B \in SUBSET A : B # A => B \in F) => A \in F
  PROVE  SUBSET S \subseteq F
<1> DEFINE U == (SUBSET S) \ F
           R == StrictSubsetOrdering(S)
<1> SUFFICES ASSUME U # {} PROVE FALSE
  OBVIOUS
<1>1. IsWellFoundedOn(R, SUBSET S)
  <2>1. IsWellFoundedOn(StrictSubsetOrdering(S), FiniteSubsetsOf(S))
    BY FS_StrictSubsetOrderingWellFounded
  <2>2. FiniteSubsetsOf(S) = SUBSET S
    BY FS_FiniteSubsetsOfFinite
  <2> QED
    BY <2>1, <2>2
<1>2. U \subseteq SUBSET S
  OBVIOUS
<1> HIDE DEF U, R
<1>3. PICK A \in U : \A B \in U : ~(<<B, A>> \in R)
  BY <1>1, <1>2, WFMin
<1>4. ASSUME NEW B \in SUBSET A, B # A
      PROVE  B \in F
  <2>1. A \in SUBSET S /\ B \in SUBSET S
    BY <1>2
  <2>2. <<B, A>> \in R
    BY <2>1, <1>4 DEF R, StrictSubsetOrdering
  <2> QED
    BY <2>1, <2>2, <1>3 DEF U
<1> QED
  BY <1>2, <1>4 DEF U

-----------------------------------------------------------------------------
(* The fold and its recursion.                                              *)

\* What Functions.FoldFunctionOnSet makes of addition.
Sum(f, S) == FoldFunctionOnSet(+, 0, f, S)

Chosen(s) == CHOOSE x \in s : TRUE
Unfolded(f, g, s) == IF s = {} THEN 0 ELSE f[Chosen(s)] + g[s \ {Chosen(s)}]
SumsOf(f, S) == CHOOSE g : g = [s \in SUBSET S |-> Unfolded(f, g, s)]

\* The fold is an application of such a function to the whole set.
LEMMA SumIsChosen ==
  ASSUME NEW f, NEW S
  PROVE  Sum(f, S) = SumsOf(f, S)[S]
BY DEF Sum, FoldFunctionOnSet, MapThenFoldSet, Chosen, Unfolded, SumsOf

\* The function of which the fold takes the last value exists.
LEMMA SumsExist ==
  ASSUME NEW f, NEW S, IsFiniteSet(S)
  PROVE  \E g : g = [s \in SUBSET S |-> Unfolded(f, g, s)]
<1> DEFINE Solves(g, n) == \A s \in SUBSET S : Cardinality(s) <= n => g[s] = Unfolded(f, g, s)
           T == {n \in Nat : \E g : g = [s \in SUBSET S |-> g[s]] /\ Solves(g, n)}
<1>1. \A s \in SUBSET S : Cardinality(s) \in Nat /\ IsFiniteSet(s) /\ (Cardinality(s) = 0 <=> s = {})
  BY FS_Subset, FS_CardinalityType, FS_EmptySet
<1>2. 0 \in T
  <2> DEFINE g == [s \in SUBSET S |-> 0]
  <2>1. Solves(g, 0)
    BY <1>1 DEF Unfolded
  <2>2. g = [s \in SUBSET S |-> g[s]]
    OBVIOUS
  <2> HIDE DEF g, Solves
  <2> QED
    BY <2>1, <2>2
<1>3. ASSUME NEW n \in T
      PROVE  n + 1 \in T
  <2>1. PICK g : g = [s \in SUBSET S |-> g[s]] /\ Solves(g, n)
    OBVIOUS
  <2> DEFINE h == [s \in SUBSET S |-> Unfolded(f, g, s)]
  <2>2. \A s \in SUBSET S : Cardinality(s) <= n => h[s] = g[s]
    BY <2>1
  <2>3. ASSUME NEW s \in SUBSET S, Cardinality(s) <= n + 1
        PROVE  h[s] = Unfolded(f, h, s)
    <3>1. CASE s = {}
      BY <3>1 DEF Unfolded
    <3>2. CASE s # {}
      <4>1. Chosen(s) \in s
        BY <3>2 DEF Chosen
      <4>2. s \ {Chosen(s)} \in SUBSET S /\ Cardinality(s \ {Chosen(s)}) = Cardinality(s) - 1
        BY <4>1, <1>1, FS_RemoveElement
      <4>3. h[s \ {Chosen(s)}] = g[s \ {Chosen(s)}]
        <5>1. Cardinality(s \ {Chosen(s)}) <= n
          BY <4>2, <2>3, <1>1
        <5> QED
          BY <4>2, <5>1, <2>2
      <4> QED
        BY <4>3 DEF Unfolded
    <3> QED
      BY <3>1, <3>2
  <2>4. h = [s \in SUBSET S |-> h[s]]
    OBVIOUS
  <2>5. Solves(h, n + 1)
    BY <2>3
  <2>6. n + 1 \in Nat
    OBVIOUS
  <2> HIDE DEF h, Solves
  <2> QED
    BY <2>4, <2>5, <2>6
<1>4. T = Nat
  <2> HIDE DEF T
  <2>1. T \in SUBSET Nat
    BY DEF T
  <2> QED
    BY <2>1, <1>2, <1>3, InductionOverNat
<1>5. Cardinality(S) \in T
  BY <1>1, <1>4
<1>6. PICK g : g = [s \in SUBSET S |-> g[s]] /\ Solves(g, Cardinality(S))
  BY <1>5
<1>7. \A s \in SUBSET S : g[s] = Unfolded(f, g, s)
  BY <1>6, FS_Subset
<1>8. g = [s \in SUBSET S |-> Unfolded(f, g, s)]
  BY <1>6, <1>7
<1> QED
  BY <1>8

\* The function exists on a finite set, so that the chosen one obeys its equation.
LEMMA SumsObeyRecursion ==
  ASSUME NEW f, NEW S, IsFiniteSet(S)
  PROVE  \A A \in SUBSET S : SumsOf(f, S)[A] = Unfolded(f, SumsOf(f, S), A)
<1> DEFINE g == SumsOf(f, S)
<1>1. g = [s \in SUBSET S |-> Unfolded(f, g, s)]
  <2>1. \E h : h = [s \in SUBSET S |-> Unfolded(f, h, s)]
    BY SumsExist
  <2> QED
    BY <2>1, Zenon DEF SumsOf
<1> HIDE DEF g
<1>2. \A A \in SUBSET S : g[A] = Unfolded(f, g, A)
  BY <1>1
<1> QED
  BY <1>2 DEF g

\* The sums over a subset's subsets are among those of the set.
LEMMA SumsRestrict ==
  ASSUME NEW f, NEW S, IsFiniteSet(S), NEW A \in SUBSET S
  PROVE  SumsOf(f, S)[A] = Sum(f, A)
<1> DEFINE F == {B \in SUBSET A : SumsOf(f, S)[B] = SumsOf(f, A)[B]}
<1>1. IsFiniteSet(A)
  BY FS_Subset
<1>2. ASSUME NEW B \in SUBSET A, \A C \in SUBSET B : C # B => C \in F
      PROVE  B \in F
  <2>1. /\ SumsOf(f, S)[B] = Unfolded(f, SumsOf(f, S), B)
        /\ SumsOf(f, A)[B] = Unfolded(f, SumsOf(f, A), B)
    <3>1. B \in SUBSET S
      OBVIOUS
    <3> QED
      BY <3>1, <1>1, SumsObeyRecursion
  <2>2. CASE B = {}
    BY <2>1, <2>2 DEF Unfolded
  <2>3. CASE B # {}
    <3>1. B \ {Chosen(B)} \in F
      BY <2>3, <1>2 DEF Chosen
    <3> QED
      BY <2>1, <2>3, <3>1 DEF Unfolded
  <2> QED
    BY <2>2, <2>3
<1>3. SUBSET A \subseteq F
  <2> HIDE DEF F
  <2> QED
    BY <1>1, <1>2, InductionOverSubsets
<1> QED
  BY <1>3, SumIsChosen

\* The recursion of the fold.
LEMMA SumUnfolds ==
  ASSUME NEW f, NEW S, IsFiniteSet(S)
  PROVE  /\ Sum(f, {}) = 0
         /\ S # {} => /\ Chosen(S) \in S
                      /\ Sum(f, S) = f[Chosen(S)] + Sum(f, S \ {Chosen(S)})
<1>1. Sum(f, {}) = 0
  <2>1. SumsOf(f, {})[{}] = Unfolded(f, SumsOf(f, {}), {})
    BY SumsObeyRecursion, FS_EmptySet
  <2> QED
    BY <2>1, SumIsChosen DEF Unfolded
<1>2. ASSUME S # {}
      PROVE  Chosen(S) \in S /\ Sum(f, S) = f[Chosen(S)] + Sum(f, S \ {Chosen(S)})
  <2>1. Sum(f, S) = Unfolded(f, SumsOf(f, S), S)
    BY SumIsChosen, SumsObeyRecursion
  <2>2. SumsOf(f, S)[S \ {Chosen(S)}] = Sum(f, S \ {Chosen(S)})
    BY SumsRestrict
  <2> QED
    BY <1>2, <2>1, <2>2 DEF Unfolded, Chosen
<1> QED
  BY <1>1, <1>2
-----------------------------------------------------------------------------
(* Sums of counters.                                                        *)

\* A sum of naturals is one, and at most as many times the largest as there are terms.
LEMMA SumIsBounded ==
  ASSUME NEW S, IsFiniteSet(S), NEW M \in Nat, NEW f, \A x \in S : f[x] \in 0..M
  PROVE  Sum(f, S) \in 0..(Cardinality(S) * M)
<1> DEFINE F == {A \in SUBSET S : Sum(f, A) \in 0..(Cardinality(A) * M)}
<1>1. ASSUME NEW A \in SUBSET S, \A B \in SUBSET A : B # A => B \in F
      PROVE  A \in F
  <2>1. IsFiniteSet(A) /\ Cardinality(A) \in Nat
    BY FS_Subset, FS_CardinalityType
  <2>2. CASE A = {}
    <3>1. Sum(f, A) = 0 /\ Cardinality(A) = 0
      BY <2>1, <2>2, SumUnfolds, FS_EmptySet
    <3> QED
      BY <3>1
  <2>3. CASE A # {}
    <3> DEFINE c == Chosen(A)
               B == A \ {c}
    <3>1. c \in A /\ Sum(f, A) = f[c] + Sum(f, B)
      BY <2>1, <2>3, SumUnfolds
    <3>2. Cardinality(B) = Cardinality(A) - 1 /\ Cardinality(B) \in Nat
      BY <2>1, <3>1, FS_RemoveElement, FS_CardinalityType
    <3>3. Sum(f, B) \in 0..(Cardinality(B) * M) /\ f[c] \in 0..M
      BY <3>1, <1>1
    <3> HIDE DEF B, c
    <3>4. Cardinality(A) * M = Cardinality(B) * M + M /\ Cardinality(B) * M \in Nat
      BY <2>1, <3>2
    <3> QED
      BY <3>1, <3>3, <3>4
  <2> QED
    BY <2>2, <2>3
<1>2. SUBSET S \subseteq F
  <2> HIDE DEF F
  <2> QED
    BY <1>1, InductionOverSubsets
<1> QED
  BY <1>2

\* Terms that do not exceed those of another sum make a sum that does not exceed it.
LEMMA SumIsMonotone ==
  ASSUME NEW S, IsFiniteSet(S), NEW f, NEW g,
         \A x \in S : f[x] \in Nat /\ g[x] \in Nat /\ f[x] <= g[x]
  PROVE  Sum(f, S) \in Nat /\ Sum(g, S) \in Nat /\ Sum(f, S) <= Sum(g, S)
<1> DEFINE F == {A \in SUBSET S : /\ Sum(f, A) \in Nat /\ Sum(g, A) \in Nat
                                  /\ Sum(f, A) <= Sum(g, A)}
<1>1. ASSUME NEW A \in SUBSET S, \A B \in SUBSET A : B # A => B \in F
      PROVE  A \in F
  <2>1. IsFiniteSet(A)
    BY FS_Subset
  <2>2. CASE A = {}
    BY <2>1, <2>2, SumUnfolds
  <2>3. CASE A # {}
    <3> DEFINE c == Chosen(A)
               B == A \ {c}
    <3>1. c \in A /\ Sum(f, A) = f[c] + Sum(f, B) /\ Sum(g, A) = g[c] + Sum(g, B)
      BY <2>1, <2>3, SumUnfolds
    <3>2. B \in F /\ f[c] \in Nat /\ g[c] \in Nat /\ f[c] <= g[c]
      BY <3>1, <1>1
    <3> QED
      BY <3>1, <3>2
  <2> QED
    BY <2>2, <2>3
<1>2. SUBSET S \subseteq F
  <2> HIDE DEF F
  <2> QED
    BY <1>1, InductionOverSubsets
<1> QED
  BY <1>2

\* Any term may be taken out first.
LEMMA SumTakesOut ==
  ASSUME NEW S, IsFiniteSet(S), NEW f, \A x \in S : f[x] \in Nat, NEW y \in S
  PROVE  Sum(f, S) = f[y] + Sum(f, S \ {y})
<1> DEFINE F == {A \in SUBSET S : \A x \in A : Sum(f, A) = f[x] + Sum(f, A \ {x})}
<1>1. \A A \in SUBSET S : IsFiniteSet(A) /\ Sum(f, A) \in Nat
  BY FS_Subset, SumIsMonotone
<1>2. ASSUME NEW A \in SUBSET S, \A B \in SUBSET A : B # A => B \in F
      PROVE  A \in F
  <2> SUFFICES ASSUME NEW x \in A PROVE Sum(f, A) = f[x] + Sum(f, A \ {x})
    OBVIOUS
  <2> DEFINE c == Chosen(A)
             B == A \ {c}
             D == A \ {x}
  <2>1. c \in A /\ Sum(f, A) = f[c] + Sum(f, B)
    BY <1>1, SumUnfolds
  <2>2. CASE x = c
    BY <2>1, <2>2
  <2>3. CASE x # c
    <3>1. Sum(f, B) = f[x] + Sum(f, B \ {x})
      BY <2>1, <2>3, <1>2
    <3> DEFINE rest == Sum(f, B \ {x})
    <3>2. Sum(f, D) = f[c] + rest
      <4>1. D \ {c} = B \ {x}
        OBVIOUS
      <4>2. Sum(f, D) = f[c] + Sum(f, D \ {c})
        BY <2>1, <2>3, <1>2
      <4> QED
        BY <4>1, <4>2, Zenon
    <3>3. rest \in Nat /\ f[x] \in Nat /\ f[c] \in Nat
      <4>1. B \ {x} \in SUBSET S
        OBVIOUS
      <4> QED
        BY <2>1, <4>1, <1>1
    <3> HIDE DEF B, c, D, rest
    <3>4. Sum(f, B) = f[x] + rest
      BY <3>1 DEF rest
    <3>5. Sum(f, A) = f[x] + Sum(f, D)
      BY <2>1, <3>2, <3>3, <3>4
    <3> QED
      BY <3>5 DEF D
  <2> QED
    BY <2>2, <2>3
<1>3. SUBSET S \subseteq F
  <2> HIDE DEF F
  <2> QED
    BY <1>2, InductionOverSubsets
<1> QED
  BY <1>3

\* When one term grows, the sum grows as much.
LEMMA SumCountsUp ==
  ASSUME NEW S, IsFiniteSet(S), NEW f \in [S -> Nat], NEW y \in S, NEW n \in Nat
  PROVE  Sum([f EXCEPT ![y] = @ + n], S) = Sum(f, S) + n
<1> DEFINE g == [f EXCEPT ![y] = @ + n]
           R == S \ {y}
<1>1. g \in [S -> Nat] /\ g[y] = f[y] + n /\ \A x \in R : g[x] = f[x]
  OBVIOUS
<1> HIDE DEF g
<1>2. Sum(f, S) = f[y] + Sum(f, R) /\ Sum(g, S) = g[y] + Sum(g, R)
  BY <1>1, SumTakesOut
<1>3. IsFiniteSet(R)
  BY FS_RemoveElement
<1>4. \A x \in R : f[x] \in Nat /\ g[x] \in Nat /\ f[x] <= g[x] /\ g[x] <= f[x]
  BY <1>1
<1>5. Sum(f, R) \in Nat /\ Sum(g, R) \in Nat /\ Sum(f, R) = Sum(g, R)
  <2> HIDE DEF R
  <2>1. Sum(f, R) \in Nat /\ Sum(g, R) \in Nat /\ Sum(f, R) <= Sum(g, R)
    BY <1>3, <1>4, SumIsMonotone
  <2>2. Sum(g, R) <= Sum(f, R)
    BY <1>3, <1>4, SumIsMonotone
  <2> QED
    BY <2>1, <2>2
<1> QED
  BY <1>1, <1>2, <1>5 DEF g
=============================================================================
