----------------------------- MODULE FoldLemmas -----------------------------
(***************************************************************************)
(* Sums over finite sets, and the inductions behind them.                  *)
(*                                                                         *)
(* The library's induction theorems take the property as an operator,      *)
(* which no backend instantiates.  Here the property is a set (of numbers, *)
(* of subsets), so that the lemmas are first-order: whoever uses one       *)
(* defines the set of those for which a property holds.                    *)
(***************************************************************************)
EXTENDS Integers, FiniteSets, Functions, FiniteSetTheorems, WellFoundedInduction, TLAPS

-----------------------------------------------------------------------------
(* Induction                                                                *)

\* A set of natural numbers has a least one.
LEMMA LeastNat ==
    ASSUME NEW S, S \subseteq Nat, S # {}
    PROVE  \E x \in S : \A y \in S : x <= y
<1> DEFINE R == OpToRel(<, Nat)
<1>1. PICK x \in S : \A y \in S : ~(<<y, x>> \in R)
  <2>1. IsWellFoundedOn(R, Nat)
    BY NatLessThanWellFounded
  <2> HIDE DEF R
  <2> QED
    BY <2>1, WFMin
<1>2. \A y \in S : x <= y
  <2> SUFFICES ASSUME NEW y \in S, y < x
               PROVE  FALSE
    OBVIOUS
  <2>1. <<y, x>> \in {ss \in Nat \X Nat : ss[1] < ss[2]}
    OBVIOUS
  <2> QED
    BY <1>1, <2>1 DEF OpToRel
<1> QED
  BY <1>2

\* A set with 0 and the successor of each of its members has every number.
LEMMA NatInductive ==
    ASSUME NEW P, 0 \in P, \A n \in Nat : n \in P => n + 1 \in P
    PROVE  Nat \subseteq P
<1> DEFINE Q == Nat \ P
<1> SUFFICES ASSUME Q # {} PROVE FALSE
  OBVIOUS
<1>1. PICK x \in Q : \A y \in Q : x <= y
  BY LeastNat
<1>2. x # 0 /\ x - 1 \in Nat
  OBVIOUS
<1>3. x - 1 \notin Q
  BY <1>1, <1>2
<1> QED
  BY <1>2, <1>3

\* If a non-empty set is in F as soon as it is without one of its elements,
\* every subset of a finite set is.
LEMMA FiniteInductive ==
    ASSUME NEW S, IsFiniteSet(S), NEW F, {} \in F,
           \A T \in SUBSET S :
               T # {} => \E x \in T : T \ {x} \in F => T \in F
    PROVE  \A T \in SUBSET S : T \in F
<1> DEFINE P == {n \in Nat : \A T \in SUBSET S : Cardinality(T) = n => T \in F}
<1>0. \A T \in SUBSET S : IsFiniteSet(T) /\ Cardinality(T) \in Nat
  BY FS_Subset, FS_CardinalityType
<1>1. 0 \in P
  BY <1>0, FS_EmptySet
<1>2. ASSUME NEW n \in Nat, n \in P PROVE n + 1 \in P
  <2> SUFFICES ASSUME NEW T \in SUBSET S, Cardinality(T) = n + 1 PROVE T \in F
    OBVIOUS
  <2>1. T # {}
    <3>1. Cardinality(T) # 0
      OBVIOUS
    <3> QED
      BY <3>1, FS_EmptySet
  <2>2. PICK x \in T : T \ {x} \in F => T \in F
    BY <2>1
  <2>3. Cardinality(T \ {x}) = n
    <3>1. Cardinality(T \ {x}) = Cardinality(T) - 1
      BY <1>0, FS_RemoveElement
    <3> QED
      BY <3>1
  <2>4. T \ {x} \in F
    BY <2>3, <1>2
  <2> QED
    BY <2>2, <2>4
<1>3. Nat \subseteq P
  <2> HIDE DEF P
  <2> QED
    BY <1>1, <1>2, NatInductive
<1> QED
  BY <1>0, <1>3

-----------------------------------------------------------------------------
(* Sums                                                                     *)

\* The element with which the library's fold begins.
Take(s) == CHOOSE x \in s : TRUE

\* One round of the sum of f over s, g being the sum over smaller sets.
SumRound(g, f, s) == IF s = {} THEN 0 ELSE f[Take(s)] + g[s \ {Take(s)}]

\* g sums f over every subset of S.
IsSum(g, f, S) == g = [s \in SUBSET S |-> SumRound(g, f, s)]

\* What is taken is a member.
LEMMA TakeIn == ASSUME NEW s, s # {} PROVE Take(s) \in s
  BY DEF Take

\* SumFunctionOnSet is the recursive function of its definition.
LEMMA SumIs ==
    ASSUME NEW f, NEW S
    PROVE  SumFunctionOnSet(f, S) = (CHOOSE g : IsSum(g, f, S))[S]
  BY DEF SumFunctionOnSet, FoldFunctionOnSet, MapThenFoldSet, IsSum, SumRound, Take

\* There is such a function: by induction on the size of the subsets on
\* which it is defined.
LEMMA SumExists ==
    ASSUME NEW f, NEW S, IsFiniteSet(S)
    PROVE  \E g : IsSum(g, f, S)
<1> DEFINE L(n) == {s \in SUBSET S : Cardinality(s) <= n}
           P == {n \in Nat : \E g : g = [s \in L(n) |-> SumRound(g, f, s)]}
<1>0. \A s \in SUBSET S : IsFiniteSet(s) /\ Cardinality(s) \in Nat
  BY FS_Subset, FS_CardinalityType
<1>1. 0 \in P
  <2>1. \A s \in L(0) : s = {}
    BY <1>0, FS_EmptySet
  <2> DEFINE g == [s \in L(0) |-> 0]
  <2>2. g = [s \in L(0) |-> SumRound(g, f, s)]
    BY <2>1 DEF SumRound
  <2> QED
    BY <2>2
<1>2. ASSUME NEW n \in Nat, n \in P PROVE n + 1 \in P
  <2>1. PICK g : g = [s \in L(n) |-> SumRound(g, f, s)]
    BY <1>2
  <2> DEFINE h == [s \in L(n + 1) |-> SumRound(g, f, s)]
  <2>2. \A s \in L(n) : s \in L(n + 1) /\ h[s] = g[s]
    <3> TAKE s \in L(n)
    <3>1. s \in L(n + 1)
      BY <1>0
    <3>2. g[s] = SumRound(g, f, s)
      BY <2>1
    <3> QED
      BY <3>1, <3>2
  <2>3. \A s \in L(n + 1) : SumRound(g, f, s) = SumRound(h, f, s)
    <3> TAKE s \in L(n + 1)
    <3>1. CASE s = {}
      BY <3>1 DEF SumRound
    <3>2. CASE s # {}
      <4>1. s \ {Take(s)} \in L(n)
        <5>1. Take(s) \in s
          BY <3>2, TakeIn
        <5>2. Cardinality(s \ {Take(s)}) = Cardinality(s) - 1
          BY <1>0, <5>1, FS_RemoveElement
        <5> QED
          BY <1>0, <5>2
      <4> HIDE DEF h
      <4> QED
        BY <2>2, <4>1 DEF SumRound
    <3> QED
      BY <3>1, <3>2
  <2>4. h = [s \in L(n + 1) |-> SumRound(h, f, s)]
    BY <2>3
  <2> QED
    <3> HIDE DEF h, L
    <3> QED
      BY <2>4
<1>3. Nat \subseteq P
  <2> HIDE DEF P
  <2> QED
    BY <1>1, <1>2, NatInductive
<1>4. L(Cardinality(S)) = SUBSET S
  BY FS_Subset
<1>5. Cardinality(S) \in P
  BY <1>3, FS_CardinalityType
<1>6. PICK g : g = [s \in L(Cardinality(S)) |-> SumRound(g, f, s)]
  BY <1>5
<1> QED
  BY <1>4, <1>6 DEF IsSum
\* There is only one: the sum over T does not depend on the set in whose
\* subsets it is computed.
LEMMA SumUnique ==
    ASSUME NEW f, NEW S, IsFiniteSet(S), NEW T \in SUBSET S,
           NEW g, IsSum(g, f, S),
           NEW h, IsSum(h, f, T)
    PROVE  g[T] = h[T]
<1> DEFINE F == {s \in SUBSET T : g[s] = h[s]}
<1>1. \A s \in SUBSET T : g[s] = SumRound(g, f, s) /\ h[s] = SumRound(h, f, s)
  BY DEF IsSum
<1>2. {} \in F
  BY <1>1 DEF SumRound
<1>3. ASSUME NEW s \in SUBSET T, s # {}
      PROVE  \E x \in s : s \ {x} \in F => s \in F
  <2>1. Take(s) \in s
    BY <1>3, TakeIn
  <2>2. ASSUME s \ {Take(s)} \in F PROVE s \in F
    BY <1>1, <1>3, <2>1, <2>2 DEF SumRound
  <2> QED
    BY <2>1, <2>2
<1>4. IsFiniteSet(T)
  BY FS_Subset
<1>5. T \in F
  <2> HIDE DEF F
  <2> QED
    BY <1>2, <1>3, <1>4, FiniteInductive
<1> QED
  BY <1>5

\* So the recursion holds of the operator itself.
LEMMA SumStep ==
    ASSUME NEW f, NEW S, IsFiniteSet(S)
    PROVE  SumFunctionOnSet(f, S) =
              IF S = {} THEN 0
              ELSE f[Take(S)] + SumFunctionOnSet(f, S \ {Take(S)})
<1> DEFINE G(X) == CHOOSE g : IsSum(g, f, X)
           T == S \ {Take(S)}
<1>1. \A X : IsFiniteSet(X) => IsSum(G(X), f, X)
  BY SumExists
<1>2. \A X : SumFunctionOnSet(f, X) = G(X)[X]
  BY SumIs
<1>3. IsFiniteSet(T)
  BY FS_Subset
<1> HIDE DEF G
<1>4. G(S)[T] = G(T)[T]
  <2>1. T \in SUBSET S
    OBVIOUS
  <2>2. IsSum(G(S), f, S) /\ IsSum(G(T), f, T)
    BY <1>1, <1>3
  <2> HIDE DEF T
  <2> QED
    BY <2>1, <2>2, SumUnique
<1>5. G(S)[S] = SumRound(G(S), f, S)
  BY <1>1 DEF IsSum
<1> QED
  BY <1>2, <1>4, <1>5 DEF SumRound

\* Nothing sums to 0.
LEMMA SumEmpty ==
    ASSUME NEW f PROVE SumFunctionOnSet(f, {}) = 0
  BY SumStep, FS_EmptySet

\* A sum of integers is an integer.
LEMMA SumType ==
    ASSUME NEW f, NEW S, IsFiniteSet(S), \A x \in S : f[x] \in Int
    PROVE  SumFunctionOnSet(f, S) \in Int
<1> DEFINE F == {T \in SUBSET S : SumFunctionOnSet(f, T) \in Int}
<1>1. {} \in F
  BY SumEmpty
<1>2. \A T \in SUBSET S : T # {} => \E x \in T : T \ {x} \in F => T \in F
  <2> SUFFICES ASSUME NEW T \in SUBSET S, T # {}
               PROVE  \E x \in T : T \ {x} \in F => T \in F
    OBVIOUS
  <2>1. Take(T) \in T /\ IsFiniteSet(T)
    BY TakeIn, FS_Subset
  <2> QED
    BY <2>1, SumStep
<1>3. \A T \in SUBSET S : T \in F
  <2> HIDE DEF F
  <2> QED
    BY <1>1, <1>2, FiniteInductive
<1> QED
  BY <1>3

\* The order of summation does not matter: any element may be taken out first.
LEMMA SumRemove ==
    ASSUME NEW f, NEW S, IsFiniteSet(S), \A x \in S : f[x] \in Int, NEW e \in S
    PROVE  SumFunctionOnSet(f, S) = f[e] + SumFunctionOnSet(f, S \ {e})
<1> DEFINE Sum(X) == SumFunctionOnSet(f, X)
           F == {T \in SUBSET S : \A x \in T : Sum(T) = f[x] + Sum(T \ {x})}
<1>0. \A T \in SUBSET S : Sum(T) \in Int /\ IsFiniteSet(T)
  BY SumType, FS_Subset
<1> DEFINE P == {n \in Nat : \A T \in SUBSET S : Cardinality(T) = n => T \in F}
<1>1. 0 \in P
  BY <1>0, FS_EmptySet
<1>2. ASSUME NEW n \in Nat, n \in P PROVE n + 1 \in P
  <2> SUFFICES ASSUME NEW T \in SUBSET S, Cardinality(T) = n + 1, NEW x \in T
               PROVE  Sum(T) = f[x] + Sum(T \ {x})
    OBVIOUS
  <2> DEFINE t == Take(T)
  <2>1. t \in T
    BY TakeIn
  <2>2. Sum(T) = f[t] + Sum(T \ {t})
    BY <1>0, SumStep
  <2>3. \A y \in T : T \ {y} \in F
    <3> TAKE y \in T
    <3>1. Cardinality(T \ {y}) = Cardinality(T) - 1
      BY <1>0, FS_RemoveElement
    <3>2. Cardinality(T \ {y}) = n
      BY <3>1
    <3> QED
      BY <1>2, <3>2
  <2>4. CASE x # t
    <3> DEFINE U == (T \ {t}) \ {x}
    <3>1. Sum(T \ {t}) = f[x] + Sum(U)
      BY <2>1, <2>3, <2>4
    <3>2. U = (T \ {x}) \ {t}
      OBVIOUS
    <3>3. Sum(T \ {x}) = f[t] + Sum(U)
      BY <2>1, <2>3, <2>4, <3>2
    <3>4. f[x] \in Int /\ f[t] \in Int /\ Sum(U) \in Int
      BY <1>0, <2>1
    <3> HIDE DEF U, t
    <3> QED
      BY <2>2, <3>1, <3>3, <3>4
  <2> QED
    BY <2>2, <2>4
<1>3. Nat \subseteq P
  <2> HIDE DEF P
  <2> QED
    BY <1>1, <1>2, NatInductive
<1>4. Cardinality(S) \in P
  BY <1>3, FS_CardinalityType
<1> QED
  BY <1>4

\* A new element adds its value.
LEMMA SumAdd ==
    ASSUME NEW f, NEW S, IsFiniteSet(S), NEW e, e \notin S,
           \A x \in S \union {e} : f[x] \in Int
    PROVE  SumFunctionOnSet(f, S \union {e}) = f[e] + SumFunctionOnSet(f, S)
<1>1. IsFiniteSet(S \union {e})
  BY FS_AddElement
<1>2. (S \union {e}) \ {e} = S
  OBVIOUS
<1> QED
  BY <1>1, <1>2, SumRemove

\* The sum depends on the values in the set only.
LEMMA SumCongruent ==
    ASSUME NEW f, NEW g, NEW S, IsFiniteSet(S), \A x \in S : f[x] = g[x]
    PROVE  SumFunctionOnSet(f, S) = SumFunctionOnSet(g, S)
<1> DEFINE F == {T \in SUBSET S : SumFunctionOnSet(f, T) = SumFunctionOnSet(g, T)}
<1>1. {} \in F
  BY SumEmpty
<1>2. \A T \in SUBSET S : T # {} => \E x \in T : T \ {x} \in F => T \in F
  <2> SUFFICES ASSUME NEW T \in SUBSET S, T # {}
               PROVE  \E x \in T : T \ {x} \in F => T \in F
    OBVIOUS
  <2>1. Take(T) \in T /\ IsFiniteSet(T)
    BY TakeIn, FS_Subset
  <2> QED
    BY <2>1, SumStep
<1>3. \A T \in SUBSET S : T \in F
  <2> HIDE DEF F
  <2> QED
    BY <1>1, <1>2, FiniteInductive
<1> QED
  BY <1>3

\* Larger values have the larger sum.
LEMMA SumMonotonic ==
    ASSUME NEW f, NEW g, NEW S, IsFiniteSet(S),
           \A x \in S : f[x] \in Int /\ g[x] \in Int /\ f[x] <= g[x]
    PROVE  SumFunctionOnSet(f, S) <= SumFunctionOnSet(g, S)
<1> DEFINE F == {T \in SUBSET S : SumFunctionOnSet(f, T) <= SumFunctionOnSet(g, T)}
<1>1. {} \in F
  BY SumEmpty
<1>2. \A T \in SUBSET S : T # {} => \E x \in T : T \ {x} \in F => T \in F
  <2> SUFFICES ASSUME NEW T \in SUBSET S, T # {}
               PROVE  \E x \in T : T \ {x} \in F => T \in F
    OBVIOUS
  <2> DEFINE t == Take(T)
             U == T \ {t}
  <2>1. t \in T /\ IsFiniteSet(T) /\ IsFiniteSet(U)
    BY TakeIn, FS_Subset
  <2>2. SumFunctionOnSet(f, T) = f[t] + SumFunctionOnSet(f, U)
    BY <2>1, SumStep
  <2>3. SumFunctionOnSet(g, T) = g[t] + SumFunctionOnSet(g, U)
    BY <2>1, SumStep
  <2>4. SumFunctionOnSet(f, U) \in Int /\ SumFunctionOnSet(g, U) \in Int
    BY <2>1, SumType
  <2>5. f[t] \in Int /\ g[t] \in Int /\ f[t] <= g[t]
    BY <2>1
  <2>6. ASSUME U \in F PROVE T \in F
    <3>1. SumFunctionOnSet(f, U) <= SumFunctionOnSet(g, U)
      BY <2>6
    <3>2. SumFunctionOnSet(f, T) <= SumFunctionOnSet(g, T)
      <4> HIDE DEF t, U
      <4> QED
        BY <2>2, <2>3, <2>4, <2>5, <3>1
    <3> QED
      BY <3>2
  <2> QED
    BY <2>1, <2>6
<1>3. \A T \in SUBSET S : T \in F
  <2> HIDE DEF F
  <2> QED
    BY <1>1, <1>2, FiniteInductive
<1> QED
  BY <1>3

\* A sum of natural numbers is one.
LEMMA SumNat ==
    ASSUME NEW f, NEW S, IsFiniteSet(S), \A x \in S : f[x] \in Nat
    PROVE  SumFunctionOnSet(f, S) \in Nat
<1> DEFINE F == {T \in SUBSET S : SumFunctionOnSet(f, T) \in Nat}
<1>1. {} \in F
  BY SumEmpty
<1>2. \A T \in SUBSET S : T # {} => \E x \in T : T \ {x} \in F => T \in F
  <2> SUFFICES ASSUME NEW T \in SUBSET S, T # {}
               PROVE  \E x \in T : T \ {x} \in F => T \in F
    OBVIOUS
  <2>1. Take(T) \in T /\ IsFiniteSet(T)
    BY TakeIn, FS_Subset
  <2> QED
    BY <2>1, SumStep
<1>3. \A T \in SUBSET S : T \in F
  <2> HIDE DEF F
  <2> QED
    BY <1>1, <1>2, FiniteInductive
<1> QED
  BY <1>3

\* Where one value changes the sum changes by the difference.
LEMMA SumUpdate ==
    ASSUME NEW f, NEW g, NEW S, IsFiniteSet(S), NEW e \in S,
           \A x \in S : f[x] \in Int /\ g[x] \in Int,
           \A x \in S \ {e} : f[x] = g[x]
    PROVE  SumFunctionOnSet(g, S) = SumFunctionOnSet(f, S) + (g[e] - f[e])
<1> DEFINE T == S \ {e}
<1>1. SumFunctionOnSet(f, S) = f[e] + SumFunctionOnSet(f, T)
  BY SumRemove
<1>2. SumFunctionOnSet(g, S) = g[e] + SumFunctionOnSet(g, T)
  BY SumRemove
<1>3. SumFunctionOnSet(f, T) = SumFunctionOnSet(g, T)
  BY FS_Subset, SumCongruent
<1>4. SumFunctionOnSet(f, T) \in Int
  BY FS_Subset, SumType
<1> HIDE DEF T
<1> QED
  BY <1>1, <1>2, <1>3, <1>4

\* Fewer natural numbers sum to no more.
LEMMA SumSubset ==
    ASSUME NEW f, NEW S, IsFiniteSet(S), NEW T \in SUBSET S, \A x \in S : f[x] \in Nat
    PROVE  SumFunctionOnSet(f, T) <= SumFunctionOnSet(f, S)
<1> DEFINE F == {U \in SUBSET S : SumFunctionOnSet(f, U \cap T) <= SumFunctionOnSet(f, U)}
<1>1. {} \in F
  <2>1. {} \cap T = {}
    OBVIOUS
  <2> QED
    BY <2>1, SumEmpty
<1>2. \A U \in SUBSET S : U # {} => \E x \in U : U \ {x} \in F => U \in F
  <2> SUFFICES ASSUME NEW U \in SUBSET S, NEW x \in U, U \ {x} \in F
               PROVE  U \in F
    OBVIOUS
  <2> DEFINE V == U \ {x}
             N == V \cap T
  <2>1. IsFiniteSet(U) /\ IsFiniteSet(U \cap T) /\ IsFiniteSet(V) /\ IsFiniteSet(N)
    BY FS_Subset
  <2>2. SumFunctionOnSet(f, U) = f[x] + SumFunctionOnSet(f, V)
    BY <2>1, SumRemove
  <2>3. SumFunctionOnSet(f, U \cap T) \in {SumFunctionOnSet(f, N), f[x] + SumFunctionOnSet(f, N)}
    <3>1. CASE x \in T
      <4>1. (U \cap T) \ {x} = N
        OBVIOUS
      <4> QED
        BY <2>1, <3>1, <4>1, SumRemove
    <3>2. CASE x \notin T
      <4>1. U \cap T = N
        BY <3>2
      <4> QED
        BY <4>1
    <3> QED
      BY <3>1, <3>2
  <2>4. SumFunctionOnSet(f, N) \in Nat /\ SumFunctionOnSet(f, V) \in Nat /\ f[x] \in Nat
    BY <2>1, SumNat
  <2>5. SumFunctionOnSet(f, N) <= SumFunctionOnSet(f, V)
    OBVIOUS
  <2>6. SumFunctionOnSet(f, U \cap T) <= SumFunctionOnSet(f, U)
    <3> HIDE DEF V, N
    <3> QED
      BY <2>2, <2>3, <2>4, <2>5
  <2> QED
    BY <2>6
<1>3. \A U \in SUBSET S : U \in F
  <2> HIDE DEF F
  <2> QED
    BY <1>1, <1>2, FiniteInductive
<1>4. S \cap T = T
  OBVIOUS
<1> QED
  BY <1>3, <1>4

\* A sum may be split in two.
LEMMA SumDisjoint ==
    ASSUME NEW f, NEW S, IsFiniteSet(S), NEW T \in SUBSET S, \A x \in S : f[x] \in Int
    PROVE  SumFunctionOnSet(f, S) = SumFunctionOnSet(f, T) + SumFunctionOnSet(f, S \ T)
<1> DEFINE Sum(X) == SumFunctionOnSet(f, X)
           F == {U \in SUBSET S : Sum(U) = Sum(U \cap T) + Sum(U \ T)}
<1>0. \A U \in SUBSET S : Sum(U) \in Int /\ IsFiniteSet(U)
  BY SumType, FS_Subset
<1>1. {} \in F
  <2>1. {} \cap T = {} /\ {} \ T = {}
    OBVIOUS
  <2> QED
    BY <2>1, SumEmpty
<1>2. \A U \in SUBSET S : U # {} => \E x \in U : U \ {x} \in F => U \in F
  <2> SUFFICES ASSUME NEW U \in SUBSET S, NEW x \in U, U \ {x} \in F
               PROVE  U \in F
    OBVIOUS
  <2> DEFINE V == U \ {x}
  <2>1. Sum(U) = f[x] + Sum(V)
    BY <1>0, SumRemove
  <2>2. Sum(V) = Sum(V \cap T) + Sum(V \ T)
    OBVIOUS
  <2>3. f[x] \in Int /\ Sum(V \cap T) \in Int /\ Sum(V \ T) \in Int
    BY <1>0
  <2>4. CASE x \in T
    <3>1. (U \cap T) \ {x} = V \cap T /\ U \ T = V \ T
      BY <2>4
    <3>2. Sum(U \cap T) = f[x] + Sum((U \cap T) \ {x})
      <4>1. x \in U \cap T /\ IsFiniteSet(U \cap T) /\ \A y \in U \cap T : f[y] \in Int
        BY <1>0, <2>4
      <4> QED
        BY <4>1, SumRemove
    <3>3. Sum(U \cap T) = f[x] + Sum(V \cap T) /\ Sum(U \ T) = Sum(V \ T)
      BY <3>1, <3>2
    <3>4. Sum(U) = Sum(U \cap T) + Sum(U \ T)
      BY <2>1, <2>2, <2>3, <3>3
    <3> QED
      BY <3>4
  <2>5. CASE x \notin T
    <3>1. (U \ T) \ {x} = V \ T /\ U \cap T = V \cap T
      BY <2>5
    <3>2. Sum(U \ T) = f[x] + Sum((U \ T) \ {x})
      <4>1. x \in U \ T /\ IsFiniteSet(U \ T) /\ \A y \in U \ T : f[y] \in Int
        BY <1>0, <2>5
      <4> QED
        BY <4>1, SumRemove
    <3>3. Sum(U \ T) = f[x] + Sum(V \ T) /\ Sum(U \cap T) = Sum(V \cap T)
      BY <3>1, <3>2
    <3>4. Sum(U) = Sum(U \cap T) + Sum(U \ T)
      BY <2>1, <2>2, <2>3, <3>3
    <3> QED
      BY <3>4
  <2> QED
    BY <2>4, <2>5
<1>3. \A U \in SUBSET S : U \in F
  <2> HIDE DEF F
  <2> QED
    BY <1>1, <1>2, FiniteInductive
<1>4. S \cap T = T
  OBVIOUS
<1> QED
  BY <1>3, <1>4

\* What e contributes to the sum of f over S.
Share(f, S, e) == IF e \in S THEN f[e] ELSE 0

\* The share of e and the rest.
LEMMA SumSplits ==
    ASSUME NEW f, NEW S, IsFiniteSet(S), NEW e, \A x \in S : f[x] \in Int
    PROVE  /\ SumFunctionOnSet(f, S) = Share(f, S, e) + SumFunctionOnSet(f, S \ {e})
           /\ SumFunctionOnSet(f, S \ {e}) \in Int
           /\ Share(f, S, e) \in Int
<1>1. SumFunctionOnSet(f, S \ {e}) \in Int
  BY FS_RemoveElement, SumType
<1>2. CASE e \in S
  BY <1>1, <1>2, SumRemove DEF Share
<1>3. CASE e \notin S
  <2>1. S \ {e} = S
    BY <1>3
  <2>2. SumFunctionOnSet(f, S) = SumFunctionOnSet(f, S \ {e})
    BY <2>1
  <2> QED
    BY <1>1, <1>3, <2>2 DEF Share
<1> QED
  BY <1>2, <1>3

\* Where at most e enters, leaves or changes its value, the sum changes by the
\* difference of its shares.
LEMMA SumChanges ==
    ASSUME NEW f, NEW g, NEW S, IsFiniteSet(S), NEW T, IsFiniteSet(T), NEW e,
           \A x \in S : f[x] \in Int, \A x \in T : g[x] \in Int,
           S \ {e} = T \ {e}, \A x \in S \ {e} : f[x] = g[x]
    PROVE  SumFunctionOnSet(g, T) =
              SumFunctionOnSet(f, S) + (Share(g, T, e) - Share(f, S, e))
<1> DEFINE F == SumFunctionOnSet(f, S \ {e})
           G == SumFunctionOnSet(g, T \ {e})
<1>1. SumFunctionOnSet(f, S) = Share(f, S, e) + F /\ F \in Int /\ Share(f, S, e) \in Int
  BY SumSplits
<1>2. SumFunctionOnSet(g, T) = Share(g, T, e) + G /\ G \in Int /\ Share(g, T, e) \in Int
  BY SumSplits
<1>3. F = G
  <2> DEFINE R == S \ {e}
  <2>1. IsFiniteSet(R) /\ R = T \ {e} /\ \A x \in R : f[x] = g[x]
    BY FS_RemoveElement
  <2>2. SumFunctionOnSet(f, R) = SumFunctionOnSet(g, R)
    <3> HIDE DEF R
    <3> QED
      BY <2>1, SumCongruent
  <2> QED
    <3> HIDE DEF R
    <3> QED
      BY <2>1, <2>2 DEF R
<1> HIDE DEF F, G
<1> QED
  BY <1>1, <1>2, <1>3

\* A sum of zeros.
LEMMA SumZero ==
    ASSUME NEW f, NEW S, IsFiniteSet(S), \A x \in S : f[x] = 0
    PROVE  SumFunctionOnSet(f, S) = 0
<1> DEFINE F == {T \in SUBSET S : SumFunctionOnSet(f, T) = 0}
<1>1. {} \in F
  BY SumEmpty
<1>2. \A T \in SUBSET S : T # {} => \E x \in T : T \ {x} \in F => T \in F
  <2> SUFFICES ASSUME NEW T \in SUBSET S, T # {}
               PROVE  \E x \in T : T \ {x} \in F => T \in F
    OBVIOUS
  <2>1. PICK x \in T : TRUE
    OBVIOUS
  <2>2. IsFiniteSet(T) /\ \A y \in T : f[y] \in Int
    BY FS_Subset
  <2>3. SumFunctionOnSet(f, T) = f[x] + SumFunctionOnSet(f, T \ {x}) /\ f[x] = 0
    BY <2>2, SumRemove
  <2> QED BY <2>3
<1>3. \A T \in SUBSET S : T \in F
  <2> HIDE DEF F
  <2> QED BY <1>1, <1>2, FiniteInductive
<1> QED BY <1>3

-----------------------------------------------------------------------------
(* Counting                                                                 *)

\* The pairs of a finite relation are counted by their first member.
LEMMA SumCounts ==
    ASSUME NEW A, IsFiniteSet(A), NEW B, IsFiniteSet(B), NEW P \in SUBSET (A \X B),
           NEW g, \A a \in A : g[a] \in SUBSET B,
           \A a \in A : \A b \in B : b \in g[a] <=> <<a, b>> \in P,
           NEW f, \A a \in A : f[a] = Cardinality(g[a])
    PROVE  Cardinality(P) = SumFunctionOnSet(f, A)
<1> DEFINE Row(a) == g[a]
           Pairs(T) == {p \in T \X B : p \in P}
           Sum(T) == SumFunctionOnSet(f, T)
           F == {T \in SUBSET A : Cardinality(Pairs(T)) = Sum(T)}
<1>1. {} \in F
  <2>1. Pairs({}) = {}
    OBVIOUS
  <2> QED BY <2>1, SumEmpty, FS_EmptySet
<1>2. ASSUME NEW T \in SUBSET A, T # {}
      PROVE  \E x \in T : T \ {x} \in F => T \in F
  <2>1. PICK x \in T : TRUE
    BY <1>2
  <2> DEFINE U == T \ {x}
             N == {<<x, b>> : b \in Row(x)}
  <2>2. IsFiniteSet(T) /\ IsFiniteSet(U) /\ IsFiniteSet(Row(x)) /\ IsFiniteSet(U \X B)
    BY FS_Subset, FS_Product
  <2>3. IsFiniteSet(Pairs(U))
    BY <2>2, FS_Subset
  <2>4. IsFiniteSet(N) /\ Cardinality(N) = Cardinality(Row(x))
    <3> DEFINE h == [b \in Row(x) |-> <<x, b>>]
    <3>1. h \in Bijection(Row(x), N)
      BY DEF Bijection, Injection, Surjection, IsInjective
    <3> HIDE DEF h, N, Row
    <3>2. ExistsBijection(Row(x), N)
      BY <3>1 DEF ExistsBijection
    <3> QED BY <2>2, <3>2, FS_Bijection
  <2>5. /\ Pairs(T) = Pairs(U) \union N
        /\ Pairs(U) \intersect N = {}
    <3>1. ASSUME NEW p PROVE p \in Pairs(T) <=> p \in Pairs(U) \/ p \in N
      <4>1. ASSUME p \in Pairs(T) PROVE p \in Pairs(U) \/ p \in N
        <5>1. PICK a \in T, b \in B : p = <<a, b>> /\ p \in P
          BY <4>1
        <5>2. CASE a = x
          BY <5>1, <5>2
        <5>3. CASE a # x
          BY <5>1, <5>3
        <5> QED BY <5>2, <5>3
      <4>2. ASSUME p \in Pairs(U) PROVE p \in Pairs(T)
        BY <4>2
      <4>3. ASSUME p \in N PROVE p \in Pairs(T)
        <5>1. PICK b \in Row(x) : p = <<x, b>>
          BY <4>3
        <5> QED BY <5>1
      <4> QED BY <4>1, <4>2, <4>3
    <3>2. ASSUME NEW p \in Pairs(U), p \in N PROVE FALSE
      <4>1. PICK b \in Row(x) : p = <<x, b>>
        BY <3>2
      <4>2. p[1] \in U
        BY <3>2
      <4> QED BY <4>1, <4>2
    <3> HIDE DEF Pairs, N
    <3> QED BY <3>1, <3>2
  <2>6. Cardinality(Pairs(T)) = Cardinality(Pairs(U)) + Cardinality(Row(x))
    <3> HIDE DEF Pairs, N, U, Row
    <3>1. Cardinality(Pairs(U) \union N) =
             Cardinality(Pairs(U)) + Cardinality(N) - Cardinality(Pairs(U) \intersect N)
      BY <2>3, <2>4, FS_Union
    <3>2. Cardinality({}) = 0 /\ Cardinality(Row(x)) \in Nat /\ Cardinality(Pairs(U)) \in Nat
      BY <2>2, <2>3, FS_EmptySet, FS_CardinalityType
    <3>3. /\ Cardinality(Pairs(U) \union N) = Cardinality(Pairs(T))
          /\ Cardinality(Pairs(U) \intersect N) = Cardinality({})
      BY <2>5
    <3> QED BY <2>4, <3>1, <3>2, <3>3
  <2>7. \A a \in A : f[a] \in Int
    <3> SUFFICES ASSUME NEW a \in A PROVE f[a] \in Int
      OBVIOUS
    <3>1. IsFiniteSet(g[a])
      BY FS_Subset
    <3> QED BY <3>1, FS_CardinalityType
  <2>8. Sum(T) = f[x] + Sum(U) /\ Sum(U) \in Int
    BY <2>2, <2>7, SumRemove, SumType
  <2>9. f[x] = Cardinality(Row(x)) /\ f[x] \in Int
    BY <2>7
  <2>10. ASSUME U \in F PROVE T \in F
    <3>1. Cardinality(Pairs(U)) = Sum(U)
      BY <2>10
    <3> HIDE DEF Pairs, Sum, Row, U
    <3>2. Cardinality(Pairs(T)) = Sum(T)
      BY <2>6, <2>8, <2>9, <3>1
    <3> QED BY <3>2
  <2> QED BY <2>10
<1> HIDE DEF F
<1>3. A \in F
  <2>1. \A T \in SUBSET A : T # {} => \E x \in T : T \ {x} \in F => T \in F
    BY <1>2
  <2>2. \A T \in SUBSET A : T \in F
    BY <1>1, <2>1, FiniteInductive
  <2> QED BY <2>2
<1>4. Pairs(A) = P
  OBVIOUS
<1>5. Cardinality(Pairs(A)) = Sum(A)
  BY <1>3 DEF F
<1> HIDE DEF Pairs
<1> QED BY <1>4, <1>5
=============================================================================
