----------------------------- MODULE SumTheorems -----------------------------
(***************************************************************************)
(* Facts about SumFunctionOnSet, the sum of a function's values over a     *)
(* finite set, and SumFunction, the sum over its domain: what every total  *)
(* of this project is (stock used, money paid, rows returned).             *)
(*                                                                         *)
(* The sum is defined by recursion over subsets.  Facts about it are       *)
(* proved by induction over the subsets of a finite set, in the form of    *)
(* SubsetInduction: a set G of subsets stands for the property, so that no *)
(* prover has to instantiate an operator.                                  *)
(***************************************************************************)
EXTENDS Integers, FiniteSets, Functions, FiniteSetTheorems, WellFoundedInduction, TLAPS

\* If a subset of S is in G whenever its proper subsets are, all of them are.
LEMMA SubsetInduction ==
  ASSUME NEW S, IsFiniteSet(S), NEW G, G \subseteq SUBSET S,
         \A T \in SUBSET S : (\A U \in SUBSET T : U # T => U \in G) => T \in G
  PROVE  G = SUBSET S
<1> DEFINE R == StrictSubsetOrdering(S)
           B == (SUBSET S) \ G
           D == SUBSET S
<1>1. SUFFICES ASSUME B # {} PROVE FALSE
  OBVIOUS
<1>2. IsWellFoundedOn(R, D)
  BY FS_FiniteSubsetsOfFinite, FS_StrictSubsetOrderingWellFounded, Zenon
<1>3. B \subseteq D
  OBVIOUS
<1>4. \E T \in B : \A U \in B : ~ (<<U, T>> \in R)
  <2>1. \A RR, SS, TT : IsWellFoundedOn(RR, SS) /\ TT \subseteq SS /\ TT # {} =>
          \E x \in TT : \A y \in TT : ~ (<<y, x>> \in RR)
    BY WFMin
  <2> HIDE DEF R, B, D
  <2> QED
    BY <1>1, <1>2, <1>3, <2>1
<1> QED
  BY <1>4 DEF StrictSubsetOrdering

\* The same, one element at a time.
LEMMA ElementInduction ==
  ASSUME NEW S, IsFiniteSet(S), NEW G, {} \in G,
         \A T \in SUBSET S : \A x \in T : T \ {x} \in G => T \in G
  PROVE  S \in G
<1> DEFINE H == G \cap SUBSET S
<1>1. ASSUME NEW T \in SUBSET S, \A U \in SUBSET T : U # T => U \in H
      PROVE  T \in H
  <2>1. CASE T = {}
    BY <2>1
  <2>2. CASE T # {}
    <3>1. PICK x \in T : TRUE
      BY <2>2
    <3>2. T \ {x} \in H
      BY <1>1, <3>1
    <3> QED
      BY <3>1, <3>2
  <2> QED
    BY <2>1, <2>2
<1>2. H = SUBSET S
  <2>1. H \subseteq SUBSET S
    OBVIOUS
  <2> HIDE DEF H
  <2> QED
    BY <1>1, <2>1, SubsetInduction
<1> QED
  BY <1>2

\* Zero is in G and the successor of each number in G is: all of them are.
LEMMA CountingInduction ==
  ASSUME NEW G, 0 \in G, \A n \in Nat : n \in G => n + 1 \in G
  PROVE  \A n \in Nat : n \in G
<1> DEFINE R == OpToRel(<, Nat)
           B == Nat \ G
<1> SUFFICES ASSUME B # {} PROVE FALSE
  OBVIOUS
<1>1. IsWellFoundedOn(R, Nat)
  BY NatLessThanWellFounded
<1>2. \E x \in B : \A y \in B : ~ (<<y, x>> \in R)
  <2>1. \A RR, SS, TT : IsWellFoundedOn(RR, SS) /\ TT \subseteq SS /\ TT # {} =>
          \E x \in TT : \A y \in TT : ~ (<<y, x>> \in RR)
    BY WFMin
  <2>2. B \subseteq Nat
    OBVIOUS
  <2> HIDE DEF R, B
  <2> QED
    BY <1>1, <2>1, <2>2
<1>3. PICK x \in B : \A y \in B : ~ (<<y, x>> \in R)
  BY <1>2
<1>4. \A y \in Nat : y < x => y \notin B
  BY <1>3 DEF OpToRel
<1>5. x # 0 /\ x - 1 \in Nat /\ x - 1 < x
  OBVIOUS
<1>6. x - 1 \in G /\ (x - 1) + 1 = x
  BY <1>4, <1>5
<1> QED
  BY <1>5, <1>6

----------------------------------------------------------------------------
(* The recursion has a solution                                            *)

\* The equation of the recursion: g[s] from the values of g on smaller sets.
SumBody(f, g, s) ==
  IF s = {} THEN 0 ELSE f[CHOOSE x \in s : TRUE] + g[s \ {CHOOSE x \in s : TRUE}]

SolvesSum(f, g, S) == g = [s \in SUBSET S |-> SumBody(f, g, s)]

SumIter(f, S) == CHOOSE g : SolvesSum(f, g, S)

LEMMA SumIsIter ==
  ASSUME NEW f, NEW S
  PROVE  SumFunctionOnSet(f, S) = SumIter(f, S)[S]
BY DEF SumFunctionOnSet, FoldFunctionOnSet, MapThenFoldSet, SumIter, SolvesSum, SumBody

\* Solutions over two sets are equal where both are defined.
LEMMA SolutionsAgree ==
  ASSUME NEW f, NEW S, IsFiniteSet(S), NEW g, SolvesSum(f, g, S),
         NEW T, T \subseteq S, NEW h, SolvesSum(f, h, T)
  PROVE  \A U \in SUBSET T : g[U] = h[U]
<1> DEFINE G == {U \in SUBSET T : g[U] = h[U]}
<1>1. IsFiniteSet(T)
  BY FS_Subset
<1>2. ASSUME NEW U \in SUBSET T, \A V \in SUBSET U : V # U => V \in G
      PROVE  U \in G
  <2>1. g[U] = SumBody(f, g, U) /\ h[U] = SumBody(f, h, U)
    BY DEF SolvesSum
  <2>2. CASE U = {}
    BY <2>1, <2>2 DEF SumBody
  <2>3. CASE U # {}
    <3> DEFINE x == CHOOSE y \in U : TRUE
    <3>1. x \in U
      BY <2>3
    <3>2. U \ {x} \in G
      BY <3>1, <1>2
    <3> QED
      BY <2>1, <2>3, <3>2 DEF SumBody
  <2> QED
    BY <2>2, <2>3
<1>3. G = SUBSET T
  <2> HIDE DEF G
  <2>1. G \subseteq SUBSET T
    BY DEF G
  <2> QED
    BY <1>1, <1>2, <2>1, SubsetInduction
<1> QED
  BY <1>3

\* A solution over T is put together from those over its proper subsets.
LEMMA IterSolves ==
  ASSUME NEW f, NEW S, IsFiniteSet(S)
  PROVE  \A T \in SUBSET S : SolvesSum(f, SumIter(f, T), T)
<1> DEFINE G == {T \in SUBSET S : SolvesSum(f, SumIter(f, T), T)}
<1>1. ASSUME NEW T \in SUBSET S, \A U \in SUBSET T : U # T => U \in G
      PROVE  T \in G
  <2> DEFINE part(U) == SumIter(f, U)[U]
             low == [U \in SUBSET T |-> part(U)]
             g == [U \in SUBSET T |-> IF U = T THEN SumBody(f, low, T) ELSE part(U)]
  <2>1. ASSUME NEW U \in SUBSET T PROVE g[U] = SumBody(f, g, U)
    <3> DEFINE x == CHOOSE y \in U : TRUE
    <3>1. CASE U = {}
      <4>1. CASE U = T
        BY <3>1, <4>1 DEF SumBody
      <4>2. CASE U # T
        <5>1. SolvesSum(f, SumIter(f, U), U)
          BY <1>1, <4>2
        <5> QED
          BY <3>1, <4>2, <5>1 DEF SumBody, SolvesSum
      <4> QED
        BY <4>1, <4>2
    <3>2. CASE U # {} /\ U = T
      <4>1. x \in U /\ T \ {x} # T /\ T \ {x} \in SUBSET T
        BY <3>2
      <4>2. g[T \ {x}] = low[T \ {x}]
        BY <4>1
      <4> QED
        BY <3>2, <4>1, <4>2 DEF SumBody
    <3>3. CASE U # {} /\ U # T
      <4>1. x \in U /\ U \ {x} # U /\ U \ {x} # T
        BY <3>3
      <4>2. SolvesSum(f, SumIter(f, U), U) /\ SolvesSum(f, SumIter(f, U \ {x}), U \ {x})
        BY <1>1, <3>3, <4>1
      <4>3. SumIter(f, U)[U] = SumBody(f, SumIter(f, U), U)
        BY <4>2 DEF SolvesSum
      <4>4. SumIter(f, U)[U \ {x}] = SumIter(f, U \ {x})[U \ {x}]
        <5>1. IsFiniteSet(U)
          BY FS_Subset
        <5> QED
          BY <4>2, <5>1, SolutionsAgree
      <4>5. g[U] = SumIter(f, U)[U] /\ g[U \ {x}] = SumIter(f, U \ {x})[U \ {x}]
        BY <3>3, <4>1
      <4> QED
        BY <3>3, <4>3, <4>4, <4>5 DEF SumBody
    <3> QED
      BY <3>1, <3>2, <3>3
  <2>2. g = [U \in SUBSET T |-> SumBody(f, g, U)]
    BY <2>1
  <2>3. SolvesSum(f, g, T)
    BY <2>2 DEF SolvesSum
  <2>4. SolvesSum(f, SumIter(f, T), T)
    <3> HIDE DEF g
    <3> QED
      BY <2>3 DEF SumIter
  <2> QED
    BY <2>4
<1>2. G = SUBSET S
  <2> HIDE DEF G
  <2>1. G \subseteq SUBSET S
    BY DEF G
  <2> QED
    BY <1>1, <2>1, SubsetInduction
<1> QED
  BY <1>2

\* The two equations of the recursion.
LEMMA SumEmpty ==
  ASSUME NEW f
  PROVE  SumFunctionOnSet(f, {}) = 0
<1>1. SolvesSum(f, SumIter(f, {}), {})
  BY IterSolves, FS_EmptySet
<1> QED
  BY <1>1, SumIsIter DEF SolvesSum, SumBody

LEMMA SumChosen ==
  ASSUME NEW f, NEW S, IsFiniteSet(S), S # {}
  PROVE  \E x \in S : SumFunctionOnSet(f, S) = f[x] + SumFunctionOnSet(f, S \ {x})
<1> DEFINE x == CHOOSE y \in S : TRUE
<1>1. x \in S
  OBVIOUS
<1>2. SolvesSum(f, SumIter(f, S), S) /\ SolvesSum(f, SumIter(f, S \ {x}), S \ {x})
  BY IterSolves
<1>3. SumIter(f, S)[S \ {x}] = SumIter(f, S \ {x})[S \ {x}]
  BY <1>2, SolutionsAgree
<1>4. SumIter(f, S)[S] = f[x] + SumIter(f, S)[S \ {x}]
  BY <1>2 DEF SolvesSum, SumBody
<1> QED
  BY <1>1, <1>3, <1>4, SumIsIter

----------------------------------------------------------------------------
(* The laws of sums                                                        *)

\* Any element may be taken out first: the order of summation is of no account.
THEOREM SumRemove ==
  ASSUME NEW S, IsFiniteSet(S), NEW f, \A x \in S : f[x] \in Int
  PROVE  /\ SumFunctionOnSet(f, S) \in Int
         /\ \A x \in S : SumFunctionOnSet(f, S) = f[x] + SumFunctionOnSet(f, S \ {x})
<1> DEFINE sum(T) == SumFunctionOnSet(f, T)
           G == {T \in SUBSET S : /\ sum(T) \in Int
                                  /\ \A x \in T : sum(T) = f[x] + sum(T \ {x})}
<1>1. ASSUME NEW T \in SUBSET S, \A U \in SUBSET T : U # T => U \in G
      PROVE  T \in G
  <2>1. CASE T = {}
    BY <2>1, SumEmpty
  <2>2. CASE T # {}
    <3>1. IsFiniteSet(T)
      BY FS_Subset
    <3>2. PICK y \in T : sum(T) = f[y] + sum(T \ {y})
      BY <2>2, <3>1, SumChosen
    <3>3. T \ {y} \in G
      BY <1>1, <3>2
    <3>4. sum(T) \in Int
      BY <3>2, <3>3
    <3>5. ASSUME NEW x \in T, x # y PROVE sum(T) = f[x] + sum(T \ {x})
      <4>1. T \ {x} \in G
        BY <1>1, <3>5
      <4>2. x \in T \ {y} /\ y \in T \ {x} /\ (T \ {y}) \ {x} = (T \ {x}) \ {y}
        BY <3>5
      <4>3. (T \ {y}) \ {x} \in G
        BY <1>1, <3>2, <4>2
      <4>4. /\ sum(T \ {y}) = f[x] + sum((T \ {y}) \ {x})
            /\ sum(T \ {x}) = f[y] + sum((T \ {y}) \ {x})
        BY <3>3, <4>1, <4>2
      <4>5. f[x] \in Int /\ f[y] \in Int /\ sum((T \ {y}) \ {x}) \in Int
        BY <4>3
      <4> HIDE DEF sum
      <4> QED
        BY <3>2, <4>4, <4>5
    <3> QED
      BY <3>2, <3>4, <3>5
  <2> QED
    BY <2>1, <2>2
<1>2. G = SUBSET S
  <2> HIDE DEF G
  <2>1. G \subseteq SUBSET S
    BY DEF G
  <2> QED
    BY <1>1, <2>1, SubsetInduction
<1> QED
  BY <1>2

LEMMA SumAdd ==
  ASSUME NEW S, IsFiniteSet(S), NEW f, NEW x, x \notin S, f[x] \in Int,
         \A y \in S : f[y] \in Int
  PROVE  SumFunctionOnSet(f, S \cup {x}) = f[x] + SumFunctionOnSet(f, S)
<1> DEFINE T == S \cup {x}
<1>1. IsFiniteSet(T) /\ x \in T /\ T \ {x} = S /\ \A y \in T : f[y] \in Int
  BY FS_AddElement
<1> HIDE DEF T
<1>2. SumFunctionOnSet(f, T) = f[x] + SumFunctionOnSet(f, T \ {x})
  BY <1>1, SumRemove
<1> QED
  BY <1>1, <1>2 DEF T

\* A sum depends on the values over its set only.
LEMMA SumSame ==
  ASSUME NEW S, IsFiniteSet(S), NEW f, NEW g,
         \A x \in S : f[x] \in Int /\ f[x] = g[x]
  PROVE  SumFunctionOnSet(f, S) = SumFunctionOnSet(g, S)
<1> DEFINE G == {T \in SUBSET S : SumFunctionOnSet(f, T) = SumFunctionOnSet(g, T)}
<1>1. {} \in G
  BY SumEmpty
<1>2. ASSUME NEW T \in SUBSET S, NEW x \in T, T \ {x} \in G PROVE T \in G
  <2>1. IsFiniteSet(T)
    BY FS_Subset
  <2>2. /\ SumFunctionOnSet(f, T) = f[x] + SumFunctionOnSet(f, T \ {x})
        /\ SumFunctionOnSet(g, T) = g[x] + SumFunctionOnSet(g, T \ {x})
    BY <2>1, SumRemove
  <2> QED
    BY <1>2, <2>2
<1> HIDE DEF G
<1>3. S \in G
  BY <1>1, <1>2, ElementInduction
<1> QED
  BY <1>3 DEF G

LEMMA SumNat ==
  ASSUME NEW S, IsFiniteSet(S), NEW f, \A x \in S : f[x] \in Nat
  PROVE  SumFunctionOnSet(f, S) \in Nat
<1> DEFINE G == {T \in SUBSET S : SumFunctionOnSet(f, T) \in Nat}
<1>1. {} \in G
  BY SumEmpty
<1>2. ASSUME NEW T \in SUBSET S, NEW x \in T, T \ {x} \in G PROVE T \in G
  <2>1. IsFiniteSet(T)
    BY FS_Subset
  <2>2. SumFunctionOnSet(f, T) = f[x] + SumFunctionOnSet(f, T \ {x})
    BY <2>1, SumRemove
  <2> QED
    BY <1>2, <2>2
<1> HIDE DEF G
<1>3. S \in G
  BY <1>1, <1>2, ElementInduction
<1> QED
  BY <1>3 DEF G

\* One value changes.
LEMMA SumReplace ==
  ASSUME NEW S, IsFiniteSet(S), NEW f, NEW g, NEW x \in S,
         \A y \in S : f[y] \in Int /\ g[y] \in Int,
         \A y \in S \ {x} : f[y] = g[y]
  PROVE  SumFunctionOnSet(g, S) = SumFunctionOnSet(f, S) - f[x] + g[x]
<1>1. IsFiniteSet(S \ {x})
  BY FS_Subset
<1>2. SumFunctionOnSet(f, S \ {x}) = SumFunctionOnSet(g, S \ {x})
  BY <1>1, SumSame
<1>3. SumFunctionOnSet(f, S \ {x}) \in Int
  BY <1>1, SumRemove
<1>4. /\ SumFunctionOnSet(f, S) = f[x] + SumFunctionOnSet(f, S \ {x})
      /\ SumFunctionOnSet(g, S) = g[x] + SumFunctionOnSet(g, S \ {x})
  BY SumRemove
<1>5. f[x] \in Int /\ g[x] \in Int
  OBVIOUS
<1> QED
  BY <1>2, <1>3, <1>4, <1>5

\* Pointwise addition.
LEMMA SumPlus ==
  ASSUME NEW S, IsFiniteSet(S), NEW f, NEW g, NEW h,
         \A x \in S : f[x] \in Int /\ g[x] \in Int /\ h[x] = f[x] + g[x]
  PROVE  SumFunctionOnSet(h, S) = SumFunctionOnSet(f, S) + SumFunctionOnSet(g, S)
<1> DEFINE sum(k, T) == SumFunctionOnSet(k, T)
           G == {T \in SUBSET S : sum(h, T) = sum(f, T) + sum(g, T)}
<1>1. {} \in G
  BY SumEmpty
<1>2. ASSUME NEW T \in SUBSET S, NEW x \in T, T \ {x} \in G PROVE T \in G
  <2>1. IsFiniteSet(T) /\ IsFiniteSet(T \ {x})
    BY FS_Subset
  <2>2. /\ sum(f, T) = f[x] + sum(f, T \ {x}) /\ sum(f, T \ {x}) \in Int
        /\ sum(g, T) = g[x] + sum(g, T \ {x}) /\ sum(g, T \ {x}) \in Int
        /\ sum(h, T) = h[x] + sum(h, T \ {x})
    BY <2>1, SumRemove
  <2>3. f[x] \in Int /\ g[x] \in Int /\ h[x] = f[x] + g[x]
    OBVIOUS
  <2>4. sum(h, T \ {x}) = sum(f, T \ {x}) + sum(g, T \ {x})
    BY <1>2
  <2> HIDE DEF sum
  <2>5. sum(h, T) = sum(f, T) + sum(g, T)
    BY <2>2, <2>3, <2>4
  <2> QED
    BY <2>5
<1> HIDE DEF G
<1>3. S \in G
  BY <1>1, <1>2, ElementInduction
<1> QED
  BY <1>3 DEF G

LEMMA SumUnion ==
  ASSUME NEW S, IsFiniteSet(S), NEW U, IsFiniteSet(U), S \cap U = {}, NEW f,
         \A x \in S \cup U : f[x] \in Int
  PROVE  SumFunctionOnSet(f, S \cup U) = SumFunctionOnSet(f, S) + SumFunctionOnSet(f, U)
<1> DEFINE sum(T) == SumFunctionOnSet(f, T)
           G == {T \in SUBSET S : sum(T \cup U) = sum(T) + sum(U)}
<1>0. sum(U) \in Int
  BY SumRemove
<1>1. {} \in G
  <2>1. {} \cup U = U
    OBVIOUS
  <2> QED
    BY <1>0, <2>1, SumEmpty
<1>2. ASSUME NEW T \in SUBSET S, NEW x \in T, T \ {x} \in G PROVE T \in G
  <2>1. IsFiniteSet(T) /\ IsFiniteSet(T \cup U) /\ IsFiniteSet(T \ {x})
    BY FS_Subset, FS_Union
  <2>2. x \in T \cup U /\ (T \cup U) \ {x} = (T \ {x}) \cup U /\ \A y \in T \cup U : f[y] \in Int
    OBVIOUS
  <2>3. /\ sum(T) = f[x] + sum(T \ {x}) /\ sum(T \ {x}) \in Int
        /\ sum(T \cup U) = f[x] + sum((T \ {x}) \cup U)
    BY <2>1, <2>2, SumRemove
  <2>4. sum((T \ {x}) \cup U) = sum(T \ {x}) + sum(U) /\ f[x] \in Int
    BY <1>2
  <2> HIDE DEF sum
  <2>5. sum(T \cup U) = sum(T) + sum(U)
    BY <1>0, <2>3, <2>4
  <2> QED
    BY <2>5
<1> HIDE DEF G
<1>3. S \in G
  BY <1>1, <1>2, ElementInduction
<1> QED
  BY <1>3 DEF G

LEMMA SumZero ==
  ASSUME NEW S, IsFiniteSet(S), NEW f, \A x \in S : f[x] = 0
  PROVE  SumFunctionOnSet(f, S) = 0
<1> DEFINE G == {T \in SUBSET S : SumFunctionOnSet(f, T) = 0}
<1>1. {} \in G
  BY SumEmpty
<1>2. ASSUME NEW T \in SUBSET S, NEW x \in T, T \ {x} \in G PROVE T \in G
  <2>1. IsFiniteSet(T)
    BY FS_Subset
  <2>2. SumFunctionOnSet(f, T) = f[x] + SumFunctionOnSet(f, T \ {x})
    BY <2>1, SumRemove
  <2> QED
    BY <1>2, <2>2
<1> HIDE DEF G
<1>3. S \in G
  BY <1>1, <1>2, ElementInduction
<1> QED
  BY <1>3 DEF G

\* Over a part of the set, where the rest counts nothing.
LEMMA SumPart ==
  ASSUME NEW S, IsFiniteSet(S), NEW T, T \subseteq S, NEW f,
         \A x \in S : f[x] \in Int, \A x \in S \ T : f[x] = 0
  PROVE  SumFunctionOnSet(f, S) = SumFunctionOnSet(f, T)
<1>1. IsFiniteSet(T) /\ IsFiniteSet(S \ T) /\ S = T \cup (S \ T) /\ T \cap (S \ T) = {}
  BY FS_Subset
<1>2. SumFunctionOnSet(f, T \cup (S \ T)) = SumFunctionOnSet(f, T) + SumFunctionOnSet(f, S \ T)
  BY <1>1, SumUnion
<1>3. SumFunctionOnSet(f, S \ T) = 0
  BY <1>1, SumZero
<1>4. SumFunctionOnSet(f, T) \in Int
  BY <1>1, SumRemove
<1>5. SumFunctionOnSet(f, S) = SumFunctionOnSet(f, T \cup (S \ T))
  BY <1>1, Zenon
<1> QED
  BY <1>2, <1>3, <1>4, <1>5

LEMMA SumLeq ==
  ASSUME NEW S, IsFiniteSet(S), NEW f, NEW g,
         \A x \in S : f[x] \in Int /\ g[x] \in Int /\ f[x] <= g[x]
  PROVE  SumFunctionOnSet(f, S) <= SumFunctionOnSet(g, S)
<1> DEFINE h == [x \in S |-> g[x] - f[x]]
<1>1. \A x \in S : h[x] \in Nat /\ g[x] = f[x] + h[x]
  OBVIOUS
<1> HIDE DEF h
<1>2. SumFunctionOnSet(h, S) \in Nat /\ SumFunctionOnSet(f, S) \in Int
  BY <1>1, SumNat, SumRemove
<1>3. SumFunctionOnSet(g, S) = SumFunctionOnSet(f, S) + SumFunctionOnSet(h, S)
  BY <1>1, SumPlus
<1> QED
  BY <1>2, <1>3

\* Sums that are equal although one adds up less: then term by term.
LEMMA SumSqueezed ==
  ASSUME NEW S, IsFiniteSet(S), NEW f, NEW g,
         \A x \in S : f[x] \in Int /\ g[x] \in Int /\ f[x] <= g[x],
         SumFunctionOnSet(g, S) <= SumFunctionOnSet(f, S)
  PROVE  \A x \in S : f[x] = g[x]
<1> DEFINE h == [x \in S |-> g[x] - f[x]]
<1>1. \A x \in S : h[x] \in Nat /\ g[x] = f[x] + h[x]
  OBVIOUS
<1> HIDE DEF h
<1>2. SumFunctionOnSet(g, S) = SumFunctionOnSet(f, S) + SumFunctionOnSet(h, S)
  BY <1>1, SumPlus
<1>3. SumFunctionOnSet(f, S) \in Int /\ SumFunctionOnSet(h, S) \in Int
  BY <1>1, SumRemove
<1> TAKE x \in S
<1>4. SumFunctionOnSet(h, S) = h[x] + SumFunctionOnSet(h, S \ {x})
  BY <1>1, SumRemove
<1>5. SumFunctionOnSet(h, S \ {x}) \in Nat
  BY <1>1, FS_Subset, SumNat
<1> QED
  BY <1>1, <1>2, <1>3, <1>4, <1>5

\* Two sums, each with a factor.
LEMMA SumLinear ==
  ASSUME NEW S, IsFiniteSet(S), NEW f, NEW g, NEW h, NEW p \in Int, NEW q \in Int,
         \A x \in S : f[x] \in Int /\ g[x] \in Int /\ h[x] = p * f[x] + q * g[x]
  PROVE  SumFunctionOnSet(h, S) = p * SumFunctionOnSet(f, S) + q * SumFunctionOnSet(g, S)
<1> DEFINE sum(k, T) == SumFunctionOnSet(k, T)
           G == {T \in SUBSET S : sum(h, T) = p * sum(f, T) + q * sum(g, T)}
<1>1. {} \in G
  BY SumEmpty
<1>2. ASSUME NEW T \in SUBSET S, NEW x \in T, T \ {x} \in G PROVE T \in G
  <2>1. IsFiniteSet(T) /\ IsFiniteSet(T \ {x})
    BY FS_Subset
  <2>2. f[x] \in Int /\ g[x] \in Int /\ h[x] = p * f[x] + q * g[x]
    OBVIOUS
  <2>3. \A y \in T : f[y] \in Int /\ g[y] \in Int /\ h[y] \in Int
    OBVIOUS
  <2>4. /\ sum(f, T) = f[x] + sum(f, T \ {x}) /\ sum(f, T \ {x}) \in Int
        /\ sum(g, T) = g[x] + sum(g, T \ {x}) /\ sum(g, T \ {x}) \in Int
        /\ sum(h, T) = h[x] + sum(h, T \ {x})
    BY <2>1, <2>3, SumRemove
  <2>5. sum(h, T \ {x}) = p * sum(f, T \ {x}) + q * sum(g, T \ {x})
    BY <1>2
  <2> HIDE DEF sum
  <2>6. sum(h, T) = p * sum(f, T) + q * sum(g, T)
    <3>1. \A a, b, c, d \in Int : (p * a + q * b) + (p * c + q * d) = p * (a + c) + q * (b + d)
      OBVIOUS
    <3> QED
      BY <2>2, <2>4, <2>5, <3>1
  <2> QED
    BY <2>6
<1> HIDE DEF G
<1>3. S \in G
  BY <1>1, <1>2, ElementInduction
<1> QED
  BY <1>3 DEF G

\* Values within c of zero.
LEMMA SumWithin ==
  ASSUME NEW S, IsFiniteSet(S), NEW c \in Nat, NEW f,
         \A x \in S : f[x] \in Int /\ -c <= f[x] /\ f[x] <= c
  PROVE  /\ -(c * Cardinality(S)) <= SumFunctionOnSet(f, S)
         /\ SumFunctionOnSet(f, S) <= c * Cardinality(S)
<1> DEFINE sum(T) == SumFunctionOnSet(f, T)
           n(T) == Cardinality(T)
           G == {T \in SUBSET S : -(c * n(T)) <= sum(T) /\ sum(T) <= c * n(T)}
<1>1. {} \in G
  BY SumEmpty, FS_EmptySet
<1>2. ASSUME NEW T \in SUBSET S, NEW x \in T, T \ {x} \in G PROVE T \in G
  <2>1. IsFiniteSet(T) /\ IsFiniteSet(T \ {x})
    BY FS_Subset
  <2>2. sum(T) = f[x] + sum(T \ {x}) /\ sum(T \ {x}) \in Int
    BY <2>1, SumRemove
  <2>3. n(T \ {x}) \in Nat /\ n(T \ {x}) = n(T) - 1 /\ n(T) \in Nat
    BY <2>1, FS_RemoveElement, FS_CardinalityType
  <2>4. -(c * n(T \ {x})) <= sum(T \ {x}) /\ sum(T \ {x}) <= c * n(T \ {x})
    BY <1>2
  <2>5. f[x] \in Int /\ -c <= f[x] /\ f[x] <= c
    OBVIOUS
  <2> HIDE DEF sum, n
  <2>6. c * n(T) = c * n(T \ {x}) + c
    <3>1. \A a \in Nat : c * (a + 1) = c * a + c
      OBVIOUS
    <3>2. n(T) = n(T \ {x}) + 1
      BY <2>3
    <3> QED
      BY <2>3, <3>1, <3>2
  <2>7. c * n(T \ {x}) \in Int
    BY <2>3
  <2>8. -(c * n(T)) <= sum(T) /\ sum(T) <= c * n(T)
    BY <2>2, <2>4, <2>5, <2>6, <2>7
  <2> QED
    BY <2>8
<1> HIDE DEF G
<1>3. S \in G
  BY <1>1, <1>2, ElementInduction
<1> QED
  BY <1>3 DEF G

\* Everything but one value is zero.
LEMMA SumOne ==
  ASSUME NEW S, IsFiniteSet(S), NEW f, NEW x \in S, f[x] \in Int, \A y \in S \ {x} : f[y] = 0
  PROVE  SumFunctionOnSet(f, S) = f[x]
<1>1. \A y \in S : f[y] \in Int
  OBVIOUS
<1>2. SumFunctionOnSet(f, S) = f[x] + SumFunctionOnSet(f, S \ {x})
  BY <1>1, SumRemove
<1>3. SumFunctionOnSet(f, S \ {x}) = 0
  BY FS_Subset, SumZero
<1> QED
  BY <1>2, <1>3

\* The same with the hypothesis named.
Adds(f, g, h, S) == \A x \in S : f[x] \in Int /\ g[x] \in Int /\ h[x] = f[x] + g[x]

LEMMA SumAdds ==
  ASSUME NEW S, IsFiniteSet(S), NEW f, NEW g, NEW h, Adds(f, g, h, S)
  PROVE  SumFunctionOnSet(h, S) = SumFunctionOnSet(f, S) + SumFunctionOnSet(g, S)
BY SumPlus DEF Adds

\* A table of integers, r[x] the sum of row x and c[y] that of column y.
IsTable(row, col, r, c, S, T) ==
  /\ \A x \in S : \A y \in T : row[x][y] \in Int /\ col[y][x] = row[x][y]
  /\ \A x \in S : r[x] = SumFunctionOnSet(row[x], T)
  /\ \A y \in T : c[y] = SumFunctionOnSet(col[y], S)

\* Its rows and its columns come to the same.
LEMMA SumSwap ==
  ASSUME NEW S, IsFiniteSet(S), NEW T, IsFiniteSet(T), NEW row, NEW col, NEW r, NEW c,
         IsTable(row, col, r, c, S, T)
  PROVE  SumFunctionOnSet(r, S) = SumFunctionOnSet(c, T)
<1> USE DEF IsTable
<1> DEFINE part(U) == [y \in T |-> SumFunctionOnSet(col[y], U)]
           G == {U \in SUBSET S : SumFunctionOnSet(r, U) = SumFunctionOnSet(part(U), T)}
<1>1. {} \in G
  <2>1. \A y \in T : part({})[y] = 0
    BY SumEmpty
  <2> HIDE DEF part
  <2>2. SumFunctionOnSet(part({}), T) = 0
    BY <2>1, SumZero
  <2> QED
    BY <2>2, SumEmpty
<1>2. ASSUME NEW U \in SUBSET S, NEW x \in U, U \ {x} \in G PROVE U \in G
  <2>1. IsFiniteSet(U) /\ IsFiniteSet(U \ {x})
    BY FS_Subset
  <2>2. \A y \in U : r[y] \in Int
    BY SumRemove
  <2>3. SumFunctionOnSet(r, U) = r[x] + SumFunctionOnSet(r, U \ {x})
    BY <2>1, <2>2, SumRemove
  <2>4. ASSUME NEW y \in T
        PROVE  /\ part(U)[y] = row[x][y] + part(U \ {x})[y]
               /\ row[x][y] \in Int /\ part(U \ {x})[y] \in Int
    <3>1. \A z \in U : col[y][z] \in Int
      OBVIOUS
    <3>2. /\ SumFunctionOnSet(col[y], U) = col[y][x] + SumFunctionOnSet(col[y], U \ {x})
          /\ SumFunctionOnSet(col[y], U \ {x}) \in Int
      BY <2>1, <3>1, SumRemove
    <3> QED
      BY <3>2
  <2> HIDE DEF part
  <2>5. SumFunctionOnSet(part(U), T) = SumFunctionOnSet(row[x], T) + SumFunctionOnSet(part(U \ {x}), T)
    <3>1. Adds(row[x], part(U \ {x}), part(U), T)
      BY <2>4 DEF Adds
    <3> QED
      BY <3>1, SumAdds
  <2>6. SumFunctionOnSet(r, U \ {x}) = SumFunctionOnSet(part(U \ {x}), T)
    BY <1>2 DEF part
  <2>7. r[x] = SumFunctionOnSet(row[x], T)
    OBVIOUS
  <2>8. SumFunctionOnSet(r, U) = SumFunctionOnSet(part(U), T)
    BY <2>3, <2>5, <2>6, <2>7
  <2> QED
    BY <2>8
<1>3. S \in G
  <2> HIDE DEF G
  <2> QED
    BY <1>1, <1>2, ElementInduction
<1>4. SumFunctionOnSet(r, S) = SumFunctionOnSet(part(S), T)
  BY <1>3
<1>5. \A y \in T : part(S)[y] \in Int /\ part(S)[y] = c[y]
  <2> TAKE y \in T
  <2>1. \A z \in S : col[y][z] \in Int
    OBVIOUS
  <2>2. SumFunctionOnSet(col[y], S) \in Int
    BY <2>1, SumRemove
  <2> QED
    BY <2>2
<1> HIDE DEF part
<1>6. SumFunctionOnSet(part(S), T) = SumFunctionOnSet(c, T)
  BY <1>5, SumSame
<1> QED
  BY <1>4, <1>6

\* What a function takes on a finite set is finite, and no larger.
LEMMA FiniteRange ==
  ASSUME NEW S, IsFiniteSet(S), NEW g
  PROVE  IsFiniteSet({g[x] : x \in S}) /\ Cardinality({g[x] : x \in S}) <= Cardinality(S)
<1> DEFINE T == {g[x] : x \in S}
           h == [x \in S |-> g[x]]
<1>1. h \in Surjection(S, T)
  BY DEF Surjection
<1> HIDE DEF h
<1> QED
  BY <1>1, FS_Surjection

\* Every element of S belongs to one group of T, h[t] the sum of group t.
GroupedBy(f, g, h, S, T) ==
  /\ \A x \in S : f[x] \in Int /\ g[x] \in T
  /\ \A t \in T : h[t] = SumFunctionOnSet(f, {x \in S : g[x] = t})

\* A total is the sum of the totals of its groups.
LEMMA SumGroups ==
  ASSUME NEW S, IsFiniteSet(S), NEW T, IsFiniteSet(T), NEW f, NEW g, NEW h, GroupedBy(f, g, h, S, T)
  PROVE  /\ SumFunctionOnSet(h, T) = SumFunctionOnSet(f, S)
         /\ \A t \in T : h[t] \in Int
<1> DEFINE row == [x \in S |-> [t \in T |-> IF g[x] = t THEN f[x] ELSE 0]]
           col == [t \in T |-> [x \in S |-> IF g[x] = t THEN f[x] ELSE 0]]
           of(t) == {x \in S : g[x] = t}
<1>1. \A x \in S : f[x] \in Int /\ g[x] \in T
  BY DEF GroupedBy
<1>2. \A x \in S : \A t \in T : /\ row[x][t] = (IF g[x] = t THEN f[x] ELSE 0)
                                /\ col[t][x] = row[x][t] /\ row[x][t] \in Int
  BY <1>1
<1> HIDE DEF row, col
<1>3. \A x \in S : f[x] = SumFunctionOnSet(row[x], T)
  <2> TAKE x \in S
  <2>1. g[x] \in T /\ row[x][g[x]] = f[x] /\ f[x] \in Int /\ \A t \in T \ {g[x]} : row[x][t] = 0
    BY <1>1, <1>2
  <2> DEFINE r == row[x]  t0 == g[x]
  <2>2. t0 \in T /\ r[t0] = f[x] /\ r[t0] \in Int /\ \A t \in T \ {t0} : r[t] = 0
    BY <2>1
  <2> HIDE DEF r, t0
  <2>3. SumFunctionOnSet(r, T) = f[x]
    BY <2>2, SumOne
  <2> QED
    BY <2>3 DEF r
<1>4. \A t \in T : h[t] = SumFunctionOnSet(col[t], S) /\ h[t] \in Int
  <2> TAKE t \in T
  <2> DEFINE c == col[t]
  <2>1. /\ of(t) \subseteq S /\ \A x \in S : c[x] \in Int
        /\ \A x \in S \ of(t) : c[x] = 0
        /\ \A x \in of(t) : f[x] \in Int /\ f[x] = c[x]
    BY <1>1, <1>2
  <2>2. h[t] = SumFunctionOnSet(f, of(t))
    BY DEF GroupedBy
  <2> HIDE DEF c, of
  <2>3. IsFiniteSet(of(t))
    BY <2>1, FS_Subset
  <2>4. SumFunctionOnSet(c, S) = SumFunctionOnSet(c, of(t))
    BY <2>1, SumPart
  <2>5. SumFunctionOnSet(f, of(t)) = SumFunctionOnSet(c, of(t))
    BY <2>1, <2>3, SumSame
  <2>6. SumFunctionOnSet(c, S) \in Int
    BY <2>1, SumRemove
  <2> QED
    BY <2>2, <2>4, <2>5, <2>6 DEF c
<1>5. IsTable(row, col, f, h, S, T)
  BY <1>2, <1>3, <1>4 DEF IsTable
<1> QED
  BY <1>4, <1>5, SumSwap

\* The elements of S under other names, no two of them the same.
Renamed(f, g, k, S) ==
  /\ \A x \in S : k[x] \in Int /\ k[x] = f[g[x]]
  /\ \A x \in S : \A y \in S : g[x] = g[y] => x = y

LEMMA SumRenamed ==
  ASSUME NEW S, IsFiniteSet(S), NEW f, NEW g, NEW k, Renamed(f, g, k, S)
  PROVE  SumFunctionOnSet(f, {g[x] : x \in S}) = SumFunctionOnSet(k, S)
<1> DEFINE T == {g[x] : x \in S}
<1>1. IsFiniteSet(T)
  BY FiniteRange
<1>2. \A x \in S : k[x] \in Int /\ g[x] \in T /\ k[x] = f[g[x]]
  BY DEF Renamed
<1>3. \A t \in T : f[t] = SumFunctionOnSet(k, {x \in S : g[x] = t})
  <2> TAKE t \in T
  <2>1. PICK x \in S : g[x] = t
    OBVIOUS
  <2>2. {y \in S : g[y] = t} = {x}
    BY <2>1 DEF Renamed
  <2>3. IsFiniteSet({x}) /\ k[x] = f[t] /\ k[x] \in Int
    BY <1>2, <2>1, FS_Singleton
  <2>4. SumFunctionOnSet(k, {x}) = k[x]
    BY <2>3, SumOne
  <2>5. SumFunctionOnSet(k, {y \in S : g[y] = t}) = SumFunctionOnSet(k, {x})
    BY <2>2, Zenon
  <2> QED
    BY <2>3, <2>4, <2>5
<1> HIDE DEF T
<1>4. GroupedBy(k, g, f, S, T)
  BY <1>2, <1>3 DEF GroupedBy
<1>5. SumFunctionOnSet(f, T) = SumFunctionOnSet(k, S)
  BY <1>1, <1>4, SumGroups
<1> QED
  BY <1>5 DEF T

PairsOver(S, L) == UNION {{<<x, l>> : l \in L[x]} : x \in S}

\* Two levels of rows: h[x] is the sum of the rows <<x, l>>.
TwoLevels(f, h, S, L) ==
  /\ \A x \in S : IsFiniteSet(L[x])
  /\ \A x \in S : \A l \in L[x] : f[<<x, l>>] \in Int
  /\ \A x \in S : h[x] = SumFunctionOnSet([l \in L[x] |-> f[<<x, l>>]], L[x])

LEMMA SumPairs ==
  ASSUME NEW S, IsFiniteSet(S), NEW L, NEW f, NEW h, TwoLevels(f, h, S, L)
  PROVE  /\ IsFiniteSet(PairsOver(S, L)) /\ \A s \in PairsOver(S, L) : f[s] \in Int
         /\ SumFunctionOnSet(f, PairsOver(S, L)) = SumFunctionOnSet(h, S)
         /\ \A x \in S : h[x] \in Int
<1> DEFINE P == PairsOver(S, L)
           first == [s \in P |-> s[1]]
           of(x) == {<<x, l>> : l \in L[x]}
<1>1. IsFiniteSet(P)
  <2>1. \A x \in S : IsFiniteSet(of(x))
    <3> TAKE x \in S
    <3> DEFINE g == [l \in L[x] |-> <<x, l>>]
    <3>1. of(x) = {g[l] : l \in L[x]} /\ IsFiniteSet(L[x])
      BY DEF TwoLevels
    <3> HIDE DEF g
    <3> QED
      BY <3>1, FiniteRange
  <2>2. IsFiniteSet({of(x) : x \in S})
    <3> DEFINE g == [x \in S |-> of(x)]
    <3>1. {of(x) : x \in S} = {g[x] : x \in S}
      OBVIOUS
    <3> HIDE DEF g
    <3>2. IsFiniteSet({g[x] : x \in S})
      BY FiniteRange
    <3> QED
      BY <3>1, <3>2, Zenon
  <2>3. \A U \in {of(x) : x \in S} : IsFiniteSet(U)
    BY <2>1
  <2>4. P = UNION {of(x) : x \in S}
    BY DEF PairsOver
  <2> HIDE DEF P, of
  <2> QED
    BY <2>2, <2>3, <2>4, FS_UNION
<1>2. \A s \in P : f[s] \in Int /\ first[s] \in S
  BY DEF PairsOver, TwoLevels
<1>3. \A x \in S : h[x] = SumFunctionOnSet(f, {s \in P : first[s] = x})
  <2> TAKE x \in S
  <2> DEFINE g == [l \in L[x] |-> <<x, l>>]
             k == [l \in L[x] |-> f[<<x, l>>]]
  <2>1. {s \in P : first[s] = x} = {g[l] : l \in L[x]}
    <3>1. ASSUME NEW s \in P, first[s] = x PROVE s \in {g[l] : l \in L[x]}
      <4>1. PICK y \in S : s \in {<<y, l>> : l \in L[y]}
        BY DEF PairsOver
      <4>2. PICK l \in L[y] : s = <<y, l>>
        BY <4>1
      <4> QED
        BY <3>1, <4>2
    <3>2. ASSUME NEW l \in L[x] PROVE g[l] \in P /\ first[g[l]] = x
      BY DEF PairsOver
    <3> HIDE DEF P, first, g
    <3> QED
      BY <3>1, <3>2
  <2>2. Renamed(f, g, k, L[x]) /\ IsFiniteSet(L[x])
    BY DEF Renamed, TwoLevels
  <2>3. h[x] = SumFunctionOnSet(k, L[x])
    BY DEF TwoLevels
  <2> HIDE DEF g, k
  <2>4. SumFunctionOnSet(f, {g[l] : l \in L[x]}) = SumFunctionOnSet(k, L[x])
    BY <2>2, SumRenamed
  <2>5. SumFunctionOnSet(f, {s \in P : first[s] = x}) = SumFunctionOnSet(f, {g[l] : l \in L[x]})
    BY <2>1, Zenon
  <2> QED
    BY <2>3, <2>4, <2>5
<1> HIDE DEF P, first
<1>4. GroupedBy(f, first, h, P, S)
  BY <1>2, <1>3 DEF GroupedBy
<1>5. SumFunctionOnSet(h, S) = SumFunctionOnSet(f, P) /\ \A x \in S : h[x] \in Int
  BY <1>1, <1>4, SumGroups
<1> QED
  BY <1>1, <1>2, <1>5 DEF P

\* A common factor.
Scales(f, h, p, S) == p \in Int /\ \A x \in S : f[x] \in Int /\ h[x] = p * f[x]

LEMMA SumScaled ==
  ASSUME NEW S, IsFiniteSet(S), NEW f, NEW h, NEW p, Scales(f, h, p, S)
  PROVE  SumFunctionOnSet(h, S) = p * SumFunctionOnSet(f, S)
<1> USE DEF Scales
<1>1. \A x \in S : h[x] = p * f[x] + 0 * f[x]
  <2> TAKE x \in S
  <2> PICK n \in Int : n = f[x]
    OBVIOUS
  <2>1. h[x] = p * n /\ p * n \in Int /\ 0 * n = 0
    OBVIOUS
  <2> QED
    BY <2>1
<1>2. SumFunctionOnSet(h, S) = p * SumFunctionOnSet(f, S) + 0 * SumFunctionOnSet(f, S)
  BY <1>1, SumLinear
<1>3. SumFunctionOnSet(f, S) \in Int
  BY SumRemove
<1> PICK t \in Int : t = SumFunctionOnSet(f, S)
  BY <1>3
<1>4. p * t \in Int /\ 0 * t = 0
  OBVIOUS
<1> QED
  BY <1>2, <1>4

\* g is f on T and nothing on the rest of S.
Restricts(g, f, S, T) ==
  /\ T \subseteq S
  /\ \A x \in T : f[x] \in Int /\ g[x] = f[x]
  /\ \A x \in S \ T : g[x] = 0

LEMMA SumRestricted ==
  ASSUME NEW S, IsFiniteSet(S), NEW T, NEW f, NEW g, Restricts(g, f, S, T)
  PROVE  SumFunctionOnSet(g, S) = SumFunctionOnSet(f, T)
<1>1. T \subseteq S /\ \A x \in S : g[x] \in Int
  BY DEF Restricts
<1>2. SumFunctionOnSet(g, S) = SumFunctionOnSet(g, T)
  BY <1>1, SumPart DEF Restricts
<1>3. SumFunctionOnSet(f, T) = SumFunctionOnSet(g, T)
  <2>1. IsFiniteSet(T) /\ \A x \in T : f[x] \in Int /\ f[x] = g[x]
    BY <1>1, FS_Subset DEF Restricts
  <2> QED
    BY <2>1, SumSame
<1> QED
  BY <1>2, <1>3

\* Two finite sets apart.
LEMMA DisjointUnion ==
  ASSUME NEW A, IsFiniteSet(A), NEW B, IsFiniteSet(B), A \cap B = {}
  PROVE  /\ IsFiniteSet(A \cup B) /\ Cardinality(A \cup B) = Cardinality(A) + Cardinality(B)
         /\ Cardinality(A) \in Nat /\ Cardinality(B) \in Nat
<1>1. Cardinality(A \cap B) = 0
  BY FS_EmptySet
<1>2. IsFiniteSet(A \cup B) /\ Cardinality(A \cup B) = Cardinality(A) + Cardinality(B) - Cardinality(A \cap B)
  BY FS_Union
<1>3. Cardinality(A) \in Nat /\ Cardinality(B) \in Nat
  BY FS_CardinalityType
<1> QED
  BY <1>1, <1>2, <1>3

\* h is f on A and g on B.
Splits(f, g, h, A, B) ==
  /\ \A x \in A : f[x] \in Int /\ h[x] = f[x]
  /\ \A x \in B : g[x] \in Int /\ h[x] = g[x]

\* A total over two sets apart is the sum of two.
LEMMA SumSplit ==
  ASSUME NEW A, IsFiniteSet(A), NEW B, IsFiniteSet(B), A \cap B = {},
         NEW f, NEW g, NEW h, Splits(f, g, h, A, B)
  PROVE  /\ SumFunctionOnSet(h, A \cup B) = SumFunctionOnSet(f, A) + SumFunctionOnSet(g, B)
         /\ SumFunctionOnSet(f, A) \in Int /\ SumFunctionOnSet(g, B) \in Int
         /\ SumFunctionOnSet(h, A \cup B) \in Int
<1>1. /\ \A x \in A : f[x] \in Int /\ f[x] = h[x]
      /\ \A x \in B : g[x] \in Int /\ g[x] = h[x]
      /\ \A x \in A \cup B : h[x] \in Int
  BY DEF Splits
<1>2. SumFunctionOnSet(h, A \cup B) = SumFunctionOnSet(h, A) + SumFunctionOnSet(h, B)
  BY <1>1, SumUnion
<1>3. SumFunctionOnSet(f, A) = SumFunctionOnSet(h, A) /\ SumFunctionOnSet(g, B) = SumFunctionOnSet(h, B)
  BY <1>1, SumSame
<1>4. SumFunctionOnSet(f, A) \in Int /\ SumFunctionOnSet(g, B) \in Int
  BY <1>1, SumRemove
<1> QED
  BY <1>2, <1>3, <1>4

=============================================================================
