----------------------------- MODULE FiniteSums -----------------------------
(***************************************************************************)
(* Sums over a finite set, as MapThenSumSet computes them: it takes the    *)
(* elements out of the set in the order in which CHOOSE yields them.  The  *)
(* recursive function it is made of exists, so that a sum is the value of  *)
(* any element and the sum of the rest, in whatever order; sums are added, *)
(* compared and changed element by element.  The induction over subsets is *)
(* an argument from a minimal counterexample.                              *)
(***************************************************************************)
EXTENDS FiniteSetsExt, FiniteSetTheorems, TLAPS

SumOver(f, S) == MapThenSumSet(LAMBDA x : f[x], S)

\* The element that is taken out next.
Taken(s) == CHOOSE x \in s : TRUE

\* What the sum of f over s is, given the sums g over smaller sets.
NextSum(g, f, s) == IF s = {} THEN 0 ELSE f[Taken(s)] + g[s \ {Taken(s)}]

\* g gives the sums of f over the subsets of S.
IsSum(g, f, S) == g = [s \in SUBSET S |-> NextSum(g, f, s)]

Summable(f, S) == IsFiniteSet(S) /\ \A x \in S : f[x] \in Int
-----------------------------------------------------------------------------
\* A set of subsets of a finite set has a minimal element.
LEMMA MinimalSubset ==
  ASSUME NEW S, IsFiniteSet(S), NEW B, B \subseteq SUBSET S, B # {}
  PROVE  \E s \in B : \A r \in SUBSET s : r # s => r \notin B
<1>1. IsWellFoundedOn(StrictSubsetOrdering(S), SUBSET S)
  BY FS_StrictSubsetOrderingWellFounded, FS_FiniteSubsetsOfFinite
<1>2. PICK s \in B : \A r \in B : <<r, s>> \notin StrictSubsetOrdering(S)
  <2> HIDE DEF IsWellFoundedOn
  <2> QED BY <1>1, WFMin
<1>3. ASSUME NEW r \in SUBSET s, r # s, r \in B
      PROVE  FALSE
  <2>1. <<r, s>> \in (SUBSET S) \X (SUBSET S) /\ <<r, s>>[1] \subseteq <<r, s>>[2]
        /\ <<r, s>>[1] # <<r, s>>[2]
    BY <1>3
  <2>2. <<r, s>> \in StrictSubsetOrdering(S)
    BY <2>1, Zenon DEF StrictSubsetOrdering
  <2> QED BY <1>2, <1>3, <2>2
<1> QED BY <1>2, <1>3

\* A set of natural numbers has a least element.
LEMMA LeastNumber ==
  ASSUME NEW B, B \subseteq Nat, B # {}
  PROVE  \E n \in B : \A m \in B : n <= m
<1>1. PICK n \in B : \A m \in B : <<m, n>> \notin OpToRel(<, Nat)
  BY WFMin, NatLessThanWellFounded
<1>2. ASSUME NEW m \in B, m < n
      PROVE  FALSE
  <2>1. <<m, n>> \in Nat \X Nat /\ <<m, n>>[1] < <<m, n>>[2]
    BY <1>2
  <2>2. <<m, n>> \in OpToRel(<, Nat)
    BY <2>1, Zenon DEF OpToRel
  <2> QED BY <1>1, <1>2, <2>2
<1>3. \A m \in B : m \in Nat /\ n \in Nat
  OBVIOUS
<1> QED BY <1>2, <1>3

\* The sums over the subsets with at most n elements can be computed.
LEMMA SumsOfSmallSets ==
  ASSUME NEW S, IsFiniteSet(S), NEW f, NEW n \in Nat
  PROVE  \E g : \A s \in SUBSET S : Cardinality(s) <= n => g[s] = NextSum(g, f, s)
<1> DEFINE P(m) == \E g : \A s \in SUBSET S : Cardinality(s) <= m => g[s] = NextSum(g, f, s)
           B == {m \in Nat : ~P(m)}
<1>0. \A s \in SUBSET S : /\ Cardinality(s) \in Nat /\ (Cardinality(s) = 0 <=> s = {})
                          /\ s # {} => Taken(s) \in s /\ s \ {Taken(s)} \in SUBSET S
                                       /\ Cardinality(s \ {Taken(s)}) = Cardinality(s) - 1
  <2> SUFFICES ASSUME NEW s \in SUBSET S
               PROVE  /\ Cardinality(s) \in Nat /\ (Cardinality(s) = 0 <=> s = {})
                      /\ s # {} => Taken(s) \in s /\ s \ {Taken(s)} \in SUBSET S
                                   /\ Cardinality(s \ {Taken(s)}) = Cardinality(s) - 1
    OBVIOUS
  <2>1. IsFiniteSet(s)
    BY FS_Subset
  <2>2. s # {} => Taken(s) \in s
    BY DEF Taken
  <2> QED BY <2>1, <2>2, FS_CardinalityType, FS_EmptySet, FS_RemoveElement
<1>1. P(0)
  <2> DEFINE g == [s \in SUBSET S |-> 0]
  <2>1. ASSUME NEW s \in SUBSET S, Cardinality(s) <= 0
        PROVE  s = {}
    <3>1. Cardinality(s) \in Nat /\ (Cardinality(s) = 0 <=> s = {})
      BY <1>0
    <3> QED BY <2>1, <3>1
  <2>2. \A s \in SUBSET S : s = {} => g[s] = NextSum(g, f, s)
    BY DEF NextSum
  <2> QED BY <2>1, <2>2
<1>2. ASSUME NEW m \in Nat, P(m)
      PROVE  P(m + 1)
  <2>1. PICK g : \A s \in SUBSET S : Cardinality(s) <= m => g[s] = NextSum(g, f, s)
    BY <1>2
  <2> DEFINE h == [s \in SUBSET S |-> IF Cardinality(s) <= m THEN g[s] ELSE NextSum(g, f, s)]
  <2>2. ASSUME NEW s \in SUBSET S, Cardinality(s) <= m + 1
        PROVE  h[s] = NextSum(h, f, s)
    <3>1. NextSum(h, f, s) = NextSum(g, f, s)
      <4>1. s # {} => h[s \ {Taken(s)}] = g[s \ {Taken(s)}]
        BY <1>0, <2>2
      <4> QED BY <4>1 DEF NextSum
    <3>2. h[s] = NextSum(g, f, s)
      BY <2>1
    <3> QED BY <3>1, <3>2
  <2> HIDE DEF h
  <2> QED BY <2>2
<1>3. ASSUME B # {}
      PROVE  FALSE
  <2>1. PICK m \in B : \A k \in B : m <= k
    <3> HIDE DEF B
    <3>1. B \subseteq Nat
      BY DEF B
    <3> QED BY <1>3, <3>1, LeastNumber
  <2> HIDE DEF P
  <2>2. m # 0
    BY <1>1
  <2>3. m - 1 \in Nat /\ P(m - 1)
    BY <2>1, <2>2
  <2>4. P(m)
    BY <1>2, <2>3
  <2> QED BY <2>4
<1> QED BY <1>3

LEMMA SumsExist ==
  ASSUME NEW S, IsFiniteSet(S), NEW f
  PROVE  \E g : IsSum(g, f, S)
<1>1. Cardinality(S) \in Nat
  BY FS_CardinalityType
<1>2. PICK g : \A s \in SUBSET S : Cardinality(s) <= Cardinality(S) => g[s] = NextSum(g, f, s)
  BY <1>1, SumsOfSmallSets
<1> DEFINE h == [s \in SUBSET S |-> g[s]]
<1>3. ASSUME NEW s \in SUBSET S
      PROVE  h[s] = NextSum(h, f, s)
  <2>1. Cardinality(s) <= Cardinality(S)
    BY FS_Subset
  <2>2. g[s] = NextSum(g, f, s)
    BY <1>2, <2>1
  <2>3. NextSum(h, f, s) = NextSum(g, f, s)
    BY DEF NextSum
  <2> QED BY <2>2, <2>3
<1>4. IsSum(h, f, S)
  BY <1>3 DEF IsSum
<1> QED BY <1>4

\* The subsets of a finite set have one sum each.
LEMMA SumIsUnique ==
  ASSUME NEW S, IsFiniteSet(S), NEW f, NEW g, NEW h, IsSum(g, f, S), NEW T \in SUBSET S,
         IsSum(h, f, T)
  PROVE  g[T] = h[T]
<1>0. \A s \in SUBSET T : g[s] = NextSum(g, f, s) /\ h[s] = NextSum(h, f, s)
  BY DEF IsSum
<1> DEFINE B == {s \in SUBSET T : g[s] # h[s]}
<1>1. ASSUME B # {}
      PROVE  FALSE
  <2>1. PICK s \in B : \A r \in SUBSET s : r # s => r \notin B
    <3>1. B \subseteq SUBSET S
      OBVIOUS
    <3> HIDE DEF B
    <3> QED BY <1>1, <3>1, MinimalSubset
  <2>2. s # {} => Taken(s) \in s
    BY DEF Taken
  <2>3. NextSum(g, f, s) = NextSum(h, f, s)
    BY <2>1, <2>2 DEF NextSum
  <2> QED BY <1>0, <2>3
<1> QED BY <1>1

\* A sum, as the library defines it, is one element and the sum of the rest.
LEMMA SumOverIs ==
  ASSUME NEW S, IsFiniteSet(S), NEW f, NEW g, IsSum(g, f, S), NEW T \in SUBSET S
  PROVE  SumOver(f, T) = g[T]
<1>1. SumOver(f, T) = (CHOOSE h : IsSum(h, f, T))[T]
  BY DEF SumOver, MapThenSumSet, MapThenFoldSet, IsSum, NextSum, Taken
<1> DEFINE h == CHOOSE h : IsSum(h, f, T)
<1>2. IsSum(h, f, T)
  <2>1. IsFiniteSet(T)
    BY FS_Subset
  <2> QED BY <2>1, SumsExist
<1> HIDE DEF h
<1>3. g[T] = h[T]
  BY <1>2, SumIsUnique
<1> QED BY <1>1, <1>3 DEF h

LEMMA SumUnfolds ==
  ASSUME NEW S, IsFiniteSet(S), NEW f
  PROVE  /\ S = {} => SumOver(f, S) = 0
         /\ S # {} => Taken(S) \in S /\ SumOver(f, S) = f[Taken(S)] + SumOver(f, S \ {Taken(S)})
<1>1. PICK g : IsSum(g, f, S)
  BY SumsExist
<1>2. SumOver(f, S) = g[S] /\ SumOver(f, S \ {Taken(S)}) = g[S \ {Taken(S)}]
  BY <1>1, SumOverIs
<1>3. g[S] = NextSum(g, f, S)
  BY <1>1 DEF IsSum
<1>4. S # {} => Taken(S) \in S
  BY DEF Taken
<1> QED BY <1>2, <1>3, <1>4 DEF NextSum

LEMMA SumIsInt ==
  ASSUME NEW S, NEW f, Summable(f, S)
  PROVE  SumOver(f, S) \in Int
<1> DEFINE B == {s \in SUBSET S : SumOver(f, s) \notin Int}
<1>1. ASSUME B # {}
      PROVE  FALSE
  <2>1. PICK s \in B : \A r \in SUBSET s : r # s => r \notin B
    <3>1. B \subseteq SUBSET S
      OBVIOUS
    <3> HIDE DEF B
    <3> QED BY <1>1, <3>1, MinimalSubset DEF Summable
  <2>2. IsFiniteSet(s)
    BY FS_Subset DEF Summable
  <2>3. s # {} => Taken(s) \in s /\ f[Taken(s)] \in Int /\ SumOver(f, s \ {Taken(s)}) \in Int
    BY <2>1, <2>2, SumUnfolds DEF Summable
  <2>4. s = {} => SumOver(f, s) = 0
    BY <2>2, SumUnfolds
  <2>5. s # {} => SumOver(f, s) = f[Taken(s)] + SumOver(f, s \ {Taken(s)})
    BY <2>2, SumUnfolds
  <2>6. SumOver(f, s) \in Int
    BY <2>3, <2>4, <2>5
  <2> QED BY <2>6
<1> QED BY <1>1

\* Taken element can be taken out first.
LEMMA SumTakesOut ==
  ASSUME NEW S, NEW f, Summable(f, S), NEW x \in S
  PROVE  SumOver(f, S) = f[x] + SumOver(f, S \ {x})
<1> DEFINE B == {s \in SUBSET S : \E y \in s : SumOver(f, s) # f[y] + SumOver(f, s \ {y})}
<1>1. ASSUME B # {}
      PROVE  FALSE
  <2>1. PICK s \in B : \A r \in SUBSET s : r # s => r \notin B
    <3>1. B \subseteq SUBSET S
      OBVIOUS
    <3> HIDE DEF B
    <3> QED BY <1>1, <3>1, MinimalSubset DEF Summable
  <2>2. PICK y \in s : SumOver(f, s) # f[y] + SumOver(f, s \ {y})
    OBVIOUS
  <2> DEFINE c == Taken(s)
  <2>3. IsFiniteSet(s) /\ s # {} /\ s \in SUBSET S
    BY FS_Subset DEF Summable
  <2>4. c \in s /\ SumOver(f, s) = f[c] + SumOver(f, s \ {c})
    BY <2>3, SumUnfolds
  <2> HIDE DEF c
  <2>5. c # y
    BY <2>2, <2>4
  <2>6. SumOver(f, s \ {c}) = f[y] + SumOver(f, (s \ {c}) \ {y})
    <3>1. s \ {c} \in SUBSET s /\ s \ {c} # s /\ y \in s \ {c}
      BY <2>4, <2>5
    <3> QED BY <2>1, <3>1
  <2>7. SumOver(f, s \ {y}) = f[c] + SumOver(f, (s \ {y}) \ {c})
    <3>1. s \ {y} \in SUBSET s /\ s \ {y} # s /\ c \in s \ {y}
      BY <2>4, <2>5
    <3> QED BY <2>1, <3>1
  <2>8. (s \ {c}) \ {y} = (s \ {y}) \ {c}
    OBVIOUS
  <2>9. f[c] \in Int /\ f[y] \in Int /\ SumOver(f, (s \ {c}) \ {y}) \in Int
    <3>1. (s \ {c}) \ {y} \in SUBSET S
      BY <2>3
    <3>2. Summable(f, (s \ {c}) \ {y})
      BY <3>1, FS_Subset DEF Summable
    <3> QED BY <2>3, <2>4, <3>2, SumIsInt DEF Summable
  <2> DEFINE rest == SumOver(f, (s \ {c}) \ {y})
  <2>10. rest \in Int /\ SumOver(f, s \ {c}) = f[y] + rest /\ SumOver(f, s \ {y}) = f[c] + rest
    BY <2>6, <2>7, <2>8, <2>9
  <2> HIDE DEF B, rest
  <2>11. SumOver(f, s) = f[y] + SumOver(f, s \ {y})
    BY <2>4, <2>9, <2>10
  <2> QED BY <2>2, <2>11
<1>2. S \in SUBSET S
  OBVIOUS
<1> QED BY <1>1, <1>2

\* Sums are added element by element.
LEMMA SumsAdd ==
  ASSUME NEW S, NEW f, NEW g, NEW h, Summable(f, S), Summable(g, S),
         \A x \in S : h[x] = f[x] + g[x]
  PROVE  Summable(h, S) /\ SumOver(h, S) = SumOver(f, S) + SumOver(g, S)
<1> DEFINE B == {s \in SUBSET S : SumOver(h, s) # SumOver(f, s) + SumOver(g, s)}
<1>0. Summable(h, S)
  BY DEF Summable
<1>1. ASSUME B # {}
      PROVE  FALSE
  <2>1. PICK s \in B : \A r \in SUBSET s : r # s => r \notin B
    <3>1. B \subseteq SUBSET S
      OBVIOUS
    <3> HIDE DEF B
    <3> QED BY <1>1, <3>1, MinimalSubset DEF Summable
  <2>2. IsFiniteSet(s) /\ s \in SUBSET S
    BY FS_Subset DEF Summable
  <2>3. s # {}
    BY <2>2, SumUnfolds
  <2> DEFINE c == Taken(s)
             r == s \ {c}
  <2>4. /\ c \in s /\ SumOver(f, s) = f[c] + SumOver(f, r)
        /\ SumOver(g, s) = g[c] + SumOver(g, r) /\ SumOver(h, s) = h[c] + SumOver(h, r)
    BY <2>2, <2>3, SumUnfolds
  <2>5. SumOver(h, r) = SumOver(f, r) + SumOver(g, r)
    BY <2>1, <2>4
  <2>6. /\ SumOver(f, r) \in Int /\ SumOver(g, r) \in Int
        /\ f[c] \in Int /\ g[c] \in Int /\ h[c] = f[c] + g[c]
    <3>1. Summable(f, r) /\ Summable(g, r)
      BY <2>2, FS_Subset DEF Summable
    <3> QED BY <2>2, <2>4, <3>1, SumIsInt DEF Summable
  <2>7. SumOver(h, s) # SumOver(f, s) + SumOver(g, s)
    OBVIOUS
  <2> HIDE DEF B, c, r
  <2> QED BY <2>4, <2>5, <2>6, <2>7
<1>2. S \in SUBSET S
  OBVIOUS
<1> QED BY <1>0, <1>1, <1>2

\* Sums are compared element by element.
LEMMA SumsCompare ==
  ASSUME NEW S, NEW f, NEW g, Summable(f, S), Summable(g, S), \A x \in S : f[x] <= g[x]
  PROVE  SumOver(f, S) <= SumOver(g, S)
<1> DEFINE B == {s \in SUBSET S : ~(SumOver(f, s) <= SumOver(g, s))}
<1>1. ASSUME B # {}
      PROVE  FALSE
  <2>1. PICK s \in B : \A r \in SUBSET s : r # s => r \notin B
    <3>1. B \subseteq SUBSET S
      OBVIOUS
    <3> HIDE DEF B
    <3> QED BY <1>1, <3>1, MinimalSubset DEF Summable
  <2>2. IsFiniteSet(s) /\ s \in SUBSET S
    BY FS_Subset DEF Summable
  <2>3. s # {}
    BY <2>2, SumUnfolds
  <2> DEFINE c == Taken(s)
             r == s \ {c}
  <2>4. /\ c \in s /\ SumOver(f, s) = f[c] + SumOver(f, r)
        /\ SumOver(g, s) = g[c] + SumOver(g, r)
    BY <2>2, <2>3, SumUnfolds
  <2>5. SumOver(f, r) <= SumOver(g, r)
    BY <2>1, <2>4
  <2>6. /\ SumOver(f, r) \in Int /\ SumOver(g, r) \in Int
        /\ f[c] \in Int /\ g[c] \in Int /\ f[c] <= g[c]
    <3>1. Summable(f, r) /\ Summable(g, r)
      BY <2>2, FS_Subset DEF Summable
    <3> QED BY <2>2, <2>4, <3>1, SumIsInt DEF Summable
  <2>7. ~(SumOver(f, s) <= SumOver(g, s))
    OBVIOUS
  <2> HIDE DEF B, c, r
  <2> QED BY <2>4, <2>5, <2>6, <2>7
<1>2. S \in SUBSET S
  OBVIOUS
<1> QED BY <1>1, <1>2

LEMMA SumsAgree ==
  ASSUME NEW S, NEW f, NEW g, Summable(f, S), \A x \in S : f[x] = g[x]
  PROVE  Summable(g, S) /\ SumOver(f, S) = SumOver(g, S)
<1>1. Summable(g, S) /\ \A x \in S : f[x] <= g[x] /\ g[x] <= f[x]
  BY DEF Summable
<1>2. SumOver(f, S) <= SumOver(g, S) /\ SumOver(g, S) <= SumOver(f, S)
  BY <1>1, SumsCompare
<1>3. SumOver(f, S) \in Int /\ SumOver(g, S) \in Int
  BY <1>1, SumIsInt
<1> QED BY <1>1, <1>2, <1>3

\* A sum follows the change of one element.
LEMMA SumChanges ==
  \A S, f, g : \A x \in S :
    Summable(f, S) /\ g[x] \in Int /\ (\A y \in S : y # x => g[y] = f[y]) =>
      Summable(g, S) /\ SumOver(g, S) = SumOver(f, S) - f[x] + g[x]
<1> TAKE S, f, g
<1> TAKE x \in S
<1> HAVE Summable(f, S) /\ g[x] \in Int /\ (\A y \in S : y # x => g[y] = f[y])
<1>1. Summable(g, S)
  BY DEF Summable
<1>2. SumOver(f, S) = f[x] + SumOver(f, S \ {x}) /\ SumOver(g, S) = g[x] + SumOver(g, S \ {x})
  BY <1>1, SumTakesOut
<1>3. Summable(f, S \ {x})
  BY FS_Subset DEF Summable
<1>4. SumOver(f, S \ {x}) = SumOver(g, S \ {x}) /\ SumOver(f, S \ {x}) \in Int
  BY <1>3, SumsAgree, SumIsInt
<1>5. f[x] \in Int
  BY DEF Summable
<1> QED BY <1>1, <1>2, <1>4, <1>5

LEMMA SumOfZeros ==
  ASSUME NEW S, NEW f, IsFiniteSet(S), \A x \in S : f[x] = 0
  PROVE  Summable(f, S) /\ SumOver(f, S) = 0
<1>1. Summable(f, S)
  BY DEF Summable
<1>2. SumOver(f, S) = SumOver(f, S) + SumOver(f, S)
  BY <1>1, SumsAdd
<1> QED BY <1>1, <1>2, SumIsInt

\* A sum with one term.
LEMMA SumOfOne ==
  \A S, f : \A x \in S :
    IsFiniteSet(S) /\ f[x] \in Int /\ (\A y \in S : y # x => f[y] = 0) =>
      Summable(f, S) /\ SumOver(f, S) = f[x]
<1> TAKE S, f
<1> TAKE x \in S
<1> HAVE IsFiniteSet(S) /\ f[x] \in Int /\ (\A y \in S : y # x => f[y] = 0)
<1>1. Summable(f, S)
  BY DEF Summable
<1>2. SumOver(f, S) = f[x] + SumOver(f, S \ {x})
  BY <1>1, SumTakesOut
<1>3. SumOver(f, S \ {x}) = 0
  <2>1. IsFiniteSet(S \ {x}) /\ \A y \in S \ {x} : f[y] = 0
    BY FS_Subset
  <2> QED BY <2>1, SumOfZeros
<1> QED BY <1>1, <1>2, <1>3
=============================================================================
