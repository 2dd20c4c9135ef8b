---------------------------- MODULE CinqsProofs ----------------------------
(***************************************************************************)
(* The queueing simulator, for every network, every number of customers    *)
(* and every choice of demands, gaps and disciplines: NetworkIsConsistent  *)
(* is an invariant and the diary implements EventCalendar.                 *)
(*                                                                         *)
(* The linked lists come first: a list represents the sequence of what it  *)
(* holds, and every operation of List, ListIterator and OrderedList does   *)
(* to that sequence what its name says.  Then the invariant IInv, what a   *)
(* step does to each of its parts, one lemma per action that it is kept    *)
(* (the lemmas whose names end in Keeps), and what it implies.             *)
(***************************************************************************)
EXTENDS Cinqs, FiniteSums, TLAPS

-----------------------------------------------------------------------------
(***************************************************************************)
(* The sequence of the objects in a linked list, and the walk through it.  *)
(***************************************************************************)

\* The object at a place of a sequence, or NULL outside of it.
At(s, i) == IF i \in 1..Len(s) THEN s[i] ELSE NULL

Places == Objects \cup {NULL}

\* The linked list l holds the objects of s, in this order.
Represents(l, s) ==
  /\ s \in Seq(Objects)
  /\ \A i, j \in 1..Len(s) : s[i] = s[j] => i = j
  /\ l = [first |-> l.first, last |-> l.last, next |-> l.next]
  /\ l.next \in [Places -> Places] /\ l.next[NULL] = NULL
  /\ l.first = At(s, 1) /\ l.last = At(s, Len(s))
  /\ \A i \in 1..Len(s) : l.next[s[i]] = At(s, i + 1)

IsList(l) == Represents(l, Chain(l))

InsertedAt(s, k, o) ==
  [i \in 1..Len(s) + 1 |-> IF i <= k THEN s[i] ELSE IF i = k + 1 THEN o ELSE s[i - 1]]
RemovedAt(s, k) == [i \in 1..Len(s) - 1 |-> IF i <= k THEN s[i] ELSE s[i + 1]]

Sorted(s, value) == \A i, j \in 1..Len(s) : i <= j => value[s[i]] <= value[s[j]]

\* There are finitely many things a list may hold, and NULL is not one of them.
LEMMA ObjectsAreFinite ==
  /\ IsFiniteSet(Objects) /\ Cardinality(Objects) \in Nat /\ NULL \notin Objects
  /\ IsFiniteSet(Customers) /\ Customers \subseteq Objects
<1>1. IsFiniteSet(Customers) /\ IsFiniteSet(Nodes) /\ NULL \notin Customers \cup Nodes
  BY NetworkAssumption
<1>2. IsFiniteSet({n \in Nodes : Kind[n] \in {"source", "sharing"}})
  BY <1>1, FS_Subset
<1>3. IsFiniteSet(Objects)
  BY <1>1, <1>2, FS_Union DEF Objects
<1> QED BY <1>1, <1>3, FS_CardinalityType DEF Objects

\* A sequence without repetitions is as long as the set of its elements is large.
LEMMA LengthIsCardinality ==
  ASSUME NEW s \in Seq(Objects), \A i, j \in 1..Len(s) : s[i] = s[j] => i = j
  PROVE  /\ IsFiniteSet({s[i] : i \in 1..Len(s)})
         /\ Cardinality({s[i] : i \in 1..Len(s)}) = Len(s)
         /\ Len(s) <= Cardinality(Objects)
<1> DEFINE R == {s[i] : i \in 1..Len(s)}
<1>1. Len(s) \in Nat /\ s \in [1..Len(s) -> Objects] /\ R \subseteq Objects
  OBVIOUS
<1>2. IsFiniteSet(1..Len(s)) /\ Cardinality(1..Len(s)) = Len(s)
  <2>1. Len(s) \in Nat /\ Len(s) \in Int /\ 1 \in Int
    OBVIOUS
  <2>2. /\ IsFiniteSet(1..Len(s))
        /\ Cardinality(1..Len(s)) = IF 1 > Len(s) THEN 0 ELSE Len(s) - 1 + 1
    BY <2>1, FS_Interval
  <2> QED BY <2>1, <2>2
<1>3. s \in Bijection(1..Len(s), R)
  BY <1>1 DEF Bijection, Injection, Surjection, IsInjective
<1>4. IsFiniteSet(R) /\ Cardinality(R) = Len(s)
  BY <1>2, <1>3, FS_Bijection DEF ExistsBijection
<1>5. Cardinality(R) <= Cardinality(Objects)
  BY <1>1, ObjectsAreFinite, FS_Subset
<1> QED BY <1>4, <1>5

\* A walk that starts at firstNode and follows next meets the objects in their order.
LEMMA WalkIsUnique ==
  ASSUME NEW l, NEW s, Represents(l, s), NEW h,
         h = [i \in Hops |-> IF i = 1 THEN l.first ELSE l.next[h[i - 1]]],
         NEW i \in Hops
  PROVE  h[i] = At(s, i)
<1> DEFINE B == {j \in Hops : h[j] # At(s, j)}
<1>0. Len(s) \in Nat /\ Cardinality(Objects) \in Nat
  BY ObjectsAreFinite DEF Represents
<1>1. ASSUME B # {}
      PROVE  FALSE
  <2>1. PICK n \in B : \A m \in B : n <= m
    <3>1. B \subseteq Nat
      BY <1>0 DEF Hops
    <3> HIDE DEF B
    <3> QED BY <1>1, <3>1, LeastNumber
  <2>2. n \in Hops /\ n \in Nat /\ n >= 1 /\ h[n] # At(s, n)
    BY <1>0, <2>1 DEF Hops
  <2>3. CASE n = 1
    <3>1. h[1] = l.first
      BY <2>2, <2>3
    <3> QED BY <2>2, <2>3, <3>1 DEF Represents
  <2>4. CASE n # 1
    <3>1. n - 1 \in Hops /\ n - 1 \in Nat
      BY <1>0, <2>2, <2>4 DEF Hops
    <3>2. n - 1 \notin B
      BY <2>1, <2>2, <3>1
    <3>3. h[n - 1] = At(s, n - 1)
      BY <3>1, <3>2
    <3>4. h[n] = l.next[h[n - 1]]
      BY <2>2, <2>4
    <3>5. l.next[At(s, n - 1)] = At(s, n)
      <4>1. CASE n - 1 \in 1..Len(s)
        <5>1. At(s, n - 1) = s[n - 1] /\ l.next[s[n - 1]] = At(s, (n - 1) + 1) /\ (n - 1) + 1 = n
          BY <4>1, <2>2 DEF Represents, At
        <5> QED BY <5>1
      <4>2. CASE n - 1 \notin 1..Len(s)
        <5>1. At(s, n - 1) = NULL /\ At(s, n) = NULL
          BY <1>0, <2>2, <2>4, <4>2 DEF At
        <5> QED BY <5>1 DEF Represents
      <4> QED BY <4>1, <4>2
    <3> QED BY <2>2, <3>3, <3>4, <3>5
  <2> QED BY <2>3, <2>4
<1> QED BY <1>1

\* The walk of a ListIterator is that one.
LEMMA WalkFollowsTheList ==
  ASSUME NEW l, NEW s, Represents(l, s)
  PROVE  Walk(l) = [i \in Hops |-> At(s, i)]
<1> DEFINE g == [i \in Hops |-> At(s, i)]
           IsWalk(h) == h = [i \in Hops |-> IF i = 1 THEN l.first ELSE l.next[h[i - 1]]]
<1>0. Len(s) \in Nat /\ Cardinality(Objects) \in Nat
  BY ObjectsAreFinite DEF Represents
<1>1. IsWalk(g)
  <2>1. ASSUME NEW i \in Hops
        PROVE  g[i] = IF i = 1 THEN l.first ELSE l.next[g[i - 1]]
    <3>1. i \in Nat /\ i >= 1
      BY <1>0 DEF Hops
    <3>2. CASE i = 1
      BY <3>2 DEF Represents
    <3>3. CASE i # 1
      <4>1. i - 1 \in Hops
        BY <1>0, <3>1, <3>3 DEF Hops
      <4>2. g[i - 1] = At(s, i - 1) /\ g[i] = At(s, i)
        BY <4>1
      <4>3. l.next[At(s, i - 1)] = At(s, i)
        <5>1. CASE i - 1 \in 1..Len(s)
          <6>1. At(s, i - 1) = s[i - 1] /\ l.next[s[i - 1]] = At(s, (i - 1) + 1) /\ (i - 1) + 1 = i
            BY <5>1, <3>1 DEF Represents, At
          <6> QED BY <6>1
        <5>2. CASE i - 1 \notin 1..Len(s)
          <6>1. At(s, i - 1) = NULL /\ At(s, i) = NULL
            BY <1>0, <3>1, <3>3, <5>2 DEF At
          <6> QED BY <6>1 DEF Represents
        <5> QED BY <5>1, <5>2
      <4> QED BY <3>3, <4>2, <4>3
    <3> QED BY <3>2, <3>3
  <2> QED BY <2>1
<1>2. Walk(l) = CHOOSE h : IsWalk(h)
  BY DEF Walk
<1>3. IsWalk(CHOOSE h : IsWalk(h))
  BY <1>1
<1> DEFINE w == CHOOSE h : IsWalk(h)
<1>4. IsWalk(w)
  BY <1>3
<1> HIDE DEF w
<1>5. \A i \in Hops : w[i] = At(s, i)
  BY <1>4, WalkIsUnique
<1>6. w = [i \in Hops |-> w[i]]
  BY <1>4
<1> QED BY <1>2, <1>5, <1>6 DEF w

\* What a walk through the list meets is what the list holds.
LEMMA ChainIsTheSequence ==
  ASSUME NEW l, NEW s, Represents(l, s)
  PROVE  /\ Chain(l) = s /\ Members(l) = {s[i] : i \in 1..Len(s)}
         /\ \A k \in 0..Len(s) : Passed(l, k) = At(s, k) /\ StandsAt(l, k) = At(s, k + 1)
<1>1. Walk(l) = [i \in Hops |-> At(s, i)]
  BY WalkFollowsTheList
<1>2. /\ Len(s) \in Nat /\ Len(s) <= Cardinality(Objects) /\ Cardinality(Objects) \in Nat
      /\ s \in [1..Len(s) -> Objects] /\ NULL \notin Objects
  <2>1. s \in Seq(Objects) /\ \A i, j \in 1..Len(s) : s[i] = s[j] => i = j
    BY DEF Represents
  <2>2. Len(s) <= Cardinality(Objects)
    BY <2>1, LengthIsCardinality
  <2> QED BY <2>1, <2>2, ObjectsAreFinite
<1>3. \A i \in Hops : At(s, i) # NULL <=> i \in 1..Len(s)
  BY <1>2 DEF At, Hops
<1>4. 1..Len(s) \subseteq Hops
  BY <1>2 DEF Hops
<1>5. {j \in Hops : Walk(l)[j] # NULL} = 1..Len(s)
  BY <1>1, <1>3, <1>4
<1>6. \A i \in 1..Len(s) : Walk(l)[i] = s[i]
  BY <1>1, <1>4 DEF At
<1>7. Chain(l) = s
  <2>1. Chain(l) = [i \in 1..Len(s) |-> Walk(l)[i]]
    BY <1>5 DEF Chain
  <2>2. s = [i \in 1..Len(s) |-> s[i]]
    BY <1>2
  <2> QED BY <1>6, <2>1, <2>2
<1>8. Members(l) = {s[i] : i \in 1..Len(s)}
  <2>1. Members(l) = {Walk(l)[i] : i \in Hops} \ {NULL}
    BY DEF Members
  <2>2. \A i \in Hops : Walk(l)[i] # NULL => i \in 1..Len(s) /\ Walk(l)[i] = s[i]
    BY <1>5, <1>6
  <2>3. \A i \in 1..Len(s) : i \in Hops /\ Walk(l)[i] = s[i] /\ s[i] # NULL
    BY <1>2, <1>4, <1>6
  <2> QED BY <2>1, <2>2, <2>3
<1>9. ASSUME NEW k \in 0..Len(s)
      PROVE  Passed(l, k) = At(s, k) /\ StandsAt(l, k) = At(s, k + 1)
  <2>1. k \in Nat /\ k <= Len(s) /\ Len(s) \in Nat
    BY <1>2
  <2>2. Passed(l, k) = At(s, k)
    BY <1>2, <1>7, <2>1 DEF Passed, At
  <2>3. StandsAt(l, k) = IF k = Len(s) THEN NULL ELSE s[k + 1]
    BY <1>7 DEF StandsAt
  <2>4. (k + 1 \in 1..Len(s)) <=> k # Len(s)
    BY <2>1
  <2> QED BY <2>2, <2>3, <2>4 DEF At
<1> QED BY <1>7, <1>8, <1>9

-----------------------------------------------------------------------------
(***************************************************************************)
(* Sequences an object is inserted in or removed from, and lists that represent them.*)
(***************************************************************************)

\* What a list says of the sequence it represents.
LEMMA SequenceFacts ==
  ASSUME NEW l, NEW s, Represents(l, s)
  PROVE  /\ Len(s) \in Nat /\ s \in [1..Len(s) -> Objects] /\ s = [i \in 1..Len(s) |-> s[i]]
         /\ \A i, j \in 1..Len(s) : s[i] = s[j] => i = j
         /\ \A i \in 1..Len(s) : s[i] \in Objects /\ s[i] # NULL
         /\ \A i \in Int : At(s, i) = NULL <=> i \notin 1..Len(s)
         /\ NULL \notin Objects
<1>1. s \in Seq(Objects) /\ NULL \notin Objects
  BY ObjectsAreFinite DEF Represents
<1>2. Len(s) \in Nat /\ s \in [1..Len(s) -> Objects] /\ s = [i \in 1..Len(s) |-> s[i]]
  BY <1>1
<1>3. \A i \in 1..Len(s) : s[i] \in Objects /\ s[i] # NULL
  BY <1>1, <1>2
<1>4. \A i \in Int : At(s, i) = NULL <=> i \notin 1..Len(s)
  BY <1>3 DEF At
<1>5. \A i, j \in 1..Len(s) : s[i] = s[j] => i = j
  BY DEF Represents
<1> QED BY <1>1, <1>2, <1>3, <1>4, <1>5

\* A function on 1..n is a sequence.
LEMMA IsSequence ==
  ASSUME NEW n \in Nat, NEW S, NEW f, f = [i \in 1..n |-> f[i]], \A i \in 1..n : f[i] \in S
  PROVE  f \in Seq(S) /\ Len(f) = n
<1>1. f \in [1..n -> S]
  BY Zenon
<1> QED BY <1>1

\* The places of a sequence after an insertion.
LEMMA InsertedFacts ==
  ASSUME NEW l, NEW s, Represents(l, s), NEW o \in Objects, NEW k \in 0..Len(s)
  PROVE  /\ InsertedAt(s, k, o) \in Seq(Objects) /\ Len(InsertedAt(s, k, o)) = Len(s) + 1
         /\ \A i \in Int : At(InsertedAt(s, k, o), i) =
              IF i <= k THEN At(s, i) ELSE IF i = k + 1 THEN o ELSE At(s, i - 1)
         /\ \A i \in 1..Len(s) + 1 : At(InsertedAt(s, k, o), i) = InsertedAt(s, k, o)[i]
<1> DEFINE t == InsertedAt(s, k, o)
<1>1. Len(s) \in Nat /\ k \in Nat /\ k <= Len(s) /\ \A i \in 1..Len(s) : s[i] \in Objects
  BY SequenceFacts
<1>2. t = [i \in 1..Len(s) + 1 |-> IF i <= k THEN s[i] ELSE IF i = k + 1 THEN o ELSE s[i - 1]]
  BY DEF InsertedAt
<1>3. \A i \in 1..Len(s) + 1 : t[i] \in Objects
  <2> SUFFICES ASSUME NEW i \in 1..Len(s) + 1
               PROVE  t[i] \in Objects
    OBVIOUS
  <2>1. t[i] = IF i <= k THEN s[i] ELSE IF i = k + 1 THEN o ELSE s[i - 1]
    BY <1>2
  <2>2. i <= k => i \in 1..Len(s)
    BY <1>1
  <2>3. ~(i <= k) /\ i # k + 1 => i - 1 \in 1..Len(s)
    BY <1>1
  <2> QED BY <1>1, <2>1, <2>2, <2>3
<1>4. t \in Seq(Objects) /\ Len(t) = Len(s) + 1
  <2>1. Len(s) + 1 \in Nat /\ t = [i \in 1..Len(s) + 1 |-> t[i]]
    BY <1>1, <1>2
  <2> HIDE DEF t
  <2> QED BY <1>3, <2>1, IsSequence
<1>5. ASSUME NEW i \in Int
      PROVE  At(t, i) = IF i <= k THEN At(s, i) ELSE IF i = k + 1 THEN o ELSE At(s, i - 1)
  <2>1. At(t, i) = IF i \in 1..Len(s) + 1 THEN t[i] ELSE NULL
    BY <1>4 DEF At
  <2>2. i \in 1..Len(s) + 1 => t[i] = IF i <= k THEN s[i] ELSE IF i = k + 1 THEN o ELSE s[i - 1]
    BY <1>2
  <2> HIDE DEF t
  <2>3. CASE i <= k
    <3>1. i \in 1..Len(s) + 1 <=> i \in 1..Len(s)
      BY <1>1, <2>3
    <3> QED BY <2>1, <2>2, <2>3, <3>1 DEF At
  <2>4. CASE i = k + 1
    <3>1. i \in 1..Len(s) + 1 /\ ~(i <= k)
      BY <1>1, <2>4
    <3> QED BY <2>1, <2>2, <2>4, <3>1
  <2>5. CASE i > k + 1
    <3>1. (i \in 1..Len(s) + 1 <=> i - 1 \in 1..Len(s)) /\ ~(i <= k) /\ i # k + 1
      BY <1>1, <2>5
    <3> QED BY <2>1, <2>2, <3>1 DEF At
  <2>6. i <= k \/ i = k + 1 \/ i > k + 1
    BY <1>1
  <2> QED BY <2>3, <2>4, <2>5, <2>6
<1>6. \A i \in 1..Len(s) + 1 : At(t, i) = t[i]
  BY <1>4 DEF At
<1> QED BY <1>4, <1>5, <1>6

\* ListIterator::add links the new object in between.
LEMMA AddToList ==
  ASSUME NEW l, NEW s, Represents(l, s), NEW o \in Objects, o \notin {s[i] : i \in 1..Len(s)},
         NEW k \in 0..Len(s)
  PROVE  Represents(add(l, k, o), InsertedAt(s, k, o))
<1> DEFINE t == InsertedAt(s, k, o)
           a == add(l, k, o)
<1>0. /\ Len(s) \in Nat /\ k \in Nat /\ k <= Len(s) /\ NULL \notin Objects /\ o # NULL
      /\ \A i \in 1..Len(s) : s[i] \in Objects /\ s[i] # NULL /\ s[i] # o
      /\ \A i, j \in 1..Len(s) : s[i] = s[j] => i = j
      /\ \A i \in Int : At(s, i) = NULL <=> i \notin 1..Len(s)
  BY SequenceFacts
<1>1. /\ t \in Seq(Objects) /\ Len(t) = Len(s) + 1
      /\ \A i \in Int : At(t, i) = IF i <= k THEN At(s, i) ELSE IF i = k + 1 THEN o ELSE At(s, i - 1)
      /\ \A i \in 1..Len(s) + 1 : t[i] = At(t, i)
  BY InsertedFacts
<1>2. /\ a.first = IF At(s, k) = NULL THEN o ELSE l.first
      /\ a.last = IF At(s, k + 1) = NULL THEN o ELSE l.last
      /\ a.next = [x \in Places |-> IF x = o THEN At(s, k + 1)
                                    ELSE IF x = At(s, k) /\ At(s, k) # NULL THEN o ELSE l.next[x]]
      /\ a = [first |-> a.first, last |-> a.last, next |-> a.next]
  <2>1. Passed(l, k) = At(s, k) /\ StandsAt(l, k) = At(s, k + 1)
    BY ChainIsTheSequence
  <2>2. DOMAIN l.next = Places
    BY DEF Represents
  <2> QED BY <2>1, <2>2 DEF add
<1> HIDE DEF t, a
<1>3. /\ l.next \in [Places -> Places] /\ l.next[NULL] = NULL
      /\ l.first = At(s, 1) /\ l.last = At(s, Len(s))
      /\ \A i \in 1..Len(s) : l.next[s[i]] = At(s, i + 1)
  BY DEF Represents
<1>4. ASSUME NEW i \in 1..Len(t), NEW j \in 1..Len(t), t[i] = t[j]
      PROVE  i = j
  <2>0. i \in Int /\ j \in Int /\ 1 <= i /\ i <= Len(s) + 1 /\ 1 <= j /\ j <= Len(s) + 1
    BY <1>0, <1>1
  <2>1. ASSUME NEW m \in Int, 1 <= m, m <= Len(s) + 1
        PROVE  /\ m <= k => m \in 1..Len(s) /\ t[m] = s[m]
               /\ m = k + 1 => t[m] = o
               /\ m > k + 1 => m - 1 \in 1..Len(s) /\ t[m] = s[m - 1]
    <3>1. m \in 1..Len(s) + 1 /\ t[m] = At(t, m)
      BY <1>0, <1>1, <2>1
    <3>2. m <= k => m \in 1..Len(s)
      BY <1>0, <2>1
    <3>3. m > k + 1 => m - 1 \in 1..Len(s) /\ ~(m <= k) /\ m # k + 1
      BY <1>0, <2>1
    <3>4. m = k + 1 => ~(m <= k)
      BY <1>0
    <3> QED BY <1>1, <3>1, <3>2, <3>3, <3>4 DEF At
  <2>2. /\ i <= k => i \in 1..Len(s) /\ t[i] = s[i]
        /\ i = k + 1 => t[i] = o
        /\ i > k + 1 => i - 1 \in 1..Len(s) /\ t[i] = s[i - 1]
    BY <2>0, <2>1
  <2>3. /\ j <= k => j \in 1..Len(s) /\ t[j] = s[j]
        /\ j = k + 1 => t[j] = o
        /\ j > k + 1 => j - 1 \in 1..Len(s) /\ t[j] = s[j - 1]
    BY <2>0, <2>1
  <2>4. i <= k \/ i = k + 1 \/ i > k + 1
    BY <1>0, <2>0
  <2>5. j <= k \/ j = k + 1 \/ j > k + 1
    BY <1>0, <2>0
  <2>6. CASE i <= k
    <3>1. CASE j <= k
      BY <1>0, <1>4, <2>2, <2>3, <2>6, <3>1
    <3>2. CASE j = k + 1
      BY <1>0, <1>4, <2>2, <2>3, <2>6, <3>2
    <3>3. CASE j > k + 1
      <4>1. i = j - 1
        BY <1>0, <1>4, <2>2, <2>3, <2>6, <3>3
      <4> QED BY <4>1, <2>0, <2>6, <3>3, <1>0
    <3> QED BY <2>5, <3>1, <3>2, <3>3
  <2>7. CASE i = k + 1
    <3>1. CASE j <= k
      BY <1>0, <1>4, <2>2, <2>3, <2>7, <3>1
    <3>2. CASE j = k + 1
      BY <2>7, <3>2
    <3>3. CASE j > k + 1
      BY <1>0, <1>4, <2>2, <2>3, <2>7, <3>3
    <3> QED BY <2>5, <3>1, <3>2, <3>3
  <2>8. CASE i > k + 1
    <3>1. CASE j <= k
      <4>1. j = i - 1
        BY <1>0, <1>4, <2>2, <2>3, <2>8, <3>1
      <4> QED BY <4>1, <2>0, <2>8, <3>1, <1>0
    <3>2. CASE j = k + 1
      BY <1>0, <1>4, <2>2, <2>3, <2>8, <3>2
    <3>3. CASE j > k + 1
      <4>1. i - 1 = j - 1
        BY <1>0, <1>4, <2>2, <2>3, <2>8, <3>3
      <4> QED BY <4>1, <2>0
    <3> QED BY <2>5, <3>1, <3>2, <3>3
  <2> QED BY <2>4, <2>6, <2>7, <2>8
<1>5. a.next \in [Places -> Places] /\ a.next[NULL] = NULL
  <2>1. At(s, k + 1) \in Places /\ o \in Places /\ NULL \in Places
    BY <1>0 DEF Places, At
  <2>2. \A x \in Places : l.next[x] \in Places
    BY <1>3
  <2> QED BY <1>0, <1>2, <1>3, <2>1, <2>2
<1>6. a.first = At(t, 1)
  <2>1. CASE k = 0
    <3>1. At(s, k) = NULL /\ At(t, 1) = o
      BY <1>0, <1>1, <2>1
    <3> QED BY <1>2, <3>1
  <2>2. CASE k # 0
    <3>1. k \in 1..Len(s) /\ 1 <= k
      BY <1>0, <2>2
    <3>2. At(s, k) # NULL /\ At(t, 1) = At(s, 1)
      BY <1>0, <1>1, <3>1
    <3> QED BY <1>2, <1>3, <3>2
  <2> QED BY <2>1, <2>2
<1>7. a.last = At(t, Len(t))
  <2>1. At(t, Len(s) + 1) = IF Len(s) + 1 = k + 1 THEN o ELSE At(s, Len(s))
    <3>1. Len(s) + 1 \in Int /\ ~(Len(s) + 1 <= k) /\ (Len(s) + 1) - 1 = Len(s)
      BY <1>0
    <3> QED BY <1>1, <3>1
  <2>2. At(s, k + 1) = NULL <=> k = Len(s)
    <3>1. k + 1 \in Int /\ (k + 1 \notin 1..Len(s) <=> k = Len(s))
      BY <1>0
    <3> QED BY <1>0, <3>1
  <2> QED BY <1>0, <1>1, <1>2, <1>3, <2>1, <2>2
<1>8. ASSUME NEW i \in 1..Len(t)
      PROVE  a.next[t[i]] = At(t, i + 1)
  <2>0. i \in Int /\ 1 <= i /\ i <= Len(s) + 1 /\ t[i] = At(t, i)
    BY <1>0, <1>1
  <2>1. CASE i < k
    <3>1. i \in 1..Len(s) /\ k \in 1..Len(s) /\ i # k /\ i <= k /\ i + 1 <= k /\ i + 1 \in Int
      BY <1>0, <2>0, <2>1
    <3>2. t[i] = s[i] /\ At(t, i + 1) = At(s, i + 1)
      BY <1>1, <2>0, <3>1 DEF At
    <3>3. s[i] # s[k] /\ At(s, k) = s[k] /\ s[i] # o /\ s[i] \in Places
      BY <1>0, <3>1 DEF At, Places
    <3> QED BY <1>2, <1>3, <3>1, <3>2, <3>3
  <2>2. CASE i = k
    <3>1. k \in 1..Len(s) /\ k + 1 \in Int /\ ~(k + 1 <= k)
      BY <1>0, <2>0, <2>2
    <3>2. t[i] = s[k] /\ At(t, i + 1) = o /\ At(s, k) = s[k]
      <4>1. At(t, k) = At(s, k) /\ At(t, k + 1) = o
        BY <1>0, <1>1, <3>1
      <4> QED BY <2>0, <2>2, <3>1, <4>1 DEF At
    <3>3. s[k] # o /\ s[k] \in Places /\ s[k] # NULL
      BY <1>0, <3>1 DEF Places
    <3> QED BY <1>2, <3>2, <3>3
  <2>3. CASE i = k + 1
    <3>1. i + 1 \in Int /\ ~(i <= k) /\ ~(i + 1 <= k) /\ i + 1 # k + 1 /\ (i + 1) - 1 = k + 1
      BY <1>0, <2>0, <2>3
    <3>2. t[i] = o /\ At(t, i + 1) = At(s, k + 1)
      BY <1>1, <2>0, <2>3, <3>1
    <3>3. o \in Places
      BY DEF Places
    <3> QED BY <1>2, <3>2, <3>3
  <2>4. CASE i > k + 1
    <3>1. /\ i - 1 \in 1..Len(s) /\ ~(i <= k) /\ i # k + 1 /\ i - 1 # k
          /\ i + 1 \in Int /\ ~(i + 1 <= k) /\ i + 1 # k + 1 /\ (i + 1) - 1 = i /\ (i - 1) + 1 = i
      BY <1>0, <2>0, <2>4
    <3>2. t[i] = s[i - 1] /\ At(t, i + 1) = At(s, i)
      <4>1. At(t, i) = At(s, i - 1) /\ At(t, i + 1) = At(s, i)
        BY <1>1, <2>0, <3>1
      <4> QED BY <2>0, <3>1, <4>1 DEF At
    <3>3. s[i - 1] # o /\ s[i - 1] \in Places /\ l.next[s[i - 1]] = At(s, i)
      <4>1. l.next[s[i - 1]] = At(s, (i - 1) + 1)
        BY <1>3, <3>1
      <4> QED BY <1>0, <3>1, <4>1 DEF Places
    <3>4. ~(s[i - 1] = At(s, k) /\ At(s, k) # NULL)
      BY <1>0, <3>1 DEF At
    <3> QED BY <1>2, <3>2, <3>3, <3>4
  <2>5. i < k \/ i = k \/ i = k + 1 \/ i > k + 1
    BY <1>0, <2>0
  <2> QED BY <2>1, <2>2, <2>3, <2>4, <2>5
<1>9. Represents(a, t)
  BY <1>1, <1>2, <1>4, <1>5, <1>6, <1>7, <1>8 DEF Represents
<1> QED BY <1>9 DEF a, t

\* The places of a sequence after a removal.
LEMMA RemovedFacts ==
  ASSUME NEW l, NEW s, Represents(l, s), NEW k \in 0..Len(s) - 1
  PROVE  /\ RemovedAt(s, k) \in Seq(Objects) /\ Len(RemovedAt(s, k)) = Len(s) - 1
         /\ \A i \in Int : At(RemovedAt(s, k), i) = IF i <= k THEN At(s, i) ELSE At(s, i + 1)
         /\ \A i \in 1..Len(s) - 1 : At(RemovedAt(s, k), i) = RemovedAt(s, k)[i]
<1> DEFINE t == RemovedAt(s, k)
<1>1. /\ Len(s) \in Nat /\ k \in Nat /\ k <= Len(s) - 1 /\ \A i \in 1..Len(s) : s[i] \in Objects
  BY SequenceFacts
<1>2. t = [i \in 1..Len(s) - 1 |-> IF i <= k THEN s[i] ELSE s[i + 1]]
  BY DEF RemovedAt
<1>3. \A i \in 1..Len(s) - 1 : t[i] \in Objects
  <2> SUFFICES ASSUME NEW i \in 1..Len(s) - 1
               PROVE  t[i] \in Objects
    OBVIOUS
  <2>1. t[i] = IF i <= k THEN s[i] ELSE s[i + 1]
    BY <1>2
  <2>2. i \in 1..Len(s) /\ i + 1 \in 1..Len(s)
    BY <1>1
  <2> QED BY <1>1, <2>1, <2>2
<1>4. t \in Seq(Objects) /\ Len(t) = Len(s) - 1
  <2>1. Len(s) - 1 \in Nat /\ t = [i \in 1..Len(s) - 1 |-> t[i]]
    BY <1>1, <1>2
  <2> HIDE DEF t
  <2> QED BY <1>3, <2>1, IsSequence
<1>5. ASSUME NEW i \in Int
      PROVE  At(t, i) = IF i <= k THEN At(s, i) ELSE At(s, i + 1)
  <2>1. At(t, i) = IF i \in 1..Len(s) - 1 THEN t[i] ELSE NULL
    BY <1>4 DEF At
  <2>2. i \in 1..Len(s) - 1 => t[i] = IF i <= k THEN s[i] ELSE s[i + 1]
    BY <1>2
  <2> HIDE DEF t
  <2>3. CASE i <= k
    <3>1. i \in 1..Len(s) - 1 <=> i \in 1..Len(s)
      BY <1>1, <2>3
    <3> QED BY <2>1, <2>2, <2>3, <3>1 DEF At
  <2>4. CASE ~(i <= k)
    <3>1. i \in 1..Len(s) - 1 <=> i + 1 \in 1..Len(s)
      BY <1>1, <2>4
    <3> QED BY <2>1, <2>2, <2>4, <3>1 DEF At
  <2> QED BY <2>3, <2>4
<1>6. \A i \in 1..Len(s) - 1 : At(t, i) = t[i]
  BY <1>4 DEF At
<1> QED BY <1>4, <1>5, <1>6

\* ListIterator::remove links the neighbours with each other.
LEMMA RemoveFromList ==
  ASSUME NEW l, NEW s, Represents(l, s), NEW k \in 0..Len(s) - 1
  PROVE  Represents(removeAt(l, k), RemovedAt(s, k))
<1> DEFINE t == RemovedAt(s, k)
           a == removeAt(l, k)
<1>0. /\ Len(s) \in Nat /\ k \in Nat /\ k <= Len(s) - 1 /\ NULL \notin Objects
      /\ \A i \in 1..Len(s) : s[i] \in Objects /\ s[i] # NULL
      /\ \A i, j \in 1..Len(s) : s[i] = s[j] => i = j
      /\ \A i \in Int : At(s, i) = NULL <=> i \notin 1..Len(s)
  BY SequenceFacts
<1>1. /\ t \in Seq(Objects) /\ Len(t) = Len(s) - 1
      /\ \A i \in Int : At(t, i) = IF i <= k THEN At(s, i) ELSE At(s, i + 1)
      /\ \A i \in 1..Len(s) - 1 : t[i] = At(t, i)
  <2>1. /\ t \in Seq(Objects) /\ Len(t) = Len(s) - 1
        /\ \A i \in Int : At(t, i) = IF i <= k THEN At(s, i) ELSE At(s, i + 1)
        /\ \A i \in 1..Len(s) - 1 : At(t, i) = t[i]
    <3>1. Represents(l, s) /\ k \in 0..Len(s) - 1
      OBVIOUS
    <3>2. /\ RemovedAt(s, k) \in Seq(Objects) /\ Len(RemovedAt(s, k)) = Len(s) - 1
          /\ \A i \in Int : At(RemovedAt(s, k), i) = IF i <= k THEN At(s, i) ELSE At(s, i + 1)
          /\ \A i \in 1..Len(s) - 1 : At(RemovedAt(s, k), i) = RemovedAt(s, k)[i]
      BY ONLY <3>1, RemovedFacts
    <3> QED BY <3>2
  <2> HIDE DEF t
  <2>2. \A i \in 1..Len(s) - 1 : t[i] = At(t, i)
    BY <2>1, Zenon
  <2> QED BY <2>1, <2>2, Zenon
<1>3. /\ l.next \in [Places -> Places] /\ l.next[NULL] = NULL
      /\ l.first = At(s, 1) /\ l.last = At(s, Len(s))
      /\ \A i \in 1..Len(s) : l.next[s[i]] = At(s, i + 1)
  BY DEF Represents
<1>2. /\ a.first = IF At(s, k) = NULL THEN At(s, k + 2) ELSE l.first
      /\ a.last = IF At(s, k + 2) = NULL THEN At(s, k) ELSE l.last
      /\ a.next = IF At(s, k) = NULL THEN l.next ELSE [l.next EXCEPT ![At(s, k)] = At(s, k + 2)]
      /\ a = [first |-> a.first, last |-> a.last, next |-> a.next]
  <2>0. k \in 0..Len(s) /\ k + 1 \in 1..Len(s) /\ (k + 1) + 1 = k + 2
    BY <1>0
  <2>1. Passed(l, k) = At(s, k) /\ StandsAt(l, k) = At(s, k + 1)
    BY <2>0, ChainIsTheSequence
  <2>2. l.next[At(s, k + 1)] = At(s, k + 2)
    <3>1. At(s, k + 1) = s[k + 1] /\ l.next[s[k + 1]] = At(s, (k + 1) + 1)
      BY <1>3, <2>0 DEF At
    <3> QED BY <2>0, <3>1
  <2> QED BY <2>1, <2>2 DEF removeAt
<1> HIDE DEF t, a
<1>4. ASSUME NEW i \in 1..Len(t), NEW j \in 1..Len(t), t[i] = t[j]
      PROVE  i = j
  <2>1. ASSUME NEW m \in 1..Len(t)
        PROVE  /\ m <= k => m \in 1..Len(s) /\ t[m] = s[m]
               /\ m > k => m + 1 \in 1..Len(s) /\ t[m] = s[m + 1]
    <3>0. m \in 1..Len(s) - 1 /\ m \in 1..Len(s) /\ m + 1 \in 1..Len(s)
      BY <1>0, <1>1
    <3>1. m \in 1..Len(s) - 1 /\ t[m] = At(t, m) /\ m \in 1..Len(s) /\ m + 1 \in 1..Len(s)
      BY <1>1, <3>0, Zenon
    <3>2. m > k => ~(m <= k)
      BY <1>0
    <3> QED BY <1>1, <3>1, <3>2 DEF At
  <2>2. /\ i <= k => i \in 1..Len(s) /\ t[i] = s[i]
        /\ i > k => i + 1 \in 1..Len(s) /\ t[i] = s[i + 1]
    BY <2>1
  <2>3. /\ j <= k => j \in 1..Len(s) /\ t[j] = s[j]
        /\ j > k => j + 1 \in 1..Len(s) /\ t[j] = s[j + 1]
    BY <2>1
  <2>4. (i <= k \/ i > k) /\ (j <= k \/ j > k) /\ i \in Int /\ j \in Int
    BY <1>0, <1>1
  <2>5. CASE i <= k /\ j <= k
    BY <1>0, <1>4, <2>2, <2>3, <2>5
  <2>6. CASE i <= k /\ j > k
    <3>1. i = j + 1
      BY <1>0, <1>4, <2>2, <2>3, <2>6
    <3> QED BY <1>0, <2>4, <2>6, <3>1
  <2>7. CASE i > k /\ j <= k
    <3>1. i + 1 = j
      BY <1>0, <1>4, <2>2, <2>3, <2>7
    <3> QED BY <1>0, <2>4, <2>7, <3>1
  <2>8. CASE i > k /\ j > k
    <3>1. i + 1 = j + 1
      BY <1>0, <1>4, <2>2, <2>3, <2>8
    <3> QED BY <2>4, <3>1
  <2> QED BY <2>4, <2>5, <2>6, <2>7, <2>8
<1>5. a.next \in [Places -> Places] /\ a.next[NULL] = NULL
  <2>1. At(s, k + 2) \in Places /\ At(s, k) \in Places
    BY <1>0 DEF Places, At
  <2> QED BY <1>2, <1>3, <2>1
<1>6. a.first = At(t, 1)
  <2>1. CASE k = 0
    <3>1. At(s, k) = NULL /\ At(t, 1) = At(s, 1 + 1) /\ k + 2 = 1 + 1
      BY <1>0, <1>1, <2>1
    <3> QED BY <1>2, <3>1
  <2>2. CASE k # 0
    <3>1. k \in 1..Len(s) /\ 1 <= k
      BY <1>0, <2>2
    <3>2. At(s, k) # NULL /\ At(t, 1) = At(s, 1)
      BY <1>0, <1>1, <3>1
    <3> QED BY <1>2, <1>3, <3>2
  <2> QED BY <2>1, <2>2
<1>7. a.last = At(t, Len(t))
  <2>1. At(t, Len(s) - 1) = IF Len(s) - 1 <= k THEN At(s, Len(s) - 1) ELSE At(s, Len(s))
    <3>1. Len(s) - 1 \in Int /\ (Len(s) - 1) + 1 = Len(s)
      BY <1>0
    <3> QED BY <1>1, <3>1
  <2>2. At(s, k + 2) = NULL <=> k = Len(s) - 1
    <3>1. k + 2 \in Int /\ (k + 2 \notin 1..Len(s) <=> k = Len(s) - 1)
      BY <1>0
    <3> QED BY <1>0, <3>1
  <2>3. k = Len(s) - 1 <=> Len(s) - 1 <= k
    BY <1>0
  <2> QED BY <1>1, <1>2, <1>3, <2>1, <2>2, <2>3
<1>8. ASSUME NEW i \in 1..Len(t)
      PROVE  a.next[t[i]] = At(t, i + 1)
  <2>0. i \in Int /\ i + 1 \in Int /\ 1 <= i /\ i <= Len(s) - 1 /\ t[i] = At(t, i)
    BY <1>0, <1>1
  <2>1. CASE i < k
    <3>1. i \in 1..Len(s) /\ k \in 1..Len(s) /\ i # k /\ i <= k /\ i + 1 <= k
      BY <1>0, <2>0, <2>1
    <3>2. t[i] = s[i] /\ At(t, i + 1) = At(s, i + 1)
      <4>1. At(t, i) = At(s, i) /\ At(t, i + 1) = At(s, i + 1)
        BY <1>1, <2>0, <3>1
      <4> QED BY <2>0, <3>1, <4>1 DEF At
    <3>3. s[i] # s[k] /\ At(s, k) = s[k] /\ s[i] \in Places
      BY <1>0, <3>1 DEF At, Places
    <3> QED BY <1>2, <1>3, <3>1, <3>2, <3>3
  <2>2. CASE i = k
    <3>1. k \in 1..Len(s) /\ ~(k + 1 <= k) /\ k <= k /\ (k + 1) + 1 = k + 2
      BY <1>0, <2>0, <2>2
    <3>2. t[i] = s[k] /\ At(t, i + 1) = At(s, k + 2) /\ At(s, k) = s[k]
      <4>1. At(t, i) = At(s, k) /\ At(t, i + 1) = At(s, (k + 1) + 1)
        BY <1>1, <2>0, <2>2, <3>1
      <4> QED BY <2>0, <3>1, <4>1 DEF At
    <3>3. s[k] \in Places /\ s[k] # NULL
      BY <1>0, <3>1 DEF Places
    <3> QED BY <1>2, <1>3, <3>2, <3>3
  <2>3. CASE i > k
    <3>1. i + 1 \in 1..Len(s) /\ ~(i <= k) /\ ~(i + 1 <= k) /\ i + 1 # k
      BY <1>0, <2>0, <2>3
    <3>2. t[i] = s[i + 1] /\ At(t, i + 1) = At(s, (i + 1) + 1)
      <4>1. At(t, i) = At(s, i + 1) /\ At(t, i + 1) = At(s, (i + 1) + 1)
        BY <1>1, <2>0, <3>1
      <4> QED BY <2>0, <3>1, <4>1 DEF At
    <3>3. l.next[s[i + 1]] = At(s, (i + 1) + 1) /\ s[i + 1] \in Places
      BY <1>0, <1>3, <3>1 DEF Places
    <3>4. At(s, k) # NULL => At(s, k) # s[i + 1]
      BY <1>0, <3>1 DEF At
    <3> QED BY <1>2, <1>3, <3>2, <3>3, <3>4
  <2>4. i < k \/ i = k \/ i > k
    BY <1>0, <2>0
  <2> QED BY <2>1, <2>2, <2>3, <2>4
<1>9. Represents(a, t)
  BY <1>1, <1>2, <1>4, <1>5, <1>6, <1>7, <1>8 DEF Represents
<1> QED BY <1>9 DEF a, t

\* A list that represents a sequence is well linked.
LEMMA RepresentedIsList ==
  ASSUME NEW l, NEW s, Represents(l, s)
  PROVE  IsList(l) /\ Chain(l) = s
<1>1. Chain(l) = s
  BY ChainIsTheSequence
<1> QED BY <1>1 DEF IsList

ListType == [first : Places, last : Places, next : [Places -> Places]]

\* Lists with the same fields are the same.
LEMMA SameList ==
  ASSUME NEW l \in ListType, NEW m \in ListType,
         l.first = m.first, l.last = m.last, l.next = m.next
  PROVE  l = m
BY DEF ListType

\* What is known of a well-linked list: its walk, its members and its ends.
LEMMA ListFacts ==
  ASSUME NEW l, IsList(l)
  PROVE  /\ Len(Chain(l)) \in Nat /\ Members(l) = {Chain(l)[i] : i \in 1..Len(Chain(l))}
         /\ Members(l) \subseteq Objects /\ NULL \notin Members(l)
         /\ IsFiniteSet(Members(l)) /\ Cardinality(Members(l)) = Len(Chain(l))
         /\ \A i, j \in 1..Len(Chain(l)) : Chain(l)[i] = Chain(l)[j] => i = j
         /\ Chain(l) = [i \in 1..Len(Chain(l)) |-> Chain(l)[i]]
         /\ Len(Chain(l)) = 0 <=> Members(l) = {}
         /\ Len(Chain(l)) = 0 <=> l.first = NULL
         /\ Members(l) # {} => l.first \in Members(l) /\ l.first = Chain(l)[1]
                               /\ l.last = Chain(l)[Len(Chain(l))] /\ l.next[l.last] = NULL
         /\ l \in ListType /\ l = [first |-> l.first, last |-> l.last, next |-> l.next]
<1> DEFINE s == Chain(l)
<1>0. Represents(l, s)
  BY DEF IsList
<1> HIDE DEF s
<1>1. /\ Len(s) \in Nat /\ s = [i \in 1..Len(s) |-> s[i]]
      /\ \A i, j \in 1..Len(s) : s[i] = s[j] => i = j
      /\ \A i \in 1..Len(s) : s[i] \in Objects /\ s[i] # NULL
      /\ NULL \notin Objects
  BY <1>0, SequenceFacts
<1>2. Members(l) = {s[i] : i \in 1..Len(s)}
  BY <1>0, ChainIsTheSequence
<1>3. s \in Seq(Objects)
  BY <1>0 DEF Represents
<1>4. IsFiniteSet(Members(l)) /\ Cardinality(Members(l)) = Len(s)
  BY <1>1, <1>2, <1>3, LengthIsCardinality
<1>5. Len(s) = 0 <=> Members(l) = {}
  <2>1. Len(s) # 0 => 1 \in 1..Len(s)
    BY <1>1
  <2>2. Len(s) = 0 => 1..Len(s) = {}
    BY <1>1
  <2> QED BY <1>2, <2>1, <2>2
<1>6. /\ l.first = At(s, 1) /\ l.last = At(s, Len(s))
      /\ \A i \in 1..Len(s) : l.next[s[i]] = At(s, i + 1)
      /\ l.next \in [Places -> Places]
      /\ l = [first |-> l.first, last |-> l.last, next |-> l.next]
  BY <1>0 DEF Represents
<1>7. Len(s) = 0 <=> l.first = NULL
  <2>1. 1 \in 1..Len(s) <=> Len(s) # 0
    BY <1>1
  <2> QED BY <1>1, <1>6, <2>1 DEF At
<1>8. ASSUME Members(l) # {}
      PROVE  /\ l.first \in Members(l) /\ l.first = s[1]
             /\ l.last = s[Len(s)] /\ l.next[l.last] = NULL
  <2>1. 1 \in 1..Len(s) /\ Len(s) \in 1..Len(s) /\ Len(s) + 1 \notin 1..Len(s)
    BY <1>1, <1>5, <1>8
  <2>2. l.first = s[1] /\ l.last = s[Len(s)] /\ l.next[s[Len(s)]] = NULL
    BY <1>6, <2>1 DEF At
  <2> QED BY <1>2, <2>1, <2>2
<1>9. l.first \in Places /\ l.last \in Places
  BY <1>1, <1>6 DEF At, Places
<1>10. Members(l) \subseteq Objects /\ NULL \notin Members(l)
  BY <1>1, <1>2
<1>11. l \in ListType
  BY <1>6, <1>9 DEF ListType
<1> QED BY <1>1, <1>2, <1>4, <1>5, <1>6, <1>7, <1>8, <1>10, <1>11 DEF s

\* What an insertion does to a list.
Added(a, l, k, o) ==
  /\ IsList(a) /\ Chain(a) = InsertedAt(Chain(l), k, o)
  /\ Members(a) = Members(l) \cup {o} /\ Len(Chain(a)) = Len(Chain(l)) + 1

\* ListIterator::add puts the object behind those the iterator has passed.
LEMMA ListAdd ==
  ASSUME NEW l, IsList(l), NEW o \in Objects, o \notin Members(l), NEW k \in 0..Len(Chain(l))
  PROVE  Added(add(l, k, o), l, k, o)
<1> DEFINE s == Chain(l)
           a == add(l, k, o)
           t == InsertedAt(s, k, o)
<1>0. Represents(l, s)
  BY DEF IsList
<1>1. /\ Len(s) \in Nat /\ Members(l) = {s[i] : i \in 1..Len(s)} /\ Members(l) \subseteq Objects
  BY ListFacts
<1>2. k \in 0..Len(s) /\ o \notin {s[i] : i \in 1..Len(s)}
  BY <1>1
<1> HIDE DEF s
<1>3. Represents(a, t)
  BY <1>0, <1>2, AddToList
<1>4. /\ Len(t) = Len(s) + 1
      /\ \A i \in Int : At(t, i) = IF i <= k THEN At(s, i) ELSE IF i = k + 1 THEN o ELSE At(s, i - 1)
      /\ \A i \in 1..Len(s) + 1 : At(t, i) = t[i]
  BY <1>0, <1>2, InsertedFacts
<1> HIDE DEF a, t
<1>5. IsList(a) /\ Chain(a) = t
  BY <1>3, RepresentedIsList
<1>6. Members(a) = {t[i] : i \in 1..Len(t)}
  BY <1>3, ChainIsTheSequence
<1>7. ASSUME NEW i \in 1..Len(t)
      PROVE  t[i] \in Members(l) \cup {o}
  <2>1. i \in 1..Len(s) + 1 /\ t[i] = At(t, i) /\ i \in Int
    BY <1>1, <1>4
  <2>2. i <= k => i \in 1..Len(s)
    BY <1>1, <1>2, <2>1
  <2>3. ~(i <= k) /\ i # k + 1 => i - 1 \in 1..Len(s)
    BY <1>1, <1>2, <2>1
  <2>4. CASE i <= k
    <3>1. At(t, i) = At(s, i)
      BY <1>4, <2>1, <2>4
    <3> QED BY <1>1, <2>1, <2>2, <2>4, <3>1 DEF At
  <2>5. CASE ~(i <= k)
    <3>1. At(t, i) = IF i = k + 1 THEN o ELSE At(s, i - 1)
      BY <1>4, <2>1, <2>5
    <3> QED BY <1>1, <2>1, <2>3, <2>5, <3>1 DEF At
  <2> QED BY <2>4, <2>5
<1>8. ASSUME NEW x \in Members(l) \cup {o}
      PROVE  \E i \in 1..Len(t) : t[i] = x
  <2>1. CASE x = o
    <3>1. k + 1 \in 1..Len(t) /\ k + 1 \in 1..Len(s) + 1 /\ k + 1 \in Int /\ ~(k + 1 <= k)
      BY <1>1, <1>2, <1>4
    <3>2. t[k + 1] = o
      BY <1>4, <3>1
    <3> QED BY <2>1, <3>1, <3>2
  <2>2. CASE x # o
    <3>1. PICK i \in 1..Len(s) : x = s[i]
      BY <1>1, <2>2
    <3>2. CASE i <= k
      <4>1. i \in 1..Len(t) /\ i \in 1..Len(s) + 1 /\ i \in Int
        BY <1>1, <1>4
      <4>2. t[i] = At(s, i)
        BY <1>4, <3>2, <4>1
      <4> QED BY <3>1, <4>1, <4>2 DEF At
    <3>3. CASE ~(i <= k)
      <4>1. /\ i + 1 \in 1..Len(t) /\ i + 1 \in 1..Len(s) + 1 /\ i + 1 \in Int
            /\ ~(i + 1 <= k) /\ i + 1 # k + 1 /\ (i + 1) - 1 = i
        BY <1>1, <1>2, <1>4, <3>3
      <4>2. t[i + 1] = At(s, i)
        BY <1>4, <4>1
      <4> QED BY <3>1, <4>1, <4>2 DEF At
    <3> QED BY <3>2, <3>3
  <2> QED BY <2>1, <2>2
<1>9. Members(a) = Members(l) \cup {o}
  BY <1>6, <1>7, <1>8
<1> QED BY <1>4, <1>5, <1>9 DEF Added, a, t, s

\* What the removal of the object at place k + 1 does to a list.
Removed(a, l, k) ==
  /\ IsList(a) /\ Chain(a) = RemovedAt(Chain(l), k)
  /\ Members(a) = Members(l) \ {Chain(l)[k + 1]} /\ Len(Chain(a)) = Len(Chain(l)) - 1

\* ListIterator::remove takes out the object the iterator stands at.
LEMMA ListRemoveAt ==
  ASSUME NEW l, IsList(l), NEW k \in 0..Len(Chain(l)) - 1
  PROVE  Removed(removeAt(l, k), l, k)
<1> DEFINE s == Chain(l)
           a == removeAt(l, k)
           t == RemovedAt(s, k)
<1>0. Represents(l, s)
  BY DEF IsList
<1>1. /\ Len(s) \in Nat /\ Members(l) = {s[i] : i \in 1..Len(s)} /\ k \in 0..Len(s) - 1
      /\ \A i, j \in 1..Len(s) : s[i] = s[j] => i = j
  BY ListFacts
<1> HIDE DEF s
<1>3. Represents(a, t)
  BY <1>0, <1>1, RemoveFromList
<1>4. /\ Len(t) = Len(s) - 1
      /\ \A i \in Int : At(t, i) = IF i <= k THEN At(s, i) ELSE At(s, i + 1)
      /\ \A i \in 1..Len(s) - 1 : At(t, i) = t[i]
  <2>1. Represents(l, s) /\ k \in 0..Len(s) - 1
    BY <1>0, <1>1
  <2> QED BY ONLY <2>1, RemovedFacts
<1> HIDE DEF a, t
<1>5. IsList(a) /\ Chain(a) = t
  BY <1>3, RepresentedIsList
<1>6. Members(a) = {t[i] : i \in 1..Len(t)}
  BY <1>3, ChainIsTheSequence
<1>7. ASSUME NEW i \in 1..Len(t)
      PROVE  t[i] \in Members(l) \ {s[k + 1]}
  <2>1. /\ i \in 1..Len(s) - 1 /\ i \in Int /\ i \in 1..Len(s) /\ i + 1 \in 1..Len(s)
        /\ k + 1 \in 1..Len(s) /\ k \in Int
    BY <1>1, <1>4
  <2>2. t[i] = At(t, i)
    BY <1>4, <2>1
  <2>4. CASE i <= k
    <3>1. t[i] = s[i] /\ i # k + 1
      BY <1>4, <2>1, <2>2, <2>4 DEF At
    <3> QED BY <1>1, <2>1, <3>1
  <2>5. CASE ~(i <= k)
    <3>1. t[i] = s[i + 1] /\ i + 1 # k + 1
      BY <1>4, <2>1, <2>2, <2>5 DEF At
    <3> QED BY <1>1, <2>1, <3>1
  <2> QED BY <2>4, <2>5
<1>8. ASSUME NEW x \in Members(l) \ {s[k + 1]}
      PROVE  \E i \in 1..Len(t) : t[i] = x
  <2>1. PICK i \in 1..Len(s) : x = s[i]
    BY <1>1
  <2>2. i # k + 1 /\ i \in Int /\ k \in Int
    BY <1>1, <2>1
  <2>3. CASE i <= k
    <3>1. i \in 1..Len(t) /\ i \in 1..Len(s) - 1
      BY <1>1, <1>4, <2>2, <2>3
    <3>2. t[i] = At(s, i)
      BY <1>4, <2>2, <2>3, <3>1
    <3> QED BY <2>1, <3>1, <3>2 DEF At
  <2>4. CASE ~(i <= k)
    <3>1. /\ i - 1 \in 1..Len(t) /\ i - 1 \in 1..Len(s) - 1 /\ i - 1 \in Int
          /\ ~(i - 1 <= k) /\ (i - 1) + 1 = i
      BY <1>1, <1>4, <2>2, <2>4
    <3>2. t[i - 1] = At(s, i)
      BY <1>4, <3>1
    <3> QED BY <2>1, <3>1, <3>2 DEF At
  <2> QED BY <2>3, <2>4
<1>9. Members(a) = Members(l) \ {s[k + 1]}
  BY <1>6, <1>7, <1>8
<1> QED BY <1>4, <1>5, <1>9 DEF Removed, a, t, s

-----------------------------------------------------------------------------
(***************************************************************************)
(* The operations of List, ListIterator and OrderedList.                   *)
(***************************************************************************)

\* An iterator at the beginning and at the end of a list.
LEMMA ListEnds ==
  ASSUME NEW l, IsList(l)
  PROVE  /\ Passed(l, 0) = NULL /\ StandsAt(l, 0) = l.first
         /\ Passed(l, Len(Chain(l))) = l.last /\ StandsAt(l, Len(Chain(l))) = NULL
         /\ Members(l) # {} => (l.next[l.first] = NULL <=> l.first = l.last)
<1> DEFINE s == Chain(l)
<1>0. Represents(l, s)
  BY DEF IsList
<1>1. /\ Len(s) \in Nat /\ \A i, j \in 1..Len(s) : s[i] = s[j] => i = j
      /\ Len(s) = 0 <=> Members(l) = {}
      /\ \A i \in Int : At(s, i) = NULL <=> i \notin 1..Len(s)
  BY <1>0, ListFacts, SequenceFacts
<1> HIDE DEF s
<1>2. \A k \in 0..Len(s) : Passed(l, k) = At(s, k) /\ StandsAt(l, k) = At(s, k + 1)
  BY <1>0, ChainIsTheSequence
<1>3. l.first = At(s, 1) /\ l.last = At(s, Len(s)) /\ \A i \in 1..Len(s) : l.next[s[i]] = At(s, i + 1)
  BY <1>0 DEF Represents
<1>4. /\ 0 \in 0..Len(s) /\ Len(s) \in 0..Len(s) /\ 0 + 1 = 1 /\ Len(s) + 1 \in Int
      /\ Len(s) + 1 \notin 1..Len(s) /\ 0 \notin 1..Len(s) /\ 0 \in Int
  BY <1>1
<1>5. /\ Passed(l, 0) = NULL /\ StandsAt(l, 0) = l.first
      /\ Passed(l, Len(s)) = l.last /\ StandsAt(l, Len(s)) = NULL
  <2>1. At(s, 0) = NULL /\ At(s, Len(s) + 1) = NULL
    BY <1>1, <1>4
  <2> QED BY <1>2, <1>3, <1>4, <2>1
<1>6. ASSUME Members(l) # {}
      PROVE  l.next[l.first] = NULL <=> l.first = l.last
  <2>0. Len(s) \in Nat /\ Len(s) # 0
    BY <1>1, <1>6
  <2>1. 1 \in 1..Len(s) /\ Len(s) \in 1..Len(s) /\ 1 + 1 \in Int
    BY <2>0
  <2>3. 1 + 1 \notin 1..Len(s) <=> Len(s) = 1
    BY <2>0
  <2>2. l.first = s[1] /\ l.last = s[Len(s)] /\ l.next[s[1]] = At(s, 1 + 1)
    BY <1>3, <2>1 DEF At
  <2> QED BY <1>1, <2>1, <2>2, <2>3
<1> QED BY <1>5, <1>6 DEF s

\* List::removeFromFront removes the first object.
LEMMA ListRemoveFront ==
  ASSUME NEW l, IsList(l), Members(l) # {}
  PROVE  Removed(removeFromFront(l), l, 0)
<1>1. /\ l \in ListType /\ NULL \in Places
      /\ Len(Chain(l)) \in Nat /\ Len(Chain(l)) # 0
  BY ListFacts DEF Places
<1>2. removeAt(l, 0) = [first |-> l.next[l.first],
                        last |-> IF l.next[l.first] = NULL THEN NULL ELSE l.last,
                        next |-> l.next]
  <2>1. Passed(l, 0) = NULL /\ StandsAt(l, 0) = l.first
    BY ListEnds
  <2> QED BY <2>1 DEF removeAt
<1>3. removeFromFront(l) = removeAt(l, 0)
  <2> DEFINE r == removeFromFront(l)
             a == removeAt(l, 0)
  <2>1. l.next[l.first] = NULL <=> l.first = l.last
    BY ListEnds
  <2>2. l.first \in Places /\ l.next \in [Places -> Places] /\ l.last \in Places
        /\ l.next[l.first] \in Places
    BY <1>1 DEF ListType
  <2>3. a \in ListType /\ a.first = l.next[l.first] /\ a.next = l.next
        /\ a.last = IF l.next[l.first] = NULL THEN NULL ELSE l.last
    BY <1>1, <1>2, <2>2 DEF ListType
  <2>4. CASE l.first = l.last
    <3>1. r \in ListType /\ r.first = NULL /\ r.last = NULL /\ r.next = l.next
      BY <1>1, <2>4 DEF removeFromFront, ListType
    <3> HIDE DEF r, a
    <3> QED BY <2>1, <2>3, <2>4, <3>1, SameList DEF r, a
  <2>5. CASE l.first # l.last
    <3>1. r \in ListType /\ r.first = l.next[l.first] /\ r.last = l.last /\ r.next = l.next
      BY <1>1, <2>2, <2>5 DEF removeFromFront, ListType
    <3> HIDE DEF r, a
    <3> QED BY <2>1, <2>3, <2>5, <3>1, SameList DEF r, a
  <2> QED BY <2>4, <2>5
<1>4. 0 \in 0..Len(Chain(l)) - 1
  BY <1>1
<1> QED BY <1>3, <1>4, ListRemoveAt

\* List::insertAtFront inserts before the first object.
LEMMA ListInsertAtFront ==
  ASSUME NEW l, IsList(l), NEW o \in Objects, o \notin Members(l)
  PROVE  Added(insertAtFront(l, o), l, 0, o)
<1>1. /\ l = [first |-> l.first, last |-> l.last, next |-> l.next]
      /\ l \in ListType /\ l.first \in Places /\ l.next \in [Places -> Places] /\ o \in Places /\ NULL \in Places
      /\ Len(Chain(l)) \in Nat
      /\ l.first # NULL => Members(l) # {} /\ l.last # NULL
      /\ l.first = NULL => l.last = NULL
  <2>1. l.first = NULL => l.last = NULL
    <3>1. l.first = NULL => Len(Chain(l)) = 0
      BY ListFacts
    <3> QED BY <3>1, ListEnds
  <2>2. /\ l = [first |-> l.first, last |-> l.last, next |-> l.next]
        /\ l \in ListType /\ l.first \in Places /\ l.next \in [Places -> Places] /\ o \in Places /\ NULL \in Places
        /\ Len(Chain(l)) \in Nat
        /\ l.first # NULL => Members(l) # {}
    <3>1. l \in ListType /\ l = [first |-> l.first, last |-> l.last, next |-> l.next]
      BY ListFacts
    <3>2. Len(Chain(l)) \in Nat /\ (l.first # NULL => Members(l) # {})
      BY ListFacts
    <3>3. o \in Places /\ NULL \in Places
      BY DEF Places
    <3> QED BY <3>1, <3>2, <3>3 DEF ListType
  <2>3. Members(l) # {} => l.last \in Members(l) /\ NULL \notin Members(l)
    <3>1. Members(l) # {} => Len(Chain(l)) \in 1..Len(Chain(l))
      BY ListFacts
    <3> QED BY <3>1, ListFacts
  <2> QED BY <2>1, <2>2, <2>3
<1>2. add(l, 0, o) = [first |-> o, last |-> IF l.first = NULL THEN o ELSE l.last,
                      next |-> [x \in Places |-> IF x = o THEN l.first ELSE l.next[x]]]
  <2>1. Passed(l, 0) = NULL /\ StandsAt(l, 0) = l.first
    BY ListEnds
  <2>2. DOMAIN l.next = Places
    BY <1>1
  <2> QED BY <2>1, <2>2 DEF add
<1>3. [x \in Places |-> IF x = o THEN l.first ELSE l.next[x]] = [l.next EXCEPT ![o] = l.first]
  BY <1>1
<1>4. insertAtFront(l, o) = add(l, 0, o)
  <2> DEFINE r == insertAtFront(l, o)
             a == add(l, 0, o)
  <2>1. l.last \in Places /\ [l.next EXCEPT ![o] = l.first] \in [Places -> Places]
    BY <1>1 DEF ListType
  <2>2. a \in ListType /\ a.first = o /\ a.last = (IF l.first = NULL THEN o ELSE l.last)
        /\ a.next = [l.next EXCEPT ![o] = l.first]
    BY <1>1, <1>2, <1>3, <2>1 DEF ListType
  <2>3. CASE l.first = NULL
    <3>1. r \in ListType /\ r.first = o /\ r.last = o /\ r.next = [l.next EXCEPT ![o] = NULL]
      BY <1>1, <2>3 DEF insertAtFront, ListType
    <3> HIDE DEF r, a
    <3> QED BY <2>2, <2>3, <3>1, SameList DEF r, a
  <2>4. CASE l.first # NULL
    <3>1. r \in ListType /\ r.first = o /\ r.last = l.last /\ r.next = [l.next EXCEPT ![o] = l.first]
      BY <1>1, <2>4 DEF insertAtFront, ListType
    <3> HIDE DEF r, a
    <3> QED BY <2>2, <2>4, <3>1, SameList DEF r, a
  <2> QED BY <2>3, <2>4
<1>5. 0 \in 0..Len(Chain(l))
  BY <1>1
<1> QED BY <1>4, <1>5, ListAdd

\* List::insertAtBack inserts behind the last object.
LEMMA ListInsertAtBack ==
  ASSUME NEW l, IsList(l), NEW o \in Objects, o \notin Members(l)
  PROVE  Added(insertAtBack(l, o), l, Len(Chain(l)), o)
<1> DEFINE n == Len(Chain(l))
<1>1. /\ l = [first |-> l.first, last |-> l.last, next |-> l.next]
      /\ l \in ListType /\ l.first \in Places /\ l.next \in [Places -> Places] /\ o \in Places /\ NULL \in Places
      /\ n \in Nat
      /\ l.first = NULL <=> l.last = NULL
      /\ l.last \in Places /\ l.last # o
  <2>1. l.first = NULL => l.last = NULL
    <3>1. l.first = NULL => Len(Chain(l)) = 0
      BY ListFacts
    <3> QED BY <3>1, ListEnds
  <2>2. /\ l = [first |-> l.first, last |-> l.last, next |-> l.next]
        /\ l \in ListType /\ l.first \in Places /\ l.next \in [Places -> Places] /\ o \in Places /\ NULL \in Places
        /\ n \in Nat /\ l.last \in Places
        /\ l.first # NULL => Members(l) # {}
    <3>1. l \in ListType /\ l = [first |-> l.first, last |-> l.last, next |-> l.next]
      BY ListFacts
    <3>2. n \in Nat /\ (l.first # NULL => Members(l) # {})
      BY ListFacts
    <3>3. o \in Places /\ NULL \in Places
      BY DEF Places
    <3> HIDE DEF n
    <3> QED BY <3>1, <3>2, <3>3 DEF ListType
  <2>3. Members(l) # {} => l.last \in Members(l) /\ NULL \notin Members(l)
    <3>1. Members(l) # {} => Len(Chain(l)) \in 1..Len(Chain(l))
      BY ListFacts
    <3> QED BY <3>1, ListFacts
  <2>4. o # NULL
    BY ObjectsAreFinite
  <2> QED BY <2>1, <2>2, <2>3, <2>4
<1>2. add(l, n, o) = [first |-> IF l.last = NULL THEN o ELSE l.first, last |-> o,
                      next |-> [x \in Places |-> IF x = o THEN NULL
                                                 ELSE IF x = l.last /\ l.last # NULL THEN o ELSE l.next[x]]]
  <2>1. Passed(l, n) = l.last /\ StandsAt(l, n) = NULL
    BY ListEnds
  <2>2. DOMAIN l.next = Places
    BY <1>1
  <2> QED BY <2>1, <2>2 DEF add
<1> HIDE DEF n
<1>4. insertAtBack(l, o) = add(l, n, o)
  <2> DEFINE r == insertAtBack(l, o)
             a == add(l, n, o)
             f == [x \in Places |-> IF x = o THEN NULL
                                    ELSE IF x = l.last /\ l.last # NULL THEN o ELSE l.next[x]]
  <2>1. f \in [Places -> Places]
    BY <1>1
  <2>2. a = [first |-> IF l.last = NULL THEN o ELSE l.first, last |-> o, next |-> f]
    BY <1>2
  <2> HIDE DEF f
  <2>3. a \in ListType /\ a.first = (IF l.last = NULL THEN o ELSE l.first) /\ a.last = o /\ a.next = f
    BY <1>1, <2>1, <2>2 DEF ListType
  <2>4. CASE l.first = NULL
    <3>1. r \in ListType /\ r.first = o /\ r.last = o /\ r.next = [l.next EXCEPT ![o] = NULL]
      BY <1>1, <2>4 DEF insertAtBack, ListType
    <3>2. [l.next EXCEPT ![o] = NULL] = f
      BY <1>1, <2>4 DEF f
    <3> HIDE DEF r, a
    <3> QED BY <1>1, <2>3, <2>4, <3>1, <3>2, SameList DEF r, a
  <2>5. CASE l.first # NULL
    <3>1. r \in ListType /\ r.first = l.first /\ r.last = o
          /\ r.next = [l.next EXCEPT ![l.last] = o, ![o] = NULL]
      BY <1>1, <2>5 DEF insertAtBack, ListType
    <3>2. [l.next EXCEPT ![l.last] = o, ![o] = NULL] = f
      BY <1>1, <2>5 DEF f
    <3> HIDE DEF r, a
    <3> QED BY <1>1, <2>3, <2>5, <3>1, <3>2, SameList DEF r, a
  <2> QED BY <2>4, <2>5
<1>5. n \in 0..Len(Chain(l))
  BY <1>1 DEF n
<1> QED BY <1>4, <1>5, ListAdd DEF n

\* List::remove takes out the object it is asked to.
LEMMA ListRemove ==
  ASSUME NEW l, IsList(l), NEW o \in Members(l)
  PROVE  \E k \in 0..Len(Chain(l)) - 1 :
           Chain(l)[k + 1] = o /\ Removed(remove(l, o), l, k)
<1> DEFINE s == Chain(l)
           k == CHOOSE k \in 0..Len(s) - 1 : StandsAt(l, k) = o
<1>1. Represents(l, s) /\ Len(s) \in Nat /\ Members(l) = {s[i] : i \in 1..Len(s)}
  BY ListFacts DEF IsList
<1> HIDE DEF s
<1>2. ASSUME NEW j \in 0..Len(s) - 1
      PROVE  StandsAt(l, j) = s[j + 1]
  <2>1. j \in 0..Len(s) /\ j + 1 \in 1..Len(s)
    BY <1>1
  <2> QED BY <1>1, <2>1, ChainIsTheSequence DEF At
<1>3. PICK i \in 1..Len(s) : s[i] = o
  BY <1>1
<1>4. i - 1 \in 0..Len(s) - 1 /\ (i - 1) + 1 = i
  BY <1>1
<1>5. StandsAt(l, i - 1) = o
  BY <1>2, <1>3, <1>4
<1>6. k \in 0..Len(s) - 1 /\ StandsAt(l, k) = o
  BY <1>4, <1>5
<1>7. remove(l, o) = removeAt(l, k)
  BY DEF remove, s
<1> HIDE DEF k
<1>8. s[k + 1] = o
  BY <1>2, <1>6
<1>9. Removed(removeAt(l, k), l, k)
  BY <1>6, ListRemoveAt DEF s
<1> QED BY <1>6, <1>7, <1>8, <1>9 DEF s

\* OrderedList::insertInOrder passes the entries that are not after the new one.
LEMMA ListInsertInOrder ==
  ASSUME NEW l, IsList(l), NEW o \in Objects, o \notin Members(l), NEW value,
         \A x \in Members(l) \cup {o} : value[x] \in Int
  PROVE  \E k \in 0..Len(Chain(l)) :
           /\ Added(insertInOrder(l, o, value), l, k, o)
           /\ \A i \in 1..k : value[Chain(l)[i]] <= value[o]
           /\ k < Len(Chain(l)) => value[o] < value[Chain(l)[k + 1]]
<1> DEFINE s == Chain(l)
           S == {0} \cup {k \in DOMAIN s : \A i \in 1..k : value[s[i]] <= value[o]}
           k == Max(S)
<1>1. /\ Len(s) \in Nat /\ Members(l) = {s[i] : i \in 1..Len(s)} /\ DOMAIN s = 1..Len(s)
  <2>1. s = [i \in 1..Len(s) |-> s[i]]
    BY ListFacts
  <2>2. DOMAIN s = 1..Len(s)
    BY <2>1
  <2> QED BY <2>2, ListFacts
<1> HIDE DEF s
<1>2. S \subseteq 0..Len(s) /\ 0 \in S
  BY <1>1
<1> DEFINE B == {Len(s) - x : x \in S}
<1>3. B \subseteq Nat /\ B # {}
  BY <1>1, <1>2
<1>4. PICK b \in B : \A m \in B : b <= m
  <2> HIDE DEF B
  <2> QED BY <1>3, LeastNumber
<1>5. PICK x \in S : b = Len(s) - x
  OBVIOUS
<1>6. ASSUME NEW y \in S
      PROVE  x >= y
  <2>1. Len(s) - y \in B /\ Len(s) - x <= Len(s) - y
    BY <1>4, <1>5
  <2>2. x \in Int /\ y \in Int
    BY <1>1, <1>2
  <2> QED BY <1>1, <2>1, <2>2
<1>7. k \in S /\ \A y \in S : k >= y
  <2> HIDE DEF S
  <2>1. k = CHOOSE z \in S : \A y \in S : z >= y
    BY DEF Max
  <2> QED BY <1>6, <2>1
<1>8. insertInOrder(l, o, value) = add(l, k, o)
  BY DEF insertInOrder, s
<1> HIDE DEF k
<1>9. k \in 0..Len(s) /\ \A i \in 1..k : value[s[i]] <= value[o]
  <2>1. k \in 0..Len(s)
    BY <1>2, <1>7
  <2>2. k = 0 => 1..k = {}
    OBVIOUS
  <2> QED BY <1>7, <2>1, <2>2
<1>10. ASSUME k < Len(s)
       PROVE  value[o] < value[s[k + 1]]
  <2>1. k + 1 \in 1..Len(s) /\ ~(k >= k + 1)
    BY <1>1, <1>9, <1>10
  <2>2. k + 1 \notin S
    BY <1>7, <2>1
  <2>3. PICK i \in 1..k + 1 : ~(value[s[i]] <= value[o])
    BY <1>1, <2>1, <2>2
  <2>4. i = k + 1
    BY <1>9, <2>3
  <2>5. value[o] \in Int /\ value[s[k + 1]] \in Int
    BY <1>1, <2>1
  <2> QED BY <2>3, <2>4, <2>5
<1>11. Added(add(l, k, o), l, k, o)
  BY <1>9, ListAdd DEF s
<1> QED BY <1>8, <1>9, <1>10, <1>11 DEF s

\* What the operations on lists do, by the objects that are in them.
Ordered(l, value) == IsList(l) /\ Sorted(Chain(l), value)
Grown(a, l, o) == /\ IsList(a) /\ Members(a) = Members(l) \cup {o}
                  /\ Len(Chain(a)) = Len(Chain(l)) + 1
Shrunk(a, l, o) == /\ IsList(a) /\ Members(a) = Members(l) \ {o}
                   /\ Len(Chain(a)) = Len(Chain(l)) - 1

\* The first entry of a list in order is the least.
LEMMA FirstIsLeast ==
  ASSUME NEW l, NEW value, Ordered(l, value), NEW o \in Members(l)
  PROVE  /\ l.first \in Members(l) /\ value[l.first] <= value[o]
<1> DEFINE s == Chain(l)
<1>1. /\ Len(s) \in Nat /\ Members(l) = {s[i] : i \in 1..Len(s)}
      /\ l.first \in Members(l) /\ l.first = s[1]
  BY ListFacts DEF Ordered
<1>2. \A i, j \in 1..Len(s) : i <= j => value[s[i]] <= value[s[j]]
  BY DEF Ordered, Sorted
<1> HIDE DEF s
<1>3. PICK j \in 1..Len(s) : s[j] = o
  BY <1>1
<1>4. 1 \in 1..Len(s) /\ 1 <= j
  BY <1>1, <1>3
<1> QED BY <1>1, <1>2, <1>3, <1>4

\* The order is that of the values of the entries, whatever else has one.
LEMMA StaysOrdered ==
  ASSUME NEW l, NEW value, NEW other, Ordered(l, value), \A x \in Members(l) : other[x] = value[x]
  PROVE  Ordered(l, other)
<1> DEFINE s == Chain(l)
<1>1. \A i \in 1..Len(s) : s[i] \in Members(l)
  BY ListFacts DEF Ordered
<1>2. \A i, j \in 1..Len(s) : i <= j => value[s[i]] <= value[s[j]]
  BY DEF Ordered, Sorted
<1>3. \A i \in 1..Len(s) : other[s[i]] = value[s[i]]
  BY <1>1
<1> QED BY <1>2, <1>3 DEF Ordered, Sorted

\* A removal leaves the other objects, in the order they had.
LEMMA RemovedIsShrunk ==
  ASSUME NEW l, IsList(l), NEW k \in 0..Len(Chain(l)) - 1, NEW a, Removed(a, l, k)
  PROVE  /\ Shrunk(a, l, Chain(l)[k + 1])
         /\ \A value : Sorted(Chain(l), value) => Sorted(Chain(a), value)
<1> DEFINE s == Chain(l)
           t == RemovedAt(s, k)
<1>1. IsList(a) /\ Chain(a) = t /\ Members(a) = Members(l) \ {s[k + 1]} /\ Len(Chain(a)) = Len(s) - 1
  BY DEF Removed
<1>2. Shrunk(a, l, s[k + 1])
  BY <1>1 DEF Shrunk
<1>3. Len(s) \in Nat
  BY ListFacts
<1>4. \A i \in 1..Len(s) - 1 : t[i] = IF i <= k THEN s[i] ELSE s[i + 1]
  BY DEF RemovedAt
<1> HIDE DEF s, t
<1>5. ASSUME NEW value, Sorted(s, value), NEW i \in 1..Len(s) - 1, NEW j \in 1..Len(s) - 1, i <= j
      PROVE  value[t[i]] <= value[t[j]]
  <2> DEFINE x == IF i <= k THEN i ELSE i + 1
             y == IF j <= k THEN j ELSE j + 1
  <2>1. x \in 1..Len(s) /\ y \in 1..Len(s) /\ x <= y
    BY <1>3, <1>5 DEF s
  <2>2. t[i] = s[x] /\ t[j] = s[y]
    BY <1>4
  <2> HIDE DEF x, y
  <2> QED BY <1>5, <2>1, <2>2 DEF Sorted
<1>6. \A value : Sorted(s, value) => Sorted(t, value)
  <2>1. Len(t) = Len(s) - 1
    BY <1>1
  <2> QED BY <1>5, <2>1 DEF Sorted
<1> QED BY <1>1, <1>2, <1>6 DEF s

\* The first object is taken out of the list.
LEMMA FrontIsRemoved ==
  ASSUME NEW l, IsList(l), Members(l) # {}
  PROVE  /\ Shrunk(removeFromFront(l), l, l.first) /\ l.first \in Members(l)
         /\ \A value : Ordered(l, value) => Ordered(removeFromFront(l), value)
<1>1. 0 \in 0..Len(Chain(l)) - 1 /\ l.first = Chain(l)[0 + 1] /\ l.first \in Members(l)
  <2>1. Len(Chain(l)) \in Nat /\ Len(Chain(l)) # 0 /\ l.first = Chain(l)[1] /\ l.first \in Members(l)
    BY ListFacts
  <2> QED BY <2>1
<1>2. Removed(removeFromFront(l), l, 0)
  BY ListRemoveFront
<1>3. /\ Shrunk(removeFromFront(l), l, Chain(l)[0 + 1])
      /\ \A value : Sorted(Chain(l), value) => Sorted(Chain(removeFromFront(l)), value)
  BY <1>1, <1>2, RemovedIsShrunk
<1> QED BY <1>1, <1>3 DEF Ordered, Shrunk

\* List::remove takes out the object it is asked to, wherever it is.
LEMMA ObjectIsRemoved ==
  ASSUME NEW l, IsList(l), NEW o \in Members(l)
  PROVE  /\ Shrunk(remove(l, o), l, o)
         /\ \A value : Ordered(l, value) => Ordered(remove(l, o), value)
<1>1. PICK k \in 0..Len(Chain(l)) - 1 : Chain(l)[k + 1] = o /\ Removed(remove(l, o), l, k)
  BY ListRemove
<1>2. /\ Shrunk(remove(l, o), l, Chain(l)[k + 1])
      /\ \A value : Sorted(Chain(l), value) => Sorted(Chain(remove(l, o)), value)
  BY <1>1, RemovedIsShrunk
<1> QED BY <1>1, <1>2 DEF Ordered, Shrunk

\* An insertion adds one object and loses none.
LEMMA AddedIsGrown ==
  ASSUME NEW l, NEW k, NEW o, NEW a, Added(a, l, k, o)
  PROVE  Grown(a, l, o)
BY DEF Added, Grown

\* An insertion in order keeps the order.
LEMMA InsertionInOrder ==
  ASSUME NEW l, IsList(l), NEW o \in Objects, o \notin Members(l), NEW value,
         \A x \in Members(l) \cup {o} : value[x] \in Int
  PROVE  /\ Grown(insertInOrder(l, o, value), l, o)
         /\ Ordered(l, value) => Ordered(insertInOrder(l, o, value), value)
<1> DEFINE s == Chain(l)
           a == insertInOrder(l, o, value)
<1>1. PICK k \in 0..Len(s) : /\ Added(a, l, k, o)
                             /\ \A i \in 1..k : value[s[i]] <= value[o]
                             /\ k < Len(s) => value[o] < value[s[k + 1]]
  BY ListInsertInOrder
<1>2. IsList(a) /\ Chain(a) = InsertedAt(s, k, o) /\ Len(Chain(a)) = Len(s) + 1
  BY <1>1 DEF Added
<1> DEFINE t == InsertedAt(s, k, o)
<1>3. Len(s) \in Nat /\ \A i \in 1..Len(s) : s[i] \in Members(l)
  BY ListFacts
<1>4. \A i \in 1..Len(s) + 1 : t[i] = IF i <= k THEN s[i] ELSE IF i = k + 1 THEN o ELSE s[i - 1]
  BY DEF InsertedAt
<1> HIDE DEF a, t, s
<1>5. ASSUME Sorted(s, value)
      PROVE  Sorted(t, value)
  <2>1. Len(t) = Len(s) + 1 /\ k \in Nat /\ k <= Len(s)
    BY <1>1, <1>2, <1>3 DEF t
  <2>2. \A i, j \in 1..Len(s) : i <= j => value[s[i]] <= value[s[j]]
    BY <1>5 DEF Sorted
  <2>3. value[o] \in Int /\ \A i \in 1..Len(s) : value[s[i]] \in Int
    BY <1>3
  <2>4. \A j \in 1..Len(s) : k + 1 <= j => value[o] <= value[s[j]]
    <3> SUFFICES ASSUME NEW j \in 1..Len(s), k + 1 <= j
                 PROVE  value[o] <= value[s[j]]
      OBVIOUS
    <3>1. k + 1 \in 1..Len(s) /\ k < Len(s)
      BY <2>1, <1>3
    <3>2. value[o] < value[s[k + 1]] /\ value[s[k + 1]] <= value[s[j]]
      BY <1>1, <2>2, <3>1
    <3>3. value[o] \in Int /\ value[s[k + 1]] \in Int /\ value[s[j]] \in Int
      BY <2>3, <3>1
    <3> QED BY <3>2, <3>3
  <2>5. ASSUME NEW i \in 1..Len(s) + 1, NEW j \in 1..Len(s) + 1, i <= j
        PROVE  value[t[i]] <= value[t[j]]
    <3>0. i \in Int /\ j \in Int
      OBVIOUS
    <3>1. CASE j <= k
      <4>1. i \in 1..Len(s) /\ j \in 1..Len(s) /\ i <= k
        BY <1>3, <2>1, <2>5, <3>1
      <4> QED BY <1>4, <2>2, <2>5, <3>1, <4>1
    <3>2. CASE j = k + 1
      <4>1. t[j] = o
        BY <1>4, <2>1, <3>2
      <4>2. CASE i <= k
        <5>1. t[i] = s[i] /\ i \in 1..k
          BY <1>4, <2>1, <4>2
        <5> QED BY <1>1, <4>1, <5>1
      <4>3. CASE i = k + 1
        BY <2>3, <3>2, <4>1, <4>3
      <4> QED BY <2>1, <2>5, <3>0, <3>2, <4>2, <4>3
    <3>3. CASE j > k + 1
      <4>1. t[j] = s[j - 1] /\ j - 1 \in 1..Len(s)
        BY <1>3, <1>4, <2>1, <3>3
      <4>2. CASE i <= k
        <5>1. t[i] = s[i] /\ i \in 1..Len(s) /\ i <= j - 1
          BY <1>3, <1>4, <2>1, <3>3, <4>2
        <5> QED BY <2>2, <4>1, <5>1
      <4>3. CASE i = k + 1
        <5>1. t[i] = o /\ k + 1 <= j - 1
          BY <1>4, <2>1, <3>3, <4>3
        <5> QED BY <2>4, <4>1, <5>1
      <4>4. CASE i > k + 1
        <5>1. t[i] = s[i - 1] /\ i - 1 \in 1..Len(s) /\ i - 1 <= j - 1
          BY <1>3, <1>4, <2>1, <2>5, <4>4
        <5> QED BY <2>2, <4>1, <5>1
      <4> QED BY <2>1, <3>0, <4>2, <4>3, <4>4
    <3> QED BY <2>1, <3>0, <3>1, <3>2, <3>3
  <2> QED BY <2>1, <2>5 DEF Sorted
<1>6. Grown(a, l, o)
  BY <1>1, AddedIsGrown
<1>7. Ordered(l, value) => Ordered(a, value)
  BY <1>2, <1>5 DEF Ordered, s, t
<1> QED BY <1>6, <1>7 DEF a

\* A queue takes a customer in, wherever its discipline puts it.
LEMMA QueueInsertion ==
  ASSUME NEW n, NEW l, IsList(l), NEW c \in Customers, c \notin Members(l),
         Members(l) \subseteq Customers,
         discipline[n] \in {"FIFO", "LIFO", "random", "priority", "finish"},
         \A x \in Customers : finish'[x] \in Int,
         NEW q \in insertIntoQueue(n, l, c)
  PROVE  /\ Grown(q, l, c)
         /\ discipline[n] = "finish" /\ Ordered(l, finish') => Ordered(q, finish')
         /\ discipline[n] = "priority" /\ Ordered(l, Rank) => Ordered(q, Rank)
<1>0. c \in Objects
  BY ObjectsAreFinite
<1>1. CASE discipline[n] = "FIFO"
  <2>1. q = insertAtBack(l, c)
    BY <1>1 DEF insertIntoQueue, FIFOQueue
  <2>2. Grown(q, l, c)
    BY <1>0, <2>1, ListInsertAtBack, AddedIsGrown
  <2> QED BY <1>1, <2>2
<1>2. CASE discipline[n] = "LIFO"
  <2>1. q = insertAtFront(l, c)
    BY <1>2 DEF insertIntoQueue, LIFOQueue
  <2>2. Grown(q, l, c)
    BY <1>0, <2>1, ListInsertAtFront, AddedIsGrown
  <2> QED BY <1>2, <2>2
<1>3. CASE discipline[n] = "random"
  <2>1. PICK k \in 0..Len(Chain(l)) : q = add(l, k, c)
    BY <1>3 DEF insertIntoQueue, RandomQueue
  <2>2. Grown(q, l, c)
    BY <1>0, <2>1, ListAdd, AddedIsGrown
  <2> QED BY <1>3, <2>2
<1>4. CASE discipline[n] = "priority"
  <2>1. q = insertInOrder(l, c, Rank)
    BY <1>4 DEF insertIntoQueue, PriorityQueue
  <2>2. \A x \in Members(l) \cup {c} : Rank[x] \in Int
    BY NetworkAssumption
  <2>3. /\ Grown(q, l, c)
        /\ Ordered(l, Rank) => Ordered(q, Rank)
    BY <1>0, <2>1, <2>2, InsertionInOrder
  <2> QED BY <1>4, <2>3
<1>5. CASE discipline[n] = "finish"
  <2>1. q = insertInOrder(l, c, finish')
    BY <1>5 DEF insertIntoQueue, OrderedQueue
  <2> DEFINE value == finish'
  <2>2. \A x \in Members(l) \cup {c} : value[x] \in Int
    OBVIOUS
  <2>3. q = insertInOrder(l, c, value)
    BY <2>1
  <2> HIDE DEF value
  <2>4. /\ Grown(q, l, c)
        /\ Ordered(l, value) => Ordered(q, value)
    BY <1>0, <2>3, <2>2, InsertionInOrder
  <2> QED BY <1>5, <2>4 DEF value
<1> QED BY <1>1, <1>2, <1>3, <1>4, <1>5

\* The empty list.
LEMMA EmptyListIsList ==
  /\ IsList(EmptyList) /\ Chain(EmptyList) = <<>> /\ Len(Chain(EmptyList)) = 0
  /\ Members(EmptyList) = {} /\ \A value : Ordered(EmptyList, value)
<1>1. Represents(EmptyList, <<>>)
  <2>1. <<>> \in Seq(Objects) /\ Len(<<>>) = 0
    OBVIOUS
  <2>2. EmptyList.next = [o \in Places |-> NULL] /\ EmptyList.first = NULL /\ EmptyList.last = NULL
    BY DEF EmptyList, Places
  <2>3. EmptyList = [first |-> EmptyList.first, last |-> EmptyList.last, next |-> EmptyList.next]
    BY DEF EmptyList
  <2> QED BY <2>1, <2>2, <2>3 DEF Represents, At, Places
<1>2. IsList(EmptyList) /\ Chain(EmptyList) = <<>>
  BY <1>1, RepresentedIsList
<1>3. Len(<<>>) = 0
  OBVIOUS
<1>4. Len(Chain(EmptyList)) = 0 /\ Members(EmptyList) = {}
  BY <1>2, <1>3, ListFacts
<1>5. \A value : Sorted(<<>>, value)
  BY DEF Sorted
<1> QED BY <1>2, <1>4, <1>5 DEF Ordered

\* The list of the events in s, given the lists of fewer of them.
NextInOrder(g, v, s) == IF s = {} THEN EmptyList ELSE insertInOrder(g[s \ {Taken(s)}], Taken(s), v)

\* g gives the lists of the subsets of S.
IsListing(g, v, S) == g = [s \in SUBSET S |-> NextInOrder(g, v, s)]

AllInOrder(v, S) == FoldSet(LAMBDA n, l : insertInOrder(l, n, v), EmptyList, S)

\* The lists of at most n of the events can be computed.
LEMMA ListsOfFewExist ==
  ASSUME NEW S, IsFiniteSet(S), NEW v, NEW n \in Nat
  PROVE  \E g : \A s \in SUBSET S : Cardinality(s) <= n => g[s] = NextInOrder(g, v, s)
<1> DEFINE P(m) == \E g : \A s \in SUBSET S : Cardinality(s) <= m => g[s] = NextInOrder(g, v, s)
           B == {m \in Nat : ~P(m)}
<1>0. \A s \in SUBSET S : /\ Cardinality(s) \in Nat /\ (Cardinality(s) = 0 <=> s = {})
                          /\ s # {} => Taken(s) \in s /\ s \ {Taken(s)} \in SUBSET S
                                       /\ Cardinality(s \ {Taken(s)}) = Cardinality(s) - 1
  <2> SUFFICES ASSUME NEW s \in SUBSET S
               PROVE  /\ Cardinality(s) \in Nat /\ (Cardinality(s) = 0 <=> s = {})
                      /\ s # {} => Taken(s) \in s /\ s \ {Taken(s)} \in SUBSET S
                                   /\ Cardinality(s \ {Taken(s)}) = Cardinality(s) - 1
    OBVIOUS
  <2>1. IsFiniteSet(s)
    BY FS_Subset
  <2>2. s # {} => Taken(s) \in s
    BY DEF Taken
  <2> QED BY <2>1, <2>2, FS_CardinalityType, FS_EmptySet, FS_RemoveElement
<1>1. P(0)
  <2> DEFINE g == [s \in SUBSET S |-> EmptyList]
  <2>1. ASSUME NEW s \in SUBSET S, Cardinality(s) <= 0
        PROVE  s = {}
    <3>1. Cardinality(s) \in Nat /\ (Cardinality(s) = 0 <=> s = {})
      BY <1>0
    <3> QED BY <2>1, <3>1
  <2>2. \A s \in SUBSET S : s = {} => g[s] = NextInOrder(g, v, s)
    BY DEF NextInOrder
  <2> QED BY <2>1, <2>2
<1>2. ASSUME NEW m \in Nat, P(m)
      PROVE  P(m + 1)
  <2>1. PICK g : \A s \in SUBSET S : Cardinality(s) <= m => g[s] = NextInOrder(g, v, s)
    BY <1>2
  <2> DEFINE h == [s \in SUBSET S |-> IF Cardinality(s) <= m THEN g[s] ELSE NextInOrder(g, v, s)]
  <2>2. ASSUME NEW s \in SUBSET S, Cardinality(s) <= m + 1
        PROVE  h[s] = NextInOrder(h, v, s)
    <3>1. NextInOrder(h, v, s) = NextInOrder(g, v, s)
      <4>1. s # {} => h[s \ {Taken(s)}] = g[s \ {Taken(s)}]
        BY <1>0, <2>2
      <4> QED BY <4>1 DEF NextInOrder
    <3>2. h[s] = NextInOrder(g, v, s)
      BY <2>1
    <3> QED BY <3>1, <3>2
  <2> HIDE DEF h
  <2> QED BY <2>2
<1>3. ASSUME B # {}
      PROVE  FALSE
  <2>1. PICK m \in B : \A k \in B : m <= k
    <3> HIDE DEF B
    <3>1. B \subseteq Nat
      BY DEF B
    <3> QED BY <1>3, <3>1, LeastNumber
  <2> HIDE DEF P
  <2>2. m # 0
    BY <1>1
  <2>3. m - 1 \in Nat /\ P(m - 1)
    BY <2>1, <2>2
  <2>4. P(m)
    BY <1>2, <2>3
  <2> QED BY <2>4
<1> QED BY <1>3

\* The lists of all subsets of the events can be computed.
LEMMA ListsExist ==
  ASSUME NEW S, IsFiniteSet(S), NEW v
  PROVE  \E g : IsListing(g, v, S)
<1>1. Cardinality(S) \in Nat
  BY FS_CardinalityType
<1>2. PICK g : \A s \in SUBSET S : Cardinality(s) <= Cardinality(S) => g[s] = NextInOrder(g, v, s)
  BY <1>1, ListsOfFewExist
<1> DEFINE h == [s \in SUBSET S |-> g[s]]
<1>3. ASSUME NEW s \in SUBSET S
      PROVE  h[s] = NextInOrder(h, v, s)
  <2>1. Cardinality(s) <= Cardinality(S)
    BY FS_Subset
  <2>2. g[s] = NextInOrder(g, v, s)
    BY <1>2, <2>1
  <2>3. NextInOrder(h, v, s) = NextInOrder(g, v, s)
    BY DEF NextInOrder
  <2> QED BY <2>2, <2>3
<1>4. IsListing(h, v, S)
  BY <1>3 DEF IsListing
<1> QED BY <1>4

\* The diary that the sources are put in, one after the other, is in order.
LEMMA AllAreInOrder ==
  ASSUME NEW S, S \subseteq Objects, NEW v, \A x \in S : v[x] \in Int
  PROVE  Ordered(AllInOrder(v, S), v) /\ Members(AllInOrder(v, S)) = S
<1>0. IsFiniteSet(S) /\ Cardinality(S) \in Nat
  BY ObjectsAreFinite, FS_Subset, FS_CardinalityType
<1> DEFINE h == CHOOSE g : IsListing(g, v, S)
<1>1. AllInOrder(v, S) = h[S]
  BY DEF AllInOrder, FoldSet, MapThenFoldSet, IsListing, NextInOrder, Taken
<1>2. IsListing(h, v, S)
  BY <1>0, ListsExist
<1> HIDE DEF h
<1>3. \A s \in SUBSET S : h[s] = NextInOrder(h, v, s)
  BY <1>2 DEF IsListing
<1> DEFINE B == {s \in SUBSET S : ~(Ordered(h[s], v) /\ Members(h[s]) = s)}
<1>4. ASSUME B # {}
      PROVE  FALSE
  <2>1. PICK s \in B : \A r \in SUBSET s : r # s => r \notin B
    <3>1. B \subseteq SUBSET S
      OBVIOUS
    <3> HIDE DEF B
    <3> QED BY <1>0, <1>4, <3>1, MinimalSubset
  <2>2. s \in SUBSET S /\ ~(Ordered(h[s], v) /\ Members(h[s]) = s)
    BY <2>1
  <2>3. CASE s = {}
    <3>1. h[s] = EmptyList
      BY <1>3, <2>2, <2>3 DEF NextInOrder
    <3> QED BY <2>2, <2>3, <3>1, EmptyListIsList
  <2>4. CASE s # {}
    <3> DEFINE o == Taken(s)
               r == s \ {o}
    <3>1. o \in s /\ r \in SUBSET s /\ r \in SUBSET S /\ r # s
      BY <2>2, <2>4 DEF Taken
    <3>2. h[s] = insertInOrder(h[r], o, v)
      BY <1>3, <2>2, <2>4 DEF NextInOrder
    <3> HIDE DEF o
    <3>3. Ordered(h[r], v) /\ Members(h[r]) = r
      BY <2>1, <3>1
    <3> HIDE DEF B
    <3>4. o \in Objects /\ o \notin Members(h[r]) /\ \A x \in Members(h[r]) \cup {o} : v[x] \in Int
      BY <2>2, <3>1, <3>3
    <3>5. Grown(h[s], h[r], o) /\ Ordered(h[s], v)
      BY <3>2, <3>3, <3>4, InsertionInOrder DEF Ordered
    <3>6. Members(h[s]) = s
      BY <3>1, <3>3, <3>5 DEF Grown
    <3> QED BY <2>2, <3>5, <3>6
  <2> QED BY <2>3, <2>4
<1>5. S \notin B
  BY <1>4
<1> QED BY <1>1, <1>5

-----------------------------------------------------------------------------
(***************************************************************************)
(* The inductive invariant.                                                *)
(***************************************************************************)

Waiting(n) == Members(nodes[n].queue)
Planned == Members(diary)

Ops == {"enter", "forward", "release", "next", "inject", "schedule", "endOfService"}
Calls == [op : Ops, node : Nodes, customer : Customers \cup {NULL}]

Bottom == stack[Len(stack)]
Pending(f, n) == stack # <<>> /\ Bottom.op = f /\ Bottom.node = n
Moving == {stack[i].customer : i \in 1..Len(stack)} \ {NULL}

\* Where customers that have left n may be before the rest of that event is done.
Downstream(n, Z) ==
  /\ Z \subseteq Nodes \ {n}
  /\ \A m \in Z : /\ Kind[m] = "node" => Links[m] \subseteq Z
                  /\ Kind[m] = "queueing" => LossNode[m] \in Z
Away(n, k) ==
  \E Z \in SUBSET Nodes : /\ Downstream(n, Z)
                          /\ k.op = "enter" => k.node \in Z
                          /\ k.op = "forward" => Links[k.node] \subseteq Z

MeasureType == [moment : Nat, current : Nat, lastChange : Nat]
NodeType ==
  [resources : Nat, count : MeasureType, pop : Nat, popMeasure : MeasureType, queue : ListType,
   queueingTime : Nat, lastEnd : Customers \cup {NULL}, vtime : Nat, lastSchedule : Nat,
   arrivals : Nat, losses : Nat, failed : BOOLEAN]

Types ==
  /\ now \in Nat /\ due \in [Objects -> Nat]
  /\ nodes \in [Nodes -> NodeType]
  /\ location \in [Customers -> Nodes \cup {NULL}]
  /\ demand \in [Customers -> Nat] /\ finish \in [Customers -> Nat]
  /\ inserted \in [Customers -> Nat] /\ arrived \in [Customers -> Nat]
  /\ completions \in Nat /\ responseTime \in Nat
  /\ fate \in [Customers -> {"unborn", "inside", "done", "lost"}]
  /\ asked \in [Customers -> Nat] /\ served \in [Customers -> Nat]

CallsAreTyped ==
  /\ stack \in Seq(Calls)
  /\ \A i \in 1..Len(stack) :
       /\ stack[i].op \in {"enter", "forward"} <=> stack[i].customer \in Customers
       /\ stack[i].op = "release" => Kind[stack[i].node] \in {"queueing", "preemptive"}
       /\ stack[i].op \in {"next", "endOfService"} => Kind[stack[i].node] = "sharing"
       /\ stack[i].op \in {"inject", "schedule"} => Kind[stack[i].node] = "source"

CallsAreInPlace ==
  /\ \A i \in 2..Len(stack) - 1 : stack[i].op = "forward" /\ Kind[stack[i].node] = "source"
  /\ Len(stack) > 1 => /\ stack[1].op \in {"enter", "forward", "inject"}
                       /\ Bottom.op \in {"release", "next", "schedule"}
  /\ Len(stack) > 2 => Bottom.op = "schedule" /\ stack[1].op # "inject"
  /\ stack # <<>> /\ stack[1].op = "inject" => Len(stack) = 2 /\ Pending("schedule", stack[1].node)
  /\ stack # <<>> /\ stack[1].op = "forward" /\ Kind[stack[1].node] \notin {"source", "node"} =>
       \/ Len(stack) = 1 /\ Kind[stack[1].node] # "sharing"
       \/ Len(stack) = 2 /\ Kind[stack[1].node] = "sharing" /\ Pending("next", stack[1].node)
  /\ Len(stack) = 2 /\ Bottom.op \in {"release", "next"}
       /\ Kind[Bottom.node] \in {"preemptive", "sharing"} => Away(Bottom.node, stack[1])
  /\ \A i, j \in 1..Len(stack) :
       stack[i].customer = stack[j].customer /\ stack[i].customer \in Customers => i = j

DiaryInOrder == Ordered(diary, due) /\ \A o \in Planned : now <= due[o]

QueueInOrder(n) ==
  /\ discipline[n] \in {"FIFO", "LIFO", "random", "priority", "finish"}
  /\ Kind[n] = "sharing" => discipline[n] = "finish"
  /\ Kind[n] = "preemptive" => discipline[n] = "LIFO"
  /\ IsList(nodes[n].queue) /\ Waiting(n) \subseteq Customers
  /\ nodes[n].pop = Len(Chain(nodes[n].queue))
  /\ discipline[n] = "finish" => Ordered(nodes[n].queue, finish)
  /\ discipline[n] = "priority" => Ordered(nodes[n].queue, Rank)
QueuesInOrder == \A n \in Nodes : QueueInOrder(n)

SoundFields(N) ==
  /\ N.count.lastChange <= now /\ N.popMeasure.lastChange <= now /\ N.lastSchedule <= now
  /\ ~N.failed
MomentsArePast ==
  /\ \A n \in Nodes : SoundFields(nodes[n])
  /\ \A c \in Customers : inserted[c] <= now /\ arrived[c] <= now

Placed ==
  /\ \A c \in Moving : fate[c] = "inside" /\ c \notin Planned /\ \A n \in Nodes : c \notin Waiting(n)
  /\ \A n \in Nodes : \A c \in Waiting(n) : fate[c] = "inside" /\ c \notin Planned /\ location[c] = n
  /\ \A c \in Planned \cap Customers :
       /\ fate[c] = "inside" /\ location[c] \in Nodes
       /\ Kind[location[c]] \in {"delay", "queueing", "preemptive"}
  /\ \A c \in Customers : fate[c] = "inside" =>
       c \in Moving \/ c \in Planned \/ \E n \in Nodes : c \in Waiting(n)

Births == \E b \in 0..Cardinality(Customers) : Unborn = b + 1..Cardinality(Customers)

\* The customer that a resource is held for, on its way out.
Leaves(n) == Pending("release", n) \/ Pending("forward", n)
Ends(n) == Pending("next", n) \/ Pending("endOfService", n)

SourceIsScheduled(n) == n \in Planned => ~Pending("schedule", n)

SharingIsScheduled(n) ==
  LET N == nodes[n]
  IN /\ n \in Planned <=> ~Ends(n) /\ N.pop > 0
     /\ N.resources = 0 <=> Ends(n) \/ N.pop > 0
     /\ N.resources <= Servers[n]
     /\ Pending("endOfService", n) => N.pop > 0 /\ due[n] = now
     /\ n \in Planned \/ Pending("endOfService", n) =>
          due[n] = N.lastSchedule + (finish[N.queue.first] - N.vtime) * N.pop
     /\ \A c \in Waiting(n) : N.vtime <= finish[c]

Inside(n) == {c \in Planned \cap Customers : location[c] = n}
ServersAreClaimed(n) ==
  /\ nodes[n].pop > 0 => nodes[n].resources = 0
  /\ Servers[n] = nodes[n].resources + Cardinality(Inside(n)) + IF Leaves(n) THEN 1 ELSE 0
LastIsInService(n) ==
  nodes[n].resources = 0 /\ ~Leaves(n) => nodes[n].lastEnd \in Inside(n)

NodeIsSound(n) ==
  /\ Kind[n] \notin {"queueing", "preemptive", "sharing"} => nodes[n].pop = 0
  /\ Kind[n] = "source" => SourceIsScheduled(n)
  /\ Kind[n] = "sharing" => SharingIsScheduled(n)
  /\ Kind[n] \in {"queueing", "preemptive"} => ServersAreClaimed(n)
  /\ Kind[n] = "preemptive" => LastIsInService(n)
NodesAreSound == \A n \in Nodes : NodeIsSound(n)

IInv ==
  /\ Types
  /\ CallsAreTyped
  /\ CallsAreInPlace
  /\ DiaryInOrder
  /\ QueuesInOrder
  /\ MomentsArePast
  /\ Placed
  /\ Births
  /\ NodesAreSound

-----------------------------------------------------------------------------
(***************************************************************************)
(* The stack of calls.                                                     *)
(***************************************************************************)

\* The step ends no event and no call that an event ends with.
KeepsPending ==
  \A n \in Nodes :
    /\ \A f \in {"schedule", "next", "endOfService"} : Pending(f, n)' <=> Pending(f, n)
    /\ Kind[n] \in {"queueing", "preemptive"} => (Leaves(n)' <=> Leaves(n))

PendingStays(n) ==
  /\ \A f \in {"schedule", "next", "endOfService"} : Pending(f, n)' <=> Pending(f, n)
  /\ Kind[n] \in {"queueing", "preemptive"} => (Leaves(n)' <=> Leaves(n))

\* A stack that is not empty has a first call and a last.
LEMMA StackFacts ==
  ASSUME CallsAreTyped, stack # <<>>
  PROVE  /\ Len(stack) \in Nat /\ Len(stack) >= 1 /\ 1 \in 1..Len(stack) /\ Len(stack) \in 1..Len(stack)
         /\ \A i \in 1..Len(stack) : stack[i] \in Calls
         /\ stack[1] \in Calls /\ Bottom \in Calls
<1>1. stack \in Seq(Calls)
  BY DEF CallsAreTyped
<1>2. Len(stack) \in Nat /\ Len(stack) # 0
  BY <1>1
<1>3. 1 \in 1..Len(stack) /\ Len(stack) \in 1..Len(stack) /\ Len(stack) >= 1
  BY <1>2
<1>4. \A i \in 1..Len(stack) : stack[i] \in Calls
  BY <1>1
<1> QED BY <1>2, <1>3, <1>4 DEF Bottom

\* The calls that a step leaves for later.
LEMMA Returned ==
  ASSUME CallsAreTyped, stack # <<>>, NEW calls \in Seq(Calls), return(calls)
  PROVE  /\ stack' \in Seq(Calls) /\ Len(calls) \in Nat
         /\ Len(stack') = Len(calls) + Len(stack) - 1
         /\ \A i \in 1..Len(calls) : stack'[i] = calls[i]
         /\ \A i \in Len(calls) + 1..Len(stack') :
              stack'[i] = stack[i - Len(calls) + 1] /\ i - Len(calls) + 1 \in 2..Len(stack)
<1>1. stack \in Seq(Calls) /\ Len(stack) \in Nat /\ Len(stack) >= 1 /\ Len(calls) \in Nat
  BY StackFacts DEF CallsAreTyped
<1> DEFINE t == Tail(stack)
<1>2. t \in Seq(Calls) /\ Len(t) = Len(stack) - 1 /\ \A i \in 1..Len(t) : t[i] = stack[i + 1]
  BY <1>1
<1>3. stack' = calls \o t
  BY DEF return
<1> HIDE DEF t
<1>4. stack' \in Seq(Calls) /\ Len(stack') = Len(calls) + Len(t)
  BY <1>2, <1>3
<1>5. \A i \in 1..Len(calls) : stack'[i] = calls[i]
  BY <1>1, <1>2, <1>3
<1>6. ASSUME NEW i \in Len(calls) + 1..Len(stack')
      PROVE  stack'[i] = stack[i - Len(calls) + 1] /\ i - Len(calls) + 1 \in 2..Len(stack)
  <2>1. i \in 1..Len(calls) + Len(t) /\ i > Len(calls) /\ i - Len(calls) \in 1..Len(t) /\ i \in Nat
    BY <1>1, <1>2, <1>4
  <2>2. stack'[i] = t[i - Len(calls)]
    BY <1>1, <1>2, <1>3, <2>1
  <2>3. t[i - Len(calls)] = stack[i - Len(calls) + 1]
    BY <1>2, <2>1
  <2>4. i - Len(calls) + 1 \in 2..Len(stack)
    BY <1>1, <1>2, <2>1
  <2> QED BY <2>2, <2>3, <2>4
<1> QED BY <1>1, <1>2, <1>4, <1>5, <1>6

\* A call that makes no other leaves the rest of the stack.
LEMMA CallEnds ==
  ASSUME CallsAreTyped, CallsAreInPlace, stack # <<>>, return(<<>>)
  PROVE  /\ CallsAreTyped' /\ CallsAreInPlace'
         /\ Moving' = Moving \ {Cust}
         /\ \A f, n : Pending(f, n)' <=> Pending(f, n) /\ Len(stack) > 1
<1>1. /\ Len(stack) \in Nat /\ Len(stack) >= 1
      /\ stack' \in Seq(Calls) /\ Len(stack') = Len(stack) - 1
      /\ \A i \in 1..Len(stack') : stack'[i] = stack[i + 1] /\ i + 1 \in 2..Len(stack)
  <2>1. <<>> \in Seq(Calls) /\ Len(<<>>) = 0
    OBVIOUS
  <2>2. Len(stack) \in Nat /\ Len(stack) >= 1
    BY StackFacts
  <2>3. /\ stack' \in Seq(Calls) /\ Len(stack') = 0 + Len(stack) - 1
        /\ \A i \in 0 + 1..Len(stack') : stack'[i] = stack[i - 0 + 1] /\ i - 0 + 1 \in 2..Len(stack)
    BY <2>1, Returned
  <2> QED BY <2>2, <2>3
<1>2. CallsAreTyped'
  BY <1>1 DEF CallsAreTyped
<1>3. Len(stack) > 1 => stack' # <<>> /\ Bottom' = Bottom /\ stack'[1] = stack[2]
  <2> SUFFICES ASSUME Len(stack) > 1
               PROVE  stack' # <<>> /\ Bottom' = Bottom /\ stack'[1] = stack[2]
    OBVIOUS
  <2>1. Len(stack') # 0 /\ Len(stack') \in 1..Len(stack') /\ 1 \in 1..Len(stack')
        /\ Len(stack') + 1 = Len(stack)
    BY <1>1
  <2>2. stack' # <<>>
    BY <2>1
  <2>3. stack'[Len(stack')] = stack[Len(stack)] /\ stack'[1] = stack[2]
    BY <1>1, <2>1
  <2> QED BY <2>2, <2>3 DEF Bottom
<1>4. Len(stack) = 1 => stack' = <<>>
  BY <1>1
<1>5. \A f, n : Pending(f, n)' <=> Pending(f, n) /\ Len(stack) > 1
  BY <1>1, <1>3, <1>4 DEF Pending
<1>6. Moving' = Moving \ {Cust}
  <2>1. Moving' = {stack[i + 1].customer : i \in 1..Len(stack) - 1} \ {NULL}
    BY <1>1 DEF Moving
  <2>2. ASSUME NEW i \in 2..Len(stack), stack[i].customer # NULL
        PROVE  stack[i].customer \in Moving \ {Cust}
    <3>1. i \in 1..Len(stack) /\ 1 \in 1..Len(stack) /\ i # 1 /\ stack[i] \in Calls
      BY <1>1, StackFacts
    <3>2. stack[i].customer \in Customers
      BY <2>2, <3>1 DEF Calls
    <3>3. stack[i].customer # stack[1].customer
      BY <3>1, <3>2 DEF CallsAreInPlace
    <3> QED BY <2>2, <3>1, <3>3 DEF Moving, Cust
  <2>3. ASSUME NEW x \in Moving \ {Cust}
        PROVE  \E i \in 1..Len(stack) - 1 : stack[i + 1].customer = x
    <3>1. PICK j \in 1..Len(stack) : x = stack[j].customer
      BY DEF Moving
    <3>2. j # 1
      BY <2>3, <3>1 DEF Cust
    <3>3. j - 1 \in 1..Len(stack) - 1 /\ (j - 1) + 1 = j
      BY <1>1, <3>1, <3>2
    <3> QED BY <3>1, <3>3
  <2>4. \A i \in 1..Len(stack) - 1 : i + 1 \in 2..Len(stack)
    BY <1>1
  <2>5. NULL \notin Moving
    BY DEF Moving
  <2> QED BY <2>1, <2>2, <2>3, <2>4, <2>5
<1>7. CallsAreInPlace'
  <2>0. \A i \in 2..Len(stack) - 1 : stack[i].op = "forward" /\ Kind[stack[i].node] = "source"
    BY DEF CallsAreInPlace
  <2>1. \A i \in 2..Len(stack') - 1 : stack'[i].op = "forward" /\ Kind[stack'[i].node] = "source"
    <3> SUFFICES ASSUME NEW i \in 2..Len(stack') - 1
                 PROVE  stack'[i].op = "forward" /\ Kind[stack'[i].node] = "source"
      OBVIOUS
    <3>1. i \in 1..Len(stack') /\ i + 1 \in 2..Len(stack) - 1
      BY <1>1
    <3> QED BY <1>1, <2>0, <3>1
  <2>2. \A i, j \in 1..Len(stack') :
          stack'[i].customer = stack'[j].customer /\ stack'[i].customer \in Customers => i = j
    <3> SUFFICES ASSUME NEW i \in 1..Len(stack'), NEW j \in 1..Len(stack'),
                        stack'[i].customer = stack'[j].customer, stack'[i].customer \in Customers
                 PROVE  i = j
      OBVIOUS
    <3>1. i + 1 \in 1..Len(stack) /\ j + 1 \in 1..Len(stack)
      BY <1>1
    <3>2. i + 1 = j + 1
      BY <1>1, <3>1 DEF CallsAreInPlace
    <3> QED BY <1>1, <3>2
  <2>3. CASE Len(stack) = 1
    <3>1. Len(stack') = 0 /\ stack' = <<>>
      BY <1>1, <2>3
    <3> QED BY <2>1, <2>2, <3>1 DEF CallsAreInPlace
  <2>4. CASE Len(stack) = 2
    <3>1. Len(stack') = 1 /\ stack'[1] = Bottom
      BY <1>1, <1>3, <2>4 DEF Bottom
    <3>2. Bottom.op \in {"release", "next", "schedule"}
      BY <2>4 DEF CallsAreInPlace
    <3> QED BY <2>1, <2>2, <3>1, <3>2 DEF CallsAreInPlace
  <2>5. CASE Len(stack) > 2
    <3>1. 2 \in 2..Len(stack) - 1 /\ Len(stack') > 1
      BY <1>1, <2>5
    <3>2. stack'[1].op = "forward" /\ Kind[stack'[1].node] = "source"
      BY <1>1, <1>3, <2>0, <2>5, <3>1
    <3>3. Bottom' = Bottom /\ Bottom.op = "schedule"
      BY <1>1, <1>3, <2>5 DEF CallsAreInPlace
    <3> QED BY <2>1, <2>2, <3>1, <3>2, <3>3 DEF CallsAreInPlace
  <2> QED BY <1>1, <2>3, <2>4, <2>5
<1> QED BY <1>2, <1>5, <1>6, <1>7

\* A customer goes on without delay.
LEMMA CallGoesOn ==
  ASSUME CallsAreTyped, CallsAreInPlace, stack # <<>>, NEW k \in Calls, return(<<k>>),
         stack[1].op \in {"enter", "forward"}, k.op \in {"enter", "forward"}, k.customer = Cust,
         k.op = "forward" => Kind[k.node] = "node",
         stack[1].op = "forward" => Kind[stack[1].node] \notin {"queueing", "preemptive"},
         \A n \in Nodes : Away(n, stack[1]) => Away(n, k)
  PROVE  CallsAreTyped' /\ CallsAreInPlace' /\ Moving' = Moving /\ KeepsPending
<1>1. /\ Len(stack) \in Nat /\ Len(stack) >= 1 /\ stack' \in Seq(Calls) /\ Len(stack') = Len(stack)
      /\ stack'[1] = k /\ \A i \in 2..Len(stack) : stack'[i] = stack[i]
  <2>1. <<k>> \in Seq(Calls) /\ Len(<<k>>) = 1 /\ <<k>>[1] = k
    OBVIOUS
  <2>2. Len(stack) \in Nat /\ Len(stack) >= 1
    BY StackFacts
  <2> DEFINE ks == <<k>>
  <2>3. ks \in Seq(Calls) /\ Len(ks) = 1 /\ ks[1] = k /\ return(ks)
    BY <2>1
  <2> HIDE DEF ks
  <2>4. /\ stack' \in Seq(Calls) /\ Len(stack') = Len(ks) + Len(stack) - 1
        /\ \A i \in 1..Len(ks) : stack'[i] = ks[i]
        /\ \A i \in Len(ks) + 1..Len(stack') : stack'[i] = stack[i - Len(ks) + 1]
    BY <2>3, Returned
  <2>5. Len(stack') = Len(stack) /\ stack'[1] = k
    BY <2>2, <2>3, <2>4
  <2>6. ASSUME NEW i \in 2..Len(stack)
        PROVE  stack'[i] = stack[i]
    <3>1. i \in Len(ks) + 1..Len(stack') /\ i - Len(ks) + 1 = i
      BY <2>2, <2>3, <2>5
    <3> QED BY <2>4, <3>1
  <2> QED BY <2>2, <2>4, <2>5, <2>6
<1>2. \A i \in 1..Len(stack) : stack'[i].customer = stack[i].customer
  <2> SUFFICES ASSUME NEW i \in 1..Len(stack)
               PROVE  stack'[i].customer = stack[i].customer
    OBVIOUS
  <2>1. i = 1 \/ i \in 2..Len(stack)
    BY <1>1
  <2> QED BY <1>1, <2>1 DEF Cust
<1>3. Moving' = Moving
  BY <1>1, <1>2 DEF Moving
<1>4. Cust \in Customers
  <2>1. 1 \in 1..Len(stack)
    BY <1>1
  <2> QED BY <2>1 DEF CallsAreTyped, Cust
<1>5. CallsAreTyped'
  <2> SUFFICES ASSUME NEW i \in 1..Len(stack')
               PROVE  /\ stack'[i].op \in {"enter", "forward"} <=> stack'[i].customer \in Customers
                      /\ stack'[i].op = "release" => Kind[stack'[i].node] \in {"queueing", "preemptive"}
                      /\ stack'[i].op \in {"next", "endOfService"} => Kind[stack'[i].node] = "sharing"
                      /\ stack'[i].op \in {"inject", "schedule"} => Kind[stack'[i].node] = "source"
    BY <1>1 DEF CallsAreTyped
  <2>1. CASE i = 1
    BY <1>1, <1>4, <2>1
  <2>2. CASE i # 1
    <3>1. i \in 2..Len(stack) /\ i \in 1..Len(stack)
      BY <1>1, <2>2
    <3>2. stack'[i] = stack[i]
      BY <1>1, <3>1
    <3> QED BY <3>1, <3>2 DEF CallsAreTyped
  <2> QED BY <2>1, <2>2
<1>6. stack' # <<>> /\ (Len(stack) > 1 => Bottom' = Bottom) /\ (Len(stack) = 1 => Bottom' = k /\ Bottom = stack[1])
  <2>1. Len(stack) > 1 => Len(stack) \in 2..Len(stack)
    BY <1>1
  <2>2. stack' # <<>>
    BY <1>1
  <2> QED BY <1>1, <2>1, <2>2 DEF Bottom
<1>7. KeepsPending
  BY <1>1, <1>6 DEF KeepsPending, Pending, Leaves
<1>8. CallsAreInPlace'
  <2>1. \A i \in 2..Len(stack') - 1 : stack'[i].op = "forward" /\ Kind[stack'[i].node] = "source"
    <3> SUFFICES ASSUME NEW i \in 2..Len(stack) - 1
                 PROVE  stack'[i].op = "forward" /\ Kind[stack'[i].node] = "source"
      BY <1>1
    <3>1. i \in 2..Len(stack)
      BY <1>1
    <3> QED BY <1>1, <3>1 DEF CallsAreInPlace
  <2>2. \A i, j \in 1..Len(stack') :
          stack'[i].customer = stack'[j].customer /\ stack'[i].customer \in Customers => i = j
    BY <1>1, <1>2 DEF CallsAreInPlace
  <2>3. Len(stack') > 1 => stack'[1].op \in {"enter", "forward", "inject"}
                           /\ (Bottom').op \in {"release", "next", "schedule"}
    BY <1>1, <1>6 DEF CallsAreInPlace
  <2>4. Len(stack') > 2 => (Bottom').op = "schedule" /\ stack'[1].op # "inject"
    BY <1>1, <1>6 DEF CallsAreInPlace
  <2>5. Len(stack') = 2 /\ (Bottom').op \in {"release", "next"}
          /\ Kind[(Bottom').node] \in {"preemptive", "sharing"} => Away((Bottom').node, stack'[1])
    <3> SUFFICES ASSUME Len(stack) = 2, Bottom.op \in {"release", "next"},
                        Kind[Bottom.node] \in {"preemptive", "sharing"}
                 PROVE  Away(Bottom.node, k)
      BY <1>1, <1>6
    <3>1. Away(Bottom.node, stack[1])
      BY DEF CallsAreInPlace
    <3>2. Bottom.node \in Nodes
      BY StackFacts DEF Calls
    <3> QED BY <3>1, <3>2
  <2> QED BY <1>1, <2>1, <2>2, <2>3, <2>4, <2>5 DEF CallsAreInPlace, Away, Pending
<1> QED BY <1>3, <1>5, <1>7, <1>8

\* A customer leaves a queueing node, which releases a resource afterwards.
LEMMA CustomerLeaves ==
  ASSUME CallsAreTyped, CallsAreInPlace, stack # <<>>, stack[1].op = "forward",
         Kind[stack[1].node] \in {"queueing", "preemptive"},
         NEW m \in Links[Here], NEW ks \in Seq(Calls), Len(ks) = 2,
         ks[1] = call("enter", m, Cust), ks[2] = call("release", Here, NULL), return(ks)
  PROVE  CallsAreTyped' /\ CallsAreInPlace' /\ Moving' = Moving /\ KeepsPending
<1>0. Len(stack) = 1 /\ Bottom = stack[1] /\ Here \in Nodes /\ NULL \notin Customers
  <2>1. Here \in Nodes
    BY StackFacts DEF Calls, Here
  <2>2. Len(stack) = 1
    BY DEF CallsAreInPlace
  <2> QED BY <2>1, <2>2, NetworkAssumption DEF Bottom
<1>1. stack' \in Seq(Calls) /\ Len(stack') = 2 /\ stack'[1] = ks[1] /\ stack'[2] = ks[2] /\ stack' # <<>>
  <2>1. /\ stack' \in Seq(Calls) /\ Len(stack') = 2 + 1 - 1
        /\ \A i \in 1..2 : stack'[i] = ks[i]
    BY <1>0, Returned
  <2>2. stack'[1] = ks[1] /\ stack'[2] = ks[2]
    BY <2>1
  <2>3. stack' \in Seq(Calls) /\ Len(stack') = 2
    BY <2>1
  <2>4. stack' # <<>>
    <3> SUFFICES ASSUME stack' = <<>>
                 PROVE  Len(stack') = 0
      BY <2>3
    <3> QED OBVIOUS
  <2> QED BY <2>2, <2>3, <2>4
<1>2. Cust \in Customers
  BY StackFacts DEF CallsAreTyped, Cust
<1>3. /\ stack'[1].op = "enter" /\ stack'[1].node = m /\ stack'[1].customer = Cust
      /\ stack'[2].op = "release" /\ stack'[2].node = Here /\ stack'[2].customer = NULL
  BY <1>1 DEF call
<1>4. Bottom' = stack'[2]
  BY <1>1 DEF Bottom
<1>5. \A i \in 1..2 : i = 1 \/ i = 2
  OBVIOUS
<1>6. CallsAreTyped'
  BY <1>0, <1>1, <1>2, <1>3, <1>5 DEF CallsAreTyped, Here
<1>7. Moving' = Moving
  <2>1. Moving = {Cust} /\ Moving' = {Cust}
    <3>1. 1..1 = {1} /\ 1..2 = {1, 2} /\ Cust # NULL
      BY <1>0, <1>2
    <3> QED BY <1>0, <1>1, <1>3, <3>1 DEF Moving, Cust
  <2> QED BY <2>1
<1>8. KeepsPending
  BY <1>0, <1>1, <1>3, <1>4 DEF KeepsPending, Pending, Leaves, Here
<1>9. CallsAreInPlace'
  <2>1. Kind[Here] \in {"preemptive", "sharing"} => Away(Here, stack'[1])
    <3> SUFFICES ASSUME Kind[Here] \in {"preemptive", "sharing"}
                 PROVE  Away(Here, stack'[1])
      OBVIOUS
    <3>1. NoInstantReturn(Here)
      BY <1>0, NetworkAssumption
    <3> QED BY <1>3, <3>1 DEF NoInstantReturn, Away, Downstream
  <2>2. 2..Len(stack') - 1 = {}
    BY <1>1
  <2>3. \A i, j \in 1..Len(stack') :
          stack'[i].customer = stack'[j].customer /\ stack'[i].customer \in Customers => i = j
    BY <1>0, <1>1, <1>3, <1>5
  <2> QED BY <1>1, <1>3, <1>4, <2>1, <2>2, <2>3 DEF CallsAreInPlace, Pending, Away
<1> QED BY <1>6, <1>7, <1>8, <1>9

\* Customers, nodes and NULL are different things.
LEMMA NodesAreDistinct ==
  /\ NULL \notin Customers /\ NULL \notin Nodes /\ \A c \in Customers : c \notin Nodes
  /\ \A n \in Nodes : n \in Objects <=> Kind[n] \in {"source", "sharing"}
  /\ Objects \subseteq Customers \cup Nodes
  /\ Kind \in [Nodes -> Kinds] /\ Customers \subseteq Nat
<1>1. NULL \notin Customers \cup Nodes /\ Customers \cap Nodes = {} /\ Kind \in [Nodes -> Kinds]
      /\ Customers = 1..Cardinality(Customers) /\ IsFiniteSet(Customers)
  BY NetworkAssumption
<1>2. Customers \subseteq Nat
  <2>1. Cardinality(Customers) \in Nat
    BY <1>1, FS_CardinalityType
  <2>2. 1..Cardinality(Customers) \subseteq Nat
    BY <2>1
  <2> QED BY <1>1, <2>2
<1>3. Objects = Customers \cup {n \in Nodes : Kind[n] \in {"source", "sharing"}}
  BY DEF Objects
<1> QED BY <1>1, <1>2, <1>3

\* Between events no call is pending and no customer is moved.
LEMMA NothingPending ==
  ASSUME stack = <<>>
  PROVE  Moving = {} /\ \A f, n : ~Pending(f, n)
<1>1. Len(stack) = 0
  OBVIOUS
<1>2. 1..0 = {}
  OBVIOUS
<1> QED BY <1>1, <1>2 DEF Moving, Pending

\* Sim::go invokes an event.
LEMMA EventIsInvoked ==
  ASSUME stack = <<>>, NEW e \in Objects, stack' = invoke(e),
         e \in Customers => /\ location[e] \in Nodes
                            /\ Kind[location[e]] \in {"delay", "queueing", "preemptive"}
  PROVE  /\ CallsAreTyped' /\ CallsAreInPlace'
         /\ Moving' = {e} \cap Customers
         /\ \A n \in Nodes : /\ Pending("schedule", n)' <=> e = n /\ Kind[n] = "source"
                             /\ ~Pending("next", n)'
                             /\ Pending("endOfService", n)' <=> e = n /\ Kind[n] = "sharing"
                             /\ Kind[n] \in {"queueing", "preemptive"} =>
                                  (Leaves(n)' <=> e \in Customers /\ location[e] = n)
<1>0. /\ NULL \notin Customers /\ NULL \notin Nodes /\ \A c \in Customers : c \notin Nodes
      /\ \A n \in Nodes : n \in Objects <=> Kind[n] \in {"source", "sharing"}
      /\ e \in Customers \cup Nodes
  BY NodesAreDistinct
<1>1. CASE e \in Customers
  <2>1. stack' = <<call("forward", location[e], e)>>
    BY <1>0, <1>1 DEF invoke
  <2> DEFINE k == call("forward", location[e], e)
  <2>2. k \in Calls /\ k.op = "forward" /\ k.node = location[e] /\ k.customer = e
    BY <1>1 DEF call, Calls, Ops
  <2>3. stack' \in Seq(Calls) /\ Len(stack') = 1 /\ stack'[1] = k /\ stack' # <<>>
    BY <2>1, <2>2
  <2> HIDE DEF k
  <2>4. Bottom' = k
    BY <2>3 DEF Bottom
  <2>5. 1..1 = {1} /\ 2..1 - 1 = {}
    OBVIOUS
  <2>6. CallsAreTyped'
    BY <1>0, <1>1, <2>2, <2>3, <2>5 DEF CallsAreTyped
  <2>7. CallsAreInPlace'
    BY <1>1, <2>2, <2>3, <2>4, <2>5 DEF CallsAreInPlace
  <2>8. Moving' = {e}
    BY <1>0, <1>1, <2>2, <2>3, <2>5 DEF Moving
  <2> QED BY <1>0, <1>1, <2>2, <2>3, <2>4, <2>6, <2>7, <2>8 DEF Pending, Leaves
<1>2. CASE e \in Nodes /\ Kind[e] = "sharing"
  <2>1. stack' = <<call("endOfService", e, NULL)>>
    BY <1>0, <1>2 DEF invoke
  <2> DEFINE k == call("endOfService", e, NULL)
  <2>2. k \in Calls /\ k.op = "endOfService" /\ k.node = e /\ k.customer = NULL
    BY <1>2 DEF call, Calls, Ops
  <2>3. stack' \in Seq(Calls) /\ Len(stack') = 1 /\ stack'[1] = k /\ stack' # <<>>
    BY <2>1, <2>2
  <2> HIDE DEF k
  <2>4. Bottom' = k
    BY <2>3 DEF Bottom
  <2>5. 1..1 = {1} /\ 2..1 - 1 = {}
    OBVIOUS
  <2>6. CallsAreTyped'
    BY <1>0, <1>2, <2>2, <2>3, <2>5 DEF CallsAreTyped
  <2>7. CallsAreInPlace'
    BY <1>2, <2>2, <2>3, <2>4, <2>5 DEF CallsAreInPlace
  <2>8. Moving' = {}
    BY <1>0, <1>2, <2>2, <2>3, <2>5 DEF Moving
  <2> QED BY <1>0, <1>2, <2>2, <2>3, <2>4, <2>6, <2>7, <2>8 DEF Pending, Leaves
<1>3. CASE e \in Nodes /\ Kind[e] = "source"
  <2> DEFINE j == call("inject", e, NULL)
             k == call("schedule", e, NULL)
  <2>1. stack' = <<j, k>>
    BY <1>0, <1>3 DEF invoke
  <2>2. /\ j \in Calls /\ j.op = "inject" /\ j.node = e /\ j.customer = NULL
        /\ k \in Calls /\ k.op = "schedule" /\ k.node = e /\ k.customer = NULL
    BY <1>3 DEF call, Calls, Ops
  <2> HIDE DEF j, k
  <2>3. stack' \in Seq(Calls) /\ Len(stack') = 2 /\ stack'[1] = j /\ stack'[2] = k /\ stack' # <<>>
    BY <2>1, <2>2
  <2>4. Bottom' = k
    BY <2>3 DEF Bottom
  <2>5. 1..2 = {1, 2} /\ 2..2 - 1 = {}
    OBVIOUS
  <2>6. CallsAreTyped'
    BY <1>0, <1>3, <2>2, <2>3, <2>5 DEF CallsAreTyped
  <2>7. CallsAreInPlace'
    <3>1. Pending("schedule", e)'
      BY <2>2, <2>3, <2>4 DEF Pending
    <3> QED BY <1>0, <1>3, <2>2, <2>3, <2>4, <2>5, <3>1 DEF CallsAreInPlace, Pending
  <2>8. Moving' = {}
    BY <1>0, <1>3, <2>2, <2>3, <2>5 DEF Moving
  <2> QED BY <1>0, <1>3, <2>2, <2>3, <2>4, <2>6, <2>7, <2>8 DEF Pending, Leaves
<1> QED BY <1>0, <1>1, <1>2, <1>3

\* ProcessorSharingNode::invoke lets a customer go, and has the next one served.
LEMMA ServiceEnds ==
  ASSUME CallsAreTyped, CallsAreInPlace, Now("endOfService"), NEW c \in Customers,
         return(<<call("forward", Here, c), call("next", Here, NULL)>>)
  PROVE  /\ CallsAreTyped' /\ CallsAreInPlace'
         /\ Moving = {} /\ Moving' = {c} /\ Here \in Nodes /\ Kind[Here] = "sharing"
         /\ \A n \in Nodes : /\ ~Pending("schedule", n) /\ ~Pending("schedule", n)'
                             /\ ~Pending("next", n) /\ (Pending("next", n)' <=> n = Here)
                             /\ (Pending("endOfService", n) <=> n = Here) /\ ~Pending("endOfService", n)'
                             /\ Kind[n] \in {"queueing", "preemptive"} => ~Leaves(n) /\ ~Leaves(n)'
<1>0. stack # <<>> /\ stack[1].op = "endOfService"
  BY DEF Now
<1>1. /\ Len(stack) = 1 /\ Bottom = stack[1] /\ Here \in Nodes /\ Kind[Here] = "sharing"
      /\ stack[1].customer = NULL /\ NULL \notin Customers
  <2>1. Len(stack) \in Nat /\ Len(stack) >= 1 /\ stack[1] \in Calls /\ 1 \in 1..Len(stack)
    BY <1>0, StackFacts
  <2>2. Len(stack) = 1
    <3>1. Len(stack) > 1 => stack[1].op \in {"enter", "forward", "inject"}
      BY DEF CallsAreInPlace
    <3>2. ~(Len(stack) > 1)
      BY <1>0, <3>1
    <3>3. Len(stack) \in Nat /\ Len(stack) >= 1
      BY <2>1
    <3> DEFINE len == Len(stack)
    <3>4. len \in Nat /\ len >= 1 /\ ~(len > 1)
      BY <3>2, <3>3
    <3> HIDE DEF len
    <3>5. len = 1
      BY <3>4
    <3> QED BY <3>5 DEF len
  <2>3. Kind[Here] = "sharing" /\ stack[1].customer \notin Customers
    BY <1>0, <2>1 DEF CallsAreTyped, Here
  <2>4. Here \in Nodes /\ stack[1].customer = NULL
    BY <2>1, <2>3 DEF Calls, Here
  <2> QED BY <2>2, <2>3, <2>4, NodesAreDistinct DEF Bottom
<1>12. PICK h \in Nodes : h = Here
  BY <1>1
<1> DEFINE j == call("forward", Here, c)
           k == call("next", Here, NULL)
           ks == <<j, k>>
<1>2. /\ j \in Calls /\ j.op = "forward" /\ j.node = Here /\ j.customer = c
      /\ k \in Calls /\ k.op = "next" /\ k.node = Here /\ k.customer = NULL
  BY <1>1 DEF call, Calls, Ops
<1>3. return(ks)
  OBVIOUS
<1> HIDE DEF j, k
<1>4. ks \in Seq(Calls) /\ Len(ks) = 2 /\ ks[1] = j /\ ks[2] = k
  BY <1>2
<1> HIDE DEF ks
<1>5. stack' \in Seq(Calls) /\ Len(stack') = 2 /\ stack'[1] = j /\ stack'[2] = k
  <2>1. /\ stack' \in Seq(Calls) /\ Len(stack') = 2 + 1 - 1
        /\ \A i \in 1..2 : stack'[i] = ks[i]
    BY <1>0, <1>1, <1>3, <1>4, Returned
  <2> QED BY <1>4, <2>1
<1>6. stack' # <<>>
  <2> SUFFICES ASSUME stack' = <<>>
               PROVE  Len(stack') = 0
    BY <1>5
  <2> QED OBVIOUS
<1>7. Bottom' = k
  BY <1>5 DEF Bottom
<1>8. 1..2 = {1, 2} /\ 2..2 - 1 = {} /\ 1..1 = {1}
  OBVIOUS
<1>9. CallsAreTyped'
  BY <1>1, <1>2, <1>5, <1>8 DEF CallsAreTyped
<1>10. Moving = {} /\ Moving' = {c}
  BY <1>1, <1>2, <1>5, <1>8 DEF Moving
<1>11. CallsAreInPlace'
  <2>1. Pending("next", h)'
    BY <1>2, <1>6, <1>7, <1>12 DEF Pending
  <2>2. Away(h, j)
    <3>1. NoInstantReturn(h)
      BY <1>1, <1>12, NetworkAssumption
    <3> QED BY <1>2, <1>12, <3>1 DEF NoInstantReturn, Away, Downstream
  <2>3. \A m, n \in 1..Len(stack') :
          stack'[m].customer = stack'[n].customer /\ stack'[m].customer \in Customers => m = n
    BY <1>1, <1>2, <1>5, <1>8
  <2> QED BY <1>1, <1>2, <1>5, <1>7, <1>8, <1>12, <2>1, <2>2, <2>3 DEF CallsAreInPlace, Pending, Away
<1>13. /\ Bottom.op = "endOfService" /\ Bottom.node = h
       /\ (Bottom').op = "next" /\ (Bottom').node = h
  BY <1>0, <1>1, <1>2, <1>7, <1>12 DEF Here
<1>14. \A n \in Nodes : /\ ~Pending("schedule", n) /\ ~Pending("schedule", n)'
                        /\ ~Pending("next", n) /\ (Pending("next", n)' <=> n = h)
                        /\ (Pending("endOfService", n) <=> n = h) /\ ~Pending("endOfService", n)'
                        /\ Kind[n] \in {"queueing", "preemptive"} => ~Leaves(n) /\ ~Leaves(n)'
  BY <1>0, <1>6, <1>13 DEF Pending, Leaves
<1> QED BY <1>1, <1>9, <1>10, <1>11, <1>12, <1>14

\* Source::injectCustomers sends the customers of a batch on their way.
LEMMA BatchIsSent ==
  ASSUME CallsAreTyped, CallsAreInPlace, Now("inject"), NEW size \in Nat, NEW born \in Nat,
         born + 1..born + size \subseteq Customers,
         return([i \in 1..size |-> call("forward", Here, born + i)])
  PROVE  /\ CallsAreTyped' /\ CallsAreInPlace'
         /\ Moving = {} /\ Moving' = born + 1..born + size /\ KeepsPending /\ Here \in Nodes
<1> DEFINE ks == [i \in 1..size |-> call("forward", Here, born + i)]
<1>1. /\ Len(stack) = 2 /\ stack[1].op = "inject" /\ Bottom = stack[2] /\ stack[2].op = "schedule"
      /\ stack # <<>> /\ Here \in Nodes /\ Kind[Here] = "source"
      /\ stack[1].customer = NULL /\ stack[2].customer = NULL /\ stack[2] \in Calls
      /\ Kind[stack[2].node] = "source" /\ NULL \notin Customers
  <2>1. stack # <<>> /\ stack[1].op = "inject"
    BY DEF Now
  <2>2. Len(stack) = 2 /\ Bottom = stack[2] /\ Bottom.op = "schedule"
    BY <2>1 DEF CallsAreInPlace, Pending, Bottom
  <2>3. 1 \in 1..2 /\ 2 \in 1..2
    OBVIOUS
  <2>4. stack[1] \in Calls /\ stack[2] \in Calls
    BY <2>1, <2>2, StackFacts
  <2>5. stack[1].customer \notin Customers /\ stack[2].customer \notin Customers
        /\ Kind[stack[1].node] = "source" /\ Kind[stack[2].node] = "source"
    BY <2>1, <2>2, <2>3 DEF CallsAreTyped
  <2>6. stack[1].customer = NULL /\ stack[2].customer = NULL /\ Here \in Nodes
    BY <2>4, <2>5 DEF Calls, Here
  <2> QED BY <2>1, <2>2, <2>4, <2>5, <2>6, NodesAreDistinct DEF Here
<1>2. ASSUME NEW i \in 1..size
      PROVE  /\ ks[i] \in Calls /\ ks[i].op = "forward" /\ ks[i].node = Here
             /\ ks[i].customer = born + i /\ born + i \in Customers
  <2>1. born + i \in Customers /\ ks[i] = call("forward", Here, born + i)
    OBVIOUS
  <2> HIDE DEF ks
  <2> QED BY <1>1, <2>1 DEF call, Calls, Ops
<1>3. ks \in Seq(Calls) /\ Len(ks) = size /\ return(ks)
  <2>1. ks = [i \in 1..size |-> ks[i]] /\ return(ks)
    OBVIOUS
  <2> HIDE DEF ks
  <2> QED BY <1>2, <2>1, IsSequence
<1> HIDE DEF ks
<1>4. /\ stack' \in Seq(Calls) /\ Len(stack') = size + 1
      /\ \A i \in 1..size : stack'[i] = ks[i]
      /\ stack'[size + 1] = stack[2]
  <2>1. /\ stack' \in Seq(Calls) /\ Len(stack') = size + 2 - 1
        /\ \A i \in 1..size : stack'[i] = ks[i]
        /\ \A i \in size + 1..Len(stack') : stack'[i] = stack[i - size + 1]
    BY <1>1, <1>3, Returned
  <2>2. Len(stack') = size + 1 /\ size + 1 \in size + 1..Len(stack') /\ size + 1 - size + 1 = 2
    BY <2>1
  <2> QED BY <2>1, <2>2
<1>5. Bottom' = stack[2]
  BY <1>4 DEF Bottom
<1>6. stack' # <<>>
  <2> SUFFICES ASSUME stack' = <<>>
               PROVE  Len(stack') = 0
    BY <1>4
  <2> QED OBVIOUS
<1>7. \A i \in 1..Len(stack') : i \in 1..size \/ i = size + 1
  BY <1>4
<1>8. CallsAreTyped'
  <2> SUFFICES ASSUME NEW i \in 1..Len(stack')
               PROVE  /\ stack'[i].op \in {"enter", "forward"} <=> stack'[i].customer \in Customers
                      /\ stack'[i].op = "release" => Kind[stack'[i].node] \in {"queueing", "preemptive"}
                      /\ stack'[i].op \in {"next", "endOfService"} => Kind[stack'[i].node] = "sharing"
                      /\ stack'[i].op \in {"inject", "schedule"} => Kind[stack'[i].node] = "source"
    BY <1>4 DEF CallsAreTyped
  <2>1. CASE i \in 1..size
    BY <1>2, <1>4, <2>1
  <2>2. CASE i = size + 1
    BY <1>1, <1>4, <2>2
  <2> QED BY <1>7, <2>1, <2>2
<1>9. Moving = {} /\ Moving' = born + 1..born + size
  <2>1. 1..2 = {1, 2}
    OBVIOUS
  <2>2. Moving = {}
    BY <1>1, <2>1 DEF Moving
  <2>3. \A i \in 1..size : i \in 1..Len(stack') /\ stack'[i].customer = born + i /\ born + i # NULL
    BY <1>1, <1>2, <1>4
  <2>4. \A i \in 1..Len(stack') : stack'[i].customer = NULL \/ i \in 1..size
    BY <1>1, <1>4, <1>7
  <2>5. \A x \in born + 1..born + size : x - born \in 1..size /\ born + (x - born) = x
    OBVIOUS
  <2>6. \A i \in 1..size : born + i \in born + 1..born + size
    OBVIOUS
  <2>7. Moving' = {stack'[i].customer : i \in 1..Len(stack')} \ {NULL}
    BY DEF Moving
  <2>8. \A x \in Moving' : x \in born + 1..born + size
    BY <2>3, <2>4, <2>6, <2>7
  <2>9. \A x \in born + 1..born + size : x \in Moving'
    BY <2>3, <2>5, <2>7
  <2> QED BY <2>2, <2>8, <2>9
<1>10. KeepsPending
  BY <1>1, <1>5, <1>6 DEF KeepsPending, Pending, Leaves
<1>11. CallsAreInPlace'
  <2>1. \A i \in 2..Len(stack') - 1 : stack'[i].op = "forward" /\ Kind[stack'[i].node] = "source"
    <3> SUFFICES ASSUME NEW i \in 2..Len(stack') - 1
                 PROVE  stack'[i].op = "forward" /\ Kind[stack'[i].node] = "source"
      OBVIOUS
    <3>1. i \in 1..size
      BY <1>4
    <3> QED BY <1>1, <1>2, <1>4, <3>1
  <2>2. \A i, j \in 1..Len(stack') :
          stack'[i].customer = stack'[j].customer /\ stack'[i].customer \in Customers => i = j
    <3> SUFFICES ASSUME NEW i \in 1..Len(stack'), NEW j \in 1..Len(stack'),
                        stack'[i].customer = stack'[j].customer, stack'[i].customer \in Customers
                 PROVE  i = j
      OBVIOUS
    <3>1. i \in 1..size /\ j \in 1..size
      BY <1>1, <1>4, <1>7
    <3>2. stack'[i].customer = born + i /\ stack'[j].customer = born + j
      BY <1>2, <1>4, <3>1
    <3>3. born + i = born + j
      BY <3>2
    <3>4. i \in Int /\ j \in Int
      BY <3>1
    <3> QED BY <3>3, <3>4
  <2>3. CASE size = 0
    <3>1. Len(stack') = 1 /\ stack'[1] = stack[2]
      BY <1>4, <2>3
    <3> QED BY <1>1, <2>1, <2>2, <3>1 DEF CallsAreInPlace
  <2>4. CASE size # 0
    <3>1. 1 \in 1..size
      BY <2>4
    <3>2. stack'[1].op = "forward" /\ stack'[1].node = Here
      BY <1>2, <1>4, <3>1
    <3> QED BY <1>1, <1>5, <2>1, <2>2, <3>2 DEF CallsAreInPlace
  <2> QED BY <2>3, <2>4
<1> QED BY <1>1, <1>8, <1>9, <1>10, <1>11

-----------------------------------------------------------------------------
(***************************************************************************)
(* The fields of a node.                                                   *)
(***************************************************************************)

\* The measures, counters and checks of a node are in order.
SoundNode(N) == N \in NodeType /\ SoundFields(N)

\* What decides how a node goes on is the same.
SameService(M, N) == M.vtime = N.vtime /\ M.lastSchedule = N.lastSchedule
SameQueue(M, N) == M.queue = N.queue /\ M.pop = N.pop

\* SystemMeasure::add records the present moment.
LEMMA MeasureFacts ==
  ASSUME now \in Nat, NEW m \in MeasureType, m.lastChange <= now, NEW x \in Nat
  PROVE  measure(m, x) \in MeasureType /\ measure(m, x).lastChange = now
<1>1. m.moment \in Nat /\ m.current \in Nat /\ m.lastChange \in Nat
  BY DEF MeasureType
<1>2. m.current * (now - m.lastChange) \in Nat
  <2>1. now - m.lastChange \in Nat
    BY <1>1
  <2> HIDE DEF MeasureType
  <2> QED BY <1>1, <2>1
<1>3. m.moment + m.current * (now - m.lastChange) \in Nat
  BY <1>1, <1>2
<1> QED BY <1>3 DEF measure, MeasureType

\* The fields of every node are sound.
LEMMA NodeFields ==
  ASSUME Types, MomentsArePast, NEW n \in Nodes
  PROVE  SoundNode(nodes[n])
BY DEF Types, MomentsArePast, SoundNode

\* CinqsNode::enter only counts the arrival.
LEMMA ArrivesFacts ==
  ASSUME NEW n \in Nodes, SoundNode(nodes[n])
  PROVE  /\ SoundNode(arrivesAt(n)) /\ SameQueue(arrivesAt(n), nodes[n])
         /\ SameService(arrivesAt(n), nodes[n])
         /\ arrivesAt(n).resources = nodes[n].resources /\ arrivesAt(n).lastEnd = nodes[n].lastEnd
BY DEF arrivesAt, SoundNode, SoundFields, SameQueue, SameService, NodeType

\* A lost customer is only counted.
LEMMA LossFacts ==
  ASSUME NEW N, SoundNode(N)
  PROVE  LET M == [N EXCEPT !.losses = @ + 1]
         IN /\ SoundNode(M) /\ SameQueue(M, N) /\ SameService(M, N)
            /\ M.resources = N.resources /\ M.lastEnd = N.lastEnd
BY DEF SoundNode, SoundFields, SameQueue, SameService, NodeType

\* InfiniteServerNode::invokeService only records the customer in the node.
LEMMA LastEndFacts ==
  ASSUME NEW N, SoundNode(N), NEW c \in Customers
  PROVE  LET M == [N EXCEPT !.lastEnd = c]
         IN /\ SoundNode(M) /\ SameQueue(M, N) /\ SameService(M, N)
            /\ M.resources = N.resources /\ M.lastEnd = c
BY DEF SoundNode, SoundFields, SameQueue, SameService, NodeType

\* A check whose condition holds changes nothing that matters.
LEMMA CheckFacts ==
  ASSUME NEW N, SoundNode(N), NEW condition \in BOOLEAN, condition
  PROVE  /\ SoundNode(check(N, condition)) /\ SameQueue(check(N, condition), N)
         /\ SameService(check(N, condition), N)
         /\ check(N, condition).resources = N.resources /\ check(N, condition).lastEnd = N.lastEnd
BY DEF check, SoundNode, SoundFields, SameQueue, SameService, NodeType

\* Resource::claim takes one of the free resources.
LEMMA ClaimFacts ==
  ASSUME now \in Nat, NEW n \in Nodes, NEW N, SoundNode(N), N.resources > 0, N.resources <= Servers[n]
  PROVE  /\ SoundNode(claim(n, N)) /\ SameQueue(claim(n, N), N) /\ SameService(claim(n, N), N)
         /\ claim(n, N).resources = N.resources - 1
<1> DEFINE m == measure(N.count, Servers[n] - N.resources + 1)
           M == [N EXCEPT !.resources = @ - 1, !.count = m]
<1>1. Servers[n] \in Nat /\ N.resources \in Nat /\ N.count \in MeasureType /\ N.count.lastChange <= now
  BY NetworkAssumption DEF SoundNode, SoundFields, NodeType
<1>2. m \in MeasureType /\ m.lastChange = now
  <2>1. Servers[n] - N.resources + 1 \in Nat
    BY <1>1
  <2> QED BY <1>1, <2>1, MeasureFacts
<1>3. claim(n, N) = check(M, N.resources > 0)
  BY DEF claim
<1> HIDE DEF m
<1>4. /\ SoundNode(M) /\ SameQueue(M, N) /\ SameService(M, N) /\ M.resources = N.resources - 1
  <2>1. N.resources - 1 \in Nat /\ N \in NodeType
    BY <1>1 DEF SoundNode
  <2>2. M \in NodeType
    BY <1>2, <2>1 DEF NodeType
  <2>3. /\ M.resources = N.resources - 1 /\ M.count = m /\ M.popMeasure = N.popMeasure
        /\ M.lastSchedule = N.lastSchedule /\ M.failed = N.failed /\ M.queue = N.queue
        /\ M.pop = N.pop /\ M.vtime = N.vtime
    BY <2>1 DEF NodeType
  <2> HIDE DEF M
  <2>4. m.lastChange <= now
    BY <1>2
  <2> QED BY <2>2, <2>3, <2>4 DEF SoundNode, SoundFields, SameQueue, SameService
<1> HIDE DEF M
<1>5. (N.resources > 0) \in BOOLEAN /\ (N.resources > 0) = TRUE
  BY <1>1
<1>6. claim(n, N) = check(M, TRUE)
  BY <1>3, <1>5
<1>7. /\ SoundNode(check(M, TRUE)) /\ SameQueue(check(M, TRUE), M)
      /\ SameService(check(M, TRUE), M) /\ check(M, TRUE).resources = M.resources
  BY <1>4, CheckFacts
<1> QED BY <1>4, <1>6, <1>7 DEF SameQueue, SameService

\* Resource::release gives one back.
LEMMA ReleaseFacts ==
  ASSUME now \in Nat, NEW n \in Nodes, NEW N, SoundNode(N), N.resources < Servers[n]
  PROVE  /\ SoundNode(release(n, N)) /\ SameQueue(release(n, N), N)
         /\ SameService(release(n, N), N) /\ release(n, N).lastEnd = N.lastEnd
         /\ release(n, N).resources = N.resources + 1
<1> DEFINE m == measure(N.count, Servers[n] - N.resources - 1)
           M == [N EXCEPT !.resources = @ + 1, !.count = m]
<1>1. Servers[n] \in Nat /\ N.resources \in Nat /\ N.count \in MeasureType /\ N.count.lastChange <= now
  BY NetworkAssumption DEF SoundNode, SoundFields, NodeType
<1>2. m \in MeasureType /\ m.lastChange = now
  <2>1. Servers[n] - N.resources - 1 \in Nat
    BY <1>1
  <2> QED BY <1>1, <2>1, MeasureFacts
<1>3. release(n, N) = check(M, N.resources < Servers[n])
  BY DEF release
<1> HIDE DEF m
<1>4. /\ SoundNode(M) /\ SameQueue(M, N) /\ SameService(M, N) /\ M.resources = N.resources + 1
      /\ M.lastEnd = N.lastEnd
  <2>1. N.resources + 1 \in Nat /\ N \in NodeType
    BY <1>1 DEF SoundNode
  <2>2. M \in NodeType
    BY <1>2, <2>1 DEF NodeType
  <2>3. /\ M.resources = N.resources + 1 /\ M.count = m /\ M.popMeasure = N.popMeasure
        /\ M.lastSchedule = N.lastSchedule /\ M.failed = N.failed /\ M.queue = N.queue
        /\ M.pop = N.pop /\ M.vtime = N.vtime /\ M.lastEnd = N.lastEnd
    BY <2>1 DEF NodeType
  <2> HIDE DEF M
  <2>4. m.lastChange <= now
    BY <1>2
  <2> QED BY <2>2, <2>3, <2>4 DEF SoundNode, SoundFields, SameQueue, SameService
<1> HIDE DEF M
<1>5. (N.resources < Servers[n]) = TRUE
  BY <1>1
<1>6. release(n, N) = check(M, TRUE)
  BY <1>3, <1>5
<1>7. /\ SoundNode(check(M, TRUE)) /\ SameQueue(check(M, TRUE), M)
      /\ SameService(check(M, TRUE), M) /\ check(M, TRUE).resources = M.resources
      /\ check(M, TRUE).lastEnd = M.lastEnd
  BY <1>4, CheckFacts
<1> QED BY <1>4, <1>6, <1>7 DEF SameQueue, SameService

\* Queue::enqueue puts the new list in place and counts the customer.
LEMMA EnqueuedFacts ==
  ASSUME now \in Nat, NEW n \in Nodes, NEW N, SoundNode(N), NEW l, l \in ListType,
         N.pop < Capacity[n]
  PROVE  /\ SoundNode(enqueued(n, N, l)) /\ SameService(enqueued(n, N, l), N)
         /\ enqueued(n, N, l).queue = l /\ enqueued(n, N, l).pop = N.pop + 1
         /\ enqueued(n, N, l).resources = N.resources /\ enqueued(n, N, l).lastEnd = N.lastEnd
<1> DEFINE m == measure(N.popMeasure, N.pop + 1)
           M == [N EXCEPT !.queue = l, !.pop = @ + 1, !.popMeasure = m]
<1>1. /\ Capacity[n] \in Nat /\ N.pop \in Nat /\ N.popMeasure \in MeasureType
      /\ N.popMeasure.lastChange <= now
  BY NetworkAssumption DEF SoundNode, SoundFields, NodeType
<1>2. m \in MeasureType /\ m.lastChange = now
  <2>1. N.pop + 1 \in Nat
    BY <1>1
  <2> QED BY <1>1, <2>1, MeasureFacts
<1>3. enqueued(n, N, l) = check(M, N.pop < Capacity[n])
  BY DEF enqueued
<1> HIDE DEF m
<1>4. /\ SoundNode(M) /\ SameService(M, N) /\ M.queue = l /\ M.pop = N.pop + 1
      /\ M.resources = N.resources /\ M.lastEnd = N.lastEnd
  <2>1. N.pop + 1 \in Nat /\ N \in NodeType
    BY <1>1 DEF SoundNode
  <2>2. M \in NodeType
    BY <1>2, <2>1 DEF NodeType
  <2>3. /\ M.resources = N.resources /\ M.count = N.count /\ M.popMeasure = m
        /\ M.lastSchedule = N.lastSchedule /\ M.failed = N.failed /\ M.queue = l
        /\ M.pop = N.pop + 1 /\ M.vtime = N.vtime /\ M.lastEnd = N.lastEnd
    BY <2>1 DEF NodeType
  <2> HIDE DEF M
  <2>4. m.lastChange <= now
    BY <1>2
  <2> QED BY <2>2, <2>3, <2>4 DEF SoundNode, SoundFields, SameService
<1> HIDE DEF M
<1>5. (N.pop < Capacity[n]) = TRUE
  BY <1>1
<1>6. enqueued(n, N, l) = check(M, TRUE)
  BY <1>3, <1>5
<1>7. /\ SoundNode(check(M, TRUE)) /\ SameQueue(check(M, TRUE), M)
      /\ SameService(check(M, TRUE), M) /\ check(M, TRUE).resources = M.resources
      /\ check(M, TRUE).lastEnd = M.lastEnd
  BY <1>4, CheckFacts
<1> QED BY <1>4, <1>6, <1>7 DEF SameQueue, SameService

\* Queue::dequeue takes the first customer and counts its queueing time.
LEMMA DequeuedFacts ==
  ASSUME now \in Nat, NEW N, SoundNode(N), removeFromFront(N.queue) \in ListType,
         N.pop > 0, inserted[N.queue.first] \in Nat, inserted[N.queue.first] <= now
  PROVE  /\ SoundNode(dequeued(N)) /\ SameService(dequeued(N), N)
         /\ dequeued(N).queue = removeFromFront(N.queue) /\ dequeued(N).pop = N.pop - 1
         /\ dequeued(N).resources = N.resources /\ dequeued(N).lastEnd = N.lastEnd
<1> DEFINE m == measure(N.popMeasure, N.pop - 1)
           l == removeFromFront(N.queue)
           t == N.queueingTime + now - inserted[N.queue.first]
           M == [N EXCEPT !.queue = l, !.pop = @ - 1, !.popMeasure = m, !.queueingTime = t]
<1>1. /\ N.pop \in Nat /\ N.popMeasure \in MeasureType /\ N.popMeasure.lastChange <= now
      /\ N.queueingTime \in Nat
  BY DEF SoundNode, SoundFields, NodeType
<1>2. m \in MeasureType /\ m.lastChange = now
  <2>1. N.pop - 1 \in Nat
    BY <1>1
  <2> QED BY <1>1, <2>1, MeasureFacts
<1>3. dequeued(N) = check(M, N.pop > 0)
  BY DEF dequeued
<1>8. t \in Nat /\ l \in ListType
  BY <1>1
<1> HIDE DEF m, t, l
<1>4. /\ SoundNode(M) /\ SameService(M, N) /\ M.queue = l /\ M.pop = N.pop - 1
      /\ M.resources = N.resources /\ M.lastEnd = N.lastEnd
  <2>1. N.pop - 1 \in Nat /\ N \in NodeType
    BY <1>1 DEF SoundNode
  <2>2. M \in NodeType
    BY <1>2, <1>8, <2>1 DEF NodeType
  <2>3. /\ M.resources = N.resources /\ M.count = N.count /\ M.popMeasure = m
        /\ M.lastSchedule = N.lastSchedule /\ M.failed = N.failed /\ M.queue = l
        /\ M.pop = N.pop - 1 /\ M.vtime = N.vtime /\ M.lastEnd = N.lastEnd
    BY <2>1 DEF NodeType
  <2> HIDE DEF M
  <2>4. m.lastChange <= now
    BY <1>2
  <2> QED BY <2>2, <2>3, <2>4 DEF SoundNode, SoundFields, SameService
<1> HIDE DEF M
<1>5. (N.pop > 0) = TRUE
  BY <1>1
<1>6. dequeued(N) = check(M, TRUE)
  BY <1>3, <1>5
<1>7. /\ SoundNode(check(M, TRUE)) /\ SameQueue(check(M, TRUE), M)
      /\ SameService(check(M, TRUE), M) /\ check(M, TRUE).resources = M.resources
      /\ check(M, TRUE).lastEnd = M.lastEnd
  BY <1>4, CheckFacts
<1> QED BY <1>4, <1>6, <1>7 DEF SameQueue, SameService, l

\* The virtual time of a sharing node moves on by the share of the time that has passed.
LEMMA ProgressFacts ==
  ASSUME now \in Nat, NEW N, SoundNode(N), N.pop > 0
  PROVE  /\ SoundNode(progress(N)) /\ SameQueue(progress(N), N)
         /\ progress(N).vtime = N.vtime + (now - N.lastSchedule) \div N.pop
         /\ progress(N).lastSchedule = N.lastSchedule
         /\ progress(N).resources = N.resources /\ progress(N).lastEnd = N.lastEnd
<1> DEFINE v == (now - N.lastSchedule) \div N.pop
<1>1. N.pop \in Nat /\ N.lastSchedule \in Nat /\ N.lastSchedule <= now /\ N.vtime \in Nat
  BY DEF SoundNode, SoundFields, NodeType
<1>2. now - N.lastSchedule \in Nat /\ N.pop \in Nat /\ N.pop > 0
  BY <1>1
<1>3. v \in Nat
  BY <1>2
<1> HIDE DEF v
<1>4. progress(N) = [N EXCEPT !.vtime = @ + v]
  BY DEF progress, v
<1> QED BY <1>1, <1>3, <1>4 DEF SoundNode, SoundFields, SameQueue, NodeType, v

-----------------------------------------------------------------------------
(***************************************************************************)
(* The parts of the invariant that a step leaves alone.                    *)
(***************************************************************************)

\* The customers in service at a node can be counted.
LEMMA InsideIsFinite ==
  ASSUME NEW n
  PROVE  /\ IsFiniteSet(Inside(n)) /\ Cardinality(Inside(n)) \in Nat
         /\ Inside(n) = {} <=> Cardinality(Inside(n)) = 0
<1>1. Inside(n) \subseteq Customers
  BY DEF Inside
<1>2. IsFiniteSet(Inside(n))
  BY <1>1, ObjectsAreFinite, FS_Subset
<1> QED BY <1>2, FS_CardinalityType, FS_EmptySet

\* What is known of a customer that enters a node.
LEMMA Arriving ==
  ASSUME IInv, Now("enter")
  PROVE  /\ stack # <<>> /\ stack[1].op = "enter" /\ stack[1] \in Calls
         /\ Here \in Nodes /\ Cust \in Customers /\ Cust \in Moving /\ Cust # NULL
         /\ fate[Cust] = "inside" /\ Cust \notin Planned /\ \A n \in Nodes : Cust \notin Waiting(n)
         /\ Kind[Here] \in {"preemptive", "sharing"} => ~Leaves(Here) /\ ~Ends(Here)
<1>1. stack # <<>> /\ stack[1].op = "enter" /\ stack[1] \in Calls /\ Len(stack) \in Nat /\ Len(stack) >= 1
  BY StackFacts DEF IInv, Now
<1>2. Here \in Nodes /\ Cust \in Customers /\ Cust # NULL
  <2>1. 1 \in 1..Len(stack) /\ CallsAreTyped
    BY <1>1 DEF IInv
  <2>2. stack[1].customer \in Customers
    BY <1>1, <2>1 DEF CallsAreTyped
  <2> QED BY <1>1, <2>2, NodesAreDistinct DEF Calls, Here, Cust
<1>3. Cust \in Moving
  <2>1. 1 \in 1..Len(stack)
    BY <1>1
  <2> QED BY <1>2, <2>1 DEF Moving, Cust
<1>4. fate[Cust] = "inside" /\ Cust \notin Planned /\ \A n \in Nodes : Cust \notin Waiting(n)
  BY <1>3 DEF IInv, Placed
<1>5. ASSUME Kind[Here] \in {"preemptive", "sharing"}, Leaves(Here) \/ Ends(Here)
      PROVE  FALSE
  <2>1. Bottom.node = Here /\ Bottom.op \in {"release", "forward", "next", "endOfService"}
    BY <1>5 DEF Leaves, Ends, Pending
  <2>2. CASE Len(stack) = 1
    BY <1>1, <2>1, <2>2 DEF Bottom
  <2>3. CASE Len(stack) = 2
    <3>1. Bottom.op \in {"release", "next"}
      BY <2>1, <2>3 DEF IInv, CallsAreInPlace
    <3>2. Away(Here, stack[1])
      BY <1>5, <2>1, <2>3, <3>1 DEF IInv, CallsAreInPlace
    <3> QED BY <1>1, <3>2 DEF Away, Downstream, Here
  <2>4. CASE Len(stack) > 2
    BY <2>1, <2>4 DEF IInv, CallsAreInPlace
  <2> DEFINE len == Len(stack)
  <2>5. len \in Nat /\ len >= 1 /\ len # 1 /\ len # 2 /\ ~(len > 2)
    BY <1>1, <2>2, <2>3, <2>4
  <2> HIDE DEF len
  <2> QED BY <2>5
<1> QED BY <1>1, <1>2, <1>3, <1>4, <1>5

\* A customer's way ends at a node, for this event.
LEMMA ArrivalEnds ==
  ASSUME IInv, Now("enter"), return(<<>>)
  PROVE  CallsAreTyped' /\ CallsAreInPlace' /\ Moving' = Moving \ {Cust} /\ KeepsPending
<1>1. stack # <<>> /\ stack[1].op = "enter" /\ CallsAreTyped /\ CallsAreInPlace
  BY DEF Now, IInv
<1>2. /\ CallsAreTyped' /\ CallsAreInPlace' /\ Moving' = Moving \ {Cust}
      /\ \A f, n : Pending(f, n)' <=> Pending(f, n) /\ Len(stack) > 1
  BY <1>1, CallEnds
<1>3. \A f, n : Pending(f, n) /\ f # "enter" => Len(stack) > 1
  <2>1. Len(stack) \in Nat /\ Len(stack) >= 1
    BY <1>1, StackFacts
  <2> DEFINE len == Len(stack)
  <2>3. len \in Nat /\ len >= 1
    BY <2>1
  <2> HIDE DEF len
  <2>4. ~(len > 1) => len = 1
    BY <2>3
  <2>2. ~(Len(stack) > 1) => Len(stack) = 1
    BY <2>4 DEF len
  <2> QED BY <1>1, <2>2 DEF Pending, Bottom
<1>4. \A f, n : f # "enter" => (Pending(f, n)' <=> Pending(f, n))
  BY <1>2, <1>3
<1>5. KeepsPending
  BY <1>4 DEF KeepsPending, Leaves
<1> QED BY <1>2, <1>5

\* A node that a step does not concern.
LEMMA NodeIsKept ==
  ASSUME NEW n \in Nodes, NodeIsSound(n), QueueInOrder(n), PendingStays(n), now' = now,
         SameQueue(nodes'[n], nodes[n]), SameService(nodes'[n], nodes[n]),
         nodes'[n].resources = nodes[n].resources, nodes'[n].lastEnd = nodes[n].lastEnd,
         n \in Planned' <=> n \in Planned,
         Kind[n] = "sharing" => due'[n] = due[n],
         \A c \in Waiting(n) : finish'[c] = finish[c],
         Inside(n)' = Inside(n)
  PROVE  NodeIsSound(n)'
<1>1. nodes'[n].queue = nodes[n].queue /\ nodes'[n].pop = nodes[n].pop
      /\ nodes'[n].vtime = nodes[n].vtime /\ nodes'[n].lastSchedule = nodes[n].lastSchedule
  BY DEF SameQueue, SameService
<1>2. Waiting(n)' = Waiting(n)
  BY <1>1 DEF Waiting
<1>3. nodes[n].pop > 0 => nodes[n].queue.first \in Waiting(n)
  <2>1. /\ Len(Chain(nodes[n].queue)) = 0 <=> Waiting(n) = {}
        /\ Waiting(n) # {} => nodes[n].queue.first \in Waiting(n)
    BY ListFacts DEF QueueInOrder, Waiting
  <2> QED BY <2>1 DEF QueueInOrder
<1>4. Kind[n] = "source" => SourceIsScheduled(n)'
  BY DEF SourceIsScheduled, NodeIsSound, PendingStays
<1>5. Kind[n] \in {"queueing", "preemptive"} => ServersAreClaimed(n)'
  BY <1>1 DEF ServersAreClaimed, NodeIsSound, PendingStays
<1>6. Kind[n] = "preemptive" => LastIsInService(n)'
  BY <1>1 DEF LastIsInService, NodeIsSound, PendingStays
<1>7. ASSUME Kind[n] = "sharing"
      PROVE  SharingIsScheduled(n)'
  <2>1. (Pending("next", n)' <=> Pending("next", n))
        /\ (Pending("endOfService", n)' <=> Pending("endOfService", n))
    BY DEF PendingStays
  <2>2. SharingIsScheduled(n) /\ due'[n] = due[n]
    BY <1>7 DEF NodeIsSound
  <2>3. Pending("endOfService", n) => n \in Planned \/ nodes[n].pop > 0
    BY <2>2 DEF SharingIsScheduled
  <2>4. n \in Planned => nodes[n].pop > 0
    BY <2>2 DEF SharingIsScheduled
  <2>5. n \in Planned \/ Pending("endOfService", n) =>
          finish'[nodes[n].queue.first] = finish[nodes[n].queue.first]
    BY <1>3, <2>2, <2>4 DEF SharingIsScheduled
  <2> QED BY <1>1, <1>2, <2>1, <2>2, <2>5 DEF SharingIsScheduled, Ends
<1> QED BY <1>1, <1>4, <1>5, <1>6, <1>7 DEF NodeIsSound

\* The same, for a step that ends no event anywhere.
LEMMA NodeStays ==
  ASSUME NEW n \in Nodes, NodeIsSound(n), QueueInOrder(n), KeepsPending, now' = now,
         SameQueue(nodes'[n], nodes[n]), SameService(nodes'[n], nodes[n]),
         nodes'[n].resources = nodes[n].resources, nodes'[n].lastEnd = nodes[n].lastEnd,
         n \in Planned' <=> n \in Planned,
         Kind[n] = "sharing" => due'[n] = due[n],
         \A c \in Waiting(n) : finish'[c] = finish[c],
         Inside(n)' = Inside(n)
  PROVE  NodeIsSound(n)'
<1>1. PendingStays(n)
  BY DEF KeepsPending, PendingStays
<1> QED BY <1>1, NodeIsKept

\* A queue that a step leaves alone stays in order.
LEMMA QueueStays ==
  ASSUME NEW n \in Nodes, QueueInOrder(n), SameQueue(nodes'[n], nodes[n]), discipline' = discipline,
         \A c \in Waiting(n) : finish'[c] = finish[c]
  PROVE  QueueInOrder(n)' /\ Waiting(n)' = Waiting(n)
<1>1. nodes'[n].queue = nodes[n].queue /\ nodes'[n].pop = nodes[n].pop
  BY DEF SameQueue
<1>2. Waiting(n)' = Waiting(n)
  BY <1>1 DEF Waiting
<1>3. Ordered(nodes[n].queue, finish) => Ordered(nodes[n].queue, finish')
  BY StaysOrdered DEF Waiting
<1> QED BY <1>1, <1>2, <1>3 DEF QueueInOrder

\* Only the stack changes.
LEMMA OnlyTheStack ==
  ASSUME IInv, CallsAreTyped', CallsAreInPlace', Moving' = Moving, KeepsPending,
         UNCHANGED <<now, diary, due, nodes, discipline, location, attributes, results, history>>
  PROVE  IInv'
<1>0. /\ now' = now /\ diary' = diary /\ due' = due /\ nodes' = nodes /\ discipline' = discipline
      /\ location' = location /\ demand' = demand /\ inserted' = inserted /\ finish' = finish
      /\ arrived' = arrived /\ completions' = completions /\ responseTime' = responseTime
      /\ fate' = fate /\ asked' = asked /\ served' = served
  BY DEF attributes, results, history
<1>1. Planned' = Planned /\ Unborn' = Unborn /\ \A n : Waiting(n)' = Waiting(n) /\ Inside(n)' = Inside(n)
  BY <1>0 DEF Planned, Unborn, Waiting, Inside
<1>2. Types'
  BY <1>0 DEF IInv, Types
<1>3. DiaryInOrder' /\ QueuesInOrder' /\ MomentsArePast' /\ Births'
  BY <1>0, <1>1 DEF IInv, DiaryInOrder, QueuesInOrder, QueueInOrder, MomentsArePast, SoundFields, Births
<1>4. Placed'
  BY <1>0, <1>1 DEF IInv, Placed
<1>5. NodesAreSound'
  <2> SUFFICES ASSUME NEW n \in Nodes
               PROVE  NodeIsSound(n)'
    BY DEF NodesAreSound
  <2>1. NodeIsSound(n) /\ QueueInOrder(n)
    BY DEF IInv, NodesAreSound, QueuesInOrder
  <2>2. SameQueue(nodes'[n], nodes[n]) /\ SameService(nodes'[n], nodes[n])
    BY <1>0 DEF SameQueue, SameService
  <2> QED BY <1>0, <1>1, <2>1, <2>2, NodeStays
<1> QED BY <1>2, <1>3, <1>4, <1>5 DEF IInv

\* CinqsNode::forward and QueueingNode::forward.
LEMMA ForwardKeeps ==
  ASSUME IInv, forward
  PROVE  IInv'
<1>0. stack # <<>> /\ stack[1].op = "forward" /\ CallsAreTyped /\ CallsAreInPlace
  BY DEF forward, Now, IInv
<1>1. Here \in Nodes /\ Cust \in Customers /\ stack[1] \in Calls
  <2>1. 1 \in 1..Len(stack) /\ stack[1] \in Calls
    BY <1>0, StackFacts
  <2>2. stack[1].customer \in Customers
    BY <1>0, <2>1 DEF CallsAreTyped
  <2> QED BY <2>1, <2>2 DEF Calls, Here, Cust
<1>2. PICK m \in move(Here) :
        return(<<call("enter", m, Cust)>> \o
                 (IF Kind[Here] \in {"queueing", "preemptive"} THEN <<call("release", Here, NULL)>>
                  ELSE <<>>))
  BY DEF forward
<1>3. m \in Links[Here] /\ m \in Nodes /\ Links[Here] \in SUBSET Nodes
  BY <1>1, NetworkAssumption DEF move
<1> DEFINE j == call("enter", m, Cust)
           k == call("release", Here, NULL)
<1>4. /\ j \in Calls /\ j.op = "enter" /\ j.node = m /\ j.customer = Cust /\ k \in Calls
  BY <1>1, <1>3 DEF call, Calls, Ops
<1>5. CallsAreTyped' /\ CallsAreInPlace' /\ Moving' = Moving /\ KeepsPending
  <2>1. CASE Kind[Here] \in {"queueing", "preemptive"}
    <3> DEFINE ks == <<j>> \o <<k>>
    <3>1. return(ks)
      BY <1>2, <2>1
    <3> HIDE DEF j, k
    <3>2. ks \in Seq(Calls) /\ Len(ks) = 2 /\ ks[1] = j /\ ks[2] = k
      BY <1>4
    <3> HIDE DEF ks
    <3> QED BY <1>0, <1>3, <2>1, <3>1, <3>2, CustomerLeaves DEF j, k, Here
  <2>2. CASE Kind[Here] \notin {"queueing", "preemptive"}
    <3>1. return(<<j>>)
      <4>1. return(<<j>> \o <<>>)
        BY <1>2, <2>2
      <4> HIDE DEF j
      <4>2. <<j>> \o <<>> = <<j>>
        OBVIOUS
      <4> QED BY <4>1, <4>2
    <3> HIDE DEF j
    <3>2. \A n \in Nodes : Away(n, stack[1]) => Away(n, j)
      BY <1>0, <1>3, <1>4 DEF Away, Here
    <3> QED BY <1>0, <1>4, <2>2, <3>1, <3>2, CallGoesOn DEF Here
  <2> QED BY <2>1, <2>2
<1>6. UNCHANGED <<now, diary, due, nodes, discipline, location, attributes, results, history>>
  BY DEF forward
<1> QED BY <1>5, <1>6, OnlyTheStack

-----------------------------------------------------------------------------
(***************************************************************************)
(* The steps of a customer that neither waits nor is served.               *)
(***************************************************************************)

\* The parts of the invariant.
LEMMA InvFacts ==
  ASSUME IInv
  PROVE  /\ Types /\ CallsAreTyped /\ CallsAreInPlace /\ DiaryInOrder /\ QueuesInOrder
         /\ MomentsArePast /\ Placed /\ Births /\ NodesAreSound
         /\ now \in Nat
         /\ \A n \in Nodes : SoundNode(nodes[n]) /\ QueueInOrder(n) /\ NodeIsSound(n)
         /\ \A n \in Nodes : /\ IsList(nodes[n].queue) /\ Waiting(n) \subseteq Customers
                             /\ nodes[n].pop = Len(Chain(nodes[n].queue))
<1>1. /\ Types /\ CallsAreTyped /\ CallsAreInPlace /\ DiaryInOrder /\ QueuesInOrder
      /\ MomentsArePast /\ Placed /\ Births /\ NodesAreSound
  BY DEF IInv
<1>2. now \in Nat
  BY <1>1 DEF Types
<1>3. \A n \in Nodes : SoundNode(nodes[n]) /\ QueueInOrder(n) /\ NodeIsSound(n)
  BY <1>1, NodeFields DEF QueuesInOrder, NodesAreSound
<1>4. \A n \in Nodes : /\ IsList(nodes[n].queue) /\ Waiting(n) \subseteq Customers
                       /\ nodes[n].pop = Len(Chain(nodes[n].queue))
  BY <1>3 DEF QueueInOrder
<1> QED BY <1>1, <1>2, <1>3, <1>4

\* Only customers are moved.
LEMMA MovingAreCustomers ==
  ASSUME CallsAreTyped
  PROVE  Moving \subseteq Customers
<1> SUFFICES ASSUME NEW c \in Moving
             PROVE  c \in Customers
  OBVIOUS
<1>1. PICK i \in 1..Len(stack) : c = stack[i].customer /\ c # NULL
  BY DEF Moving
<1>2. stack[i] \in Calls
  BY DEF CallsAreTyped
<1> QED BY <1>1, <1>2 DEF Calls

\* The steps of a customer that neither waits nor is served.
LEMMA PassesThrough ==
  ASSUME IInv, Now("enter"),
         now' = now, diary' = diary, due' = due, discipline' = discipline, finish' = finish,
         Types', CallsAreTyped', CallsAreInPlace', KeepsPending,
         \A n \in Nodes : /\ SoundNode(nodes'[n])
                          /\ SameQueue(nodes'[n], nodes[n]) /\ SameService(nodes'[n], nodes[n])
                          /\ nodes'[n].resources = nodes[n].resources
                          /\ nodes'[n].lastEnd = nodes[n].lastEnd,
         \A c \in Customers : inserted'[c] = inserted[c] /\ arrived'[c] = arrived[c],
         \A c \in Customers : c # Cust => location'[c] = location[c] /\ fate'[c] = fate[c],
         \/ Moving' = Moving /\ fate'[Cust] = "inside"
         \/ Moving' = Moving \ {Cust} /\ fate'[Cust] \in {"done", "lost"}
  PROVE  IInv'
<1>1. /\ Cust \in Customers /\ Cust \in Moving /\ fate[Cust] = "inside" /\ Cust \notin Planned
      /\ \A n \in Nodes : Cust \notin Waiting(n)
  BY Arriving
<1>2. /\ DiaryInOrder /\ MomentsArePast /\ Placed /\ Births
      /\ \A n \in Nodes : QueueInOrder(n) /\ NodeIsSound(n) /\ Waiting(n) \subseteq Customers
  BY InvFacts
<1>3. Planned' = Planned
  BY DEF Planned
<1>4. \A n \in Nodes : QueueInOrder(n)' /\ Waiting(n)' = Waiting(n)
  BY <1>2, QueueStays
<1>5. \A n \in Nodes : Inside(n)' = Inside(n)
  BY <1>1, <1>3 DEF Inside
<1>6. DiaryInOrder'
  BY <1>2, <1>3 DEF DiaryInOrder
<1>7. MomentsArePast'
  BY <1>2 DEF MomentsArePast, SoundNode, SoundFields
<1>8. Births'
  <2>1. Unborn' = Unborn
    BY <1>1 DEF Unborn
  <2> QED BY <1>2, <2>1 DEF Births
<1>9. NodesAreSound'
  <2>1. ASSUME NEW n \in Nodes
        PROVE  NodeIsSound(n)'
    BY <1>2, <1>3, <1>5, <2>1, NodeStays
  <2> QED BY <2>1 DEF NodesAreSound
<1>10. Placed'
  <2>1. \A c \in Moving' : fate'[c] = "inside" /\ c \notin Planned' /\ \A n \in Nodes : c \notin Waiting(n)'
    <3> SUFFICES ASSUME NEW c \in Moving'
                 PROVE  fate'[c] = "inside" /\ c \notin Planned' /\ \A n \in Nodes : c \notin Waiting(n)'
      OBVIOUS
    <3>1. c \in Moving /\ (c = Cust => fate'[c] = "inside")
      BY <1>1
    <3>2. c \in Customers
      BY <3>1, MovingAreCustomers DEF IInv
    <3> QED BY <1>2, <1>3, <1>4, <3>1, <3>2 DEF Placed
  <2>2. \A n \in Nodes : \A c \in Waiting(n)' :
          fate'[c] = "inside" /\ c \notin Planned' /\ location'[c] = n
    BY <1>1, <1>2, <1>3, <1>4 DEF Placed
  <2>3. \A c \in Planned' \cap Customers :
          /\ fate'[c] = "inside" /\ location'[c] \in Nodes
          /\ Kind[location'[c]] \in {"delay", "queueing", "preemptive"}
    BY <1>1, <1>2, <1>3 DEF Placed
  <2>4. \A c \in Customers : fate'[c] = "inside" =>
          c \in Moving' \/ c \in Planned' \/ \E n \in Nodes : c \in Waiting(n)'
    BY <1>1, <1>2, <1>3, <1>4 DEF Placed
  <2> QED BY <2>1, <2>2, <2>3, <2>4 DEF Placed
<1> QED BY <1>4, <1>6, <1>7, <1>8, <1>9, <1>10 DEF IInv, QueuesInOrder

\* NullNode::enter.
LEMMA NullKeeps ==
  ASSUME IInv, enter_null
  PROVE  IInv'
<1>1. Now("enter") /\ return(<<>>) /\ fate' = [fate EXCEPT ![Cust] = "lost"]
      /\ now' = now /\ diary' = diary /\ due' = due /\ nodes' = nodes /\ discipline' = discipline
      /\ location' = location /\ demand' = demand /\ inserted' = inserted /\ finish' = finish
      /\ arrived' = arrived /\ completions' = completions /\ responseTime' = responseTime
      /\ asked' = asked /\ served' = served
  BY DEF enter_null, attributes, results
<1>2. CallsAreTyped' /\ CallsAreInPlace' /\ Moving' = Moving \ {Cust} /\ KeepsPending
  BY <1>1, ArrivalEnds
<1>3. Types /\ Cust \in Customers /\ \A n \in Nodes : SoundNode(nodes[n])
  BY <1>1, Arriving, InvFacts
<1>4. Types'
  BY <1>1, <1>3 DEF Types
<1>5. fate'[Cust] = "lost" /\ \A c \in Customers : c # Cust => fate'[c] = fate[c]
  BY <1>1, <1>3 DEF Types
<1>6. \A n \in Nodes : SameQueue(nodes'[n], nodes[n]) /\ SameService(nodes'[n], nodes[n])
  BY <1>1 DEF SameQueue, SameService
<1> QED BY <1>1, <1>2, <1>3, <1>4, <1>5, <1>6, PassesThrough

\* CinqsNode::accept of a plain node.
LEMMA NodeKeeps ==
  ASSUME IInv, accept_node
  PROVE  IInv'
<1>1. /\ Now("enter") /\ Kind[Here] = "node" /\ location' = [location EXCEPT ![Cust] = Here]
      /\ nodes' = [nodes EXCEPT ![Here] = arrivesAt(Here)]
      /\ return(<<call("forward", Here, Cust)>>)
      /\ now' = now /\ diary' = diary /\ due' = due /\ discipline' = discipline
      /\ demand' = demand /\ inserted' = inserted /\ finish' = finish
      /\ arrived' = arrived /\ completions' = completions /\ responseTime' = responseTime
      /\ fate' = fate /\ asked' = asked /\ served' = served
  BY DEF accept_node, enters, node, attributes, results, history
<1>2. /\ Types /\ Cust \in Customers /\ Here \in Nodes /\ stack # <<>> /\ stack[1].op = "enter"
      /\ fate[Cust] = "inside" /\ CallsAreTyped /\ CallsAreInPlace
      /\ \A n \in Nodes : SoundNode(nodes[n])
  BY <1>1, Arriving, InvFacts
<1> DEFINE k == call("forward", Here, Cust)
<1>3. k \in Calls /\ k.op = "forward" /\ k.node = Here /\ k.customer = Cust
  BY <1>2 DEF call, Calls, Ops
<1>4. return(<<k>>)
  BY <1>1
<1> HIDE DEF k
<1>5. CallsAreTyped' /\ CallsAreInPlace' /\ Moving' = Moving /\ KeepsPending
  <2>1. \A n \in Nodes : Away(n, stack[1]) => Away(n, k)
    BY <1>1, <1>2, <1>3 DEF Away, Downstream, Here
  <2> QED BY <1>1, <1>2, <1>3, <1>4, <2>1, CallGoesOn
<1>6. \A n \in Nodes : /\ SoundNode(nodes'[n])
                       /\ SameQueue(nodes'[n], nodes[n]) /\ SameService(nodes'[n], nodes[n])
                       /\ nodes'[n].resources = nodes[n].resources
                       /\ nodes'[n].lastEnd = nodes[n].lastEnd
  <2> SUFFICES ASSUME NEW n \in Nodes
               PROVE  /\ SoundNode(nodes'[n])
                      /\ SameQueue(nodes'[n], nodes[n]) /\ SameService(nodes'[n], nodes[n])
                      /\ nodes'[n].resources = nodes[n].resources
                      /\ nodes'[n].lastEnd = nodes[n].lastEnd
    OBVIOUS
  <2>1. CASE n = Here
    <3>1. nodes'[n] = arrivesAt(n)
      BY <1>1, <1>2, <2>1 DEF Types
    <3> QED BY <1>2, <3>1, ArrivesFacts
  <2>2. CASE n # Here
    BY <1>1, <1>2, <2>2 DEF Types, SameQueue, SameService
  <2> QED BY <2>1, <2>2
<1>7. Types'
  <2>1. nodes' \in [Nodes -> NodeType]
    BY <1>1, <1>2, <1>6 DEF Types, SoundNode
  <2> QED BY <1>1, <1>2, <2>1 DEF Types
<1>8. \A c \in Customers : c # Cust => location'[c] = location[c]
  BY <1>1, <1>2 DEF Types
<1> QED BY <1>1, <1>2, <1>5, <1>6, <1>7, <1>8, PassesThrough

\* Sink::accept.
LEMMA SinkKeeps ==
  ASSUME IInv, accept_sink
  PROVE  IInv'
<1>1. /\ Now("enter") /\ location' = [location EXCEPT ![Cust] = Here]
      /\ nodes' = [nodes EXCEPT ![Here] = arrivesAt(Here)]
      /\ return(<<>>)
      /\ now' = now /\ diary' = diary /\ due' = due /\ discipline' = discipline
      /\ demand' = demand /\ inserted' = inserted /\ finish' = finish
      /\ arrived' = arrived /\ completions' = completions + 1
      /\ responseTime' = responseTime + now - arrived[Cust]
      /\ fate' = [fate EXCEPT ![Cust] = "done"] /\ asked' = asked /\ served' = served
  BY DEF accept_sink, enters, node, attributes
<1>2. /\ Types /\ Cust \in Customers /\ Here \in Nodes /\ MomentsArePast
      /\ \A n \in Nodes : SoundNode(nodes[n])
  BY <1>1, Arriving, InvFacts
<1>5. CallsAreTyped' /\ CallsAreInPlace' /\ Moving' = Moving \ {Cust} /\ KeepsPending
  BY <1>1, ArrivalEnds
<1>6. \A n \in Nodes : /\ SoundNode(nodes'[n])
                       /\ SameQueue(nodes'[n], nodes[n]) /\ SameService(nodes'[n], nodes[n])
                       /\ nodes'[n].resources = nodes[n].resources
                       /\ nodes'[n].lastEnd = nodes[n].lastEnd
  <2> SUFFICES ASSUME NEW n \in Nodes
               PROVE  /\ SoundNode(nodes'[n])
                      /\ SameQueue(nodes'[n], nodes[n]) /\ SameService(nodes'[n], nodes[n])
                      /\ nodes'[n].resources = nodes[n].resources
                      /\ nodes'[n].lastEnd = nodes[n].lastEnd
    OBVIOUS
  <2>1. CASE n = Here
    <3>1. nodes'[n] = arrivesAt(n)
      BY <1>1, <1>2, <2>1 DEF Types
    <3> QED BY <1>2, <3>1, ArrivesFacts
  <2>2. CASE n # Here
    BY <1>1, <1>2, <2>2 DEF Types, SameQueue, SameService
  <2> QED BY <2>1, <2>2
<1>7. Types'
  <2>1. nodes' \in [Nodes -> NodeType]
    BY <1>1, <1>2, <1>6 DEF Types, SoundNode
  <2>2. responseTime' \in Nat
    BY <1>1, <1>2 DEF Types, MomentsArePast
  <2> QED BY <1>1, <1>2, <2>1, <2>2 DEF Types
<1>8. /\ \A c \in Customers : c # Cust => location'[c] = location[c] /\ fate'[c] = fate[c]
      /\ fate'[Cust] = "done"
  BY <1>1, <1>2 DEF Types
<1> QED BY <1>1, <1>2, <1>5, <1>6, <1>7, <1>8, PassesThrough

\* ResourcePool::accept, for a customer that finds the queue full.
LEMMA LostKeeps ==
  ASSUME IInv, accept_lost
  PROVE  IInv'
<1>1. PICK d \in Demands :
        /\ Now("enter") /\ Kind[Here] = "queueing" /\ location' = [location EXCEPT ![Cust] = Here]
        /\ nodes' = [nodes EXCEPT ![Here] = [arrivesAt(Here) EXCEPT !.losses = @ + 1]]
        /\ return(<<call("enter", LossNode[Here], Cust)>>)
        /\ now' = now /\ diary' = diary /\ due' = due /\ discipline' = discipline
        /\ demand' = [demand EXCEPT ![Cust] = d] /\ inserted' = inserted /\ finish' = finish
        /\ arrived' = arrived /\ completions' = completions /\ responseTime' = responseTime
        /\ fate' = fate /\ asked' = [asked EXCEPT ![Cust] = d]
        /\ served' = [served EXCEPT ![Cust] = 0]
  BY DEF accept_lost, enters, setServiceDemand, node, results
<1>2. /\ Types /\ Cust \in Customers /\ Here \in Nodes /\ stack # <<>> /\ stack[1].op = "enter"
      /\ fate[Cust] = "inside" /\ CallsAreTyped /\ CallsAreInPlace /\ d \in Nat
      /\ LossNode[Here] \in Nodes
      /\ \A n \in Nodes : SoundNode(nodes[n])
  BY <1>1, Arriving, InvFacts, NetworkAssumption
<1> DEFINE k == call("enter", LossNode[Here], Cust)
<1>3. k \in Calls /\ k.op = "enter" /\ k.node = LossNode[Here] /\ k.customer = Cust
  BY <1>2 DEF call, Calls, Ops
<1>4. return(<<k>>)
  BY <1>1
<1> HIDE DEF k
<1>5. CallsAreTyped' /\ CallsAreInPlace' /\ Moving' = Moving /\ KeepsPending
  <2>1. \A n \in Nodes : Away(n, stack[1]) => Away(n, k)
    BY <1>1, <1>2, <1>3 DEF Away, Downstream, Here
  <2> QED BY <1>1, <1>2, <1>3, <1>4, <2>1, CallGoesOn
<1>6. \A n \in Nodes : /\ SoundNode(nodes'[n])
                       /\ SameQueue(nodes'[n], nodes[n]) /\ SameService(nodes'[n], nodes[n])
                       /\ nodes'[n].resources = nodes[n].resources
                       /\ nodes'[n].lastEnd = nodes[n].lastEnd
  <2> SUFFICES ASSUME NEW n \in Nodes
               PROVE  /\ SoundNode(nodes'[n])
                      /\ SameQueue(nodes'[n], nodes[n]) /\ SameService(nodes'[n], nodes[n])
                      /\ nodes'[n].resources = nodes[n].resources
                      /\ nodes'[n].lastEnd = nodes[n].lastEnd
    OBVIOUS
  <2>1. CASE n = Here
    <3> DEFINE N == arrivesAt(n)
               M == [N EXCEPT !.losses = @ + 1]
    <3>1. nodes'[n] = M
      BY <1>1, <1>2, <2>1 DEF Types
    <3>2. /\ SoundNode(N) /\ SameQueue(N, nodes[n]) /\ SameService(N, nodes[n])
          /\ N.resources = nodes[n].resources /\ N.lastEnd = nodes[n].lastEnd
      BY <1>2, ArrivesFacts
    <3> HIDE DEF N
    <3>3. /\ SoundNode(M) /\ SameQueue(M, N) /\ SameService(M, N)
          /\ M.resources = N.resources /\ M.lastEnd = N.lastEnd
      BY <3>2, LossFacts
    <3> HIDE DEF M
    <3> QED BY <3>1, <3>2, <3>3 DEF SameQueue, SameService
  <2>2. CASE n # Here
    BY <1>1, <1>2, <2>2 DEF Types, SameQueue, SameService
  <2> QED BY <2>1, <2>2
<1>7. Types'
  <2>1. nodes' \in [Nodes -> NodeType]
    BY <1>1, <1>2, <1>6 DEF Types, SoundNode
  <2> QED BY <1>1, <1>2, <2>1 DEF Types
<1>8. \A c \in Customers : c # Cust => location'[c] = location[c]
  BY <1>1, <1>2 DEF Types
<1> QED BY <1>1, <1>2, <1>5, <1>6, <1>7, <1>8, PassesThrough

-----------------------------------------------------------------------------
(***************************************************************************)
(* Service starts.                                                         *)
(***************************************************************************)

\* An event is put in the diary.
LEMMA EventIsScheduled ==
  ASSUME now \in Nat, due \in [Objects -> Nat], NEW l, Ordered(l, due),
         \A o \in Members(l) : now <= due[o],
         NEW e \in Objects, e \notin Members(l), NEW t \in Nat, now <= t,
         now' = now, due' = [due EXCEPT ![e] = t], diary' = schedule(l, e)
  PROVE  /\ DiaryInOrder' /\ Planned' = Members(l) \cup {e} /\ due' \in [Objects -> Nat]
         /\ \A o \in Objects : due'[o] = IF o = e THEN t ELSE due[o]
<1> DEFINE v == due'
<1>1. v \in [Objects -> Nat] /\ \A o \in Objects : v[o] = IF o = e THEN t ELSE due[o]
  OBVIOUS
<1>2. IsList(l) /\ Members(l) \subseteq Objects
  BY ListFacts DEF Ordered
<1>3. diary' = insertInOrder(l, e, v)
  BY DEF schedule
<1> HIDE DEF v
<1>4. \A o \in Members(l) : v[o] = due[o]
  BY <1>1, <1>2
<1>5. Ordered(l, v)
  BY <1>4, StaysOrdered
<1>6. \A o \in Members(l) \cup {e} : v[o] \in Int
  BY <1>1, <1>2
<1>7. Grown(diary', l, e) /\ Ordered(diary', v)
  BY <1>2, <1>3, <1>5, <1>6, InsertionInOrder
<1>8. Planned' = Members(l) \cup {e}
  BY <1>7 DEF Grown, Planned
<1>9. \A o \in Planned' : now <= v[o]
  BY <1>1, <1>2, <1>4, <1>8
<1> QED BY <1>1, <1>7, <1>8, <1>9 DEF v, DiaryInOrder

\* No more resources are free than there are.
LEMMA ClaimedAtMost ==
  ASSUME NEW n \in Nodes, NodeIsSound(n), SoundNode(nodes[n]),
         Kind[n] \in {"queueing", "preemptive", "sharing"}
  PROVE  nodes[n].resources <= Servers[n]
<1>1. nodes[n].resources \in Nat /\ Servers[n] \in Nat /\ Cardinality(Inside(n)) \in Nat
  BY InsideIsFinite, NetworkAssumption DEF SoundNode, NodeType
<1>2. CASE Kind[n] = "sharing"
  BY <1>2 DEF NodeIsSound, SharingIsScheduled
<1>3. CASE Kind[n] \in {"queueing", "preemptive"}
  <2>1. Servers[n] = nodes[n].resources + Cardinality(Inside(n)) + IF Leaves(n) THEN 1 ELSE 0
    BY <1>3 DEF NodeIsSound, ServersAreClaimed
  <2> QED BY <1>1, <2>1
<1> QED BY <1>2, <1>3

\* A customer that enters a node is served at once.
LEMMA StartsService ==
  ASSUME IInv, Now("enter"), NEW d \in Nat, NEW N,
         now' = now, due' = [due EXCEPT ![Cust] = now + d], diary' = schedule(diary, Cust),
         nodes' = [nodes EXCEPT ![Here] = N], SoundNode(N), SameQueue(N, nodes[Here]),
         SameService(N, nodes[Here]), N.lastEnd = Cust,
         \/ Kind[Here] = "delay" /\ N.resources = nodes[Here].resources
         \/ /\ Kind[Here] \in {"queueing", "preemptive"} /\ nodes[Here].resources > 0
            /\ N.resources = nodes[Here].resources - 1,
         location' = [location EXCEPT ![Cust] = Here],
         return(<<>>), discipline' = discipline, inserted' = inserted, finish' = finish,
         arrived' = arrived, completions' = completions, responseTime' = responseTime, fate' = fate,
         demand' = [demand EXCEPT ![Cust] = d], asked' = [asked EXCEPT ![Cust] = d],
         served' = [served EXCEPT ![Cust] = 0]
  PROVE  IInv'
<1>1. /\ Here \in Nodes /\ Cust \in Customers /\ Cust \in Moving
      /\ fate[Cust] = "inside" /\ Cust \notin Planned /\ \A n \in Nodes : Cust \notin Waiting(n)
  BY Arriving
<1>2. /\ Types /\ DiaryInOrder /\ MomentsArePast /\ Placed /\ Births /\ now \in Nat
      /\ \A n \in Nodes : QueueInOrder(n) /\ NodeIsSound(n) /\ SoundNode(nodes[n])
      /\ \A n \in Nodes : Waiting(n) \subseteq Customers
  BY InvFacts
<1>3. CallsAreTyped' /\ CallsAreInPlace' /\ Moving' = Moving \ {Cust} /\ KeepsPending
  BY ArrivalEnds
<1>4. /\ DiaryInOrder' /\ Planned' = Planned \cup {Cust} /\ due' \in [Objects -> Nat]
      /\ \A o \in Objects : o # Cust => due'[o] = due[o]
  <2>1. /\ Ordered(diary, due) /\ Cust \notin Members(diary) /\ Cust \in Objects
        /\ \A o \in Members(diary) : now <= due[o]
    BY <1>1, <1>2, ObjectsAreFinite DEF DiaryInOrder, Planned
  <2>2. now + d \in Nat /\ now <= now + d /\ due \in [Objects -> Nat]
    BY <1>2 DEF Types
  <2>3. /\ DiaryInOrder' /\ Planned' = Members(diary) \cup {Cust} /\ due' \in [Objects -> Nat]
        /\ \A o \in Objects : due'[o] = IF o = Cust THEN now + d ELSE due[o]
    BY <1>2, <2>1, <2>2, EventIsScheduled
  <2> QED BY <2>3 DEF Planned
<1>5. nodes'[Here] = N /\ \A n \in Nodes : n # Here => nodes'[n] = nodes[n]
  BY <1>1, <1>2 DEF Types
<1>6. location'[Cust] = Here /\ \A c \in Customers : c # Cust => location'[c] = location[c]
  BY <1>1, <1>2 DEF Types
<1>7. \A n \in Nodes : SoundNode(nodes'[n]) /\ SameQueue(nodes'[n], nodes[n])
  BY <1>2, <1>5 DEF SameQueue
<1>8. \A n \in Nodes : QueueInOrder(n)' /\ Waiting(n)' = Waiting(n)
  BY <1>2, <1>7, QueueStays
<1>9. \A n \in Nodes : /\ Inside(n)' = IF n = Here THEN Inside(n) \cup {Cust} ELSE Inside(n)
                       /\ Cust \notin Inside(n)
  BY <1>1, <1>4, <1>6 DEF Inside
<1>10. Types'
  <2>1. nodes' \in [Nodes -> NodeType]
    BY <1>2, <1>7 DEF Types, SoundNode
  <2> QED BY <1>1, <1>2, <1>4, <2>1 DEF Types
<1>11. MomentsArePast' /\ Births'
  <2>1. MomentsArePast'
    BY <1>2, <1>7 DEF MomentsArePast, SoundNode, SoundFields
  <2>2. Unborn' = Unborn
    BY DEF Unborn
  <2> QED BY <1>2, <2>1, <2>2 DEF Births
<1>12. Placed'
  <2>1. \A c \in Moving' : fate'[c] = "inside" /\ c \notin Planned' /\ \A n \in Nodes : c \notin Waiting(n)'
    BY <1>2, <1>3, <1>4, <1>8 DEF Placed
  <2>2. \A n \in Nodes : \A c \in Waiting(n)' :
          fate'[c] = "inside" /\ c \notin Planned' /\ location'[c] = n
    BY <1>1, <1>2, <1>4, <1>6, <1>8 DEF Placed
  <2>3. \A c \in Planned' \cap Customers :
          /\ fate'[c] = "inside" /\ location'[c] \in Nodes
          /\ Kind[location'[c]] \in {"delay", "queueing", "preemptive"}
    BY <1>1, <1>2, <1>4, <1>6 DEF Placed
  <2>4. \A c \in Customers : fate'[c] = "inside" =>
          c \in Moving' \/ c \in Planned' \/ \E n \in Nodes : c \in Waiting(n)'
    BY <1>2, <1>3, <1>4, <1>8 DEF Placed
  <2> QED BY <2>1, <2>2, <2>3, <2>4 DEF Placed
<1>13. NodesAreSound'
  <2> SUFFICES ASSUME NEW n \in Nodes
               PROVE  NodeIsSound(n)'
    BY DEF NodesAreSound
  <2>0. n # Cust
    BY <1>1, NodesAreDistinct
  <2>1. CASE n # Here
    <3>1. /\ nodes'[n] = nodes[n] /\ Inside(n)' = Inside(n)
          /\ (n \in Planned' <=> n \in Planned)
          /\ Kind[n] = "sharing" => due'[n] = due[n]
      BY <1>4, <1>5, <1>9, <2>0, <2>1, NodesAreDistinct
    <3> QED BY <1>2, <1>3, <3>1, NodeStays DEF SameQueue, SameService
  <2>2. CASE n = Here /\ Kind[n] = "delay"
    <3>1. nodes'[n].pop = 0
      BY <1>2, <1>5, <2>2 DEF NodeIsSound, SameQueue
    <3> QED BY <2>2, <3>1 DEF NodeIsSound
  <2>3. CASE n = Here /\ Kind[n] \in {"queueing", "preemptive"}
    <3>1. /\ nodes[n].resources > 0 /\ nodes'[n].resources = nodes[n].resources - 1
          /\ nodes'[n].lastEnd = Cust /\ nodes'[n].pop = nodes[n].pop /\ nodes[n].resources \in Nat
      BY <1>2, <1>5, <2>3 DEF SameQueue, SoundNode, NodeType
    <3>2. ServersAreClaimed(n) /\ (Leaves(n)' <=> Leaves(n))
      BY <1>2, <1>3, <2>3 DEF NodeIsSound, KeepsPending
    <3>3. ~(nodes[n].pop > 0)
      BY <3>1, <3>2 DEF ServersAreClaimed
    <3>4. Cardinality(Inside(n)') = Cardinality(Inside(n)) + 1 /\ Cardinality(Inside(n)) \in Nat
      BY <1>9, <2>3, InsideIsFinite, FS_AddElement
    <3>5. ServersAreClaimed(n)'
      <4>1. Servers[n] \in Nat
        BY NetworkAssumption
      <4>2. Servers[n] = nodes[n].resources + Cardinality(Inside(n)) + IF Leaves(n) THEN 1 ELSE 0
        BY <3>2 DEF ServersAreClaimed
      <4> QED BY <3>1, <3>2, <3>3, <3>4, <4>1, <4>2 DEF ServersAreClaimed
    <3>6. LastIsInService(n)'
      BY <1>9, <2>3, <3>1 DEF LastIsInService
    <3> QED BY <2>3, <3>5, <3>6 DEF NodeIsSound
  <2> QED BY <2>1, <2>2, <2>3
<1> QED BY <1>3, <1>4, <1>8, <1>10, <1>11, <1>12, <1>13 DEF IInv, QueuesInOrder

\* InfiniteServerNode::accept.
LEMMA DelayKeeps ==
  ASSUME IInv, accept_delay
  PROVE  IInv'
<1>1. PICK d \in Demands :
        /\ demand' = [demand EXCEPT ![Cust] = d] /\ asked' = [asked EXCEPT ![Cust] = d]
        /\ served' = [served EXCEPT ![Cust] = 0]
  BY DEF accept_delay, setServiceDemand
<1>2. /\ Now("enter") /\ Kind[Here] = "delay" /\ location' = [location EXCEPT ![Cust] = Here]
      /\ due' = [due EXCEPT ![Cust] = now + demand'[Cust]]
      /\ nodes' = [nodes EXCEPT ![Here] = [arrivesAt(Here) EXCEPT !.lastEnd = Cust]]
      /\ diary' = schedule(diary, Cust) /\ return(<<>>)
      /\ now' = now /\ discipline' = discipline /\ inserted' = inserted /\ finish' = finish
      /\ arrived' = arrived /\ completions' = completions /\ responseTime' = responseTime
      /\ fate' = fate
  BY DEF accept_delay, enters, invokeService, node, results
<1>3. /\ Here \in Nodes /\ Cust \in Customers /\ SoundNode(nodes[Here]) /\ d \in Nat
      /\ demand'[Cust] = d
  <2>1. Here \in Nodes /\ Cust \in Customers /\ Types
    BY <1>2, Arriving, InvFacts
  <2> QED BY <1>1, <2>1, InvFacts, NetworkAssumption DEF Types
<1> DEFINE A == arrivesAt(Here)
           N == [A EXCEPT !.lastEnd = Cust]
<1>4. nodes' = [nodes EXCEPT ![Here] = N]
  BY <1>2
<1>5. /\ SoundNode(A) /\ SameQueue(A, nodes[Here]) /\ SameService(A, nodes[Here])
      /\ A.resources = nodes[Here].resources
  BY <1>3, ArrivesFacts
<1> HIDE DEF A
<1>6. /\ SoundNode(N) /\ SameQueue(N, A) /\ SameService(N, A)
      /\ N.resources = A.resources /\ N.lastEnd = Cust
  BY <1>3, <1>5, LastEndFacts
<1> HIDE DEF N
<1>7. SameQueue(N, nodes[Here]) /\ SameService(N, nodes[Here]) /\ N.resources = nodes[Here].resources
  BY <1>5, <1>6 DEF SameQueue, SameService
<1> QED BY <1>1, <1>2, <1>3, <1>4, <1>6, <1>7, StartsService

\* ResourcePool::accept, for a customer that finds a free resource.
LEMMA ServedKeeps ==
  ASSUME IInv, accept_served
  PROVE  IInv'
<1>1. PICK d \in Demands :
        /\ demand' = [demand EXCEPT ![Cust] = d] /\ asked' = [asked EXCEPT ![Cust] = d]
        /\ served' = [served EXCEPT ![Cust] = 0]
  BY DEF accept_served, setServiceDemand
<1>2. /\ Now("enter") /\ Kind[Here] = "queueing" /\ location' = [location EXCEPT ![Cust] = Here]
      /\ nodes[Here].resources > 0
      /\ due' = [due EXCEPT ![Cust] = now + demand'[Cust]]
      /\ nodes' = [nodes EXCEPT ![Here] = [claim(Here, arrivesAt(Here)) EXCEPT !.lastEnd = Cust]]
      /\ diary' = schedule(diary, Cust) /\ return(<<>>)
      /\ now' = now /\ discipline' = discipline /\ inserted' = inserted /\ finish' = finish
      /\ arrived' = arrived /\ completions' = completions /\ responseTime' = responseTime
      /\ fate' = fate
  BY DEF accept_served, enters, invokeService, node, results
<1>3. /\ Here \in Nodes /\ Cust \in Customers /\ SoundNode(nodes[Here]) /\ d \in Nat
      /\ demand'[Cust] = d /\ now \in Nat /\ NodeIsSound(Here)
  <2>1. Here \in Nodes /\ Cust \in Customers /\ Types
    BY <1>2, Arriving, InvFacts
  <2> QED BY <1>1, <2>1, InvFacts, NetworkAssumption DEF Types
<1>4. nodes[Here].resources <= Servers[Here]
  BY <1>2, <1>3, ClaimedAtMost
<1> DEFINE A == arrivesAt(Here)
           B == claim(Here, A)
           N == [B EXCEPT !.lastEnd = Cust]
<1>5. nodes' = [nodes EXCEPT ![Here] = N]
  BY <1>2
<1>6. /\ SoundNode(A) /\ SameQueue(A, nodes[Here]) /\ SameService(A, nodes[Here])
      /\ A.resources = nodes[Here].resources
  BY <1>3, ArrivesFacts
<1> HIDE DEF A
<1>7. SoundNode(B) /\ SameQueue(B, A) /\ SameService(B, A) /\ B.resources = A.resources - 1
  BY <1>2, <1>3, <1>4, <1>6, ClaimFacts
<1> HIDE DEF B
<1>8. /\ SoundNode(N) /\ SameQueue(N, B) /\ SameService(N, B)
      /\ N.resources = B.resources /\ N.lastEnd = Cust
  BY <1>3, <1>7, LastEndFacts
<1> HIDE DEF N
<1>9. SameQueue(N, nodes[Here]) /\ SameService(N, nodes[Here]) /\ N.resources = nodes[Here].resources - 1
  BY <1>6, <1>7, <1>8 DEF SameQueue, SameService
<1> QED BY <1>1, <1>2, <1>3, <1>5, <1>8, <1>9, StartsService

-----------------------------------------------------------------------------
(***************************************************************************)
(* Customers wait.                                                         *)
(***************************************************************************)

\* A queue takes a customer in.
LEMMA QueueGrows ==
  ASSUME NEW n \in Nodes, QueueInOrder(n), nodes[n].pop \in Nat, NEW c \in Customers, c \notin Waiting(n),
         NEW q \in insertIntoQueue(n, nodes[n].queue, c), nodes'[n].queue = q,
         nodes'[n].pop = nodes[n].pop + 1, discipline' = discipline,
         finish' \in [Customers -> Nat], \A x \in Waiting(n) : finish'[x] = finish[x]
  PROVE  QueueInOrder(n)' /\ Waiting(n)' = Waiting(n) \cup {c}
<1> DEFINE l == nodes[n].queue
<1>1. /\ IsList(l) /\ Members(l) \subseteq Customers /\ c \notin Members(l)
      /\ discipline[n] \in {"FIFO", "LIFO", "random", "priority", "finish"}
      /\ nodes[n].pop = Len(Chain(l)) /\ Waiting(n) = Members(l)
      /\ discipline[n] = "finish" => Ordered(l, finish)
      /\ discipline[n] = "priority" => Ordered(l, Rank)
  BY DEF QueueInOrder, Waiting
<1>2. \A x \in Customers : finish'[x] \in Int
  OBVIOUS
<1>3. Ordered(l, finish) => Ordered(l, finish')
  BY <1>1, StaysOrdered
<1>4. q \in insertIntoQueue(n, l, c)
  OBVIOUS
<1> HIDE DEF l
<1>5. /\ Grown(q, l, c)
      /\ discipline[n] = "finish" /\ Ordered(l, finish') => Ordered(q, finish')
      /\ discipline[n] = "priority" /\ Ordered(l, Rank) => Ordered(q, Rank)
  BY <1>1, <1>2, <1>4, QueueInsertion
<1>6. IsList(q) /\ Members(q) = Members(l) \cup {c} /\ Len(Chain(q)) = Len(Chain(l)) + 1
  BY <1>5 DEF Grown
<1>7. Waiting(n)' = Waiting(n) \cup {c}
  BY <1>1, <1>6 DEF Waiting
<1> QED BY <1>1, <1>3, <1>5, <1>6, <1>7 DEF QueueInOrder

\* A list that has taken an object in is a list.
LEMMA GrownIsList ==
  ASSUME NEW n \in Nodes, QueueInOrder(n), NEW c \in Customers, c \notin Waiting(n),
         finish' \in [Customers -> Nat], NEW q \in insertIntoQueue(n, nodes[n].queue, c)
  PROVE  q \in ListType
<1>1. /\ IsList(nodes[n].queue) /\ Members(nodes[n].queue) \subseteq Customers
      /\ c \notin Members(nodes[n].queue)
      /\ discipline[n] \in {"FIFO", "LIFO", "random", "priority", "finish"}
  BY DEF QueueInOrder, Waiting
<1>2. \A x \in Customers : finish'[x] \in Int
  OBVIOUS
<1>3. Grown(q, nodes[n].queue, c)
  BY <1>1, <1>2, QueueInsertion
<1> QED BY <1>3, ListFacts DEF Grown

\* The customer that arrives waits, or is served in the place of another that does.
LEMMA ArrivedIsPlaced ==
  ASSUME IInv, Now("enter"), Moving' = Moving \ {Cust}, fate' = fate,
         location' = [location EXCEPT ![Cust] = Here], NEW x \in Customers,
         \/ x = Cust /\ Planned' \cap Customers = Planned \cap Customers
         \/ /\ x \in Inside(Here) /\ Kind[Here] = "preemptive"
            /\ Planned' \cap Customers = ((Planned \cap Customers) \ {x}) \cup {Cust},
         \A n \in Nodes : Waiting(n)' = IF n = Here THEN Waiting(n) \cup {x} ELSE Waiting(n)
  PROVE  Placed'
<1>1. /\ Here \in Nodes /\ Cust \in Customers /\ Cust \in Moving
      /\ fate[Cust] = "inside" /\ Cust \notin Planned /\ \A n \in Nodes : Cust \notin Waiting(n)
  BY Arriving
<1>2. Types /\ Placed /\ Moving \subseteq Customers /\ \A n \in Nodes : Waiting(n) \subseteq Customers
  BY InvFacts, MovingAreCustomers
<1>3. location'[Cust] = Here /\ \A c \in Customers : c # Cust => location'[c] = location[c]
  BY <1>1, <1>2 DEF Types
<1>4. /\ fate[x] = "inside" /\ location'[x] = Here /\ x \notin Planned' /\ x \notin Moving'
      /\ \A n \in Nodes : x \notin Waiting(n)
  BY <1>1, <1>2, <1>3 DEF Placed, Inside
<1>5. \A c \in Customers : c # x => (c \in Planned' <=> c \in Planned \/ (c = Cust /\ x # Cust))
  BY <1>1
<1>6. \A c \in Moving' : fate'[c] = "inside" /\ c \notin Planned' /\ \A n \in Nodes : c \notin Waiting(n)'
  BY <1>2, <1>4, <1>5 DEF Placed
<1>7. \A n \in Nodes : \A c \in Waiting(n)' :
        fate'[c] = "inside" /\ c \notin Planned' /\ location'[c] = n
  BY <1>1, <1>2, <1>3, <1>4, <1>5 DEF Placed
<1>8. \A c \in Planned' \cap Customers :
        /\ fate'[c] = "inside" /\ location'[c] \in Nodes
        /\ Kind[location'[c]] \in {"delay", "queueing", "preemptive"}
  BY <1>1, <1>2, <1>3, <1>4, <1>5 DEF Placed
<1>9. \A c \in Customers : fate'[c] = "inside" =>
        c \in Moving' \/ c \in Planned' \/ \E n \in Nodes : c \in Waiting(n)'
  BY <1>1, <1>2, <1>4, <1>5 DEF Placed
<1> QED BY <1>6, <1>7, <1>8, <1>9 DEF Placed

\* ResourcePool::accept, for a customer that has to wait.
LEMMA QueuedKeeps ==
  ASSUME IInv, accept_queued
  PROVE  IInv'
<1>1. PICK d \in Demands :
        /\ demand' = [demand EXCEPT ![Cust] = d] /\ asked' = [asked EXCEPT ![Cust] = d]
        /\ served' = [served EXCEPT ![Cust] = 0]
  BY DEF accept_queued, setServiceDemand
<1>2. PICK q \in insertIntoQueue(Here, nodes[Here].queue, Cust) :
        nodes' = [nodes EXCEPT ![Here] = enqueued(Here, arrivesAt(Here), q)]
  BY DEF accept_queued, node
<1>3. /\ Now("enter") /\ Kind[Here] = "queueing" /\ location' = [location EXCEPT ![Cust] = Here]
      /\ nodes[Here].resources = 0 /\ nodes[Here].pop < Capacity[Here]
      /\ inserted' = [inserted EXCEPT ![Cust] = now] /\ return(<<>>)
      /\ now' = now /\ diary' = diary /\ due' = due /\ discipline' = discipline /\ finish' = finish
      /\ arrived' = arrived /\ completions' = completions /\ responseTime' = responseTime
      /\ fate' = fate
  BY DEF accept_queued, enters, canAccept, results
<1>4. /\ Here \in Nodes /\ Cust \in Customers /\ Cust \notin Planned
      /\ \A n \in Nodes : Cust \notin Waiting(n)
      /\ Types /\ DiaryInOrder /\ MomentsArePast /\ Placed /\ Births /\ now \in Nat /\ d \in Nat
      /\ \A n \in Nodes : QueueInOrder(n) /\ NodeIsSound(n) /\ SoundNode(nodes[n])
  BY <1>3, Arriving, InvFacts, NetworkAssumption
<1>5. CallsAreTyped' /\ CallsAreInPlace' /\ Moving' = Moving \ {Cust} /\ KeepsPending
  BY <1>3, ArrivalEnds
<1>6. Planned' = Planned
  BY <1>3 DEF Planned
<1>7. finish' \in [Customers -> Nat]
  BY <1>3, <1>4 DEF Types
<1>8. q \in ListType
  BY <1>2, <1>4, <1>7, GrownIsList
<1> DEFINE A == arrivesAt(Here)
           N == enqueued(Here, A, q)
<1>9. /\ SoundNode(A) /\ SameQueue(A, nodes[Here]) /\ SameService(A, nodes[Here])
      /\ A.resources = nodes[Here].resources
  BY <1>4, ArrivesFacts
<1>10. nodes'[Here] = N /\ \A n \in Nodes : n # Here => nodes'[n] = nodes[n]
  BY <1>2, <1>4 DEF Types
<1> HIDE DEF A
<1>11. A.pop < Capacity[Here] /\ A.pop = nodes[Here].pop
  BY <1>3, <1>9 DEF SameQueue
<1>12. /\ SoundNode(N) /\ N.queue = q /\ N.pop = nodes[Here].pop + 1
       /\ N.resources = nodes[Here].resources
  BY <1>4, <1>8, <1>9, <1>11, EnqueuedFacts
<1> HIDE DEF N
<1>13. \A n \in Nodes : QueueInOrder(n)' /\ Waiting(n)' = IF n = Here THEN Waiting(n) \cup {Cust} ELSE Waiting(n)
  <2> SUFFICES ASSUME NEW n \in Nodes
               PROVE  QueueInOrder(n)' /\ Waiting(n)' = IF n = Here THEN Waiting(n) \cup {Cust} ELSE Waiting(n)
    OBVIOUS
  <2>1. CASE n = Here
    <3>1. nodes[n].pop \in Nat
      BY <1>4 DEF SoundNode, NodeType
    <3>2. q \in insertIntoQueue(n, nodes[n].queue, Cust) /\ nodes'[n].queue = q
          /\ nodes'[n].pop = nodes[n].pop + 1
      BY <1>2, <1>10, <1>12, <2>1
    <3> QED BY <1>3, <1>4, <1>7, <2>1, <3>1, <3>2, QueueGrows
  <2>2. CASE n # Here
    <3>1. SameQueue(nodes'[n], nodes[n])
      BY <1>10, <2>2 DEF SameQueue
    <3> QED BY <1>3, <1>4, <2>2, <3>1, QueueStays
  <2> QED BY <2>1, <2>2
<1>14. location'[Cust] = Here /\ \A c \in Customers : c # Cust => location'[c] = location[c]
  BY <1>3, <1>4 DEF Types
<1>15. \A n \in Nodes : Inside(n)' = Inside(n)
  BY <1>4, <1>6, <1>14 DEF Inside
<1>16. Types'
  <2>1. nodes' \in [Nodes -> NodeType]
    BY <1>2, <1>4, <1>10, <1>12 DEF Types, SoundNode
  <2> QED BY <1>1, <1>3, <1>4, <2>1 DEF Types
<1>17. MomentsArePast'
  <2>1. \A n \in Nodes : SoundFields(nodes'[n])
    BY <1>4, <1>10, <1>12 DEF SoundNode
  <2>2. \A c \in Customers : inserted'[c] <= now /\ arrived'[c] <= now
    BY <1>3, <1>4 DEF Types, MomentsArePast
  <2> QED BY <1>3, <2>1, <2>2 DEF MomentsArePast, SoundFields
<1>18. Births' /\ DiaryInOrder'
  <2>1. Unborn' = Unborn
    BY <1>3 DEF Unborn
  <2> QED BY <1>3, <1>4, <1>6, <2>1 DEF Births, DiaryInOrder
<1>19. Placed'
  BY <1>3, <1>4, <1>5, <1>6, <1>13, ArrivedIsPlaced
<1>20. NodesAreSound'
  <2> SUFFICES ASSUME NEW n \in Nodes
               PROVE  NodeIsSound(n)'
    BY DEF NodesAreSound
  <2>1. CASE n # Here
    <3>1. SameQueue(nodes'[n], nodes[n]) /\ SameService(nodes'[n], nodes[n])
      BY <1>10, <2>1 DEF SameQueue, SameService
    <3> QED BY <1>3, <1>4, <1>5, <1>6, <1>10, <1>15, <2>1, <3>1, NodeStays
  <2>2. CASE n = Here
    <3>1. ServersAreClaimed(n) /\ (Leaves(n)' <=> Leaves(n)) /\ nodes'[n].resources = nodes[n].resources
      BY <1>3, <1>4, <1>5, <1>10, <1>12, <2>2 DEF NodeIsSound, KeepsPending
    <3>2. ServersAreClaimed(n)'
      BY <1>3, <1>15, <2>2, <3>1 DEF ServersAreClaimed
    <3> QED BY <1>3, <2>2, <3>2 DEF NodeIsSound
  <2> QED BY <2>1, <2>2
<1> QED BY <1>5, <1>13, <1>16, <1>17, <1>18, <1>19, <1>20 DEF IInv, QueuesInOrder

\* There is room in the queue for all customers but the one that arrives.
LEMMA QueueHasRoom ==
  ASSUME IInv, Now("enter"), Kind[Here] \in {"preemptive", "sharing"}
  PROVE  nodes[Here].pop < Capacity[Here]
<1>1. /\ Here \in Nodes /\ Cust \in Customers /\ Cust \notin Waiting(Here)
      /\ IsList(nodes[Here].queue) /\ Waiting(Here) \subseteq Customers
      /\ nodes[Here].pop = Len(Chain(nodes[Here].queue))
  BY Arriving, InvFacts
<1>2. nodes[Here].pop = Cardinality(Waiting(Here))
  BY <1>1, ListFacts DEF Waiting
<1>3. IsFiniteSet(Customers) /\ Cardinality(Customers) \in Nat
  BY ObjectsAreFinite, FS_CardinalityType
<1>4. /\ Cardinality(Customers \ {Cust}) = Cardinality(Customers) - 1
      /\ IsFiniteSet(Customers \ {Cust})
  BY <1>1, <1>3, FS_RemoveElement
<1>5. Cardinality(Waiting(Here)) <= Cardinality(Customers \ {Cust})
  <2>1. Waiting(Here) \subseteq Customers \ {Cust}
    BY <1>1
  <2> QED BY <1>4, <2>1, FS_Subset
<1>6. Capacity[Here] >= Cardinality(Customers) /\ Capacity[Here] \in Nat
  BY <1>1, NetworkAssumption
<1>7. Cardinality(Waiting(Here)) \in Nat
  BY <1>1, <1>3, FS_Subset, FS_CardinalityType
<1> QED BY <1>2, <1>3, <1>4, <1>5, <1>6, <1>7

\* PreemptiveResumeNode: the customer in service waits, and the one that arrives is served.
LEMMA Preempts ==
  ASSUME IInv, Now("enter"), Kind[Here] = "preemptive", ~(nodes[Here].resources > 0),
         NEW d \in Nat, NEW out, out = nodes[Here].lastEnd,
         NEW N2, N2 = check(enqueued(Here, arrivesAt(Here), insertAtFront(arrivesAt(Here).queue, out)),
                            inService(out)),
         nodes' = [nodes EXCEPT ![Here] = [N2 EXCEPT !.lastEnd = Cust]],
         demand' = [demand EXCEPT ![Cust] = d, ![out] = remainingServiceTime(out)],
         asked' = [asked EXCEPT ![Cust] = d], served' = [served EXCEPT ![Cust] = 0],
         inserted' = [inserted EXCEPT ![out] = now],
         due' = [due EXCEPT ![Cust] = now + demand'[Cust]],
         diary' = schedule(remove(diary, out), Cust), return(<<>>),
         location' = [location EXCEPT ![Cust] = Here],
         now' = now, discipline' = discipline, finish' = finish, arrived' = arrived,
         completions' = completions, responseTime' = responseTime, fate' = fate
  PROVE  IInv'
<1>1. /\ Here \in Nodes /\ Cust \in Customers /\ Cust \notin Planned /\ ~Leaves(Here)
      /\ \A n \in Nodes : Cust \notin Waiting(n)
      /\ Types /\ DiaryInOrder /\ MomentsArePast /\ Placed /\ Births /\ now \in Nat
      /\ \A n \in Nodes : QueueInOrder(n) /\ NodeIsSound(n) /\ SoundNode(nodes[n])
      /\ nodes[Here].pop < Capacity[Here]
  BY Arriving, InvFacts, QueueHasRoom
<1>2. nodes[Here].resources = 0
  <2>1. nodes[Here].resources \in Nat
    BY <1>1 DEF SoundNode, NodeType
  <2> QED BY <2>1
<1>3. /\ out \in Inside(Here) /\ out \in Customers /\ out \in Planned /\ out # Cust
      /\ location[out] = Here /\ \A n \in Nodes : out \notin Waiting(n)
  <2>1. out \in Inside(Here)
    BY <1>1, <1>2 DEF NodeIsSound, LastIsInService
  <2>2. out \in Customers /\ out \in Planned /\ location[out] = Here
    BY <2>1 DEF Inside
  <2> QED BY <1>1, <2>1, <2>2 DEF Placed
<1>4. CallsAreTyped' /\ CallsAreInPlace' /\ Moving' = Moving \ {Cust} /\ KeepsPending
  BY ArrivalEnds
<1>5. due[out] \in Nat /\ now <= due[out] /\ out \in Objects /\ Cust \in Objects
  BY <1>1, <1>3, ObjectsAreFinite DEF Types, DiaryInOrder
<1>6. demand' \in [Customers -> Nat] /\ demand'[Cust] = d
  <2>1. due[out] - now \in Nat
    BY <1>1, <1>5
  <2> QED BY <1>1, <1>3, <2>1 DEF Types, remainingServiceTime
<1>7. /\ DiaryInOrder' /\ Planned' = (Planned \ {out}) \cup {Cust} /\ due' \in [Objects -> Nat]
      /\ \A o \in Objects : o # Cust => due'[o] = due[o]
  <2> DEFINE l == remove(diary, out)
  <2>1. Ordered(l, due) /\ Members(l) = Planned \ {out}
    <3>1. IsList(diary) /\ Ordered(diary, due) /\ out \in Members(diary)
      BY <1>1, <1>3 DEF DiaryInOrder, Planned, Ordered
    <3> QED BY <3>1, ObjectIsRemoved DEF Shrunk, Planned
  <2>2. /\ Cust \notin Members(l) /\ \A o \in Members(l) : now <= due[o]
    BY <1>1, <2>1 DEF DiaryInOrder
  <2>3. now + d \in Nat /\ now <= now + d /\ due \in [Objects -> Nat]
    BY <1>1 DEF Types
  <2>4. due' = [due EXCEPT ![Cust] = now + d] /\ diary' = schedule(l, Cust)
    BY <1>6
  <2> HIDE DEF l
  <2>5. /\ DiaryInOrder' /\ Planned' = Members(l) \cup {Cust} /\ due' \in [Objects -> Nat]
        /\ \A o \in Objects : due'[o] = IF o = Cust THEN now + d ELSE due[o]
    BY <1>1, <1>5, <2>1, <2>2, <2>3, <2>4, EventIsScheduled
  <2> QED BY <2>1, <2>5
<1> DEFINE A == arrivesAt(Here)
           q == insertAtFront(A.queue, out)
           N1 == enqueued(Here, A, q)
           N == [N2 EXCEPT !.lastEnd = Cust]
<1>8. /\ SoundNode(A) /\ A.queue = nodes[Here].queue /\ A.pop = nodes[Here].pop
      /\ A.resources = nodes[Here].resources
  BY <1>1, ArrivesFacts DEF SameQueue
<1>9. q \in insertIntoQueue(Here, nodes[Here].queue, out)
  BY <1>1, <1>8 DEF QueueInOrder, insertIntoQueue, LIFOQueue
<1>10. finish' \in [Customers -> Nat]
  BY <1>1 DEF Types
<1>11. q \in ListType
  <2> HIDE DEF q
  <2> QED BY <1>1, <1>3, <1>9, <1>10, GrownIsList
<1>12. nodes' = [nodes EXCEPT ![Here] = N] /\ N2 = check(N1, inService(out))
  OBVIOUS
<1> HIDE DEF A, q
<1>13. /\ SoundNode(N1) /\ N1.queue = q /\ N1.pop = nodes[Here].pop + 1 /\ N1.resources = 0
  BY <1>1, <1>2, <1>8, <1>11, EnqueuedFacts
<1> HIDE DEF N1
<1>14. SoundNode(N2) /\ SameQueue(N2, N1) /\ N2.resources = N1.resources
  <2>1. inService(out) = TRUE
    BY <1>3 DEF inService, Planned
  <2>2. N2 = check(N1, TRUE)
    BY <1>12, <2>1
  <2> QED BY <1>13, <2>2, CheckFacts
<1>15. /\ SoundNode(N) /\ N.queue = q /\ N.pop = nodes[Here].pop + 1 /\ N.resources = 0
       /\ N.lastEnd = Cust
  <2>1. /\ SoundNode(N) /\ SameQueue(N, N2) /\ N.resources = N2.resources /\ N.lastEnd = Cust
    BY ONLY <1>1, <1>14, LastEndFacts
  <2> HIDE DEF N
  <2> QED BY <1>13, <1>14, <2>1 DEF SameQueue
<1> HIDE DEF N
<1>16. nodes'[Here] = N /\ \A n \in Nodes : n # Here => nodes'[n] = nodes[n]
  BY <1>1, <1>12 DEF Types
<1>17. \A n \in Nodes : QueueInOrder(n)' /\ Waiting(n)' = IF n = Here THEN Waiting(n) \cup {out} ELSE Waiting(n)
  <2> SUFFICES ASSUME NEW n \in Nodes
               PROVE  QueueInOrder(n)' /\ Waiting(n)' = IF n = Here THEN Waiting(n) \cup {out} ELSE Waiting(n)
    OBVIOUS
  <2>1. CASE n = Here
    <3>1. nodes[n].pop \in Nat
      BY <1>1 DEF SoundNode, NodeType
    <3>2. q \in insertIntoQueue(n, nodes[n].queue, out) /\ nodes'[n].queue = q
          /\ nodes'[n].pop = nodes[n].pop + 1
      BY <1>9, <1>15, <1>16, <2>1
    <3> QED BY <1>1, <1>3, <1>10, <2>1, <3>1, <3>2, QueueGrows
  <2>2. CASE n # Here
    <3>1. SameQueue(nodes'[n], nodes[n])
      BY <1>16, <2>2 DEF SameQueue
    <3> QED BY <1>1, <2>2, <3>1, QueueStays
  <2> QED BY <2>1, <2>2
<1>18. location'[Cust] = Here /\ \A c \in Customers : c # Cust => location'[c] = location[c]
  BY <1>1 DEF Types
<1>19. \A n \in Nodes : Inside(n)' = IF n = Here THEN (Inside(n) \ {out}) \cup {Cust} ELSE Inside(n)
  BY <1>1, <1>3, <1>7, <1>18 DEF Inside
<1>20. Types'
  <2>1. nodes' \in [Nodes -> NodeType]
    BY <1>12, <1>1, <1>15, <1>16 DEF Types, SoundNode
  <2> QED BY <1>1, <1>6, <1>7, <2>1 DEF Types
<1>21. MomentsArePast'
  <2>1. \A n \in Nodes : SoundFields(nodes'[n])
    BY <1>1, <1>15, <1>16 DEF SoundNode
  <2>2. \A c \in Customers : inserted'[c] <= now /\ arrived'[c] <= now
    BY <1>1 DEF Types, MomentsArePast
  <2> QED BY <2>1, <2>2 DEF MomentsArePast, SoundFields
<1>22. Births'
  <2>1. Unborn' = Unborn
    BY DEF Unborn
  <2> QED BY <1>1, <2>1 DEF Births
<1>23. Placed'
  <2>1. Planned' \cap Customers = ((Planned \cap Customers) \ {out}) \cup {Cust}
    BY <1>1, <1>7
  <2> QED BY <1>3, <1>4, <1>17, <2>1, ArrivedIsPlaced
<1>24. NodesAreSound'
  <2> SUFFICES ASSUME NEW n \in Nodes
               PROVE  NodeIsSound(n)'
    BY DEF NodesAreSound
  <2>0. n # Cust /\ n # out
    BY <1>1, <1>3, NodesAreDistinct
  <2>1. CASE n # Here
    <3>1. SameQueue(nodes'[n], nodes[n]) /\ SameService(nodes'[n], nodes[n])
      BY <1>16, <2>1 DEF SameQueue, SameService
    <3>2. (n \in Planned' <=> n \in Planned) /\ (Kind[n] = "sharing" => due'[n] = due[n])
      BY <1>7, <2>0, NodesAreDistinct
    <3> QED BY <1>1, <1>4, <1>16, <1>19, <2>1, <3>1, <3>2, NodeStays
  <2>2. CASE n = Here
    <3>1. /\ ServersAreClaimed(n) /\ (Leaves(n)' <=> Leaves(n)) /\ nodes[n].resources = 0
          /\ nodes'[n].resources = 0 /\ nodes'[n].lastEnd = Cust
      BY <1>1, <1>2, <1>4, <1>15, <1>16, <2>2 DEF NodeIsSound, KeepsPending
    <3>2. Inside(n)' = (Inside(n) \ {out}) \cup {Cust} /\ out \in Inside(n) /\ Cust \notin Inside(n)
      BY <1>1, <1>3, <1>19, <2>2 DEF Inside
    <3>3. Cardinality(Inside(n)') = Cardinality(Inside(n))
      <4>1. IsFiniteSet(Inside(n)) /\ Cardinality(Inside(n)) \in Nat
        BY InsideIsFinite
      <4>2. /\ IsFiniteSet(Inside(n) \ {out}) /\ Cust \notin Inside(n) \ {out}
            /\ Cardinality(Inside(n) \ {out}) = Cardinality(Inside(n)) - 1
        BY <3>2, <4>1, FS_RemoveElement
      <4>3. Cardinality((Inside(n) \ {out}) \cup {Cust}) = Cardinality(Inside(n) \ {out}) + 1
        BY <4>2, FS_AddElement
      <4> QED BY <3>2, <4>1, <4>2, <4>3
    <3>4. ServersAreClaimed(n)'
      BY <3>1, <3>3 DEF ServersAreClaimed
    <3>5. LastIsInService(n)'
      BY <3>1, <3>2 DEF LastIsInService
    <3> QED BY <2>2, <3>4, <3>5 DEF NodeIsSound
  <2> QED BY <2>1, <2>2
<1> QED BY <1>4, <1>7, <1>17, <1>20, <1>21, <1>22, <1>23, <1>24 DEF IInv, QueuesInOrder

\* PreemptiveResumeNode::accept.
LEMMA PreemptiveKeeps ==
  ASSUME IInv, accept_preemptive
  PROVE  IInv'
<1>1. PICK d \in Demands :
       LET N == arrivesAt(Here)
           out == N.lastEnd
       IN /\ asked' = [asked EXCEPT ![Cust] = d]
          /\ served' = [served EXCEPT ![Cust] = 0]
          /\ IF N.resources > 0
             THEN /\ demand' = [demand EXCEPT ![Cust] = d]
                  /\ invokeService(Here, claim(Here, N), Cust)
                  /\ diary' = schedule(diary, Cust)
                  /\ inserted' = inserted
             ELSE /\ demand' = [demand EXCEPT ![Cust] = d, ![out] = remainingServiceTime(out)]
                  /\ inserted' = [inserted EXCEPT ![out] = now]
                  /\ invokeService(Here, check(enqueued(Here, N, insertAtFront(N.queue, out)), inService(out)), Cust)
                  /\ diary' = schedule(remove(diary, out), Cust)
  BY DEF accept_preemptive
<1>2. /\ Now("enter") /\ Kind[Here] = "preemptive" /\ location' = [location EXCEPT ![Cust] = Here]
      /\ return(<<>>) /\ now' = now /\ discipline' = discipline /\ finish' = finish
      /\ arrived' = arrived /\ completions' = completions /\ responseTime' = responseTime
      /\ fate' = fate
  BY DEF accept_preemptive, enters, results
<1>3. /\ Here \in Nodes /\ Cust \in Customers /\ SoundNode(nodes[Here]) /\ d \in Nat
      /\ now \in Nat /\ NodeIsSound(Here) /\ Types
  <2>1. Here \in Nodes /\ Cust \in Customers
    BY <1>2, Arriving
  <2> QED BY <1>1, <2>1, InvFacts, NetworkAssumption
<1> DEFINE A == arrivesAt(Here)
<1>4. /\ SoundNode(A) /\ SameQueue(A, nodes[Here]) /\ SameService(A, nodes[Here])
      /\ A.resources = nodes[Here].resources /\ A.lastEnd = nodes[Here].lastEnd
  BY <1>3, ArrivesFacts
<1>5. CASE A.resources > 0
  <2> DEFINE B == claim(Here, A)
             N == [B EXCEPT !.lastEnd = Cust]
  <2>1. /\ demand' = [demand EXCEPT ![Cust] = d] /\ inserted' = inserted
        /\ asked' = [asked EXCEPT ![Cust] = d] /\ served' = [served EXCEPT ![Cust] = 0]
        /\ due' = [due EXCEPT ![Cust] = now + demand'[Cust]] /\ nodes' = [nodes EXCEPT ![Here] = N]
        /\ diary' = schedule(diary, Cust)
    BY <1>1, <1>5 DEF invokeService, node
  <2>2. demand'[Cust] = d
    BY <1>3, <2>1 DEF Types
  <2>3. nodes[Here].resources <= Servers[Here]
    BY <1>2, <1>3, ClaimedAtMost
  <2> HIDE DEF A
  <2>4. SoundNode(B) /\ SameQueue(B, A) /\ SameService(B, A) /\ B.resources = A.resources - 1
    BY <1>3, <1>4, <1>5, <2>3, ClaimFacts
  <2> HIDE DEF B
  <2>5. /\ SoundNode(N) /\ SameQueue(N, B) /\ SameService(N, B)
        /\ N.resources = B.resources /\ N.lastEnd = Cust
    BY <1>3, <2>4, LastEndFacts
  <2> HIDE DEF N
  <2>6. SameQueue(N, nodes[Here]) /\ SameService(N, nodes[Here]) /\ N.resources = nodes[Here].resources - 1
    BY <1>4, <2>4, <2>5 DEF SameQueue, SameService
  <2> QED BY <1>2, <1>3, <1>4, <1>5, <2>1, <2>2, <2>5, <2>6, StartsService
<1>6. CASE ~(A.resources > 0)
  <2> DEFINE out == A.lastEnd
             N2 == check(enqueued(Here, A, insertAtFront(A.queue, out)), inService(out))
  <2>1. /\ demand' = [demand EXCEPT ![Cust] = d, ![out] = remainingServiceTime(out)]
        /\ inserted' = [inserted EXCEPT ![out] = now]
        /\ asked' = [asked EXCEPT ![Cust] = d] /\ served' = [served EXCEPT ![Cust] = 0]
        /\ due' = [due EXCEPT ![Cust] = now + demand'[Cust]]
        /\ nodes' = [nodes EXCEPT ![Here] = [N2 EXCEPT !.lastEnd = Cust]]
        /\ diary' = schedule(remove(diary, out), Cust)
    BY <1>1, <1>6 DEF invokeService, node
  <2>2. N2 = check(enqueued(Here, arrivesAt(Here), insertAtFront(arrivesAt(Here).queue, out)), inService(out))
    OBVIOUS
  <2>3. out = nodes[Here].lastEnd /\ ~(nodes[Here].resources > 0)
    BY <1>4, <1>6
  <2> HIDE DEF A, out, N2
  <2> QED BY <1>2, <1>3, <2>1, <2>2, <2>3, Preempts
<1> QED BY <1>5, <1>6

-----------------------------------------------------------------------------
(***************************************************************************)
(* Processor sharing.                                                      *)
(***************************************************************************)

\* A quotient is no more than what the divisor need be multiplied by.
LEMMA ShareIsAtMost ==
  ASSUME NEW a \in Nat, NEW p \in Nat, p > 0, NEW k \in Nat, a <= k * p
  PROVE  a \div p \in Nat /\ a \div p <= k
<1> DEFINE x == a \div p
<1>1. x \in Nat /\ x * p <= a
  BY a = p * (a \div p) + (a % p), a % p \in Nat
<1> HIDE DEF x
<1>2. ASSUME ~(x <= k)
      PROVE  FALSE
  <2>1. k + 1 <= x
    BY <1>1, <1>2
  <2>2. (k + 1) * p <= x * p
    BY <1>1, <2>1
  <2>3. (k + 1) * p = k * p + p
    OBVIOUS
  <2> DEFINE y == k * p
             z == x * p
  <2>4. y \in Nat /\ z \in Nat /\ z <= a /\ a <= y /\ y + p <= z
    BY <1>1, <2>2, <2>3
  <2> HIDE DEF y, z
  <2> QED BY <2>4
<1> QED BY <1>1, <1>2 DEF x

\* ProcessorSharingNode::serviceNextCustomer only records when it was called.
LEMMA LastScheduleFacts ==
  ASSUME NEW N, SoundNode(N), now \in Nat
  PROVE  LET M == [N EXCEPT !.lastSchedule = now]
         IN /\ SoundNode(M) /\ SameQueue(M, N)
            /\ M.resources = N.resources /\ M.vtime = N.vtime /\ M.lastSchedule = now
<1> DEFINE M == [N EXCEPT !.lastSchedule = now]
<1>1. M \in NodeType
  BY DEF SoundNode, NodeType
<1>2. /\ M.count = N.count /\ M.popMeasure = N.popMeasure /\ M.lastSchedule = now
      /\ M.failed = N.failed /\ M.queue = N.queue /\ M.pop = N.pop /\ M.vtime = N.vtime
      /\ M.resources = N.resources
  BY DEF SoundNode, NodeType
<1> HIDE DEF M
<1>3. SoundNode(M)
  BY <1>1, <1>2 DEF SoundNode, SoundFields
<1> QED BY <1>2, <1>3 DEF SameQueue, M

\* ProcessorSharingNode::serviceNextCustomer.
LEMMA NextIsScheduled ==
  ASSUME NEW n \in Nodes, Kind[n] = "sharing", now \in Nat, due \in [Objects -> Nat],
         finish' \in [Customers -> Nat], NEW N, SoundNode(N), N.pop > 0,
         IsList(N.queue), N.pop = Len(Chain(N.queue)),
         \A c \in Members(N.queue) : c \in Customers /\ N.vtime <= finish'[c],
         NEW l, Ordered(l, due), n \notin Members(l), \A o \in Members(l) : now <= due[o],
         now' = now, serviceNextCustomer(n, N, l)
  PROVE  /\ DiaryInOrder' /\ Planned' = Members(l) \cup {n} /\ due' \in [Objects -> Nat]
         /\ \A o \in Objects : o # n => due'[o] = due[o]
         /\ due'[n] = now + (finish'[N.queue.first] - N.vtime) * N.pop
         /\ \E M : /\ nodes' = [nodes EXCEPT ![n] = M] /\ SoundNode(M) /\ SameQueue(M, N)
                   /\ M.resources = N.resources /\ M.vtime = N.vtime /\ M.lastSchedule = now
<1> DEFINE t == now + (finish'[N.queue.first] - N.vtime) * N.pop
           M == [N EXCEPT !.lastSchedule = now]
<1>1. t \in Nat /\ now <= t
  <2>1. Members(N.queue) # {} /\ N.queue.first \in Members(N.queue)
    BY ListFacts
  <2>2. finish'[N.queue.first] \in Nat /\ N.vtime <= finish'[N.queue.first]
    BY <2>1
  <2>3. N.vtime \in Nat /\ N.pop \in Nat
    BY DEF SoundNode, NodeType
  <2> DEFINE x == finish'[N.queue.first] - N.vtime
             y == x * N.pop
  <2>4. x \in Nat
    BY <2>2, <2>3
  <2> HIDE DEF x
  <2>5. y \in Nat
    BY <2>3, <2>4
  <2>6. t = now + y
    BY DEF x
  <2> HIDE DEF y, t
  <2> QED BY <2>5, <2>6
<1>2. n \in Objects
  BY NodesAreDistinct
<1>3. due' = [due EXCEPT ![n] = t] /\ diary' = schedule(l, n) /\ nodes' = [nodes EXCEPT ![n] = M]
  BY DEF serviceNextCustomer, node
<1> HIDE DEF t
<1>4. /\ DiaryInOrder' /\ Planned' = Members(l) \cup {n} /\ due' \in [Objects -> Nat]
      /\ \A o \in Objects : due'[o] = IF o = n THEN t ELSE due[o]
  BY <1>1, <1>2, <1>3, EventIsScheduled
<1>5. /\ SoundNode(M) /\ SameQueue(M, N) /\ M.resources = N.resources /\ M.vtime = N.vtime
      /\ M.lastSchedule = now
  BY LastScheduleFacts
<1> HIDE DEF M
<1> QED BY <1>2, <1>3, <1>4, <1>5 DEF t

\* No customer in the queue has had its share yet.
LEMMA SharesAreDue ==
  ASSUME NEW n \in Nodes, SharingIsScheduled(n), QueueInOrder(n), Kind[n] = "sharing",
         SoundNode(nodes[n]), now \in Nat, finish \in [Customers -> Nat], nodes[n].pop > 0,
         now <= due[n], n \in Planned \/ Pending("endOfService", n)
  PROVE  \A c \in Waiting(n) : nodes[n].vtime + (now - nodes[n].lastSchedule) \div nodes[n].pop <= finish[c]
<1> DEFINE N == nodes[n]
           f == finish[N.queue.first]
<1>1. /\ due[n] = N.lastSchedule + (f - N.vtime) * N.pop
      /\ \A c \in Waiting(n) : N.vtime <= finish[c]
  BY DEF SharingIsScheduled
<1>2. /\ Ordered(N.queue, finish) /\ IsList(N.queue) /\ Waiting(n) = Members(N.queue)
      /\ Waiting(n) \subseteq Customers /\ N.pop = Len(Chain(N.queue))
  BY DEF QueueInOrder, Waiting
<1>3. N.queue.first \in Waiting(n) /\ \A c \in Waiting(n) : f <= finish[c]
  <2>1. Members(N.queue) # {}
    BY <1>2, ListFacts
  <2>2. PICK c \in Members(N.queue) : TRUE
    BY <2>1
  <2>3. N.queue.first \in Members(N.queue)
    BY <1>2, <2>2, FirstIsLeast
  <2>4. \A o \in Members(N.queue) : f <= finish[o]
    BY <1>2, FirstIsLeast
  <2> QED BY <1>2, <2>3, <2>4
<1>4. N.vtime \in Nat /\ N.pop \in Nat /\ N.lastSchedule \in Nat /\ N.lastSchedule <= now
  BY DEF SoundNode, SoundFields, NodeType
<1>5. f \in Nat /\ N.vtime <= f
  BY <1>1, <1>2, <1>3
<1> DEFINE a == now - N.lastSchedule
           k == f - N.vtime
           b == a \div N.pop
<1>6. a \in Nat /\ k \in Nat
  BY <1>4, <1>5
<1>7. a <= k * N.pop
  <2> DEFINE y == k * N.pop
  <2>1. y \in Nat /\ now <= N.lastSchedule + y
    BY <1>1, <1>4, <1>6
  <2> HIDE DEF y
  <2>2. a <= y
    BY <1>4, <2>1
  <2> QED BY <2>2 DEF y
<1>8. b \in Nat /\ b <= k
  <2> HIDE DEF a, k, N
  <2>1. N.pop > 0
    BY DEF N
  <2> QED BY <1>4, <1>6, <1>7, <2>1, ShareIsAtMost
<1>9. \A c \in Waiting(n) : N.vtime + b <= finish[c]
  <2>1. \A c \in Waiting(n) : finish[c] \in Nat
    BY <1>2
  <2> HIDE DEF b, N
  <2> QED BY <1>3, <1>4, <1>5, <1>8, <2>1
<1> QED BY <1>9

\* ProcessorSharingNode::accept, once the resource is claimed or the clock of the
\* node has moved on.
LEMMA Shares ==
  ASSUME IInv, Now("enter"), Kind[Here] = "sharing", NEW d \in Nat, NEW N, SoundNode(N),
         SameQueue(N, nodes[Here]), N.resources = 0,
         \A c \in Waiting(Here) : N.vtime <= finish[c],
         NEW l, Ordered(l, due), Members(l) = Planned \ {Here},
         demand' = [demand EXCEPT ![Cust] = d], asked' = [asked EXCEPT ![Cust] = d],
         served' = [served EXCEPT ![Cust] = 0], inserted' = [inserted EXCEPT ![Cust] = now],
         finish' = [finish EXCEPT ![Cust] = N.vtime + d],
         NEW q \in insertIntoQueue(Here, N.queue, Cust),
         serviceNextCustomer(Here, enqueued(Here, N, q), l), return(<<>>),
         location' = [location EXCEPT ![Cust] = Here],
         now' = now, discipline' = discipline, arrived' = arrived,
         completions' = completions, responseTime' = responseTime, fate' = fate
  PROVE  IInv'
<1>1. /\ Here \in Nodes /\ Cust \in Customers /\ Cust \notin Planned /\ ~Ends(Here)
      /\ \A n \in Nodes : Cust \notin Waiting(n)
      /\ Types /\ DiaryInOrder /\ MomentsArePast /\ Placed /\ Births /\ now \in Nat
      /\ \A n \in Nodes : QueueInOrder(n) /\ NodeIsSound(n) /\ SoundNode(nodes[n])
      /\ nodes[Here].pop < Capacity[Here]
      /\ \A n \in Nodes : Waiting(n) \subseteq Customers
  BY Arriving, InvFacts, QueueHasRoom
<1>2. CallsAreTyped' /\ CallsAreInPlace' /\ Moving' = Moving \ {Cust} /\ KeepsPending
  BY ArrivalEnds
<1>3. /\ N.vtime \in Nat /\ N.pop \in Nat /\ N.queue = nodes[Here].queue /\ N.pop = nodes[Here].pop
  BY DEF SoundNode, NodeType, SameQueue
<1>4. /\ finish' \in [Customers -> Nat] /\ finish'[Cust] = N.vtime + d
      /\ \A c \in Customers : c # Cust => finish'[c] = finish[c]
  BY <1>1, <1>3 DEF Types
<1>5. q \in insertIntoQueue(Here, nodes[Here].queue, Cust)
  BY <1>3
<1>6. q \in ListType
  BY <1>1, <1>4, <1>5, GrownIsList
<1>7. /\ IsList(q) /\ Members(q) = Waiting(Here) \cup {Cust}
      /\ Len(Chain(q)) = nodes[Here].pop + 1
  <2>1. /\ IsList(nodes[Here].queue) /\ Waiting(Here) = Members(nodes[Here].queue)
        /\ discipline[Here] \in {"FIFO", "LIFO", "random", "priority", "finish"}
        /\ nodes[Here].pop = Len(Chain(nodes[Here].queue))
    BY <1>1 DEF QueueInOrder, Waiting
  <2>2. \A c \in Customers : finish'[c] \in Int
    BY <1>4
  <2>3. /\ Cust \notin Members(nodes[Here].queue) /\ Members(nodes[Here].queue) \subseteq Customers
    BY <1>1, <2>1
  <2>4. Grown(q, nodes[Here].queue, Cust)
    BY <1>1, <1>5, <2>1, <2>2, <2>3, QueueInsertion
  <2> QED BY <2>1, <2>4 DEF Grown
<1> DEFINE P == enqueued(Here, N, q)
<1>8. /\ SoundNode(P) /\ P.vtime = N.vtime /\ P.queue = q /\ P.pop = nodes[Here].pop + 1
      /\ P.resources = 0
  BY <1>1, <1>3, <1>6, EnqueuedFacts DEF SameService
<1>9. serviceNextCustomer(Here, P, l)
  OBVIOUS
<1> HIDE DEF P
<1>10. \A c \in Members(P.queue) : c \in Customers /\ P.vtime <= finish'[c]
  BY <1>1, <1>3, <1>4, <1>7, <1>8
<1>11. P.pop > 0 /\ IsList(P.queue) /\ P.pop = Len(Chain(P.queue))
  BY <1>3, <1>7, <1>8
<1>12. /\ Here \notin Members(l) /\ \A o \in Members(l) : now <= due[o]
       /\ due \in [Objects -> Nat]
  BY <1>1 DEF DiaryInOrder, Types
<1>13. /\ DiaryInOrder' /\ Planned' = Members(l) \cup {Here} /\ due' \in [Objects -> Nat]
       /\ \A o \in Objects : o # Here => due'[o] = due[o]
       /\ due'[Here] = now + (finish'[P.queue.first] - P.vtime) * P.pop
       /\ \E M : /\ nodes' = [nodes EXCEPT ![Here] = M] /\ SoundNode(M) /\ SameQueue(M, P)
                 /\ M.resources = P.resources /\ M.vtime = P.vtime /\ M.lastSchedule = now
  <2>1. /\ Here \in Nodes /\ Kind[Here] = "sharing" /\ now \in Nat /\ now' = now
        /\ finish' \in [Customers -> Nat] /\ SoundNode(P) /\ Ordered(l, due)
    BY <1>1, <1>4, <1>8
  <2> QED BY ONLY <2>1, <1>9, <1>10, <1>11, <1>12, NextIsScheduled
<1>14. PICK M : /\ nodes' = [nodes EXCEPT ![Here] = M] /\ SoundNode(M) /\ SameQueue(M, P)
                /\ M.resources = P.resources /\ M.vtime = P.vtime /\ M.lastSchedule = now
  BY <1>13
<1>15. /\ M.queue = q /\ M.pop = nodes[Here].pop + 1 /\ M.resources = 0 /\ M.vtime = N.vtime
       /\ due'[Here] = M.lastSchedule + (finish'[M.queue.first] - M.vtime) * M.pop
  BY <1>8, <1>13, <1>14 DEF SameQueue
<1>16. nodes'[Here] = M /\ \A n \in Nodes : n # Here => nodes'[n] = nodes[n]
  BY <1>1, <1>14 DEF Types
<1>17. \A n \in Nodes : QueueInOrder(n)' /\ Waiting(n)' = IF n = Here THEN Waiting(n) \cup {Cust} ELSE Waiting(n)
  <2> SUFFICES ASSUME NEW n \in Nodes
               PROVE  QueueInOrder(n)' /\ Waiting(n)' = IF n = Here THEN Waiting(n) \cup {Cust} ELSE Waiting(n)
    OBVIOUS
  <2>0. \A c \in Waiting(n) : finish'[c] = finish[c]
    BY <1>1, <1>4
  <2>1. CASE n = Here
    <3>1. nodes[n].pop \in Nat
      BY <1>1 DEF SoundNode, NodeType
    <3>2. q \in insertIntoQueue(n, nodes[n].queue, Cust) /\ nodes'[n].queue = q
          /\ nodes'[n].pop = nodes[n].pop + 1
      BY <1>5, <1>15, <1>16, <2>1
    <3> QED BY <1>1, <1>4, <2>0, <2>1, <3>1, <3>2, QueueGrows
  <2>2. CASE n # Here
    <3>1. SameQueue(nodes'[n], nodes[n])
      BY <1>16, <2>2 DEF SameQueue
    <3> QED BY <1>1, <2>0, <2>2, <3>1, QueueStays
  <2> QED BY <2>1, <2>2
<1>18. Planned' = Planned \cup {Here} /\ Planned' \cap Customers = Planned \cap Customers
  BY <1>1, <1>13, NodesAreDistinct
<1>19. location'[Cust] = Here /\ \A c \in Customers : c # Cust => location'[c] = location[c]
  BY <1>1 DEF Types
<1>20. \A n \in Nodes : Inside(n)' = Inside(n)
  BY <1>1, <1>18, <1>19 DEF Inside
<1>21. Types'
  <2>1. nodes' \in [Nodes -> NodeType]
    BY <1>1, <1>14, <1>16 DEF Types, SoundNode
  <2> QED BY <1>1, <1>4, <1>13, <2>1 DEF Types
<1>22. MomentsArePast'
  <2>1. \A n \in Nodes : SoundFields(nodes'[n])
    BY <1>1, <1>14, <1>16 DEF SoundNode
  <2>2. \A c \in Customers : inserted'[c] <= now /\ arrived'[c] <= now
    BY <1>1 DEF Types, MomentsArePast
  <2> QED BY <2>1, <2>2 DEF MomentsArePast, SoundFields
<1>23. Births'
  <2>1. Unborn' = Unborn
    BY DEF Unborn
  <2> QED BY <1>1, <2>1 DEF Births
<1>24. Placed'
  BY <1>1, <1>2, <1>17, <1>18, ArrivedIsPlaced
<1>25. NodesAreSound'
  <2> SUFFICES ASSUME NEW n \in Nodes
               PROVE  NodeIsSound(n)'
    BY DEF NodesAreSound
  <2>1. CASE n # Here
    <3>1. SameQueue(nodes'[n], nodes[n]) /\ SameService(nodes'[n], nodes[n])
      BY <1>16, <2>1 DEF SameQueue, SameService
    <3>2. (n \in Planned' <=> n \in Planned) /\ (Kind[n] = "sharing" => due'[n] = due[n])
      BY <1>13, <1>18, <2>1, NodesAreDistinct
    <3>3. \A c \in Waiting(n) : finish'[c] = finish[c]
      BY <1>1, <1>4
    <3> QED BY <1>1, <1>2, <1>16, <1>20, <2>1, <3>1, <3>2, <3>3, NodeStays
  <2>2. CASE n = Here
    <3>1. /\ nodes'[n].pop > 0 /\ nodes'[n].resources = 0 /\ nodes'[n].resources <= Servers[n]
          /\ due'[n] = nodes'[n].lastSchedule
                       + (finish'[nodes'[n].queue.first] - nodes'[n].vtime) * nodes'[n].pop
          /\ nodes'[n].vtime = N.vtime
      <4>1. nodes[Here].pop + 1 > 0 /\ 0 <= Servers[Here]
        BY <1>1, <1>3, NetworkAssumption
      <4> QED BY <1>15, <1>16, <2>2, <4>1
    <3>2. \A c \in Waiting(n)' : nodes'[n].vtime <= finish'[c]
      BY <1>1, <1>3, <1>4, <1>17, <2>2, <3>1
    <3>3. n \in Planned' /\ ~Ends(n)' /\ ~Pending("endOfService", n)'
      BY <1>1, <1>2, <1>18, <2>2 DEF Ends, KeepsPending
    <3>4. SharingIsScheduled(n)'
      BY <3>1, <3>2, <3>3 DEF SharingIsScheduled
    <3> QED BY <2>2, <3>4 DEF NodeIsSound
  <2> QED BY <2>1, <2>2
<1> QED BY <1>2, <1>13, <1>17, <1>21, <1>22, <1>23, <1>24, <1>25 DEF IInv, QueuesInOrder

\* ProcessorSharingNode::accept.
LEMMA SharingKeeps ==
  ASSUME IInv, accept_sharing
  PROVE  IInv'
<1>1. PICK d \in Demands :
        /\ demand' = [demand EXCEPT ![Cust] = d] /\ asked' = [asked EXCEPT ![Cust] = d]
        /\ served' = [served EXCEPT ![Cust] = 0]
  BY DEF accept_sharing, setServiceDemand
<1>2. /\ Now("enter") /\ Kind[Here] = "sharing" /\ location' = [location EXCEPT ![Cust] = Here]
      /\ inserted' = [inserted EXCEPT ![Cust] = now] /\ return(<<>>)
      /\ now' = now /\ discipline' = discipline
      /\ arrived' = arrived /\ completions' = completions /\ responseTime' = responseTime
      /\ fate' = fate
  BY DEF accept_sharing, enters, results
<1> DEFINE A == arrivesAt(Here)
           idle == nodes[Here].resources > 0
           N == IF idle THEN claim(Here, A) ELSE check(progress(A), Here \in Members(diary))
           l == IF idle THEN diary ELSE remove(diary, Here)
<1>3. /\ finish' = [finish EXCEPT ![Cust] = N.vtime + demand'[Cust]]
      /\ \E q \in insertIntoQueue(Here, N.queue, Cust) : serviceNextCustomer(Here, enqueued(Here, N, q), l)
  BY DEF accept_sharing
<1>4. /\ Here \in Nodes /\ Cust \in Customers /\ ~Ends(Here)
      /\ Types /\ DiaryInOrder /\ now \in Nat /\ d \in Nat
      /\ QueueInOrder(Here) /\ NodeIsSound(Here) /\ SoundNode(nodes[Here])
  <2>1. Here \in Nodes /\ Cust \in Customers /\ ~Ends(Here)
    BY <1>2, Arriving
  <2> QED BY <1>1, <2>1, InvFacts, NetworkAssumption
<1>5. SharingIsScheduled(Here) /\ nodes[Here].resources \in Nat /\ nodes[Here].pop \in Nat
      /\ Servers[Here] = 1
  BY <1>2, <1>4, NetworkAssumption DEF NodeIsSound, SoundNode, NodeType
<1>6. /\ Here \in Planned <=> nodes[Here].pop > 0
      /\ nodes[Here].resources = 0 <=> nodes[Here].pop > 0
      /\ nodes[Here].resources <= 1
      /\ \A c \in Waiting(Here) : nodes[Here].vtime <= finish[c]
  BY <1>4, <1>5 DEF SharingIsScheduled
<1>7. /\ SoundNode(A) /\ SameQueue(A, nodes[Here]) /\ SameService(A, nodes[Here])
      /\ A.resources = nodes[Here].resources
  BY <1>4, ArrivesFacts
<1>8. /\ SoundNode(N) /\ SameQueue(N, nodes[Here]) /\ N.resources = 0
      /\ \A c \in Waiting(Here) : N.vtime <= finish[c]
  <2> HIDE DEF A
  <2>1. CASE idle
    <3> DEFINE B == claim(Here, A)
    <3>1. A.resources > 0 /\ A.resources <= Servers[Here] /\ A.resources = 1
      BY <1>5, <1>6, <1>7, <2>1
    <3>2. SoundNode(B) /\ SameQueue(B, A) /\ SameService(B, A) /\ B.resources = A.resources - 1
      BY <1>4, <1>7, <3>1, ClaimFacts
    <3>3. N = B
      BY <2>1
    <3> HIDE DEF B, N
    <3> QED BY <1>6, <1>7, <3>1, <3>2, <3>3 DEF SameQueue, SameService
  <2>2. CASE ~idle
    <3> DEFINE B == progress(A)
    <3>1. nodes[Here].resources = 0 /\ nodes[Here].pop > 0 /\ Here \in Planned
      BY <1>5, <1>6, <2>2
    <3>2. A.pop > 0 /\ A.pop = nodes[Here].pop /\ A.queue = nodes[Here].queue
          /\ A.vtime = nodes[Here].vtime /\ A.lastSchedule = nodes[Here].lastSchedule
      BY <1>7, <3>1 DEF SameQueue, SameService
    <3>3. /\ SoundNode(B) /\ SameQueue(B, A) /\ B.resources = A.resources
          /\ B.vtime = A.vtime + (now - A.lastSchedule) \div A.pop
      BY <1>4, <1>7, <3>2, ProgressFacts
    <3> HIDE DEF B
    <3>4. N = check(B, TRUE)
      <4>1. (Here \in Members(diary)) = TRUE
        BY <3>1 DEF Planned
      <4> QED BY <2>2, <4>1 DEF B
    <3>5. SoundNode(N) /\ SameQueue(N, B) /\ SameService(N, B) /\ N.resources = B.resources
      BY <3>3, <3>4, CheckFacts
    <3> HIDE DEF N
    <3>6. SameQueue(N, nodes[Here]) /\ N.resources = 0
      BY <1>7, <3>1, <3>3, <3>5 DEF SameQueue
    <3>7. N.vtime = nodes[Here].vtime + (now - nodes[Here].lastSchedule) \div nodes[Here].pop
      BY <3>2, <3>3, <3>5 DEF SameService
    <3>8. now <= due[Here]
      BY <1>4, <3>1 DEF DiaryInOrder
    <3>9. finish \in [Customers -> Nat]
      BY <1>4 DEF Types
    <3>10. \A c \in Waiting(Here) :
             nodes[Here].vtime + (now - nodes[Here].lastSchedule) \div nodes[Here].pop <= finish[c]
      BY <1>2, <1>4, <1>5, <3>1, <3>8, <3>9, SharesAreDue
    <3> QED BY <3>5, <3>6, <3>7, <3>10
  <2> QED BY <2>1, <2>2
<1>9. Ordered(l, due) /\ Members(l) = Planned \ {Here}
  <2>1. Ordered(diary, due) /\ IsList(diary) /\ Planned = Members(diary)
    BY <1>4 DEF DiaryInOrder, Ordered, Planned
  <2>2. CASE idle
    <3>1. Here \notin Planned
      BY <1>5, <1>6, <2>2
    <3> QED BY <2>1, <2>2, <3>1
  <2>3. CASE ~idle
    <3>1. Here \in Members(diary)
      BY <1>5, <1>6, <2>1, <2>3
    <3> QED BY <2>1, <2>3, <3>1, ObjectIsRemoved DEF Shrunk
  <2> QED BY <2>2, <2>3
<1>10. demand'[Cust] = d
  BY <1>1, <1>4 DEF Types
<1> HIDE DEF N, l
<1>11. PICK q \in insertIntoQueue(Here, N.queue, Cust) : serviceNextCustomer(Here, enqueued(Here, N, q), l)
  BY <1>3
<1>12. finish' = [finish EXCEPT ![Cust] = N.vtime + d]
  BY <1>3, <1>10
<1> QED BY <1>1, <1>2, <1>4, <1>8, <1>9, <1>11, <1>12, Shares

-----------------------------------------------------------------------------
(***************************************************************************)
(* Service ends.                                                           *)
(***************************************************************************)

\* The last call of an event.
LEMMA LastCallEnds ==
  ASSUME IInv, stack # <<>>, stack[1].op \in {"release", "next", "schedule"}, return(<<>>)
  PROVE  /\ CallsAreTyped' /\ CallsAreInPlace' /\ Moving = {} /\ Moving' = {} /\ Here \in Nodes
         /\ stack' = <<>> /\ \A f, n : ~Pending(f, n)'
         /\ \A f, n : Pending(f, n) <=> f = stack[1].op /\ n = Here
         /\ stack[1].op = "release" => Kind[Here] \in {"queueing", "preemptive"}
         /\ stack[1].op = "next" => Kind[Here] = "sharing"
         /\ stack[1].op = "schedule" => Kind[Here] = "source"
<1>1. CallsAreTyped /\ CallsAreInPlace
  BY InvFacts
<1>2. Len(stack) \in Nat /\ Len(stack) >= 1 /\ 1 \in 1..Len(stack) /\ stack[1] \in Calls
  BY <1>1, StackFacts
<1>3. Len(stack) = 1
  <2>1. ~(Len(stack) > 1)
    BY <1>1 DEF CallsAreInPlace
  <2> DEFINE len == Len(stack)
  <2>2. len \in Nat /\ len >= 1 /\ ~(len > 1)
    BY <1>2, <2>1
  <2> HIDE DEF len
  <2>3. len = 1
    BY <2>2
  <2> QED BY <2>3 DEF len
<1>4. /\ CallsAreTyped' /\ CallsAreInPlace' /\ Moving' = Moving \ {Cust}
      /\ \A f, n : Pending(f, n)' <=> Pending(f, n) /\ Len(stack) > 1
  BY <1>1, CallEnds
<1>5. /\ stack[1].customer \notin Customers
      /\ stack[1].op = "release" => Kind[Here] \in {"queueing", "preemptive"}
      /\ stack[1].op = "next" => Kind[Here] = "sharing"
      /\ stack[1].op = "schedule" => Kind[Here] = "source"
  BY <1>1, <1>2 DEF CallsAreTyped, Here
<1>6. Here \in Nodes /\ stack[1].customer = NULL
  BY <1>2, <1>5 DEF Calls, Here
<1>7. Moving = {}
  <2>1. 1..1 = {1}
    OBVIOUS
  <2> QED BY <1>3, <1>6, <2>1 DEF Moving
<1>8. \A f, n : Pending(f, n) <=> f = stack[1].op /\ n = Here
  BY <1>3 DEF Pending, Bottom, Here
<1>9. stack' = <<>>
  <2>1. stack \in Seq(Calls)
    BY <1>1 DEF CallsAreTyped
  <2>2. Tail(stack) \in Seq(Calls) /\ Len(Tail(stack)) = 0
    BY <1>3, <2>1
  <2> DEFINE t == Tail(stack)
  <2>3. t \in Seq(Calls) /\ Len(t) = 0 /\ stack' = <<>> \o t
    BY <2>2 DEF return
  <2> HIDE DEF t
  <2> QED BY <2>3
<1> QED BY <1>3, <1>4, <1>5, <1>6, <1>7, <1>8, <1>9

\* The first customer of a queue leaves it.
LEMMA QueueShrinks ==
  ASSUME NEW n \in Nodes, QueueInOrder(n), nodes[n].pop \in Nat, nodes[n].pop > 0,
         nodes'[n].queue = removeFromFront(nodes[n].queue), nodes'[n].pop = nodes[n].pop - 1,
         discipline' = discipline, finish' = finish
  PROVE  QueueInOrder(n)' /\ Waiting(n)' = Waiting(n) \ {nodes[n].queue.first}
<1> DEFINE l == nodes[n].queue
           q == removeFromFront(l)
<1>1. /\ IsList(l) /\ Waiting(n) = Members(l) /\ Waiting(n) \subseteq Customers
      /\ nodes[n].pop = Len(Chain(l))
      /\ discipline[n] = "finish" => Ordered(l, finish)
      /\ discipline[n] = "priority" => Ordered(l, Rank)
  BY DEF QueueInOrder, Waiting
<1>2. Members(l) # {}
  BY <1>1, ListFacts
<1>3. /\ IsList(q) /\ Members(q) = Members(l) \ {l.first} /\ Len(Chain(q)) = Len(Chain(l)) - 1
      /\ \A value : Ordered(l, value) => Ordered(q, value)
  BY <1>1, <1>2, FrontIsRemoved DEF Shrunk
<1>4. nodes'[n].queue = q
  OBVIOUS
<1> HIDE DEF l, q
<1>5. Waiting(n)' = Members(q)
  BY <1>4 DEF Waiting
<1> QED BY <1>1, <1>3, <1>4, <1>5 DEF QueueInOrder, l

\* The first customer of a queue that is not empty.
LEMMA HeadFacts ==
  ASSUME IInv, NEW n \in Nodes, nodes[n].pop > 0
  PROVE  LET c == nodes[n].queue.first
         IN /\ c \in Customers /\ c \in Waiting(n) /\ inserted[c] \in Nat /\ inserted[c] <= now
            /\ fate[c] = "inside" /\ c \notin Planned /\ location[c] = n /\ c \notin Moving
            /\ \A m \in Nodes : c \in Waiting(m) => m = n
            /\ removeFromFront(nodes[n].queue) \in ListType
<1> DEFINE c == nodes[n].queue.first
<1>1. /\ IsList(nodes[n].queue) /\ Waiting(n) \subseteq Customers /\ Types /\ MomentsArePast /\ Placed
      /\ nodes[n].pop = Len(Chain(nodes[n].queue)) /\ Waiting(n) = Members(nodes[n].queue)
  BY InvFacts DEF Waiting
<1>2. Waiting(n) # {}
  BY <1>1, ListFacts
<1>3. c \in Waiting(n) /\ removeFromFront(nodes[n].queue) \in ListType
  BY <1>1, <1>2, FrontIsRemoved, ListFacts DEF Shrunk
<1>4. c \in Customers
  BY <1>1, <1>3
<1> HIDE DEF c
<1>5. inserted[c] \in Nat /\ inserted[c] <= now
  BY <1>1, <1>4 DEF Types, MomentsArePast
<1>6. /\ fate[c] = "inside" /\ c \notin Planned /\ location[c] = n /\ c \notin Moving
      /\ \A m \in Nodes : c \in Waiting(m) => m = n
  BY <1>1, <1>3 DEF Placed
<1> QED BY <1>3, <1>4, <1>5, <1>6 DEF c

\* ResourcePool::releaseResource hands the resource to the customer that waits first.
LEMMA HandedOver ==
  ASSUME IInv, Now("release"), nodes[Here].pop > 0,
         due' = [due EXCEPT ![head(Here)] = now + demand[head(Here)]],
         nodes' = [nodes EXCEPT ![Here] = [dequeued(nodes[Here]) EXCEPT !.lastEnd = head(Here)]],
         diary' = schedule(diary, head(Here)), return(<<>>),
         now' = now, discipline' = discipline, location' = location, demand' = demand,
         inserted' = inserted, finish' = finish, arrived' = arrived, completions' = completions,
         responseTime' = responseTime, fate' = fate, asked' = asked, served' = served
  PROVE  IInv'
<1>0. stack # <<>> /\ stack[1].op = "release"
  BY DEF Now
<1>1. /\ CallsAreTyped' /\ CallsAreInPlace' /\ Moving = {} /\ Moving' = {} /\ Here \in Nodes
      /\ \A f, n : ~Pending(f, n)'
      /\ \A f, n : Pending(f, n) <=> f = "release" /\ n = Here
      /\ Kind[Here] \in {"queueing", "preemptive"}
  BY <1>0, LastCallEnds
<1>2. /\ Types /\ DiaryInOrder /\ MomentsArePast /\ Placed /\ Births /\ now \in Nat
      /\ \A n \in Nodes : QueueInOrder(n) /\ NodeIsSound(n) /\ SoundNode(nodes[n])
      /\ \A n \in Nodes : Waiting(n) \subseteq Customers
  BY InvFacts
<1>3. PICK c \in Customers : c = nodes[Here].queue.first
  BY <1>1, HeadFacts
<1>4. /\ c \in Waiting(Here) /\ inserted[c] \in Nat /\ inserted[c] <= now
      /\ fate[c] = "inside" /\ c \notin Planned /\ location[c] = Here /\ c \notin Moving
      /\ \A m \in Nodes : c \in Waiting(m) => m = Here
      /\ removeFromFront(nodes[Here].queue) \in ListType
  BY <1>1, <1>3, HeadFacts
<1> DEFINE D == dequeued(nodes[Here])
           N == [D EXCEPT !.lastEnd = c]
<1>5. /\ due' = [due EXCEPT ![c] = now + demand[c]] /\ diary' = schedule(diary, c)
      /\ nodes' = [nodes EXCEPT ![Here] = N]
  BY <1>3 DEF head
<1>6. /\ SoundNode(D) /\ D.queue = removeFromFront(nodes[Here].queue)
      /\ D.pop = nodes[Here].pop - 1 /\ D.resources = nodes[Here].resources
  BY <1>1, <1>2, <1>3, <1>4, DequeuedFacts
<1> HIDE DEF D
<1>7. /\ SoundNode(N) /\ N.queue = removeFromFront(nodes[Here].queue)
      /\ N.pop = nodes[Here].pop - 1 /\ N.resources = nodes[Here].resources /\ N.lastEnd = c
  <2>1. SoundNode(N) /\ SameQueue(N, D) /\ N.resources = D.resources /\ N.lastEnd = c
    BY <1>6, LastEndFacts
  <2> HIDE DEF N
  <2> QED BY <1>6, <2>1 DEF SameQueue
<1> HIDE DEF N
<1>8. nodes'[Here] = N /\ \A n \in Nodes : n # Here => nodes'[n] = nodes[n]
  BY <1>1, <1>2, <1>5 DEF Types
<1>9. /\ DiaryInOrder' /\ Planned' = Planned \cup {c} /\ due' \in [Objects -> Nat]
      /\ \A o \in Objects : o # c => due'[o] = due[o]
  <2>1. /\ Ordered(diary, due) /\ c \notin Members(diary) /\ c \in Objects
        /\ \A o \in Members(diary) : now <= due[o]
    BY <1>2, <1>4, ObjectsAreFinite DEF DiaryInOrder, Planned
  <2>2. now + demand[c] \in Nat /\ now <= now + demand[c] /\ due \in [Objects -> Nat]
    BY <1>2 DEF Types
  <2>3. /\ DiaryInOrder' /\ Planned' = Members(diary) \cup {c} /\ due' \in [Objects -> Nat]
        /\ \A o \in Objects : due'[o] = IF o = c THEN now + demand[c] ELSE due[o]
    BY <1>2, <1>5, <2>1, <2>2, EventIsScheduled
  <2> QED BY <2>3 DEF Planned
<1>10. \A n \in Nodes : QueueInOrder(n)' /\ Waiting(n)' = IF n = Here THEN Waiting(n) \ {c} ELSE Waiting(n)
  <2> SUFFICES ASSUME NEW n \in Nodes
               PROVE  QueueInOrder(n)' /\ Waiting(n)' = IF n = Here THEN Waiting(n) \ {c} ELSE Waiting(n)
    OBVIOUS
  <2>1. CASE n = Here
    <3>1. nodes[n].pop \in Nat
      BY <1>2 DEF SoundNode, NodeType
    <3>2. nodes'[n].queue = removeFromFront(nodes[n].queue) /\ nodes'[n].pop = nodes[n].pop - 1
      BY <1>7, <1>8, <2>1
    <3> QED BY <1>2, <1>3, <2>1, <3>1, <3>2, QueueShrinks
  <2>2. CASE n # Here
    <3>1. SameQueue(nodes'[n], nodes[n])
      BY <1>8, <2>2 DEF SameQueue
    <3> QED BY <1>2, <2>2, <3>1, QueueStays
  <2> QED BY <2>1, <2>2
<1>11. \A n \in Nodes : /\ Inside(n)' = IF n = Here THEN Inside(n) \cup {c} ELSE Inside(n)
                        /\ c \notin Inside(n)
  BY <1>4, <1>9 DEF Inside
<1>12. Types'
  <2>1. nodes' \in [Nodes -> NodeType]
    BY <1>2, <1>5, <1>7, <1>8 DEF Types, SoundNode
  <2> QED BY <1>2, <1>9, <2>1 DEF Types
<1>13. MomentsArePast' /\ Births'
  <2>1. \A n \in Nodes : SoundFields(nodes'[n])
    BY <1>2, <1>7, <1>8 DEF SoundNode
  <2>2. Unborn' = Unborn
    BY DEF Unborn
  <2> QED BY <1>2, <2>1, <2>2 DEF Births, MomentsArePast, SoundFields
<1>14. Placed'
  <2>1. \A n \in Nodes : \A x \in Waiting(n)' :
          fate'[x] = "inside" /\ x \notin Planned' /\ location'[x] = n
    BY <1>2, <1>4, <1>9, <1>10 DEF Placed
  <2>2. \A x \in Planned' \cap Customers :
          /\ fate'[x] = "inside" /\ location'[x] \in Nodes
          /\ Kind[location'[x]] \in {"delay", "queueing", "preemptive"}
    BY <1>1, <1>2, <1>4, <1>9 DEF Placed
  <2>3. \A x \in Customers : fate'[x] = "inside" =>
          x \in Moving' \/ x \in Planned' \/ \E n \in Nodes : x \in Waiting(n)'
    BY <1>1, <1>2, <1>4, <1>9, <1>10 DEF Placed
  <2> QED BY <1>1, <2>1, <2>2, <2>3 DEF Placed
<1>15. NodesAreSound'
  <2> SUFFICES ASSUME NEW n \in Nodes
               PROVE  NodeIsSound(n)'
    BY DEF NodesAreSound
  <2>0. n # c
    BY NodesAreDistinct
  <2>1. CASE n # Here
    <3>1. SameQueue(nodes'[n], nodes[n]) /\ SameService(nodes'[n], nodes[n])
      BY <1>8, <2>1 DEF SameQueue, SameService
    <3>2. (n \in Planned' <=> n \in Planned) /\ (Kind[n] = "sharing" => due'[n] = due[n])
      BY <1>9, <2>0, NodesAreDistinct
    <3>3. PendingStays(n)
      BY <1>1, <2>1 DEF PendingStays, Leaves
    <3> QED BY <1>2, <1>8, <1>11, <2>1, <3>1, <3>2, <3>3, NodeIsKept
  <2>2. CASE n = Here
    <3>1. /\ ServersAreClaimed(n) /\ Leaves(n) /\ ~Leaves(n)' /\ nodes'[n].resources = nodes[n].resources
          /\ nodes'[n].lastEnd = c
      BY <1>1, <1>2, <1>7, <1>8, <2>2 DEF NodeIsSound, Leaves
    <3>2. nodes[n].resources = 0
      BY <2>2, <3>1 DEF ServersAreClaimed
    <3>3. Cardinality(Inside(n)') = Cardinality(Inside(n)) + 1 /\ Cardinality(Inside(n)) \in Nat
      BY <1>11, <2>2, InsideIsFinite, FS_AddElement
    <3>4. ServersAreClaimed(n)'
      BY <3>1, <3>2, <3>3 DEF ServersAreClaimed
    <3>5. LastIsInService(n)'
      BY <1>11, <2>2, <3>1 DEF LastIsInService
    <3> QED BY <1>1, <2>2, <3>4, <3>5 DEF NodeIsSound
  <2> QED BY <2>1, <2>2
<1> QED BY <1>1, <1>9, <1>10, <1>12, <1>13, <1>14, <1>15 DEF IInv, QueuesInOrder

\* The node gets its resource back.
LEMMA SetFree ==
  ASSUME IInv, Now("release") \/ Now("next"), ~(nodes[Here].pop > 0),
         nodes' = [nodes EXCEPT ![Here] = release(Here, nodes[Here])], return(<<>>),
         now' = now, diary' = diary, due' = due, discipline' = discipline, location' = location,
         demand' = demand, inserted' = inserted, finish' = finish, arrived' = arrived,
         completions' = completions, responseTime' = responseTime, fate' = fate,
         asked' = asked, served' = served
  PROVE  IInv'
<1>0. stack # <<>> /\ stack[1].op \in {"release", "next"}
  BY DEF Now
<1>1. /\ CallsAreTyped' /\ CallsAreInPlace' /\ Moving = {} /\ Moving' = {} /\ Here \in Nodes
      /\ \A f, n : ~Pending(f, n)'
      /\ \A f, n : Pending(f, n) <=> f = stack[1].op /\ n = Here
      /\ stack[1].op = "release" => Kind[Here] \in {"queueing", "preemptive"}
      /\ stack[1].op = "next" => Kind[Here] = "sharing"
  BY <1>0, LastCallEnds
<1>2. /\ Types /\ DiaryInOrder /\ MomentsArePast /\ Placed /\ Births /\ now \in Nat
      /\ \A n \in Nodes : QueueInOrder(n) /\ NodeIsSound(n) /\ SoundNode(nodes[n])
      /\ \A n \in Nodes : Waiting(n) \subseteq Customers
  BY InvFacts
<1>3. /\ nodes[Here].pop \in Nat /\ nodes[Here].resources \in Nat /\ Servers[Here] \in Nat
      /\ Cardinality(Inside(Here)) \in Nat /\ nodes[Here].pop = 0
  <2>1. /\ nodes[Here].pop \in Nat /\ nodes[Here].resources \in Nat /\ Servers[Here] \in Nat
        /\ Cardinality(Inside(Here)) \in Nat
    BY <1>1, <1>2, InsideIsFinite, NetworkAssumption DEF SoundNode, NodeType
  <2> QED BY <2>1
<1>4. nodes[Here].resources < Servers[Here]
  <2>1. CASE stack[1].op = "release"
    <3>1. ServersAreClaimed(Here) /\ Leaves(Here)
      BY <1>1, <1>2, <2>1 DEF NodeIsSound, Leaves
    <3>2. Servers[Here] = nodes[Here].resources + Cardinality(Inside(Here)) + 1
      BY <3>1 DEF ServersAreClaimed
    <3> QED BY <1>3, <3>2
  <2>2. CASE stack[1].op = "next"
    <3>1. SharingIsScheduled(Here) /\ Ends(Here) /\ Servers[Here] = 1
      BY <1>1, <1>2, <2>2, NetworkAssumption DEF NodeIsSound, Ends
    <3>2. nodes[Here].resources = 0
      BY <3>1 DEF SharingIsScheduled
    <3> QED BY <3>1, <3>2
  <2> QED BY <1>0, <2>1, <2>2
<1> DEFINE N == release(Here, nodes[Here])
<1>5. /\ SoundNode(N) /\ SameQueue(N, nodes[Here]) /\ SameService(N, nodes[Here])
      /\ N.resources = nodes[Here].resources + 1
  BY <1>1, <1>2, <1>4, ReleaseFacts
<1>6. nodes' = [nodes EXCEPT ![Here] = N]
  OBVIOUS
<1> HIDE DEF N
<1>7. nodes'[Here] = N /\ \A n \in Nodes : n # Here => nodes'[n] = nodes[n]
  BY <1>1, <1>2, <1>6 DEF Types
<1>8. \A n \in Nodes : SoundNode(nodes'[n]) /\ SameQueue(nodes'[n], nodes[n])
  BY <1>2, <1>5, <1>7 DEF SameQueue
<1>9. \A n \in Nodes : QueueInOrder(n)' /\ Waiting(n)' = Waiting(n)
  BY <1>2, <1>8, QueueStays
<1>10. Planned' = Planned /\ Unborn' = Unborn /\ \A n : Inside(n)' = Inside(n)
  BY DEF Planned, Unborn, Inside
<1>11. Types' /\ DiaryInOrder' /\ Births'
  <2>1. nodes' \in [Nodes -> NodeType]
    BY <1>2, <1>6, <1>8 DEF Types, SoundNode
  <2> QED BY <1>2, <1>10, <2>1 DEF Types, DiaryInOrder, Births
<1>12. MomentsArePast' /\ Placed'
  <2>1. \A n \in Nodes : SoundFields(nodes'[n])
    BY <1>8 DEF SoundNode
  <2> QED BY <1>1, <1>2, <1>9, <1>10, <2>1 DEF MomentsArePast, SoundFields, Placed
<1>13. NodesAreSound'
  <2> SUFFICES ASSUME NEW n \in Nodes
               PROVE  NodeIsSound(n)'
    BY DEF NodesAreSound
  <2>1. CASE n # Here
    <3>1. SameQueue(nodes'[n], nodes[n]) /\ SameService(nodes'[n], nodes[n])
      BY <1>7, <2>1 DEF SameQueue, SameService
    <3>2. PendingStays(n)
      BY <1>1, <2>1 DEF PendingStays, Leaves
    <3> QED BY <1>2, <1>7, <1>10, <2>1, <3>1, <3>2, NodeIsKept
  <2>2. CASE n = Here /\ stack[1].op = "release"
    <3>1. /\ ServersAreClaimed(n) /\ Leaves(n) /\ ~Leaves(n)' /\ nodes'[n].pop = 0
          /\ nodes'[n].resources = nodes[n].resources + 1
      BY <1>1, <1>2, <1>3, <1>5, <1>7, <2>2 DEF NodeIsSound, Leaves, SameQueue
    <3>2. ServersAreClaimed(n)'
      <4>1. Servers[n] = nodes[n].resources + Cardinality(Inside(n)) + 1
        BY <3>1 DEF ServersAreClaimed
      <4> QED BY <1>3, <1>10, <2>2, <3>1, <4>1 DEF ServersAreClaimed
    <3>3. LastIsInService(n)'
      <4>1. nodes'[n].resources # 0
        BY <1>3, <2>2, <3>1
      <4> QED BY <4>1 DEF LastIsInService
    <3> QED BY <1>1, <2>2, <3>2, <3>3 DEF NodeIsSound
  <2>3. CASE n = Here /\ stack[1].op = "next"
    <3>1. /\ SharingIsScheduled(n) /\ Ends(n) /\ Servers[n] = 1 /\ ~Ends(n)'
          /\ ~Pending("endOfService", n)' /\ nodes'[n].pop = 0
          /\ nodes'[n].resources = nodes[n].resources + 1
          /\ nodes'[n].vtime = nodes[n].vtime
      BY <1>1, <1>2, <1>3, <1>5, <1>7, <2>3, NetworkAssumption
         DEF NodeIsSound, Ends, SameQueue, SameService
    <3>2. nodes[n].resources = 0 /\ n \notin Planned /\ \A c \in Waiting(n) : nodes[n].vtime <= finish[c]
      BY <3>1 DEF SharingIsScheduled
    <3>3. n \notin Planned' /\ nodes'[n].resources = 1
      BY <1>10, <3>1, <3>2
    <3>4. \A c \in Waiting(n)' : nodes'[n].vtime <= finish'[c]
      BY <1>9, <3>1, <3>2
    <3>5. SharingIsScheduled(n)'
      BY <3>1, <3>3, <3>4 DEF SharingIsScheduled
    <3> QED BY <1>1, <2>3, <3>5 DEF NodeIsSound
  <2> QED BY <1>0, <2>1, <2>2, <2>3
<1> QED BY <1>1, <1>9, <1>11, <1>12, <1>13 DEF IInv, QueuesInOrder

\* ResourcePool::releaseResource.
LEMMA ReleaseKeeps ==
  ASSUME IInv, releaseResource
  PROVE  IInv'
<1>1. /\ Now("release") /\ return(<<>>)
      /\ now' = now /\ discipline' = discipline /\ location' = location
      /\ inserted' = inserted /\ finish' = finish /\ arrived' = arrived /\ completions' = completions
      /\ responseTime' = responseTime /\ fate' = fate /\ asked' = asked /\ served' = served
  BY DEF releaseResource, results, history
<1>2. CASE nodes[Here].pop > 0
  <2>1. /\ demand' = demand /\ due' = [due EXCEPT ![head(Here)] = now + demand'[head(Here)]]
        /\ nodes' = [nodes EXCEPT ![Here] = [dequeued(nodes[Here]) EXCEPT !.lastEnd = head(Here)]]
        /\ diary' = schedule(diary, head(Here))
    BY <1>2 DEF releaseResource, invokeService, node
  <2> QED BY <1>1, <1>2, <2>1, HandedOver
<1>3. CASE ~(nodes[Here].pop > 0)
  <2>1. /\ nodes' = [nodes EXCEPT ![Here] = release(Here, nodes[Here])]
        /\ due' = due /\ diary' = diary /\ demand' = demand
    BY <1>3 DEF releaseResource, node
  <2> QED BY <1>1, <1>3, <2>1, SetFree
<1> QED BY <1>2, <1>3

\* ProcessorSharingNode::invoke, up to the call that forwards the customer.
LEMMA EndKeeps ==
  ASSUME IInv, endOfService
  PROVE  IInv'
<1>0. /\ Now("endOfService") /\ nodes' = [nodes EXCEPT ![Here] = dequeued(progress(nodes[Here]))]
      /\ return(<<call("forward", Here, head(Here)), call("next", Here, NULL)>>)
      /\ now' = now /\ diary' = diary /\ due' = due /\ discipline' = discipline
      /\ location' = location /\ demand' = demand /\ inserted' = inserted /\ finish' = finish
      /\ arrived' = arrived /\ completions' = completions /\ responseTime' = responseTime
      /\ fate' = fate /\ asked' = asked /\ served' = served
  BY DEF endOfService, node, attributes, results, history
<1>1. /\ Types /\ DiaryInOrder /\ MomentsArePast /\ Placed /\ Births /\ now \in Nat
      /\ CallsAreTyped /\ CallsAreInPlace
      /\ \A n \in Nodes : QueueInOrder(n) /\ NodeIsSound(n) /\ SoundNode(nodes[n])
      /\ \A n \in Nodes : Waiting(n) \subseteq Customers
  BY InvFacts
<1>2. Here \in Nodes /\ Kind[Here] = "sharing" /\ Pending("endOfService", Here)
  <2>1. stack # <<>> /\ stack[1].op = "endOfService"
    BY <1>0 DEF Now
  <2>2. Len(stack) \in Nat /\ Len(stack) >= 1 /\ 1 \in 1..Len(stack) /\ stack[1] \in Calls
    BY <1>1, <2>1, StackFacts
  <2>3. Here \in Nodes /\ Kind[Here] = "sharing"
    BY <1>1, <2>1, <2>2 DEF CallsAreTyped, Calls, Here
  <2>4. Len(stack) = 1
    <3>1. ~(Len(stack) > 1)
      BY <1>1, <2>1 DEF CallsAreInPlace
    <3> DEFINE len == Len(stack)
    <3>2. len \in Nat /\ len >= 1 /\ ~(len > 1)
      BY <2>2, <3>1
    <3> HIDE DEF len
    <3>3. len = 1
      BY <3>2
    <3> QED BY <3>3 DEF len
  <2> QED BY <2>1, <2>3, <2>4 DEF Pending, Bottom, Here
<1>3. /\ SharingIsScheduled(Here) /\ nodes[Here].pop > 0 /\ due[Here] = now /\ Here \notin Planned
      /\ nodes[Here].resources = 0 /\ nodes[Here].pop \in Nat
  <2>1. SharingIsScheduled(Here)
    BY <1>1, <1>2 DEF NodeIsSound
  <2>2. nodes[Here].pop \in Nat
    BY <1>1, <1>2 DEF SoundNode, NodeType
  <2> QED BY <1>2, <2>1, <2>2 DEF SharingIsScheduled, Ends
<1>4. PICK c \in Customers : c = nodes[Here].queue.first
  BY <1>2, <1>3, HeadFacts
<1>5. /\ c \in Waiting(Here) /\ inserted[c] \in Nat /\ inserted[c] <= now
      /\ fate[c] = "inside" /\ c \notin Planned /\ location[c] = Here
      /\ \A m \in Nodes : c \in Waiting(m) => m = Here
      /\ removeFromFront(nodes[Here].queue) \in ListType
  BY <1>2, <1>3, <1>4, HeadFacts
<1>6. /\ CallsAreTyped' /\ CallsAreInPlace' /\ Moving = {} /\ Moving' = {c}
      /\ \A n \in Nodes : /\ ~Pending("schedule", n) /\ ~Pending("schedule", n)'
                          /\ ~Pending("next", n) /\ (Pending("next", n)' <=> n = Here)
                          /\ (Pending("endOfService", n) <=> n = Here) /\ ~Pending("endOfService", n)'
                          /\ Kind[n] \in {"queueing", "preemptive"} => ~Leaves(n) /\ ~Leaves(n)'
  <2>1. return(<<call("forward", Here, c), call("next", Here, NULL)>>)
    BY <1>0, <1>4 DEF head
  <2> QED BY <1>0, <1>1, <2>1, ServiceEnds
<1> DEFINE P == progress(nodes[Here])
           N == dequeued(P)
<1>7. /\ SoundNode(P) /\ P.queue = nodes[Here].queue /\ P.pop = nodes[Here].pop
      /\ P.vtime = nodes[Here].vtime + (now - nodes[Here].lastSchedule) \div nodes[Here].pop
      /\ P.resources = 0
  BY <1>1, <1>2, <1>3, ProgressFacts DEF SameQueue
<1>8. nodes' = [nodes EXCEPT ![Here] = N]
  BY <1>0
<1> HIDE DEF P
<1>9. /\ SoundNode(N) /\ N.vtime = P.vtime /\ N.queue = removeFromFront(nodes[Here].queue)
      /\ N.pop = nodes[Here].pop - 1 /\ N.resources = 0
  BY <1>1, <1>3, <1>4, <1>5, <1>7, DequeuedFacts DEF SameService
<1> HIDE DEF N
<1>10. nodes'[Here] = N /\ \A n \in Nodes : n # Here => nodes'[n] = nodes[n]
  BY <1>1, <1>2, <1>8 DEF Types
<1>11. \A n \in Nodes : QueueInOrder(n)' /\ Waiting(n)' = IF n = Here THEN Waiting(n) \ {c} ELSE Waiting(n)
  <2> SUFFICES ASSUME NEW n \in Nodes
               PROVE  QueueInOrder(n)' /\ Waiting(n)' = IF n = Here THEN Waiting(n) \ {c} ELSE Waiting(n)
    OBVIOUS
  <2>1. CASE n = Here
    <3>1. nodes'[n].queue = removeFromFront(nodes[n].queue) /\ nodes'[n].pop = nodes[n].pop - 1
      BY <1>9, <1>10, <2>1
    <3> QED BY <1>0, <1>1, <1>3, <1>4, <2>1, <3>1, QueueShrinks
  <2>2. CASE n # Here
    <3>1. SameQueue(nodes'[n], nodes[n])
      BY <1>10, <2>2 DEF SameQueue
    <3> QED BY <1>0, <1>1, <2>2, <3>1, QueueStays
  <2> QED BY <2>1, <2>2
<1>12. Planned' = Planned /\ Unborn' = Unborn /\ \A n : Inside(n)' = Inside(n)
  BY <1>0 DEF Planned, Unborn, Inside
<1>13. Types' /\ DiaryInOrder' /\ Births'
  <2>1. nodes' \in [Nodes -> NodeType]
    BY <1>1, <1>8, <1>9, <1>10 DEF Types, SoundNode
  <2> QED BY <1>0, <1>1, <1>12, <2>1 DEF Types, DiaryInOrder, Births
<1>14. MomentsArePast'
  <2>1. \A n \in Nodes : SoundFields(nodes'[n])
    BY <1>1, <1>9, <1>10 DEF SoundNode
  <2> QED BY <1>0, <1>1, <2>1 DEF MomentsArePast, SoundFields
<1>15. Placed'
  BY <1>0, <1>1, <1>5, <1>6, <1>11, <1>12 DEF Placed
<1>16. NodesAreSound'
  <2> SUFFICES ASSUME NEW n \in Nodes
               PROVE  NodeIsSound(n)'
    BY DEF NodesAreSound
  <2>1. CASE n # Here
    <3>1. SameQueue(nodes'[n], nodes[n]) /\ SameService(nodes'[n], nodes[n])
      BY <1>10, <2>1 DEF SameQueue, SameService
    <3>2. PendingStays(n)
      BY <1>6, <2>1 DEF PendingStays
    <3> QED BY <1>0, <1>1, <1>10, <1>12, <2>1, <3>1, <3>2, NodeIsKept
  <2>2. CASE n = Here
    <3>1. /\ Ends(n)' /\ n \notin Planned' /\ ~Pending("endOfService", n)'
          /\ nodes'[n].resources = 0 /\ 0 <= Servers[n]
      BY <1>2, <1>3, <1>6, <1>9, <1>10, <1>12, <2>2, NetworkAssumption DEF Ends
    <3>2. nodes'[n].vtime = nodes[n].vtime + (now - nodes[n].lastSchedule) \div nodes[n].pop
      BY <1>7, <1>9, <1>10, <2>2
    <3>3. \A x \in Waiting(n) : nodes'[n].vtime <= finish[x]
      <4>1. finish \in [Customers -> Nat] /\ now <= due[n]
        BY <1>1, <1>3, <2>2 DEF Types
      <4>2. \A x \in Waiting(n) :
              nodes[n].vtime + (now - nodes[n].lastSchedule) \div nodes[n].pop <= finish[x]
        BY <1>1, <1>2, <1>3, <2>2, <4>1, SharesAreDue
      <4> QED BY <3>2, <4>2
    <3>4. \A x \in Waiting(n)' : nodes'[n].vtime <= finish'[x]
      BY <1>0, <1>11, <2>2, <3>3
    <3>5. SharingIsScheduled(n)'
      BY <3>1, <3>4 DEF SharingIsScheduled
    <3> QED BY <1>2, <2>2, <3>5 DEF NodeIsSound
  <2> QED BY <2>1, <2>2
<1> QED BY <1>6, <1>11, <1>13, <1>14, <1>15, <1>16 DEF IInv, QueuesInOrder

\* ProcessorSharingNode::invoke, after it.
LEMMA NextKeeps ==
  ASSUME IInv, nextShare
  PROVE  IInv'
<1>0. /\ Now("next") /\ finish' = finish /\ return(<<>>)
      /\ now' = now /\ discipline' = discipline /\ location' = location /\ demand' = demand
      /\ inserted' = inserted /\ arrived' = arrived /\ completions' = completions
      /\ responseTime' = responseTime /\ fate' = fate /\ asked' = asked /\ served' = served
  BY DEF nextShare, results, history
<1>1. /\ Types /\ DiaryInOrder /\ MomentsArePast /\ Placed /\ Births /\ now \in Nat
      /\ \A n \in Nodes : QueueInOrder(n) /\ NodeIsSound(n) /\ SoundNode(nodes[n])
      /\ \A n \in Nodes : Waiting(n) \subseteq Customers
  BY InvFacts
<1>2. /\ CallsAreTyped' /\ CallsAreInPlace' /\ Moving = {} /\ Moving' = {} /\ Here \in Nodes
      /\ \A f, n : ~Pending(f, n)'
      /\ \A f, n : Pending(f, n) <=> f = "next" /\ n = Here
      /\ Kind[Here] = "sharing"
  <2>1. stack # <<>> /\ stack[1].op = "next"
    BY <1>0 DEF Now
  <2> QED BY <1>0, <2>1, LastCallEnds
<1>3. nodes[Here].pop \in Nat
  BY <1>1, <1>2 DEF SoundNode, NodeType
<1>4. CASE nodes[Here].pop = 0
  <2>1. nodes' = [nodes EXCEPT ![Here] = release(Here, nodes[Here])] /\ due' = due /\ diary' = diary
    BY <1>4 DEF nextShare, node
  <2>2. ~(nodes[Here].pop > 0)
    BY <1>4
  <2> QED BY <1>0, <2>1, <2>2, SetFree
<1>5. CASE nodes[Here].pop # 0
  <2> DEFINE N == nodes[Here]
  <2>1. serviceNextCustomer(Here, N, diary) /\ N.pop > 0
    BY <1>3, <1>5 DEF nextShare
  <2>2. /\ SharingIsScheduled(Here) /\ Ends(Here) /\ Here \notin Planned /\ N.resources = 0
        /\ \A c \in Waiting(Here) : N.vtime <= finish[c]
    <3>1. SharingIsScheduled(Here) /\ Ends(Here)
      BY <1>1, <1>2 DEF NodeIsSound, Ends
    <3> QED BY <3>1 DEF SharingIsScheduled
  <2>3. /\ IsList(N.queue) /\ N.pop = Len(Chain(N.queue))
        /\ \A c \in Members(N.queue) : c \in Customers /\ N.vtime <= finish'[c]
    BY <1>0, <1>1, <1>2, <2>2 DEF QueueInOrder, Waiting
  <2>4. /\ Ordered(diary, due) /\ Here \notin Members(diary)
        /\ \A o \in Members(diary) : now <= due[o]
        /\ due \in [Objects -> Nat] /\ finish' \in [Customers -> Nat] /\ SoundNode(N)
    BY <1>0, <1>1, <1>2, <2>2 DEF DiaryInOrder, Planned, Types
  <2> HIDE DEF N
  <2>5. /\ DiaryInOrder' /\ Planned' = Members(diary) \cup {Here} /\ due' \in [Objects -> Nat]
        /\ \A o \in Objects : o # Here => due'[o] = due[o]
        /\ due'[Here] = now + (finish'[N.queue.first] - N.vtime) * N.pop
        /\ \E M : /\ nodes' = [nodes EXCEPT ![Here] = M] /\ SoundNode(M) /\ SameQueue(M, N)
                  /\ M.resources = N.resources /\ M.vtime = N.vtime /\ M.lastSchedule = now
    BY ONLY <1>0, <1>1, <1>2, <2>1, <2>3, <2>4, NextIsScheduled
  <2>6. PICK M : /\ nodes' = [nodes EXCEPT ![Here] = M] /\ SoundNode(M) /\ SameQueue(M, N)
                 /\ M.resources = N.resources /\ M.vtime = N.vtime /\ M.lastSchedule = now
    BY <2>5
  <2>7. nodes'[Here] = M /\ \A n \in Nodes : n # Here => nodes'[n] = nodes[n]
    BY <1>1, <1>2, <2>6 DEF Types
  <2>8. \A n \in Nodes : SoundNode(nodes'[n]) /\ SameQueue(nodes'[n], nodes[n])
    BY <1>1, <2>6, <2>7 DEF SameQueue, N
  <2>9. \A n \in Nodes : QueueInOrder(n)' /\ Waiting(n)' = Waiting(n)
    BY <1>0, <1>1, <2>8, QueueStays
  <2>10. /\ Planned' = Planned \cup {Here} /\ Planned' \cap Customers = Planned \cap Customers
         /\ Unborn' = Unborn
    BY <1>0, <1>2, <2>5, NodesAreDistinct DEF Planned, Unborn
  <2>11. \A n \in Nodes : Inside(n)' = Inside(n)
    BY <1>0, <2>10 DEF Inside
  <2>12. Types' /\ Births'
    <3>1. nodes' \in [Nodes -> NodeType]
      BY <1>1, <2>6, <2>8 DEF Types, SoundNode
    <3> QED BY <1>0, <1>1, <2>5, <2>10, <3>1 DEF Types, Births
  <2>13. MomentsArePast'
    <3>1. \A n \in Nodes : SoundFields(nodes'[n])
      BY <2>8 DEF SoundNode
    <3> QED BY <1>0, <1>1, <3>1 DEF MomentsArePast, SoundFields
  <2>14. Placed'
    <3>1. \A c \in Customers : c \in Planned' <=> c \in Planned
      BY <2>10
    <3> QED BY <1>0, <1>1, <1>2, <2>9, <2>10, <3>1 DEF Placed
  <2>15. NodesAreSound'
    <3> SUFFICES ASSUME NEW n \in Nodes
                 PROVE  NodeIsSound(n)'
      BY DEF NodesAreSound
    <3>1. CASE n # Here
      <4>1. SameQueue(nodes'[n], nodes[n]) /\ SameService(nodes'[n], nodes[n])
        BY <2>7, <3>1 DEF SameQueue, SameService
      <4>2. PendingStays(n)
        BY <1>2, <3>1 DEF PendingStays, Leaves
      <4>3. (n \in Planned' <=> n \in Planned) /\ (Kind[n] = "sharing" => due'[n] = due[n])
        BY <2>5, <2>10, <3>1, NodesAreDistinct
      <4> QED BY <1>0, <1>1, <2>7, <2>11, <3>1, <4>1, <4>2, <4>3, NodeIsKept
    <3>2. CASE n = Here
      <4>1. /\ nodes'[n].pop > 0 /\ nodes'[n].resources = 0 /\ 0 <= Servers[n]
            /\ nodes'[n].vtime = N.vtime /\ nodes'[n].queue = N.queue
            /\ due'[n] = nodes'[n].lastSchedule
                         + (finish'[nodes'[n].queue.first] - nodes'[n].vtime) * nodes'[n].pop
        BY <1>2, <2>1, <2>2, <2>5, <2>6, <2>7, <3>2, NetworkAssumption DEF SameQueue
      <4>2. n \in Planned' /\ ~Ends(n)' /\ ~Pending("endOfService", n)'
        BY <1>2, <2>10, <3>2 DEF Ends
      <4>3. \A c \in Waiting(n)' : nodes'[n].vtime <= finish'[c]
        BY <1>0, <2>2, <2>9, <3>2, <4>1
      <4>4. SharingIsScheduled(n)'
        BY <4>1, <4>2, <4>3 DEF SharingIsScheduled
      <4> QED BY <1>2, <3>2, <4>4 DEF NodeIsSound
    <3> QED BY <3>1, <3>2
  <2> QED BY <1>2, <2>5, <2>9, <2>12, <2>13, <2>14, <2>15 DEF IInv, QueuesInOrder
<1> QED BY <1>4, <1>5

\* Source::schedule.
LEMMA ScheduleKeeps ==
  ASSUME IInv, scheduleArrival
  PROVE  IInv'
<1>0. /\ Now("schedule") /\ return(<<>>) /\ nodes' = nodes
      /\ now' = now /\ discipline' = discipline /\ location' = location /\ demand' = demand
      /\ inserted' = inserted /\ finish' = finish /\ arrived' = arrived
      /\ completions' = completions
      /\ responseTime' = responseTime /\ fate' = fate /\ asked' = asked /\ served' = served
  BY DEF scheduleArrival, attributes, results, history
<1>1. /\ Types /\ DiaryInOrder /\ MomentsArePast /\ Placed /\ Births /\ now \in Nat
      /\ \A n \in Nodes : QueueInOrder(n) /\ NodeIsSound(n)
  BY InvFacts
<1>2. /\ CallsAreTyped' /\ CallsAreInPlace' /\ Moving = {} /\ Moving' = {} /\ Here \in Nodes
      /\ \A f, n : ~Pending(f, n)'
      /\ \A f, n : Pending(f, n) <=> f = "schedule" /\ n = Here
      /\ Kind[Here] = "source"
  <2>1. stack # <<>> /\ stack[1].op = "schedule"
    BY <1>0 DEF Now
  <2> QED BY <1>0, <2>1, LastCallEnds
<1>3. Here \notin Planned /\ Here \in Objects
  BY <1>1, <1>2, NodesAreDistinct DEF NodeIsSound, SourceIsScheduled
<1>4. /\ DiaryInOrder' /\ Planned \subseteq Planned' /\ Planned' \subseteq Planned \cup {Here}
      /\ due' \in [Objects -> Nat]
      /\ \A o \in Objects : o # Here => due'[o] = due[o]
  <2>1. CASE Unborn = {}
    <3>1. due' = due /\ diary' = diary
      BY <2>1 DEF scheduleArrival
    <3> QED BY <1>0, <1>1, <3>1 DEF DiaryInOrder, Planned, Types
  <2>2. CASE Unborn # {}
    <3>1. PICK gap \in Gaps : due' = [due EXCEPT ![Here] = now + gap] /\ diary' = schedule(diary, Here)
      BY <2>2 DEF scheduleArrival
    <3>2. gap \in Nat
      BY NetworkAssumption
    <3>3. /\ Ordered(diary, due) /\ Here \notin Members(diary)
          /\ \A o \in Members(diary) : now <= due[o]
          /\ now + gap \in Nat /\ now <= now + gap /\ due \in [Objects -> Nat]
      BY <1>1, <1>3, <3>2 DEF DiaryInOrder, Planned, Types
    <3>4. /\ DiaryInOrder' /\ Planned' = Members(diary) \cup {Here} /\ due' \in [Objects -> Nat]
          /\ \A o \in Objects : due'[o] = IF o = Here THEN now + gap ELSE due[o]
      BY <1>0, <1>1, <1>3, <3>1, <3>3, EventIsScheduled
    <3> QED BY <3>4 DEF Planned
  <2> QED BY <2>1, <2>2
<1>5. \A n \in Nodes : SameQueue(nodes'[n], nodes[n]) /\ SameService(nodes'[n], nodes[n])
  BY <1>0 DEF SameQueue, SameService
<1>6. \A n \in Nodes : QueueInOrder(n)' /\ Waiting(n)' = Waiting(n)
  BY <1>0, <1>1, <1>5, QueueStays
<1>7. /\ Planned' \cap Customers = Planned \cap Customers /\ Unborn' = Unborn
      /\ \A n \in Nodes : n # Here => (n \in Planned' <=> n \in Planned)
  BY <1>0, <1>2, <1>4, NodesAreDistinct DEF Unborn
<1>8. \A n \in Nodes : Inside(n)' = Inside(n)
  BY <1>0, <1>7 DEF Inside
<1>9. Types' /\ Births' /\ MomentsArePast'
  BY <1>0, <1>1, <1>4, <1>7 DEF Types, Births, MomentsArePast, SoundFields
<1>10. Placed'
  <2>1. \A c \in Customers : c \in Planned' <=> c \in Planned
    BY <1>7
  <2>2. \A n \in Nodes : Waiting(n) \subseteq Customers
    BY <1>1 DEF QueueInOrder
  <2> QED BY <1>0, <1>1, <1>2, <1>6, <1>7, <2>1, <2>2 DEF Placed
<1>11. NodesAreSound'
  <2> SUFFICES ASSUME NEW n \in Nodes
               PROVE  NodeIsSound(n)'
    BY DEF NodesAreSound
  <2>1. CASE n # Here
    <3>1. PendingStays(n)
      BY <1>2, <2>1 DEF PendingStays, Leaves
    <3>2. (n \in Planned' <=> n \in Planned) /\ (Kind[n] = "sharing" => due'[n] = due[n])
      BY <1>4, <1>7, <2>1, NodesAreDistinct
    <3> QED BY <1>0, <1>1, <1>5, <1>8, <2>1, <3>1, <3>2, NodeIsKept
  <2>2. CASE n = Here
    <3>1. nodes'[n].pop = 0 /\ SourceIsScheduled(n)'
      BY <1>0, <1>1, <1>2, <2>2 DEF NodeIsSound, SourceIsScheduled
    <3> QED BY <1>2, <2>2, <3>1 DEF NodeIsSound
  <2> QED BY <2>1, <2>2
<1> QED BY <1>2, <1>4, <1>6, <1>9, <1>10, <1>11 DEF IInv, QueuesInOrder

-----------------------------------------------------------------------------
(***************************************************************************)
(* Events: Sim::go and the batches of a source.                            *)
(***************************************************************************)

\* What a customer was served for while the clock moves on.
LEMMA ServiceIsCounted ==
  ASSUME IInv, NEW t \in Nat, now <= t, serve(t)
  PROVE  served' \in [Customers -> Nat]
<1>1. Types /\ now \in Nat /\ \A n \in Nodes : QueueInOrder(n) /\ SoundNode(nodes[n])
  BY InvFacts
<1>2. ASSUME NEW c \in Customers
      PROVE  served'[c] \in Nat
  <2>1. served[c] \in Nat /\ t - now \in Nat /\ served[c] + t - now \in Nat
    BY <1>1 DEF Types
  <2>2. ASSUME sharing(c)
        PROVE  served[c] + (t - now) \div nodes[location[c]].pop \in Nat
    <3>1. PICK n \in Nodes : n = location[c] /\ c \in Members(nodes[n].queue)
      <4>1. location[c] \in Nodes
        BY <1>1, <2>2 DEF Types, sharing
      <4> QED BY <2>2, <4>1 DEF sharing
    <3>2. /\ IsList(nodes[n].queue) /\ nodes[n].pop = Len(Chain(nodes[n].queue))
          /\ nodes[n].pop \in Nat
      BY <1>1 DEF QueueInOrder, SoundNode, NodeType
    <3>3. nodes[n].pop # 0
      BY <3>1, <3>2, ListFacts
    <3> DEFINE p == nodes[n].pop
               a == t - now
    <3>4. p \in Nat /\ p > 0 /\ a \in Nat
      BY <2>1, <3>2, <3>3
    <3> HIDE DEF p, a
    <3>5. a \div p \in Nat
      BY <3>4
    <3>6. (t - now) \div nodes[location[c]].pop \in Nat
      BY <3>1, <3>5 DEF p, a
    <3> QED BY <2>1, <3>6
  <2> QED BY <2>1, <2>2 DEF serve
<1>3. served' = [c \in Customers |-> served'[c]]
  BY DEF serve
<1> QED BY <1>2, <1>3

\* Sim::go.
LEMMA GoKeeps ==
  ASSUME IInv, go
  PROVE  IInv'
<1>0. /\ stack = <<>> /\ diary.first # NULL /\ now' = due[diary.first]
      /\ diary' = removeFromFront(diary) /\ serve(due[diary.first]) /\ stack' = invoke(diary.first)
      /\ due' = due /\ nodes' = nodes /\ discipline' = discipline /\ location' = location
      /\ demand' = demand /\ inserted' = inserted /\ finish' = finish /\ arrived' = arrived
      /\ completions' = completions /\ responseTime' = responseTime /\ fate' = fate
      /\ asked' = asked
  BY DEF go, attributes, results
<1>1. /\ Types /\ DiaryInOrder /\ MomentsArePast /\ Placed /\ Births /\ now \in Nat
      /\ \A n \in Nodes : QueueInOrder(n) /\ NodeIsSound(n) /\ SoundNode(nodes[n])
      /\ \A n \in Nodes : Waiting(n) \subseteq Customers
  BY InvFacts
<1>2. Moving = {} /\ \A f, n : ~Pending(f, n)
  BY <1>0, NothingPending
<1>3. /\ IsList(diary) /\ Ordered(diary, due) /\ Planned = Members(diary) /\ Planned \subseteq Objects
      /\ Planned # {}
  <2>1. Ordered(diary, due) /\ IsList(diary)
    BY <1>1 DEF DiaryInOrder, Ordered
  <2> QED BY <1>0, <2>1, ListFacts DEF Planned
<1>4. PICK e \in Objects : e = diary.first /\ e \in Planned
  BY <1>3, ListFacts
<1>5. /\ due[e] \in Nat /\ now <= due[e] /\ \A o \in Planned : due[e] <= due[o]
  BY <1>1, <1>3, <1>4, FirstIsLeast DEF DiaryInOrder, Types
<1>6. now' = due[e] /\ now' \in Nat /\ now <= now'
  BY <1>0, <1>4, <1>5
<1>7. Planned' = Planned \ {e} /\ DiaryInOrder'
  <2>1. /\ Members(removeFromFront(diary)) = Members(diary) \ {e}
        /\ Ordered(removeFromFront(diary), due)
    BY <1>3, <1>4, FrontIsRemoved DEF Shrunk
  <2>2. Planned' = Planned \ {e} /\ Ordered(diary', due')
    BY <1>0, <2>1 DEF Planned
  <2> QED BY <1>0, <1>5, <1>6, <2>2 DEF DiaryInOrder
<1>8. e \in Customers => /\ location[e] \in Nodes
                         /\ Kind[location[e]] \in {"delay", "queueing", "preemptive"}
                         /\ fate[e] = "inside"
  BY <1>1, <1>4 DEF Placed
<1>9. /\ CallsAreTyped' /\ CallsAreInPlace' /\ Moving' = {e} \cap Customers
      /\ \A n \in Nodes : /\ Pending("schedule", n)' <=> e = n /\ Kind[n] = "source"
                          /\ ~Pending("next", n)'
                          /\ Pending("endOfService", n)' <=> e = n /\ Kind[n] = "sharing"
                          /\ Kind[n] \in {"queueing", "preemptive"} =>
                               (Leaves(n)' <=> e \in Customers /\ location[e] = n)
  BY <1>0, <1>4, <1>8, EventIsInvoked
<1>10. \A n \in Nodes : SameQueue(nodes'[n], nodes[n])
  BY <1>0 DEF SameQueue
<1>11. \A n \in Nodes : QueueInOrder(n)' /\ Waiting(n)' = Waiting(n)
  BY <1>0, <1>1, <1>10, QueueStays
<1>12. Unborn' = Unborn /\ \A n : Inside(n)' = Inside(n) \ {e}
  BY <1>0, <1>7 DEF Unborn, Inside
<1>13. Types'
  <2>1. served' \in [Customers -> Nat]
    BY <1>0, <1>4, <1>5, ServiceIsCounted
  <2> QED BY <1>0, <1>1, <1>6, <2>1 DEF Types
<1>14. MomentsArePast' /\ Births'
  <2>2. \A c \in Customers : inserted'[c] <= now' /\ arrived'[c] <= now'
    BY <1>0, <1>1, <1>6 DEF Types, MomentsArePast
  <2>3. \A n \in Nodes : /\ nodes'[n].count.lastChange <= now' /\ nodes'[n].popMeasure.lastChange <= now'
                         /\ nodes'[n].lastSchedule <= now' /\ ~nodes'[n].failed
    <3> SUFFICES ASSUME NEW n \in Nodes
                 PROVE  /\ nodes'[n].count.lastChange <= now' /\ nodes'[n].popMeasure.lastChange <= now'
                        /\ nodes'[n].lastSchedule <= now' /\ ~nodes'[n].failed
      OBVIOUS
    <3>1. nodes[n].count \in MeasureType /\ nodes[n].popMeasure \in MeasureType
          /\ nodes[n].lastSchedule \in Nat /\ SoundFields(nodes[n])
      BY <1>1 DEF SoundNode, NodeType
    <3>2. nodes[n].count.lastChange \in Nat /\ nodes[n].popMeasure.lastChange \in Nat
      BY <3>1 DEF MeasureType
    <3>3. /\ nodes[n].count.lastChange <= now /\ nodes[n].popMeasure.lastChange <= now
          /\ nodes[n].lastSchedule <= now /\ ~nodes[n].failed
      BY <3>1 DEF SoundFields
    <3> QED BY <1>0, <1>1, <1>6, <3>1, <3>2, <3>3
  <2> QED BY <1>1, <1>12, <2>2, <2>3 DEF MomentsArePast, SoundFields, Births
<1>15. Placed'
  <2>1. \A c \in Customers : c \in Planned' <=> c \in Planned /\ c # e
    BY <1>7
  <2>2. \A c \in Moving' : fate'[c] = "inside" /\ c \notin Planned' /\ \A n \in Nodes : c \notin Waiting(n)'
    BY <1>0, <1>1, <1>4, <1>8, <1>9, <1>11, <2>1 DEF Placed
  <2>3. \A n \in Nodes : \A c \in Waiting(n)' :
          fate'[c] = "inside" /\ c \notin Planned' /\ location'[c] = n
    BY <1>0, <1>1, <1>11, <2>1 DEF Placed
  <2>4. \A c \in Planned' \cap Customers :
          /\ fate'[c] = "inside" /\ location'[c] \in Nodes
          /\ Kind[location'[c]] \in {"delay", "queueing", "preemptive"}
    BY <1>0, <1>1, <2>1 DEF Placed
  <2>5. \A c \in Customers : fate'[c] = "inside" =>
          c \in Moving' \/ c \in Planned' \/ \E n \in Nodes : c \in Waiting(n)'
    BY <1>0, <1>1, <1>2, <1>9, <1>11, <2>1 DEF Placed
  <2> QED BY <2>2, <2>3, <2>4, <2>5 DEF Placed
<1>16. NodesAreSound'
  <2> SUFFICES ASSUME NEW n \in Nodes
               PROVE  NodeIsSound(n)'
    BY DEF NodesAreSound
  <2>0. NodeIsSound(n) /\ nodes'[n] = nodes[n] /\ due'[n] = due[n] /\ finish' = finish
        /\ ~Leaves(n) /\ ~Ends(n)
    BY <1>0, <1>1, <1>2 DEF Leaves, Ends
  <2>1. Kind[n] = "source" => SourceIsScheduled(n)'
    BY <1>7, <1>9 DEF SourceIsScheduled
  <2>2. ASSUME Kind[n] = "sharing"
        PROVE  SharingIsScheduled(n)'
    <3>1. SharingIsScheduled(n)
      BY <2>0, <2>2 DEF NodeIsSound
    <3>2. /\ Ends(n)' <=> e = n
          /\ Pending("endOfService", n)' <=> e = n
      BY <1>9, <2>2 DEF Ends
    <3>3. n \in Planned' <=> n \in Planned /\ e # n
      BY <1>7
    <3>4. e = n => n \in Planned /\ due'[n] = now'
      BY <1>4, <1>6, <2>0
    <3> QED BY <1>11, <2>0, <3>1, <3>2, <3>3, <3>4 DEF SharingIsScheduled
  <2>3. ASSUME Kind[n] \in {"queueing", "preemptive"}
        PROVE  ServersAreClaimed(n)'
    <3>1. ServersAreClaimed(n) /\ (Leaves(n)' <=> e \in Inside(n))
      BY <1>4, <1>9, <2>0, <2>3 DEF NodeIsSound, Inside
    <3>2. /\ Cardinality(Inside(n)) \in Nat /\ IsFiniteSet(Inside(n))
          /\ Cardinality(Inside(n) \ {e}) = IF e \in Inside(n) THEN Cardinality(Inside(n)) - 1
                                            ELSE Cardinality(Inside(n))
      BY InsideIsFinite, FS_RemoveElement
    <3>3. nodes[n].resources \in Nat
      BY <1>1 DEF SoundNode, NodeType
    <3>4. nodes'[n].pop > 0 => nodes'[n].resources = 0
      BY <2>0, <3>1 DEF ServersAreClaimed
    <3>5. Servers[n] = nodes[n].resources + Cardinality(Inside(n))
      BY <2>0, <3>1, <3>2, <3>3 DEF ServersAreClaimed
    <3>6. Inside(n)' = Inside(n) \ {e} /\ nodes'[n].resources = nodes[n].resources
      BY <1>12, <2>0
    <3>7. Servers[n] = nodes'[n].resources + Cardinality(Inside(n)') + IF Leaves(n)' THEN 1 ELSE 0
      <4>1. CASE e \in Inside(n)
        BY <3>1, <3>2, <3>3, <3>5, <3>6, <4>1
      <4>2. CASE e \notin Inside(n)
        BY <3>1, <3>2, <3>3, <3>5, <3>6, <4>2
      <4> QED BY <4>1, <4>2
    <3> QED BY <3>4, <3>7 DEF ServersAreClaimed
  <2>4. ASSUME Kind[n] = "preemptive"
        PROVE  LastIsInService(n)'
    <3>1. LastIsInService(n) /\ (Leaves(n)' <=> e \in Inside(n))
      BY <1>4, <1>9, <2>0, <2>4 DEF NodeIsSound, Inside
    <3> QED BY <1>12, <2>0, <3>1 DEF LastIsInService
  <2> QED BY <2>0, <2>1, <2>2, <2>3, <2>4 DEF NodeIsSound
<1> QED BY <1>7, <1>9, <1>11, <1>13, <1>14, <1>15, <1>16 DEF IInv, QueuesInOrder

\* Source::injectCustomers.
LEMMA InjectKeeps ==
  ASSUME IInv, injectCustomers
  PROVE  IInv'
<1>1. PICK batch \in Batches :
       LET size == Min({batch, Cardinality(Unborn)})
           born == Cardinality(Customers \ Unborn)
           cs == born + 1 .. born + size
       IN /\ return([i \in 1..size |-> call("forward", Here, born + i)])
          /\ location' = [c \in Customers |-> IF c \in cs THEN Here ELSE location[c]]
          /\ arrived' = [c \in Customers |-> IF c \in cs THEN now ELSE arrived[c]]
          /\ fate' = [c \in Customers |-> IF c \in cs THEN "inside" ELSE fate[c]]
  BY DEF injectCustomers
<1>2. /\ Now("inject") /\ now' = now /\ diary' = diary /\ due' = due /\ nodes' = nodes
      /\ discipline' = discipline /\ demand' = demand /\ inserted' = inserted /\ finish' = finish
      /\ completions' = completions /\ responseTime' = responseTime /\ asked' = asked
      /\ served' = served
  BY DEF injectCustomers, results
<1>3. /\ Types /\ DiaryInOrder /\ MomentsArePast /\ Placed /\ Births /\ now \in Nat
      /\ CallsAreTyped /\ CallsAreInPlace
      /\ \A n \in Nodes : QueueInOrder(n) /\ NodeIsSound(n) /\ SoundNode(nodes[n])
      /\ \A n \in Nodes : Waiting(n) \subseteq Customers
  BY InvFacts
<1> DEFINE size == Min({batch, Cardinality(Unborn)})
           born == Cardinality(Customers \ Unborn)
           K == Cardinality(Customers)
<1>4. K \in Nat /\ Customers = 1..K
  BY NetworkAssumption, FS_CardinalityType
<1>5. PICK b \in 0..K : Unborn = b + 1..K
  BY <1>3 DEF Births
<1>6. born = b /\ Cardinality(Unborn) = K - b
  <2> HIDE DEF K
  <2>1. Customers \ Unborn = 1..b
    BY <1>4, <1>5
  <2>2. Cardinality(1..b) = b
    <3>1. b \in Nat /\ b \in Int /\ 1 \in Int
      BY <1>4, <1>5
    <3>2. Cardinality(1..b) = IF 1 > b THEN 0 ELSE b - 1 + 1
      BY <3>1, FS_Interval
    <3> QED BY <3>1, <3>2
  <2>3. Cardinality(b + 1..K) = K - b
    <3>1. b + 1 \in Int /\ K \in Int /\ b \in 0..K
      BY <1>4, <1>5
    <3>2. Cardinality(b + 1..K) = IF b + 1 > K THEN 0 ELSE K - (b + 1) + 1
      BY <3>1, FS_Interval
    <3> QED BY <1>4, <3>1, <3>2
  <2> QED BY <1>5, <2>1, <2>2, <2>3
<1>7. size \in 0..K - b
  <2> DEFINE m == K - b
             S == {batch, m}
  <2>1. m \in Nat /\ batch \in Nat /\ size = Min(S)
    <3>1. batch \in Nat
      BY NetworkAssumption
    <3>2. Cardinality(Unborn) = m
      BY <1>6
    <3>3. size = Min(S)
      BY <3>2
    <3> HIDE DEF K, size
    <3>4. m \in Nat
      BY <1>4, <1>5
    <3> QED BY <3>1, <3>3, <3>4
  <2> HIDE DEF m, K, size
  <2>2. \E x \in S : \A y \in S : x <= y
    BY <2>1
  <2>3. Min(S) \in S /\ \A y \in S : Min(S) <= y
    BY <2>2 DEF Min
  <2> QED BY <2>1, <2>3 DEF m
<1>8. PICK s \in 0..K - b : s = size
  BY <1>7
<1> DEFINE cs == b + 1..b + s
<1>9. /\ return([i \in 1..s |-> call("forward", Here, b + i)])
      /\ location' = [c \in Customers |-> IF c \in cs THEN Here ELSE location[c]]
      /\ arrived' = [c \in Customers |-> IF c \in cs THEN now ELSE arrived[c]]
      /\ fate' = [c \in Customers |-> IF c \in cs THEN "inside" ELSE fate[c]]
  BY <1>1, <1>6, <1>8
<1> HIDE DEF size, born, K
<1>10. s \in Nat /\ b \in Nat /\ cs \subseteq Customers /\ cs \subseteq Unborn /\ Unborn \ cs = b + s + 1..K
       /\ b + s \in 0..K
  BY <1>4, <1>5
<1>11. /\ CallsAreTyped' /\ CallsAreInPlace' /\ Moving = {} /\ Moving' = cs /\ KeepsPending
       /\ Here \in Nodes
  BY <1>2, <1>3, <1>9, <1>10, BatchIsSent
<1> HIDE DEF cs
<1>12. \A c \in cs : fate[c] = "unborn" /\ c \in Customers
  BY <1>10 DEF Unborn
<1>13. Unborn' = Unborn \ cs
  BY <1>3, <1>9, <1>12 DEF Unborn, Types
<1>14. Births'
  BY <1>10, <1>13 DEF Births, K
<1>15. Types'
  BY <1>2, <1>3, <1>9, <1>11 DEF Types
<1>16. Planned' = Planned /\ \A n : Waiting(n)' = Waiting(n)
  BY <1>2 DEF Planned, Waiting
<1>17. \A c \in cs : c \notin Planned /\ \A n \in Nodes : c \notin Waiting(n)
  BY <1>3, <1>12 DEF Placed
<1>18. \A n \in Nodes : Inside(n)' = Inside(n)
  BY <1>9, <1>16, <1>17 DEF Inside
<1>19. DiaryInOrder' /\ QueuesInOrder'
  BY <1>2, <1>3, <1>16 DEF DiaryInOrder, QueuesInOrder, QueueInOrder
<1>20. MomentsArePast'
  BY <1>2, <1>3, <1>9 DEF MomentsArePast, SoundFields
<1>21. Placed'
  <2>1. \A c \in Moving' : fate'[c] = "inside" /\ c \notin Planned' /\ \A n \in Nodes : c \notin Waiting(n)'
    BY <1>9, <1>11, <1>12, <1>16, <1>17
  <2>2. \A n \in Nodes : \A c \in Waiting(n)' :
          fate'[c] = "inside" /\ c \notin Planned' /\ location'[c] = n
    BY <1>3, <1>9, <1>16, <1>17 DEF Placed
  <2>3. \A c \in Planned' \cap Customers :
          /\ fate'[c] = "inside" /\ location'[c] \in Nodes
          /\ Kind[location'[c]] \in {"delay", "queueing", "preemptive"}
    BY <1>3, <1>9, <1>16, <1>17 DEF Placed
  <2>4. \A c \in Customers : fate'[c] = "inside" =>
          c \in Moving' \/ c \in Planned' \/ \E n \in Nodes : c \in Waiting(n)'
    BY <1>3, <1>9, <1>11, <1>16 DEF Placed
  <2> QED BY <2>1, <2>2, <2>3, <2>4 DEF Placed
<1>22. NodesAreSound'
  <2> SUFFICES ASSUME NEW n \in Nodes
               PROVE  NodeIsSound(n)'
    BY DEF NodesAreSound
  <2>1. SameQueue(nodes'[n], nodes[n]) /\ SameService(nodes'[n], nodes[n])
    BY <1>2 DEF SameQueue, SameService
  <2> QED BY <1>2, <1>3, <1>11, <1>16, <1>18, <2>1, NodeStays
<1> QED BY <1>11, <1>14, <1>15, <1>19, <1>20, <1>21, <1>22 DEF IInv

-----------------------------------------------------------------------------
(***************************************************************************)
(* The invariant is inductive.                                             *)
(***************************************************************************)

\* A step that changes nothing keeps the invariant.
LEMMA StutterKeeps ==
  ASSUME IInv, UNCHANGED vars
  PROVE  IInv'
<1>0. /\ now' = now /\ diary' = diary /\ due' = due /\ nodes' = nodes /\ discipline' = discipline
      /\ location' = location /\ demand' = demand /\ inserted' = inserted /\ finish' = finish
      /\ arrived' = arrived /\ completions' = completions /\ responseTime' = responseTime
      /\ fate' = fate /\ asked' = asked /\ served' = served /\ stack' = stack
  BY DEF vars
<1>1. UNCHANGED <<now, diary, due, nodes, discipline, location, attributes, results, history>>
  BY <1>0 DEF attributes, results, history
<1>2. Bottom' = Bottom /\ Moving' = Moving /\ \A f, n : Pending(f, n)' <=> Pending(f, n)
  BY <1>0 DEF Bottom, Moving, Pending
<1>3. KeepsPending
  BY <1>2 DEF KeepsPending, Leaves
<1>4. CallsAreTyped'
  BY <1>0 DEF IInv, CallsAreTyped
<1>5. CallsAreInPlace'
  <2>1. CallsAreInPlace
    BY DEF IInv
  <2>2. \A n, k : Away(n, k)' <=> Away(n, k)
    BY DEF Away
  <2> QED BY <1>0, <1>2, <2>1, <2>2 DEF CallsAreInPlace
<1> QED BY <1>1, <1>2, <1>3, <1>4, <1>5, OnlyTheStack

\* The inductive invariant is kept by every step.
LEMMA StepKeeps ==
  ASSUME IInv, [Next]_vars
  PROVE  IInv'
<1>1. CASE UNCHANGED vars
  BY <1>1, StutterKeeps
<1>2. CASE go
  BY <1>2, GoKeeps
<1>3. CASE injectCustomers
  BY <1>3, InjectKeeps
<1>4. CASE scheduleArrival
  BY <1>4, ScheduleKeeps
<1>5. CASE forward
  BY <1>5, ForwardKeeps
<1>6. CASE accept_node
  BY <1>6, NodeKeeps
<1>7. CASE accept_delay
  BY <1>7, DelayKeeps
<1>8. CASE accept_served
  BY <1>8, ServedKeeps
<1>9. CASE accept_queued
  BY <1>9, QueuedKeeps
<1>10. CASE accept_lost
  BY <1>10, LostKeeps
<1>11. CASE releaseResource
  BY <1>11, ReleaseKeeps
<1>12. CASE accept_preemptive
  BY <1>12, PreemptiveKeeps
<1>13. CASE accept_sharing
  BY <1>13, SharingKeeps
<1>14. CASE endOfService
  BY <1>14, EndKeeps
<1>15. CASE nextShare
  BY <1>15, NextKeeps
<1>16. CASE accept_sink
  BY <1>16, SinkKeeps
<1>17. CASE enter_null
  BY <1>17, NullKeeps
<1> QED
  BY <1>1, <1>2, <1>3, <1>4, <1>5, <1>6, <1>7, <1>8, <1>9, <1>10, <1>11, <1>12, <1>13, <1>14,
     <1>15, <1>16, <1>17 DEF Next

\* The diary of the initial state holds the first arrival of every source.
LEMMA FirstArrivals ==
  ASSUME Init
  PROVE  /\ Ordered(diary, due) /\ Planned = {n \in Nodes : Kind[n] = "source"}
         /\ due \in [Objects -> Nat]
<1> DEFINE S == {n \in Nodes : Kind[n] = "source"}
<1>1. due \in [Objects -> Nat]
  <2>1. due \in [Objects -> Gaps]
    BY DEF Init
  <2>2. Gaps \subseteq Nat
    BY NetworkAssumption
  <2> HIDE DEF S
  <2> QED BY <2>1, <2>2
<1>2. S \subseteq Objects /\ \A x \in S : due[x] \in Int
  BY <1>1 DEF Objects
<1>3. diary = AllInOrder(due, S)
  BY DEF Init, AllInOrder
<1> HIDE DEF S
<1>4. Ordered(AllInOrder(due, S), due) /\ Members(AllInOrder(due, S)) = S
  BY <1>2, AllAreInOrder
<1> QED BY <1>1, <1>3, <1>4 DEF Planned, S

\* The invariant holds when the simulation starts.
LEMMA InitHolds ==
  ASSUME Init
  PROVE  IInv
<1>1. /\ now = 0 /\ stack = <<>> /\ completions = 0 /\ responseTime = 0
      /\ nodes = [n \in Nodes |-> newNode(n)]
      /\ discipline \in [Nodes -> Disciplines \cup {"LIFO", "finish"}]
      /\ location = [c \in Customers |-> NULL]
      /\ demand = [c \in Customers |-> 0] /\ inserted = demand /\ finish = demand
      /\ arrived = demand /\ asked = demand /\ served = demand
      /\ fate = [c \in Customers |-> "unborn"]
  BY DEF Init
<1>2. \A n \in Nodes : /\ Kind[n] = "queueing" => discipline[n] \in Disciplines
                       /\ Kind[n] = "sharing" => discipline[n] = "finish"
                       /\ Kind[n] \notin {"queueing", "sharing"} => discipline[n] = "LIFO"
  BY DEF Init
<1>3. /\ Ordered(diary, due) /\ Planned = {n \in Nodes : Kind[n] = "source"}
      /\ due \in [Objects -> Nat]
  BY FirstArrivals
<1>4. Moving = {} /\ \A f, n : ~Pending(f, n)
  BY <1>1, NothingPending
<1>5. /\ IsList(EmptyList) /\ EmptyList \in ListType /\ Chain(EmptyList) = <<>>
      /\ Len(Chain(EmptyList)) = 0 /\ Members(EmptyList) = {}
      /\ \A value : Ordered(EmptyList, value)
  BY EmptyListIsList, ListFacts
<1>6. \A n \in Nodes : /\ nodes[n] = newNode(n) /\ Servers[n] \in Nat /\ Servers[n] # 0
  BY <1>1, NetworkAssumption
<1>7. \A n \in Nodes : /\ nodes[n].queue = EmptyList /\ nodes[n].pop = 0
                       /\ nodes[n].resources = Servers[n]
                       /\ nodes[n].count.lastChange = 0 /\ nodes[n].popMeasure.lastChange = 0
                       /\ nodes[n].lastSchedule = 0 /\ ~nodes[n].failed
                       /\ nodes[n] \in NodeType
  <2> SUFFICES ASSUME NEW n \in Nodes
               PROVE  /\ newNode(n).queue = EmptyList /\ newNode(n).pop = 0
                      /\ newNode(n).resources = Servers[n]
                      /\ newNode(n).count.lastChange = 0 /\ newNode(n).popMeasure.lastChange = 0
                      /\ newNode(n).lastSchedule = 0 /\ ~newNode(n).failed
                      /\ newNode(n) \in NodeType
    BY <1>6
  <2>1. NoMeasure \in MeasureType /\ NoMeasure.lastChange = 0
    BY DEF NoMeasure, MeasureType
  <2>2. newNode(n) \in NodeType
    BY <1>5, <1>6, <2>1 DEF newNode, NodeType
  <2> QED BY <2>1, <2>2 DEF newNode
<1>8. \A n \in Nodes : Waiting(n) = {} /\ Inside(n) = {}
  BY <1>1, <1>3, <1>5, <1>7, NodesAreDistinct DEF Waiting, Inside
<1>9. Types
  BY <1>1, <1>3, <1>7 DEF Types
<1>10. CallsAreTyped /\ CallsAreInPlace
  <2>1. stack \in Seq(Calls) /\ Len(stack) = 0 /\ 1..0 = {} /\ 2..0 - 1 = {}
    BY <1>1
  <2> QED BY <1>1, <2>1 DEF CallsAreTyped, CallsAreInPlace
<1>11. DiaryInOrder
  <2>1. \A o \in Planned : o \in Objects
    BY <1>3 DEF Objects
  <2> QED BY <1>1, <1>3, <2>1 DEF DiaryInOrder
<1>12. QueuesInOrder
  <2> SUFFICES ASSUME NEW n \in Nodes
               PROVE  QueueInOrder(n)
    BY DEF QueuesInOrder
  <2>1. discipline[n] \in {"FIFO", "LIFO", "random", "priority", "finish"}
    BY <1>2, NetworkAssumption
  <2> QED BY <1>2, <1>5, <1>7, <1>8, <2>1 DEF QueueInOrder
<1>13. MomentsArePast
  BY <1>1, <1>7 DEF MomentsArePast, SoundFields
<1>14. Placed
  BY <1>1, <1>3, <1>4, <1>8, NodesAreDistinct DEF Placed
<1>15. Births
  <2>1. Unborn = Customers /\ Customers = 1..Cardinality(Customers)
        /\ Cardinality(Customers) \in Nat
    BY <1>1, NetworkAssumption, FS_CardinalityType DEF Unborn
  <2>2. 0 \in 0..Cardinality(Customers) /\ 0 + 1 = 1
    BY <2>1
  <2> QED BY <2>1, <2>2 DEF Births
<1>16. NodesAreSound
  <2> SUFFICES ASSUME NEW n \in Nodes
               PROVE  NodeIsSound(n)
    BY DEF NodesAreSound
  <2>1. SourceIsScheduled(n) /\ ~Leaves(n) /\ ~Ends(n)
    BY <1>4 DEF SourceIsScheduled, Leaves, Ends
  <2>2. Kind[n] = "sharing" => SharingIsScheduled(n)
    BY <1>3, <1>4, <1>6, <1>7, <1>8, <2>1 DEF SharingIsScheduled
  <2>3. ServersAreClaimed(n)
    <3>1. Cardinality(Inside(n)) = 0
      BY <1>8, InsideIsFinite
    <3> QED BY <1>6, <1>7, <2>1, <3>1 DEF ServersAreClaimed
  <2>4. LastIsInService(n)
    BY <1>6, <1>7 DEF LastIsInService
  <2> QED BY <1>7, <2>1, <2>2, <2>3, <2>4 DEF NodeIsSound
<1> QED BY <1>9, <1>10, <1>11, <1>12, <1>13, <1>14, <1>15, <1>16 DEF IInv

-----------------------------------------------------------------------------
(***************************************************************************)
(* What the invariant says of the network.                                 *)
(***************************************************************************)

\* A set of at most one element.
LEMMA OneOrNone ==
  ASSUME NEW S, \A x, y \in S : x = y
  PROVE  Cardinality(S) = IF S = {} THEN 0 ELSE 1
<1>1. CASE S = {}
  BY <1>1, FS_EmptySet
<1>2. CASE S # {}
  <2>1. PICK x : x \in S
    BY <1>2
  <2>2. S = {x}
    BY <2>1
  <2> QED BY <1>2, <2>2, FS_Singleton
<1> QED BY <1>1, <1>2

\* TypeOK is part of the inductive invariant.
LEMMA TypesAreCorrect ==
  ASSUME IInv
  PROVE  TypeOK
<1>1. Types /\ CallsAreTyped
  BY DEF IInv
<1>2. \A i \in DOMAIN stack : stack[i].op \in {"enter", "forward", "release", "next", "inject",
                                               "schedule", "endOfService"}
  <2>1. stack \in Seq(Calls)
    BY <1>1 DEF CallsAreTyped
  <2>2. \A i \in DOMAIN stack : stack[i] \in Calls
    BY <2>1
  <2> QED BY <2>2 DEF Calls, Ops
<1> QED BY <1>1, <1>2 DEF Types, TypeOK, NodeType, MeasureType, ListType, Places

\* A customer is in one place, and none is lost.
LEMMA PlacesAreCounted ==
  ASSUME IInv
  PROVE  CustomersAreConserved
<1>1. CallsAreTyped /\ CallsAreInPlace /\ Placed
  BY DEF IInv
<1> SUFFICES ASSUME NEW c \in Customers
             PROVE  Cardinality({i \in DOMAIN stack : stack[i].customer = c})
                    + Cardinality({n \in Nodes : c \in Members(nodes[n].queue)})
                    + (IF inService(c) THEN 1 ELSE 0)
                    = IF fate[c] = "inside" THEN 1 ELSE 0
  BY DEF CustomersAreConserved
<1> DEFINE M == {i \in DOMAIN stack : stack[i].customer = c}
           W == {n \in Nodes : c \in Members(nodes[n].queue)}
<1>2. DOMAIN stack = 1..Len(stack) /\ c # NULL
  BY <1>1, NodesAreDistinct DEF CallsAreTyped
<1>3. (M = {} <=> c \notin Moving) /\ \A x, y \in M : x = y
  BY <1>1, <1>2 DEF CallsAreInPlace, Moving
<1>4. W = {n \in Nodes : c \in Waiting(n)} /\ \A x, y \in W : x = y
  BY <1>1 DEF Placed, Waiting
<1>5. inService(c) <=> c \in Planned
  BY DEF inService, Planned
<1>6. Cardinality(M) = IF c \in Moving THEN 1 ELSE 0
  <2> HIDE DEF M
  <2> QED BY <1>3, OneOrNone
<1>7. Cardinality(W) = IF \E n \in Nodes : c \in Waiting(n) THEN 1 ELSE 0
  <2>1. W = {} <=> ~\E n \in Nodes : c \in Waiting(n)
    BY <1>4
  <2> HIDE DEF W
  <2> QED BY <1>4, <2>1, OneOrNone
<1>8. /\ c \in Moving => c \notin Planned /\ ~\E n \in Nodes : c \in Waiting(n)
      /\ c \in Planned => ~\E n \in Nodes : c \in Waiting(n)
      /\ fate[c] = "inside" <=> c \in Moving \/ c \in Planned \/ \E n \in Nodes : c \in Waiting(n)
  BY <1>1 DEF Placed
<1> HIDE DEF M, W
<1>9. Cardinality(M) + Cardinality(W) + (IF inService(c) THEN 1 ELSE 0)
      = IF fate[c] = "inside" THEN 1 ELSE 0
  <2>1. CASE c \in Moving
    <3>1. Cardinality(M) = 1 /\ Cardinality(W) = 0 /\ ~inService(c) /\ fate[c] = "inside"
      BY <1>5, <1>6, <1>7, <1>8, <2>1
    <3> QED BY <3>1
  <2>2. CASE c \in Planned
    <3>1. Cardinality(M) = 0 /\ Cardinality(W) = 0 /\ inService(c) /\ fate[c] = "inside"
      BY <1>5, <1>6, <1>7, <1>8, <2>2
    <3> QED BY <3>1
  <2>3. CASE c \notin Moving /\ c \notin Planned /\ \E n \in Nodes : c \in Waiting(n)
    <3>1. Cardinality(M) = 0 /\ Cardinality(W) = 1 /\ ~inService(c) /\ fate[c] = "inside"
      BY <1>5, <1>6, <1>7, <1>8, <2>3
    <3> QED BY <3>1
  <2>4. CASE c \notin Moving /\ c \notin Planned /\ ~\E n \in Nodes : c \in Waiting(n)
    <3>1. Cardinality(M) = 0 /\ Cardinality(W) = 0 /\ ~inService(c) /\ fate[c] # "inside"
      BY <1>5, <1>6, <1>7, <1>8, <2>4
    <3> QED BY <3>1
  <2> QED BY <2>1, <2>2, <2>3, <2>4
<1> QED BY <1>9 DEF M, W

\* Walking a list visits its entries and ends at lastNode.
LEMMA ListIsWellFormed ==
  ASSUME NEW l, IsList(l)
  PROVE  WellFormed(l, Cardinality(Members(l))) /\ Cardinality(Members(l)) = Len(Chain(l))
<1> DEFINE s == Chain(l)
<1>1. /\ Len(s) \in Nat /\ Cardinality(Members(l)) = Len(s)
      /\ Len(s) = 0 <=> Members(l) = {}
      /\ Members(l) # {} => l.last = s[Len(s)] /\ l.next[l.last] = NULL
  BY ListFacts
<1>2. s # <<>> => Len(s) # 0
  <2>1. s \in Seq(Objects)
    BY DEF IsList, Represents
  <2> HIDE DEF s
  <2> QED BY <2>1
<1>3. s # <<>> => l.last = Last(s) /\ l.next[l.last] = NULL
  BY <1>1, <1>2 DEF Last
<1> QED BY <1>1, <1>3 DEF WellFormed

\* All the lists are well formed, and a queue is as long as it says.
LEMMA AllListsAreWellFormed ==
  ASSUME IInv
  PROVE  ListsAreWellFormed
<1>1. IsList(diary)
  BY DEF IInv, DiaryInOrder, Ordered
<1>2. ASSUME NEW n \in Nodes
      PROVE  WellFormed(nodes[n].queue, nodes[n].pop)
  <2>1. IsList(nodes[n].queue) /\ nodes[n].pop = Len(Chain(nodes[n].queue))
    BY InvFacts
  <2> QED BY <2>1, ListIsWellFormed
<1> QED BY <1>1, <1>2, ListIsWellFormed DEF ListsAreWellFormed

\* A customer on its way out of a queueing node, or out of a sharing node, is so
\* in the call that the event ends with.
LEMMA LeavingIsTheBottom ==
  ASSUME CallsAreTyped, CallsAreInPlace, NEW n \in Nodes, NEW i \in 1..Len(stack),
         stack[i].node = n,
         \/ stack[i].op \in {"release", "next", "endOfService"}
         \/ stack[i].op = "forward" /\ Kind[n] \in {"queueing", "preemptive"}
  PROVE  i = Len(stack) /\ stack # <<>>
<1>1. Len(stack) \in Nat /\ i \in Nat /\ i >= 1 /\ i <= Len(stack) /\ stack # <<>>
  BY DEF CallsAreTyped
<1>2. CASE i \in 2..Len(stack) - 1
  BY <1>2 DEF CallsAreInPlace
<1>3. CASE i = 1 /\ Len(stack) > 1
  <2>1. stack[1].op = "forward" /\ Kind[n] \in {"queueing", "preemptive"}
    BY <1>3 DEF CallsAreInPlace
  <2> QED BY <1>1, <1>3, <2>1 DEF CallsAreInPlace
<1> QED BY <1>1, <1>2, <1>3

\* A resource is claimed for every customer in service and for one on its way out.
LEMMA ResourcesAreCounted ==
  ASSUME IInv
  PROVE  ResourcesMatchCustomers
<1>1. CallsAreTyped /\ CallsAreInPlace /\ NodesAreSound
  BY DEF IInv
<1> DEFINE leaving(n) == {i \in DOMAIN stack :
                            /\ stack[i].node = n
                            /\ stack[i].op \in {"release", "next", "endOfService"}
                               \cup (IF Kind[n] = "sharing" THEN {} ELSE {"forward"})}
           inside(n) == {c \in Customers : inService(c) /\ location[c] = n}
<1>2. DOMAIN stack = 1..Len(stack) /\ Len(stack) \in Nat
  BY <1>1 DEF CallsAreTyped
<1>3. ASSUME NEW n \in Nodes
      PROVE  inside(n) = Inside(n)
  BY DEF inService, Inside, Planned
<1>4. stack # <<>> => Len(stack) \in 1..Len(stack)
  BY <1>1, StackFacts
<1>5. ASSUME NEW n \in Nodes, Kind[n] \in {"queueing", "preemptive"}
      PROVE  Servers[n] - nodes[n].resources = Cardinality(inside(n)) + Cardinality(leaving(n))
  <2>1. \A i \in leaving(n) : i = Len(stack) /\ stack # <<>>
    <3> SUFFICES ASSUME NEW i \in leaving(n)
                 PROVE  i = Len(stack) /\ stack # <<>>
      OBVIOUS
    <3>1. i \in 1..Len(stack) /\ stack[i].node = n
      BY <1>2
    <3>2. \/ stack[i].op \in {"release", "next", "endOfService"}
          \/ stack[i].op = "forward" /\ Kind[n] \in {"queueing", "preemptive"}
      BY <1>5
    <3> HIDE DEF leaving
    <3> QED BY <1>1, <3>1, <3>2, LeavingIsTheBottom
  <2>2. leaving(n) = {} <=> ~Leaves(n)
    <3>1. ASSUME NEW i \in leaving(n)
          PROVE  Leaves(n)
      <4>1. i = Len(stack) /\ stack # <<>> /\ stack[i].node = n /\ i \in 1..Len(stack)
        BY <1>2, <2>1
      <4>2. stack[i].op \notin {"next", "endOfService"}
        BY <1>1, <1>5, <4>1 DEF CallsAreTyped
      <4>3. stack[i].op \in {"release", "forward"}
        BY <4>2
      <4> QED BY <4>1, <4>3 DEF Leaves, Pending, Bottom
    <3>2. Leaves(n) => Len(stack) \in leaving(n)
      BY <1>2, <1>4, <1>5 DEF Leaves, Pending, Bottom
    <3> QED BY <3>1, <3>2
  <2> DEFINE L == leaving(n)
  <2> HIDE DEF leaving
  <2>3. Cardinality(L) = IF L = {} THEN 0 ELSE 1
    <3>1. \A x, y \in L : x = y
      BY <2>1
    <3> HIDE DEF L
    <3> QED BY <3>1, OneOrNone
  <2>4. Servers[n] = nodes[n].resources + Cardinality(Inside(n)) + IF Leaves(n) THEN 1 ELSE 0
    BY <1>1, <1>5 DEF NodesAreSound, NodeIsSound, ServersAreClaimed
  <2>5. nodes[n].resources \in Nat /\ Cardinality(Inside(n)) \in Nat
    BY InvFacts, InsideIsFinite DEF SoundNode, NodeType
  <2>6. inside(n) = Inside(n)
    BY <1>3
  <2> HIDE DEF inside
  <2> QED BY <2>2, <2>3, <2>4, <2>5, <2>6
<1>6. ASSUME NEW n \in Nodes, Kind[n] = "sharing"
      PROVE  (nodes[n].resources = 0) = (nodes[n].pop > 0 \/ leaving(n) # {})
  <2>1. \A i \in leaving(n) : i = Len(stack) /\ stack # <<>>
    BY <1>1, <1>2, <1>6, LeavingIsTheBottom
  <2>2. leaving(n) = {} <=> ~Ends(n)
    <3>1. ASSUME NEW i \in leaving(n)
          PROVE  Ends(n)
      <4>1. i = Len(stack) /\ stack # <<>> /\ stack[i].node = n /\ i \in 1..Len(stack)
        BY <1>2, <2>1
      <4>2. stack[i].op # "release"
        BY <1>1, <1>6, <4>1 DEF CallsAreTyped
      <4>3. stack[i].op \in {"next", "endOfService"}
        BY <1>6, <4>2
      <4> QED BY <4>1, <4>3 DEF Ends, Pending, Bottom
    <3>2. Ends(n) => Len(stack) \in leaving(n)
      BY <1>2, <1>4, <1>6 DEF Ends, Pending, Bottom
    <3> QED BY <3>1, <3>2
  <2>3. nodes[n].resources = 0 <=> Ends(n) \/ nodes[n].pop > 0
    BY <1>1, <1>6 DEF NodesAreSound, NodeIsSound, SharingIsScheduled
  <2> HIDE DEF leaving
  <2> QED BY <2>2, <2>3
<1> QED BY <1>5, <1>6 DEF ResourcesMatchCustomers

\* No resource is free where a customer waits.
LEMMA ServersDoNotIdle ==
  ASSUME IInv
  PROVE  NoIdleServerWithAQueue
<1> SUFFICES ASSUME NEW n \in Nodes, nodes[n].pop > 0
             PROVE  nodes[n].resources = 0
  BY DEF NoIdleServerWithAQueue
<1>1. NodeIsSound(n) /\ nodes[n].pop # 0
  BY InvFacts
<1> QED BY <1>1 DEF NodeIsSound, SharingIsScheduled, ServersAreClaimed

\* Queues with an order stay in it.
LEMMA QueuesStaySorted ==
  ASSUME IInv
  PROVE  QueuesAreSorted
<1> SUFFICES ASSUME NEW n \in Nodes, NEW i \in 1..Len(Chain(nodes[n].queue)) - 1
             PROVE  LET s == Chain(nodes[n].queue)
                    IN /\ discipline[n] = "priority" => Rank[s[i]] <= Rank[s[i + 1]]
                       /\ discipline[n] = "finish" => finish[s[i]] <= finish[s[i + 1]]
  BY DEF QueuesAreSorted
<1> DEFINE s == Chain(nodes[n].queue)
<1>1. /\ IsList(nodes[n].queue)
      /\ discipline[n] = "finish" => Sorted(s, finish)
      /\ discipline[n] = "priority" => Sorted(s, Rank)
  BY InvFacts DEF QueueInOrder, Ordered
<1>2. Len(s) \in Nat
  BY <1>1, ListFacts
<1> HIDE DEF s
<1>3. i \in 1..Len(s) /\ i + 1 \in 1..Len(s) /\ i <= i + 1
  BY <1>2 DEF s
<1>4. /\ discipline[n] = "priority" => Rank[s[i]] <= Rank[s[i + 1]]
      /\ discipline[n] = "finish" => finish[s[i]] <= finish[s[i + 1]]
  BY <1>1, <1>3 DEF Sorted
<1> QED BY <1>4 DEF s

\* What the inductive invariant says of the network.
LEMMA InvImpliesConsistent ==
  ASSUME IInv
  PROVE  NetworkIsConsistent
<1>1. ChecksHold
  BY DEF IInv, MomentsArePast, SoundFields, ChecksHold
<1> QED
  BY <1>1, TypesAreCorrect, PlacesAreCounted, AllListsAreWellFormed, ResourcesAreCounted,
     ServersDoNotIdle, QueuesStaySorted DEF NetworkIsConsistent

\* The simulator keeps its network consistent: customers are conserved, the
\* linked lists and the queues keep their order, resources are claimed for the
\* customers in service and no Check of the source fails.
THEOREM NetworkStaysConsistent == Spec => []NetworkIsConsistent
<1>1. Init => IInv
  BY InitHolds
<1>2. IInv /\ [Next]_vars => IInv'
  BY StepKeeps
<1>3. IInv => NetworkIsConsistent
  BY InvImpliesConsistent
<1> QED BY <1>1, <1>2, <1>3, PTL DEF Spec

-----------------------------------------------------------------------------
(***************************************************************************)
(* The diary as an event calendar.                                         *)
(***************************************************************************)

\* What the calendar has to come: the events in the diary, with their times.
Planning == {<<o, due[o]>> : o \in Planned}

\* The simulator takes the next event of its diary as the calendar does.
LEMMA GoTakesTheNext ==
  ASSUME IInv, go
  PROVE  Calendar!Take
<1>1. Ordered(diary, due) /\ \A o \in Planned : now <= due[o]
  BY DEF IInv, DiaryInOrder
<1>2. diary.first # NULL /\ now' = due[diary.first] /\ diary' = removeFromFront(diary) /\ due' = due
  BY DEF go
<1> DEFINE e == diary.first
<1>3. IsList(diary) /\ Members(diary) # {}
  BY <1>1, <1>2, ListFacts DEF Ordered
<1>4. e \in Planned /\ Planned' = Planned \ {e}
  <2>1. Shrunk(removeFromFront(diary), diary, diary.first) /\ diary.first \in Members(diary)
    BY <1>3, FrontIsRemoved, ListFacts
  <2> QED BY <1>2, <2>1 DEF Shrunk, Planned
<1>5. \A o \in Planned : due[e] <= due[o]
  BY <1>1, FirstIsLeast DEF Planned
<1> HIDE DEF e
<1>6. Planning' = Planning \ {<<e, due[e]>>}
  <2>1. Planning' = {<<o, due[o]>> : o \in Planned \ {e}}
    BY <1>2, <1>4 DEF Planning
  <2> QED BY <2>1 DEF Planning
<1>7. <<e, due[e]>> \in Planning /\ now <= due[e] /\ \A f \in Planning : due[e] <= f[2]
  BY <1>1, <1>4, <1>5 DEF Planning
<1>8. now' = due[e]
  BY <1>2 DEF e
<1>9. \E p \in Planning : /\ Planning' = Planning \ {p}
                          /\ \A f \in Planning : p[2] <= f[2]
                          /\ now <= p[2] /\ now' = p[2]
  <2> DEFINE p == <<e, due[e]>>
  <2>1. p \in Planning /\ p[2] = due[e]
    BY <1>7
  <2> QED BY <1>6, <1>7, <1>8, <2>1
<1> QED BY <1>9 DEF Calendar!Take, Planning, Planned

\* Every other step plans events for the present or the future, or calls some off.
LEMMA OthersPlan ==
  ASSUME IInv', now' = now
  PROVE  Calendar!Plan
<1>1. \A o \in Planned' : now <= due'[o]
  BY DEF IInv, DiaryInOrder
<1>2. \A p \in Planning' : now <= p[2]
  BY <1>1 DEF Planning
<1> QED BY <1>2 DEF Calendar!Plan, Planning, Planned

\* Events are taken in the order of their times, the clock never runs backwards and
\* nothing is ever planned for the past: the diary implements the event calendar.
THEOREM DiaryImplementsACalendar == Spec => DiaryIsACalendar
<1>1. Init => Calendar!Init
  <2> SUFFICES ASSUME Init PROVE Calendar!Init
    OBVIOUS
  <2>1. now = 0
    BY DEF Init
  <2>2. Planned \subseteq Objects /\ due \in [Objects -> Nat]
    BY FirstArrivals DEF Objects
  <2>3. Planning \in SUBSET (Objects \X Nat)
    BY <2>2 DEF Planning
  <2> QED BY <2>1, <2>3 DEF Calendar!Init, Planning, Planned
<1>2. IInv /\ [Next]_vars => IInv'
  BY StepKeeps
<1>3. IInv /\ IInv' /\ [Next]_vars => [Calendar!Next]_Calendar!vars
  <2> SUFFICES ASSUME IInv, IInv', [Next]_vars
               PROVE  Calendar!Next
    OBVIOUS
  <2>1. CASE go
    BY <2>1, GoTakesTheNext DEF Calendar!Next
  <2>2. CASE ~go
    <3>1. now' = now
      BY <2>2 DEF Next, vars, injectCustomers, scheduleArrival, forward, accept_node, accept_delay,
         accept_served, accept_queued, accept_lost, releaseResource, accept_preemptive,
         accept_sharing, endOfService, nextShare, accept_sink, enter_null
    <3> QED BY <3>1, OthersPlan DEF Calendar!Next
  <2> QED BY <2>1, <2>2
<1>4. Init => IInv
  BY InitHolds
<1> QED BY <1>1, <1>2, <1>3, <1>4, PTL DEF Spec, DiaryIsACalendar, Calendar!Spec
=============================================================================
