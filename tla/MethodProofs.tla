---------------------------- MODULE MethodProofs ----------------------------
(***************************************************************************)
(* Methods that are profiled and methods that a performance model stands   *)
(* for, for all methods, threads, networks and configurations.  The method *)
(* log of a thread stays sound however many exceptions leave calls that    *)
(* VEX is not told of; customers of a performance model keep their place,  *)
(* and a modelled method takes at least the time of its model.             *)
(***************************************************************************)
EXTENDS MethodProfiling, ModelSimulation, FiniteSetTheorems, SequenceTheorems,
        WellFoundedInduction, TLAPS

Frame == [method : Methods, logged : BOOLEAN]
Activity == {Runs, Ended, Crashed} \cup ({"invalidate", "reinstrument"} \X Methods)

\* The keys of measures: a method, or a stack trace, and never the empty one.
Paths == Seq(Methods) \ {<<>>}

\* No counter of a is ahead of that of b.
Behind(a, b) == \A c \in Counters : a[c] <= b[c]

\* The entries of the log that stack s refers to, with n in use, c the current one
\* and k the clock.  A call has no more time in its callees than passed since
\* its entry, and no more than passed until the entry of the call above it: the
\* caller learns of its callees from the times of the call that returns, which
\* need not be the one above it.
LogFits(info, n, s, c, k) ==
  /\ info \in Seq(Info) /\ n \in 0..Len(info) /\ s \in Seq(1..n) /\ k \in Time
  /\ \A i, j \in 1..Len(s) : i < j => s[i] < s[j]
  /\ c = IF s = <<>> THEN 0 ELSE s[Len(s)]
  /\ \A i \in 1..Len(s) :
       /\ Behind(Plus(info[s[i]].entry, info[s[i]].callee), k)
       /\ i < Len(s) => Behind(Plus(info[s[i]].entry, info[s[i]].callee), info[s[i + 1]].entry)
  /\ tracing => \A i \in 1..Len(info) : info[i].trace # <<>>

\* What the log, the timers and the measures of a thread are.
ThreadFits(t) ==
  /\ LogFits(storage[t], next[t], stack[t], current[t], clock[t])
  /\ frames[t] \in Seq(Frame) /\ activity[t] \in Activity
  /\ factor[t] \in Nat \ {0} /\ trace[t] \in Seq(Methods)
  /\ \A k \in DOMAIN measures[t] : k \in Paths /\ measures[t][k] \in Measure

\* The variables indexed by thread are functions of the threads.
Indexed ==
  /\ frames = [t \in ProfiledThreads |-> frames[t]]
  /\ activity = [t \in ProfiledThreads |-> activity[t]]
  /\ clock = [t \in ProfiledThreads |-> clock[t]]
  /\ storage = [t \in ProfiledThreads |-> storage[t]]
  /\ next = [t \in ProfiledThreads |-> next[t]]
  /\ stack = [t \in ProfiledThreads |-> stack[t]]
  /\ current = [t \in ProfiledThreads |-> current[t]]
  /\ factor = [t \in ProfiledThreads |-> factor[t]]
  /\ trace = [t \in ProfiledThreads |-> trace[t]]
  /\ measures = [t \in ProfiledThreads |-> measures[t]]

LoggerFits ==
  /\ \A k \in DOMAIN merged : k \in Paths /\ merged[k] \in Measure
  /\ known \subseteq Methods /\ invalidated \subseteq Methods /\ recursive \subseteq Methods
  /\ adapted \subseteq Methods

ProfileInv ==
  /\ <<tracing, policy>> \in Configurations
  /\ Indexed
  /\ \A t \in ProfiledThreads : ThreadFits(t)
  /\ LoggerFits
-----------------------------------------------------------------------------
LEMMA Sums ==
  ASSUME NEW a \in Time, NEW b \in Time
  PROVE  /\ Plus(a, b) \in Time /\ NoTime \in Time
         /\ \A c \in Counters : a[c] \in Nat /\ Plus(a, b)[c] = a[c] + b[c] /\ NoTime[c] = 0
         /\ \A c \in Counters : Minus(a, b)[c] = a[c] - b[c]
         /\ Behind(b, a) => Minus(a, b) \in Time
<1>1. \A c \in Counters : a[c] \in Nat /\ b[c] \in Nat
  BY DEF Time
<1>2. \A c \in Counters : a[c] + b[c] \in Nat /\ (b[c] <= a[c] => a[c] - b[c] \in Nat)
  BY <1>1
<1> QED BY <1>1, <1>2 DEF Plus, Minus, NoTime, Behind, Time

\* A nonempty set of positions on a stack has a last one.
LEMMA LastOfSome ==
  ASSUME NEW n \in Nat, NEW S, S \subseteq 1..n, S # {}
  PROVE  \E i \in S : \A j \in S : j <= i
<1> DEFINE Above == {n - i : i \in S}
<1>1. Above \subseteq Nat /\ Above # {}
  <2>1. \A i \in S : i \in 1..n /\ n - i \in Nat
    OBVIOUS
  <2> QED BY <2>1
<1>2. \E m \in Above : \A k \in Above : ~(<<k, m>> \in OpToRel(<, Nat))
  <2> HIDE DEF Above
  <2> QED BY <1>1, WFMin, NatLessThanWellFounded
<1>3. PICK m \in Above : \A k \in Above : ~(<<k, m>> \in OpToRel(<, Nat))
  BY <1>2
<1>4. PICK i \in S : m = n - i
  OBVIOUS
<1>5. ASSUME NEW j \in S
      PROVE  j <= i
  <2>1. n - j \in Nat /\ m \in Nat /\ n - j \in Above
    BY <1>1
  <2>2. n - j < m => <<n - j, m>> \in OpToRel(<, Nat)
    <3> HIDE DEF Above
    <3>1. /\ <<n - j, m>> \in Nat \X Nat
          /\ <<n - j, m>>[1] < <<n - j, m>>[2] <=> n - j < m
      BY <2>1
    <3> QED BY <3>1, Zenon DEF OpToRel
  <2>3. ~(n - j < m)
    BY <1>3, <2>1, <2>2
  <2> QED BY <1>4, <2>1, <2>3
<1> QED BY <1>5

\* A new entry takes the next place of the log.
LEMMA EntryFits ==
  ASSUME NEW info, NEW n, NEW s, NEW c, NEW k, LogFits(info, n, s, c, k),
         NEW e \in Info, e.entry = k, e.callee = NoTime, tracing => e.trace # <<>>,
         NEW new, new = IF n < Len(info) THEN [info EXCEPT ![n + 1] = e] ELSE Append(info, e)
  PROVE  LogFits(new, n + 1, Append(s, n + 1), n + 1, k)
<1> DEFINE top == Append(s, n + 1)
<1>0. info \in Seq(Info) /\ n \in 0..Len(info) /\ n \in Nat /\ Len(info) \in Nat
      /\ s \in Seq(1..n) /\ k \in Time
  BY DEF LogFits
<1>1. /\ new \in Seq(Info) /\ n + 1 \in 0..Len(new)
      /\ new[n + 1] = e
      /\ \A i \in 1..Len(info) : i # n + 1 => new[i] = info[i]
      /\ Len(new) = IF n < Len(info) THEN Len(info) ELSE Len(info) + 1
  <2>1. CASE n < Len(info)
    <3>1. n + 1 \in 1..Len(info)
      BY <1>0, <2>1
    <3> QED BY <1>0, <2>1, <3>1, ExceptSeq
  <2>2. CASE ~(n < Len(info))
    BY <1>0, <2>2, AppendProperties
  <2> QED BY <2>1, <2>2
<1>2. /\ \A i \in 1..Len(s) : s[i] \in 1..n
      /\ Len(s) \in Nat
  BY <1>0, ElementOfSeq, LenProperties
<1>3. s \in Seq(1..(n + 1))
  BY <1>0, SeqMonotonic
<1>4. /\ top \in Seq(1..(n + 1)) /\ Len(top) = Len(s) + 1
      /\ \A i \in 1..Len(s) : top[i] = s[i] /\ top[i] \in 1..n
      /\ top[Len(s) + 1] = n + 1
      /\ top # <<>>
  BY <1>0, <1>2, <1>3, AppendProperties
<1> HIDE DEF top
<1>5. \A i, j \in 1..Len(top) : i < j => top[i] < top[j]
  <2> SUFFICES ASSUME NEW i \in 1..Len(top), NEW j \in 1..Len(top), i < j PROVE top[i] < top[j]
    OBVIOUS
  <2>1. i \in 1..Len(s)
    BY <1>2, <1>4
  <2>2. CASE j \in 1..Len(s)
    BY <1>4, <2>1, <2>2 DEF LogFits
  <2>3. CASE j = Len(s) + 1
    BY <1>0, <1>4, <2>1, <2>3
  <2> QED BY <1>2, <1>4, <2>2, <2>3
<1>6. \A i \in 1..Len(s) : new[top[i]] = info[s[i]]
  <2> SUFFICES ASSUME NEW i \in 1..Len(s) PROVE new[top[i]] = info[s[i]]
    OBVIOUS
  <2>1. top[i] = s[i] /\ s[i] \in 1..n
    BY <1>2, <1>4
  <2>2. n \in Nat /\ Len(info) \in Nat /\ n <= Len(info)
    BY <1>0
  <2>3. s[i] \in 1..Len(info) /\ s[i] # n + 1
    BY <2>1, <2>2
  <2>4. new[s[i]] = info[s[i]]
    BY <1>1, <2>3
  <2> QED BY <2>1, <2>4
<1>7. \A i \in 1..Len(s) : Behind(Plus(info[s[i]].entry, info[s[i]].callee), k)
  BY DEF LogFits
<1>8. Behind(Plus(e.entry, e.callee), k)
  <2>1. e.entry \in Time /\ e.callee \in Time
    BY DEF Info
  <2>2. \A x \in Counters : k[x] \in Nat /\ Plus(e.entry, e.callee)[x] = k[x] + 0
    BY <1>0, <2>1, Sums
  <2> QED BY <2>2 DEF Behind
<1>9. ASSUME NEW i \in 1..Len(top)
      PROVE  /\ Behind(Plus(new[top[i]].entry, new[top[i]].callee), k)
             /\ i < Len(top) => Behind(Plus(new[top[i]].entry, new[top[i]].callee),
                                       new[top[i + 1]].entry)
  <2>1. CASE i = Len(s) + 1
    BY <1>1, <1>4, <1>8, <2>1
  <2>2. CASE i = Len(s)
    <3>1. i \in 1..Len(s)
      BY <1>2, <2>2
    <3>2. new[top[i + 1]].entry = k
      BY <1>1, <1>4, <2>2
    <3> QED BY <1>6, <1>7, <3>1, <3>2
  <2>3. CASE i < Len(s)
    <3>1. i \in 1..Len(s) /\ i + 1 \in 1..Len(s)
      BY <1>2, <2>3
    <3>2. Behind(Plus(info[s[i]].entry, info[s[i]].callee), info[s[i + 1]].entry)
      BY <2>3, <3>1 DEF LogFits
    <3> QED BY <1>6, <1>7, <3>1, <3>2
  <2>4. i = Len(s) + 1 \/ i = Len(s) \/ i < Len(s)
    BY <1>2, <1>4
  <2> QED BY <2>1, <2>2, <2>3, <2>4
<1>10. tracing => \A i \in 1..Len(new) : new[i].trace # <<>>
  <2> SUFFICES ASSUME tracing, NEW i \in 1..Len(new) PROVE new[i].trace # <<>>
    OBVIOUS
  <2>1. CASE i = n + 1
    BY <1>1, <2>1
  <2>2. CASE i # n + 1
    <3>1. i \in 1..Len(info)
      BY <1>0, <1>1, <2>2
    <3> QED BY <1>1, <2>2, <3>1 DEF LogFits
  <2> QED BY <2>1, <2>2
<1>11. n + 1 = top[Len(top)]
  BY <1>4
<1>12. LogFits(new, n + 1, top, n + 1, k)
  BY <1>0, <1>1, <1>4, <1>5, <1>9, <1>10, <1>11 DEF LogFits
<1> QED BY <1>12 DEF top

\* An exit drops the entries above the one it finds and gives one of them back:
\* the others are not reused, because they keep their places below it.
LEMMA ExitFits ==
  ASSUME NEW info, NEW n, NEW s, NEW c, NEW k, LogFits(info, n, s, c, k),
         NEW i \in 1..Len(s), NEW calling, calling = (IF i > 1 THEN s[i - 1] ELSE 0),
         NEW incl, incl = Minus(k, info[s[i]].entry),
         NEW new, new = [x \in DOMAIN info |-> IF x = calling THEN updateCalleeTime(info[x], incl)
                                               ELSE info[x]]
  PROVE  /\ LogFits(new, n - 1, SubSeq(s, 1, i - 1), calling, k)
         /\ incl \in Time /\ Minus(incl, info[s[i]].callee) \in Time
<1> DEFINE rest == SubSeq(s, 1, i - 1)
<1>0. info \in Seq(Info) /\ n \in 0..Len(info) /\ n \in Nat /\ Len(info) \in Nat
      /\ s \in Seq(1..n) /\ k \in Time /\ Len(s) \in Nat /\ i \in Nat /\ i >= 1 /\ i <= Len(s)
  BY DEF LogFits
<1>1. /\ \A j \in 1..Len(s) : s[j] \in 1..n /\ s[j] \in 1..Len(info) /\ info[s[j]] \in Info
      /\ \A j \in 1..Len(s) : j < i => s[j] < s[i]
      /\ DOMAIN info = 1..Len(info)
  <2>1. \A j \in 1..Len(s) : s[j] \in 1..n /\ s[j] \in 1..Len(info)
    BY <1>0, ElementOfSeq
  <2> QED BY <1>0, <2>1, ElementOfSeq, LenProperties DEF LogFits
<1>2. \A e \in Info : e.entry \in Time /\ e.callee \in Time
  BY DEF Info
<1>3. \A j \in 1..Len(s) : \A x \in Counters :
        /\ info[s[j]].entry[x] \in Nat /\ info[s[j]].callee[x] \in Nat /\ k[x] \in Nat
        /\ Plus(info[s[j]].entry, info[s[j]].callee)[x] = info[s[j]].entry[x] + info[s[j]].callee[x]
        /\ info[s[j]].entry[x] + info[s[j]].callee[x] <= k[x]
  <2> SUFFICES ASSUME NEW j \in 1..Len(s), NEW x \in Counters
               PROVE  /\ info[s[j]].entry[x] \in Nat /\ info[s[j]].callee[x] \in Nat /\ k[x] \in Nat
                      /\ Plus(info[s[j]].entry, info[s[j]].callee)[x]
                           = info[s[j]].entry[x] + info[s[j]].callee[x]
                      /\ info[s[j]].entry[x] + info[s[j]].callee[x] <= k[x]
    OBVIOUS
  <2>1. info[s[j]].entry \in Time /\ info[s[j]].callee \in Time
    BY <1>1, <1>2
  <2>2. Behind(Plus(info[s[j]].entry, info[s[j]].callee), k)
    BY DEF LogFits
  <2>3. k[x] \in Nat
    BY <1>0, Sums
  <2> QED BY <2>1, <2>2, <2>3, Sums DEF Behind
<1>4. /\ incl \in Time /\ \A x \in Counters : incl[x] = k[x] - info[s[i]].entry[x]
  <2>1. info[s[i]].entry \in Time /\ Behind(info[s[i]].entry, k)
    BY <1>1, <1>2, <1>3 DEF Behind
  <2> QED BY <1>0, <2>1, Sums
<1>5. Minus(incl, info[s[i]].callee) \in Time
  <2>1. info[s[i]].callee \in Time /\ Behind(info[s[i]].callee, incl)
    BY <1>1, <1>2, <1>3, <1>4 DEF Behind
  <2> QED BY <1>4, <2>1, Sums
<1>6. /\ Len(rest) = i - 1 /\ rest \in Seq(1..(n - 1))
      /\ \A j \in 1..(i - 1) : rest[j] = s[j]
  <2>0. n \in Nat /\ Len(s) \in Nat /\ i \in Nat /\ i <= Len(s)
    BY <1>0
  <2>1. \A j \in 1..(i - 1) : s[j] \in 1..(n - 1)
    <3> SUFFICES ASSUME NEW j \in 1..(i - 1) PROVE s[j] \in 1..(n - 1)
      OBVIOUS
    <3>1. j \in 1..Len(s) /\ j < i
      BY <2>0
    <3>2. s[j] \in 1..n /\ s[i] \in 1..n /\ s[j] < s[i]
      BY <1>1, <3>1
    <3> QED BY <2>0, <3>2
  <2> QED BY <1>0, <2>1, SubSeqProperties
<1>7. n - 1 \in 0..Len(info)
  <2>1. s[i] \in 1..n
    BY <1>1
  <2> QED BY <1>0, <2>1
<1> HIDE DEF rest
<1>8. \A x \in 1..Len(info) :
        /\ new[x] \in Info /\ new[x].entry = info[x].entry /\ new[x].trace = info[x].trace
        /\ new[x].callee = IF x = calling THEN Plus(info[x].callee, incl) ELSE info[x].callee
  <2> SUFFICES ASSUME NEW x \in 1..Len(info)
               PROVE  /\ new[x] \in Info /\ new[x].entry = info[x].entry
                      /\ new[x].trace = info[x].trace
                      /\ new[x].callee = IF x = calling THEN Plus(info[x].callee, incl)
                                         ELSE info[x].callee
    OBVIOUS
  <2>1. info[x] \in Info
    BY <1>0, ElementOfSeq
  <2>2. Plus(info[x].callee, incl) \in Time
    BY <1>2, <1>4, <2>1, Sums
  <2>3. new[x] = IF x = calling THEN [info[x] EXCEPT !.callee = Plus(info[x].callee, incl)]
                 ELSE info[x]
    BY <1>1 DEF updateCalleeTime
  <2>4. CASE x = calling
    <3>1. new[x] = [info[x] EXCEPT !.callee = Plus(info[x].callee, incl)]
      BY <2>3, <2>4
    <3> HIDE <2>3
    <3>2. [info[x] EXCEPT !.callee = Plus(info[x].callee, incl)] \in Info
      BY <2>1, <2>2 DEF Info
    <3>3. /\ new[x].entry = info[x].entry /\ new[x].trace = info[x].trace
          /\ new[x].callee = Plus(info[x].callee, incl)
      BY <2>1, <3>1 DEF Info
    <3> QED BY <2>4, <3>1, <3>2, <3>3
  <2>5. CASE x # calling
    BY <2>1, <2>3, <2>5
  <2> QED BY <2>4, <2>5
<1>9. new \in Seq(Info) /\ Len(new) = Len(info)
  <2>1. new \in [1..Len(info) -> Info]
    BY <1>1, <1>8
  <2> QED BY <1>0, <2>1
<1>10. calling = IF rest = <<>> THEN 0 ELSE rest[Len(rest)]
  BY <1>0, <1>6
<1>11. \A j, m \in 1..Len(rest) : j < m => rest[j] < rest[m]
  <2> SUFFICES ASSUME NEW j \in 1..Len(rest), NEW m \in 1..Len(rest), j < m
               PROVE  rest[j] < rest[m]
    OBVIOUS
  <2>0. Len(s) \in Nat /\ i \in Nat /\ i <= Len(s) /\ Len(rest) = i - 1
    BY <1>0, <1>6
  <2>1. j \in 1..(i - 1) /\ m \in 1..(i - 1) /\ j \in 1..Len(s) /\ m \in 1..Len(s)
    BY <2>0
  <2>2. s[j] < s[m]
    BY <2>1 DEF LogFits
  <2> QED BY <1>6, <2>1, <2>2
<1>12. ASSUME NEW j \in 1..Len(rest)
       PROVE  /\ Behind(Plus(new[rest[j]].entry, new[rest[j]].callee), k)
              /\ j < Len(rest) => Behind(Plus(new[rest[j]].entry, new[rest[j]].callee),
                                         new[rest[j + 1]].entry)
  <2>0. j \in 1..(i - 1) /\ j \in 1..Len(s) /\ rest[j] = s[j] /\ s[j] \in 1..Len(info)
    <3>1. Len(s) \in Nat /\ i \in Nat /\ i <= Len(s) /\ Len(rest) = i - 1
      BY <1>0, <1>6
    <3>2. j \in 1..(i - 1) /\ j \in 1..Len(s)
      BY <3>1
    <3> QED BY <1>1, <1>6, <3>2
  <2>1. CASE j = i - 1
    <3>1. s[j] = calling
      BY <1>0, <2>0, <2>1
    <3>2. i \in 1..Len(s) /\ j + 1 = i /\ j < Len(s)
      BY <1>0, <2>1
    <3>3. Behind(Plus(info[s[j]].entry, info[s[j]].callee), info[s[i]].entry)
      BY <2>0, <3>2 DEF LogFits
    <3>4. \A x \in Counters :
            info[s[j]].entry[x] + info[s[j]].callee[x] <= info[s[i]].entry[x]
      BY <1>3, <2>0, <3>3 DEF Behind
    <3>5. new[s[j]].entry = info[s[j]].entry /\ new[s[j]].callee = Plus(info[s[j]].callee, incl)
      BY <1>8, <2>0, <3>1
    <3>6. info[s[j]].callee \in Time /\ info[s[j]].entry \in Time
      BY <1>1, <1>2, <2>0
    <3>7. Plus(info[s[j]].callee, incl) \in Time
          /\ \A x \in Counters : Plus(info[s[j]].callee, incl)[x]
               = info[s[j]].callee[x] + (k[x] - info[s[i]].entry[x])
      BY <1>4, <3>6, Sums
    <3>8. \A x \in Counters : Plus(info[s[j]].entry, Plus(info[s[j]].callee, incl))[x]
             = info[s[j]].entry[x] + (info[s[j]].callee[x] + (k[x] - info[s[i]].entry[x]))
      BY <3>6, <3>7, Sums
    <3>9. Behind(Plus(info[s[j]].entry, Plus(info[s[j]].callee, incl)), k)
      <4> SUFFICES ASSUME NEW x \in Counters
                   PROVE  Plus(info[s[j]].entry, Plus(info[s[j]].callee, incl))[x] <= k[x]
        BY DEF Behind
      <4>1. /\ info[s[j]].entry[x] \in Nat /\ info[s[j]].callee[x] \in Nat
            /\ info[s[i]].entry[x] \in Nat /\ k[x] \in Nat
        BY <1>3, <2>0, <3>2
      <4>2. info[s[j]].entry[x] + info[s[j]].callee[x] <= info[s[i]].entry[x]
        BY <3>4
      <4>3. Plus(info[s[j]].entry, Plus(info[s[j]].callee, incl))[x]
              = info[s[j]].entry[x] + (info[s[j]].callee[x] + (k[x] - info[s[i]].entry[x]))
        BY <3>8
      <4>4. \A a, b, p, q \in Nat : a + b <= p => a + (b + (q - p)) <= q
        OBVIOUS
      <4> DEFINE a == info[s[j]].entry[x]
                 b == info[s[j]].callee[x]
                 p == info[s[i]].entry[x]
                 q == k[x]
      <4>5. a \in Nat /\ b \in Nat /\ p \in Nat /\ q \in Nat /\ a + b <= p
        BY <4>1, <4>2
      <4> HIDE DEF a, b, p, q
      <4>6. a + (b + (q - p)) <= q
        BY <4>4, <4>5
      <4> QED BY <4>3, <4>6 DEF a, b, p, q
    <3> QED BY <1>6, <2>0, <2>1, <3>5, <3>9
  <2>2. CASE j # i - 1
    <3>1. /\ i - 1 \in 1..Len(s) /\ j < i - 1 /\ i > 1 /\ j < Len(s)
          /\ j + 1 \in 1..(i - 1) /\ j + 1 \in 1..Len(s)
      <4>1. Len(s) \in Nat /\ i \in Nat /\ i <= Len(s)
        BY <1>0
      <4> QED BY <2>0, <2>2, <4>1
    <3>2. s[j] # calling
      <4>1. s[j] < s[i - 1]
        BY <2>0, <3>1 DEF LogFits
      <4>2. s[j] \in Nat /\ s[i - 1] \in Nat /\ calling = s[i - 1]
        BY <1>1, <2>0, <3>1
      <4> QED BY <4>1, <4>2
    <3>3. new[s[j]].entry = info[s[j]].entry /\ new[s[j]].callee = info[s[j]].callee
      BY <1>8, <2>0, <3>2
    <3>4. new[rest[j + 1]].entry = info[s[j + 1]].entry
      BY <1>1, <1>6, <1>8, <3>1
    <3>5. /\ Behind(Plus(info[s[j]].entry, info[s[j]].callee), k)
          /\ Behind(Plus(info[s[j]].entry, info[s[j]].callee), info[s[j + 1]].entry)
      BY <2>0, <3>1 DEF LogFits
    <3> QED BY <2>0, <3>3, <3>4, <3>5
  <2> QED BY <2>1, <2>2
<1>13. tracing => \A x \in 1..Len(new) : new[x].trace # <<>>
  BY <1>8, <1>9 DEF LogFits
<1>14. LogFits(new, n - 1, rest, calling, k)
  BY <1>0, <1>6, <1>7, <1>9, <1>10, <1>11, <1>12, <1>13 DEF LogFits
<1> QED BY <1>4, <1>5, <1>14 DEF rest

LEMMA EmptyFits ==
  ASSUME NEW info, NEW n, NEW s, NEW c, NEW k, LogFits(info, n, s, c, k)
  PROVE  LogFits(info, n, <<>>, 0, k) /\ LogFits(<<>>, 0, <<>>, 0, k)
<1>1. Len(<<>>) = 0 /\ <<>> \in Seq(Info) /\ <<>> \in Seq(1..n) /\ <<>> \in Seq(1..0)
  OBVIOUS
<1> HIDE DEF Behind
<1> QED BY <1>1 DEF LogFits

LEMMA TimePasses ==
  ASSUME NEW info, NEW n, NEW s, NEW c, NEW k, LogFits(info, n, s, c, k),
         NEW later \in Time, Behind(k, later)
  PROVE  LogFits(info, n, s, c, later)
<1>1. ASSUME NEW i \in 1..Len(s)
      PROVE  Behind(Plus(info[s[i]].entry, info[s[i]].callee), later)
  <2>1. s[i] \in 1..n /\ n \in 0..Len(info) /\ info \in Seq(Info) /\ Len(info) \in Nat
    BY ElementOfSeq DEF LogFits
  <2>2. info[s[i]] \in Info
    BY <2>1, ElementOfSeq
  <2>3. info[s[i]].entry \in Time /\ info[s[i]].callee \in Time /\ k \in Time
    BY <2>2 DEF Info, LogFits
  <2>4. Plus(info[s[i]].entry, info[s[i]].callee) \in Time
    BY <2>3, Sums
  <2>5. \A x \in Counters : /\ Plus(info[s[i]].entry, info[s[i]].callee)[x] \in Nat
                            /\ k[x] \in Nat /\ later[x] \in Nat
    BY <2>3, <2>4, Sums
  <2>6. Behind(Plus(info[s[i]].entry, info[s[i]].callee), k)
    BY DEF LogFits
  <2> QED BY <2>5, <2>6 DEF Behind
<1> QED BY <1>1 DEF LogFits
-----------------------------------------------------------------------------
\* What an operation on the log of thread t leaves behind: the thread's log fits,
\* and the logs of the others are as they were.
LogMoves(t) ==
  /\ LogFits(storage'[t], next'[t], stack'[t], current'[t], clock[t])
  /\ trace'[t] \in Seq(Methods)
  /\ \A k \in DOMAIN measures'[t] : k \in Paths /\ measures'[t][k] \in Measure
  /\ storage' = [storage EXCEPT ![t] = storage'[t]]
  /\ next' = [next EXCEPT ![t] = next'[t]]
  /\ stack' = [stack EXCEPT ![t] = stack'[t]]
  /\ current' = [current EXCEPT ![t] = current'[t]]
  /\ trace' = [trace EXCEPT ![t] = trace'[t]]
  /\ measures' = [measures EXCEPT ![t] = measures'[t]]

\* What is left of an action on one thread, when its log is known to fit.
LEMMA OneThreadMoves ==
  ASSUME ProfileInv, NEW t \in ProfiledThreads, LogMoves(t),
         UNCHANGED <<tracing, policy>>, clock' = clock,
         NEW f \in Seq(Frame), frames' = [frames EXCEPT ![t] = f],
         NEW a \in Activity, activity' = [activity EXCEPT ![t] = a],
         NEW x \in Nat \ {0}, factor' = [factor EXCEPT ![t] = x],
         LoggerFits'
  PROVE  ProfileInv'
<1>1. <<tracing, policy>>' \in Configurations
  BY DEF ProfileInv
<1>2. Indexed'
  BY DEF ProfileInv, Indexed, LogMoves
<1>3. ASSUME NEW u \in ProfiledThreads, u # t
      PROVE  ThreadFits(u)'
  <2>1. /\ storage'[u] = storage[u] /\ next'[u] = next[u] /\ stack'[u] = stack[u]
        /\ current'[u] = current[u] /\ trace'[u] = trace[u] /\ measures'[u] = measures[u]
        /\ frames'[u] = frames[u] /\ activity'[u] = activity[u] /\ factor'[u] = factor[u]
        /\ clock'[u] = clock[u]
    BY <1>3 DEF ProfileInv, Indexed, LogMoves
  <2>2. ThreadFits(u)
    BY DEF ProfileInv
  <2> QED BY <2>1, <2>2 DEF ThreadFits, LogFits
<1>4. ThreadFits(t)'
  <2>1. frames'[t] = f /\ activity'[t] = a /\ factor'[t] = x /\ clock'[t] = clock[t]
    BY DEF ProfileInv, Indexed
  <2>2. LogFits(storage'[t], next'[t], stack'[t], current'[t], clock'[t])
    BY <2>1 DEF LogMoves
  <2>3. LogFits(storage[t], next[t], stack[t], current[t], clock[t])'
    BY <2>2 DEF LogFits
  <2> QED BY <2>1, <2>3 DEF ThreadFits, LogMoves
<1> QED BY <1>1, <1>2, <1>3, <1>4 DEF ProfileInv

LEMMA LogStays ==
  ASSUME ProfileInv, NEW t \in ProfiledThreads,
         UNCHANGED <<storage, next, stack, current, trace, measures>>
  PROVE  LogMoves(t)
<1>1. ThreadFits(t)
  BY DEF ProfileInv
<1> QED BY <1>1 DEF ProfileInv, ThreadFits, Indexed, LogMoves

LEMMA MeasureUpdated ==
  ASSUME NEW f, \A k \in DOMAIN f : k \in Paths /\ f[k] \in Measure,
         NEW path \in Paths, NEW pm \in Measure
  PROVE  \A k \in DOMAIN Update(f, path, pm) : k \in Paths /\ Update(f, path, pm)[k] \in Measure
BY DEF Update

LEMMA MeasureFound ==
  ASSUME NEW f, \A k \in DOMAIN f : k \in Paths /\ f[k] \in Measure, NEW path
  PROVE  Lookup(f, path, init) \in Measure
<1>1. init \in Measure
  BY DEF init, Measure, Time, NoTime
<1> QED BY <1>1 DEF Lookup

LEMMA MeasureAdded ==
  ASSUME NEW pm \in Measure, NEW excl \in Time, NEW incl \in Time
  PROVE  add(pm, excl, incl) \in Measure
<1>1. pm.excl \in Time /\ pm.incl \in Time /\ pm.samples \in Nat
  BY DEF Measure
<1>2. Plus(pm.excl, excl) \in Time /\ Plus(pm.incl, incl) \in Time
  BY <1>1, Sums
<1> QED BY <1>1, <1>2 DEF add, Measure

LEMMA Entered ==
  ASSUME ProfileInv, NEW t \in ProfiledThreads, NEW m \in Methods, NEW resets \in BOOLEAN,
         logMethodEntry(t, m, resets)
  PROVE  LogMoves(t)
<1> DEFINE e == setInfo(t, m, resets)
           node == Append(trace[t], m)
<1>0. /\ LogFits(storage[t], next[t], stack[t], current[t], clock[t])
      /\ trace[t] \in Seq(Methods)
      /\ \A k \in DOMAIN measures[t] : k \in Paths /\ measures[t][k] \in Measure
      /\ Indexed
  BY DEF ProfileInv, ThreadFits
<1>1. node \in Paths
  BY <1>0, AppendProperties DEF Paths
<1>2. /\ e \in Info /\ e.entry = clock[t] /\ e.callee = NoTime
      /\ tracing => e.trace # <<>>
  <2>1. clock[t] \in Time /\ NoTime \in Time
    BY <1>0, Sums DEF LogFits
  <2>2. methodAlreadyCalledInStackTrace(t, m) \in BOOLEAN
    BY DEF methodAlreadyCalledInStackTrace, Contains
  <2>3. (IF tracing THEN node ELSE <<>>) \in Seq(Methods)
    BY <1>1 DEF Paths
  <2> HIDE DEF node
  <2>4. e = [method |-> m, entry |-> clock[t], callee |-> NoTime, resets |-> resets,
             recursive |-> methodAlreadyCalledInStackTrace(t, m),
             trace |-> IF tracing THEN node ELSE <<>>]
    BY DEF setInfo, node
  <2> HIDE DEF e
  <2>5. e \in Info
    BY <2>1, <2>2, <2>3, <2>4 DEF Info
  <2>6. tracing => e.trace # <<>>
    BY <1>1, <2>4 DEF Paths
  <2> QED BY <2>4, <2>5, <2>6
<1>3. NextCallInfo(t) = next[t] + 1
  BY <1>0 DEF LogFits, NextCallInfo
<1>4. /\ storage' = [storage EXCEPT ![t] =
                       IF next[t] < Len(storage[t]) THEN [storage[t] EXCEPT ![next[t] + 1] = e]
                       ELSE Append(storage[t], e)]
      /\ next' = [next EXCEPT ![t] = next[t] + 1]
      /\ stack' = [stack EXCEPT ![t] = Append(stack[t], next[t] + 1)]
      /\ current' = [current EXCEPT ![t] = next[t] + 1]
  BY <1>3 DEF logMethodEntry, getNextMethodCallInfo, increaseNextMethodInfoToUse,
              pushMethodEntryEventIntoThreadMethodStack
<1>5. /\ trace' = [trace EXCEPT ![t] = trace'[t]] /\ trace'[t] \in Seq(Methods)
      /\ measures' = [measures EXCEPT ![t] = measures'[t]]
      /\ \A k \in DOMAIN measures'[t] : k \in Paths /\ measures'[t][k] \in Measure
  <2>1. CASE tracing
    <3>1. /\ trace' = [trace EXCEPT ![t] = node]
          /\ measures' = [measures EXCEPT ![t] =
               Update(measures[t], node, Lookup(measures[t], node, init))]
      BY <2>1 DEF logMethodEntry, getNextMethodCallInfo, getCurrentStackTraceInfo
    <3>2. Lookup(measures[t], node, init) \in Measure
      BY <1>0, MeasureFound
    <3>3. /\ trace'[t] = node
          /\ measures'[t] = Update(measures[t], node, Lookup(measures[t], node, init))
      BY <1>0, <3>1 DEF Indexed
    <3> HIDE DEF node
    <3>4. \A k \in DOMAIN measures'[t] : k \in Paths /\ measures'[t][k] \in Measure
      BY <1>0, <1>1, <3>2, <3>3, MeasureUpdated
    <3> QED BY <1>1, <3>1, <3>3, <3>4 DEF Paths
  <2>2. CASE ~tracing
    <3>1. trace' = trace /\ measures' = measures
      BY <2>2 DEF logMethodEntry, getNextMethodCallInfo, getCurrentStackTraceInfo
    <3> QED BY <1>0, <3>1 DEF Indexed
  <2> QED BY <2>1, <2>2
<1> HIDE DEF e, node
<1>6. /\ storage'[t] = IF next[t] < Len(storage[t]) THEN [storage[t] EXCEPT ![next[t] + 1] = e]
                       ELSE Append(storage[t], e)
      /\ next'[t] = next[t] + 1 /\ stack'[t] = Append(stack[t], next[t] + 1)
      /\ current'[t] = next[t] + 1
  BY <1>0, <1>4 DEF Indexed
<1>7. LogFits(storage'[t], next[t] + 1, Append(stack[t], next[t] + 1), next[t] + 1, clock[t])
  BY <1>0, <1>2, <1>6, EntryFits
<1> QED BY <1>0, <1>4, <1>5, <1>6, <1>7 DEF LogMoves, Indexed

LEMMA Exited ==
  ASSUME ProfileInv, NEW t \in ProfiledThreads, NEW m \in Methods, logMethodExit(t, m)
  PROVE  LogMoves(t)
<1> DEFINE i == Match(t, m)
           entry == storage[t][stack[t][i]]
           calling == IF i > 1 THEN stack[t][i - 1] ELSE 0
           incl == Minus(clock[t], entry.entry)
           excl == Minus(incl, entry.callee)
           path == ExitingKey(t, m)
           pm == add(Lookup(measures[t], path, init), excl, incl)
           new == [x \in DOMAIN storage[t] |->
                     IF x = calling THEN updateCalleeTime(storage[t][x], incl) ELSE storage[t][x]]
<1>0. /\ LogFits(storage[t], next[t], stack[t], current[t], clock[t])
      /\ trace[t] \in Seq(Methods)
      /\ \A k \in DOMAIN measures[t] : k \in Paths /\ measures[t][k] \in Measure
      /\ Indexed
  BY DEF ProfileInv, ThreadFits
<1>1. CASE ~Found(t, m)
  <2>1. /\ stack' = [stack EXCEPT ![t] = <<>>] /\ current' = [current EXCEPT ![t] = 0]
        /\ UNCHANGED <<storage, next, trace, measures>>
    BY <1>1 DEF logMethodExit
  <2>2. LogFits(storage[t], next[t], <<>>, 0, clock[t])
    BY <1>0, EmptyFits
  <2>3. stack'[t] = <<>> /\ current'[t] = 0
    BY <1>0, <2>1 DEF Indexed
  <2> QED BY <1>0, <2>1, <2>2, <2>3 DEF LogMoves, Indexed
<1>2. CASE Found(t, m)
  <2>1. i \in 1..Len(stack[t])
    <3>1. /\ Matches(t, m) \subseteq 1..Len(stack[t]) /\ Matches(t, m) # {}
          /\ Len(stack[t]) \in Nat
      BY <1>0, <1>2, LenProperties DEF Matches, Found, LogFits
    <3>2. \E x \in Matches(t, m) : \A j \in Matches(t, m) : j <= x
      BY <3>1, LastOfSome
    <3>3. i \in Matches(t, m)
      BY <3>2 DEF Match
    <3> QED BY <3>1, <3>3
  <2>2. path \in Paths
    <3>1. CASE tracing
      <4>1. current[t] \in 1..Len(storage[t])
        <5>1. stack[t] # <<>> /\ Len(stack[t]) \in 1..Len(stack[t])
          BY <1>0, <2>1 DEF LogFits
        <5>2. current[t] = stack[t][Len(stack[t])] /\ stack[t] \in Seq(1..next[t])
              /\ next[t] \in 0..Len(storage[t]) /\ Len(storage[t]) \in Nat
          BY <1>0, <5>1 DEF LogFits
        <5>3. current[t] \in 1..next[t]
          BY <5>1, <5>2, ElementOfSeq
        <5> QED BY <5>2, <5>3
      <4>2. /\ storage[t][current[t]] \in Info
            /\ storage[t][current[t]].trace # <<>>
        BY <1>0, <3>1, <4>1, ElementOfSeq DEF LogFits
      <4> QED BY <3>1, <4>2 DEF ExitingKey, Info, Paths
    <3>2. CASE ~tracing
      BY <3>2 DEF ExitingKey, Paths
    <3> QED BY <3>1, <3>2
  <2>3. /\ storage' = [storage EXCEPT ![t] = new]
        /\ measures' = [measures EXCEPT ![t] = Update(measures[t], path, pm)]
        /\ current' = [current EXCEPT ![t] = calling]
        /\ stack' = [stack EXCEPT ![t] = SubSeq(stack[t], 1, i - 1)]
        /\ next' = [next EXCEPT ![t] = next[t] - 1]
        /\ trace' = [trace EXCEPT ![t] = IF tracing THEN Front(path) ELSE trace[t]]
    <3>1. logTimesOnMethodExit(t, m)
      BY <1>2 DEF logMethodExit
    <3>2. /\ stack' = [stack EXCEPT ![t] = SubSeq(@, 1, i - 1)]
          /\ next' = [next EXCEPT ![t] = @ - 1]
          /\ trace' = [trace EXCEPT ![t] = IF tracing THEN Front(path) ELSE @]
      BY <1>2 DEF logMethodExit
    <3> QED BY <3>1, <3>2 DEF logTimesOnMethodExit, getInclusiveTimeDifferenceFrom,
                              getExitingMethodPerformanceMeasure
  <2>4. /\ LogFits(new, next[t] - 1, SubSeq(stack[t], 1, i - 1), calling, clock[t])
        /\ incl \in Time /\ excl \in Time
    <3> HIDE DEF i
    <3> QED BY <1>0, <2>1, ExitFits
  <2>5. pm \in Measure
    <3>1. Lookup(measures[t], path, init) \in Measure
      BY <1>0, MeasureFound
    <3> HIDE DEF incl, excl, path
    <3> QED BY <2>4, <3>1, MeasureAdded
  <2>6. Front(path) \in Seq(Methods)
    <3> HIDE DEF path
    <3>1. path \in Seq(Methods) /\ Len(path) \in Nat
      BY <2>2 DEF Paths
    <3>2. \A x \in 1..(Len(path) - 1) : path[x] \in Methods
      BY <3>1, ElementOfSeq
    <3> QED BY <3>1, <3>2, SubSeqProperties DEF Front
  <2> HIDE DEF new, path, pm, calling, i
  <2>7. /\ storage'[t] = new /\ next'[t] = next[t] - 1 /\ current'[t] = calling
        /\ stack'[t] = SubSeq(stack[t], 1, i - 1)
        /\ trace'[t] = (IF tracing THEN Front(path) ELSE trace[t])
        /\ measures'[t] = Update(measures[t], path, pm)
    BY <1>0, <2>3 DEF Indexed
  <2>8. \A k \in DOMAIN measures'[t] : k \in Paths /\ measures'[t][k] \in Measure
    BY <1>0, <2>2, <2>5, <2>7, MeasureUpdated
  <2> QED BY <1>0, <2>3, <2>4, <2>6, <2>7, <2>8 DEF LogMoves
<1> QED BY <1>1, <1>2
-----------------------------------------------------------------------------
LEMMA Frames ==
  ASSUME ProfileInv, NEW t \in ProfiledThreads
  PROVE  /\ frames[t] \in Seq(Frame) /\ activity[t] \in Activity /\ factor[t] \in Nat \ {0}
         /\ \A f \in Frame : Append(frames[t], f) \in Seq(Frame)
         /\ frames[t] # <<>> => Front(frames[t]) \in Seq(Frame) /\ Last(frames[t]) \in Frame
<1>1. frames[t] \in Seq(Frame) /\ activity[t] \in Activity /\ factor[t] \in Nat \ {0}
  BY DEF ProfileInv, ThreadFits
<1>2. ASSUME frames[t] # <<>>
      PROVE  Front(frames[t]) \in Seq(Frame) /\ Last(frames[t]) \in Frame
  <2>1. Len(frames[t]) \in Nat \ {0}
    BY <1>1, <1>2, EmptySeq
  <2>2. \A x \in 1..Len(frames[t]) : frames[t][x] \in Frame
    BY <1>1, ElementOfSeq
  <2>3. Len(frames[t]) \in 1..Len(frames[t]) /\ Len(frames[t]) - 1 \in Int
        /\ \A x \in 1..(Len(frames[t]) - 1) : frames[t][x] \in Frame
    BY <2>1, <2>2
  <2> QED BY <2>2, <2>3, SubSeqProperties DEF Front, Last
<1> QED BY <1>1, <1>2, AppendProperties

\* The enforcer looks a method up, and sets out to have its class reloaded.
LEMMA Enforced ==
  ASSUME ProfileInv, NEW t \in ProfiledThreads, NEW m \in Methods, NEW done,
         NEW what \in {"invalidate", "reinstrument"}, Enforce(t, m, done, what)
  PROVE  /\ known' \subseteq Methods
         /\ \E a \in Activity : activity' = [activity EXCEPT ![t] = a]
BY DEF Enforce, Activity, ProfileInv, LoggerFits

LEMMA Factors ==
  ASSUME ProfileInv, NEW t \in ProfiledThreads, NEW m \in Methods
  PROVE  /\ onVexMethodEntry(t, m, 0) \/ onVexMethodEntry(t, m, Scaling[m]) =>
              \E x \in Nat \ {0} : factor' = [factor EXCEPT ![t] = x]
         /\ onVexMethodExit(t, m) => \E x \in Nat \ {0} : factor' = [factor EXCEPT ![t] = x]
         /\ factor' = factor => \E x \in Nat \ {0} : factor' = [factor EXCEPT ![t] = x]
<1>1. factor[t] \in Nat \ {0} /\ Scaling[m] \in Nat \ {0}
  BY Frames, ParametersAssumption
<1>2. factor = [u \in ProfiledThreads |-> factor[u]]
  BY DEF ProfileInv, Indexed
<1> QED BY <1>1, <1>2 DEF onVexMethodEntry, onVexMethodExit

LEMMA Activities ==
  ASSUME ProfileInv, NEW t \in ProfiledThreads, activity' = activity
  PROVE  \E a \in Activity : activity' = [activity EXCEPT ![t] = a]
<1>1. activity[t] \in Activity /\ activity = [u \in ProfiledThreads |-> activity[u]]
  BY Frames DEF ProfileInv, Indexed
<1> QED BY <1>1

LEMMA Call_Step ==
  ASSUME ProfileInv, NEW t \in ProfiledThreads, NEW m \in Methods, Call(t, m)
  PROVE  ProfileInv'
<1>1. /\ UNCHANGED <<tracing, policy>> /\ clock' = clock
      /\ merged' = merged /\ UNCHANGED methodVars
      /\ frames' = [frames EXCEPT ![t] = Append(frames[t], [method |-> m, logged |-> m \notin adapted])]
  BY DEF Call
<1>2. Append(frames[t], [method |-> m, logged |-> m \notin adapted]) \in Seq(Frame)
  <2>1. [method |-> m, logged |-> m \notin adapted] \in Frame
    BY DEF Frame
  <2> QED BY <2>1, Frames
<1>3. /\ LogMoves(t) /\ known' \subseteq Methods
      /\ \E a \in Activity : activity' = [activity EXCEPT ![t] = a]
      /\ \E x \in Nat \ {0} : factor' = [factor EXCEPT ![t] = x]
  <2>1. CASE EventNotifier_afterMethodEntry(t, m)
    <3>1. onVexMethodEntry(t, m, Scaling[m])
      BY <2>1 DEF EventNotifier_afterMethodEntry, afterMethodEntry, getTimeScalingFactorOfMethod
    <3>2. \E r \in BOOLEAN : logMethodEntry(t, m, r)
      BY <3>1 DEF onVexMethodEntry
    <3>3. /\ known' \subseteq Methods
          /\ \E a \in Activity : activity' = [activity EXCEPT ![t] = a]
      BY <2>1, Enforced, Activities
         DEF EventNotifier_afterMethodEntry, reinstrumentRecursiveMethod, ProfileInv, LoggerFits
    <3> QED BY <3>1, <3>2, <3>3, Entered, Factors
  <2>2. CASE afterIoMethodEntry(t, m)
    <3>1. logMethodEntry(t, m, FALSE) /\ UNCHANGED <<factor, known, activity>>
      BY <2>2 DEF afterIoMethodEntry
    <3> QED BY <3>1, Entered, Factors, Activities DEF ProfileInv, LoggerFits
  <2>3. CASE afterMethodEntryUsingPerformanceModel(t, m)
    <3>1. onVexMethodEntry(t, m, 0) /\ UNCHANGED <<known, activity>>
      BY <2>3 DEF afterMethodEntryUsingPerformanceModel
    <3>2. \E r \in BOOLEAN : logMethodEntry(t, m, r)
      BY <3>1 DEF onVexMethodEntry
    <3> QED BY <3>1, <3>2, Entered, Factors, Activities DEF ProfileInv, LoggerFits
  <2>4. CASE UNCHANGED <<storage, next, stack, current, factor, trace, measures, known, activity>>
    BY <2>4, LogStays, Factors, Activities DEF ProfileInv, LoggerFits
  <2> QED BY <2>1, <2>2, <2>3, <2>4 DEF Call
<1>4. LoggerFits'
  BY <1>1, <1>3 DEF ProfileInv, LoggerFits, methodVars
<1> QED BY <1>1, <1>2, <1>3, <1>4, OneThreadMoves

LEMMA Return_Step ==
  ASSUME ProfileInv, NEW t \in ProfiledThreads, Return(t)
  PROVE  ProfileInv'
<1> DEFINE m == Last(frames[t]).method
<1>1. /\ UNCHANGED <<tracing, policy>> /\ clock' = clock
      /\ merged' = merged /\ UNCHANGED methodVars
      /\ frames' = [frames EXCEPT ![t] = Front(frames[t])]
  BY DEF Return
<1>2. Front(frames[t]) \in Seq(Frame) /\ m \in Methods
  BY Frames DEF Return, Frame
<1>3. /\ LogMoves(t) /\ known' \subseteq Methods
      /\ \E a \in Activity : activity' = [activity EXCEPT ![t] = a]
      /\ \E x \in Nat \ {0} : factor' = [factor EXCEPT ![t] = x]
  <2>1. CASE beforeMethodExit(t, m)
    <3> HIDE DEF m
    <3>1. onVexMethodExit(t, m) /\ logMethodExit(t, m)
      BY <2>1 DEF beforeMethodExit, onVexMethodExit
    <3>2. /\ known' \subseteq Methods
          /\ \E a \in Activity : activity' = [activity EXCEPT ![t] = a]
      <4>1. CASE activity' = [activity EXCEPT ![t] = Crashed] /\ UNCHANGED known
        BY <4>1 DEF Activity, ProfileInv, LoggerFits
      <4>2. CASE invalidateProfilingOf(t, m)
        BY <1>2, <4>2, Enforced DEF invalidateProfilingOf
      <4>3. CASE UNCHANGED <<known, activity>>
        BY <4>3, Activities DEF ProfileInv, LoggerFits
      <4> QED BY <2>1, <4>1, <4>2, <4>3 DEF beforeMethodExit
    <3> QED BY <1>2, <3>1, <3>2, Exited, Factors
  <2>2. CASE beforeIoMethodExit(t, m)
    <3> HIDE DEF m
    <3>1. logMethodExit(t, m) /\ UNCHANGED <<factor, known, activity>>
      BY <2>2 DEF beforeIoMethodExit
    <3> QED BY <1>2, <3>1, Exited, Factors, Activities DEF ProfileInv, LoggerFits
  <2>3. CASE beforeMethodExitUsingPerformanceModel(t, m)
    <3> HIDE DEF m
    <3>1. logMethodExit(t, m) /\ UNCHANGED <<factor, known, activity>>
      BY <2>3 DEF beforeMethodExitUsingPerformanceModel, onModelMethodExit
    <3> QED BY <1>2, <3>1, Exited, Factors, Activities DEF ProfileInv, LoggerFits
  <2>4. CASE UNCHANGED <<storage, next, stack, current, factor, trace, measures, known, activity>>
    <3>1. \E x \in Methods : TRUE
      BY <1>2
    <3> QED BY <2>4, <3>1, LogStays, Factors, Activities DEF ProfileInv, LoggerFits
  <2> QED BY <2>1, <2>2, <2>3, <2>4 DEF Return
<1>4. LoggerFits'
  BY <1>1, <1>3 DEF ProfileInv, LoggerFits, methodVars
<1> QED BY <1>1, <1>2, <1>3, <1>4, OneThreadMoves

LEMMA Unwind_Step ==
  ASSUME ProfileInv, NEW t \in ProfiledThreads, Unwind(t)
  PROVE  ProfileInv'
<1>1. /\ UNCHANGED <<tracing, policy>> /\ clock' = clock /\ activity' = activity /\ factor' = factor
      /\ UNCHANGED <<storage, next, stack, current, trace, measures>>
      /\ UNCHANGED loggerVars /\ UNCHANGED methodVars
      /\ frames' = [frames EXCEPT ![t] = Front(frames[t])]
  BY DEF Unwind
<1>2. Front(frames[t]) \in Seq(Frame)
  BY Frames DEF Unwind
<1>3. factor[t] \in Nat \ {0} /\ factor' = [factor EXCEPT ![t] = factor[t]]
  BY <1>1, Frames DEF ProfileInv, Indexed
<1>4. LoggerFits'
  BY <1>1 DEF ProfileInv, LoggerFits, methodVars, loggerVars
<1> QED BY <1>1, <1>2, <1>3, <1>4, LogStays, Activities, OneThreadMoves

LEMMA ClassTransformed_Step ==
  ASSUME ProfileInv, NEW t \in ProfiledThreads, ClassTransformed(t)
  PROVE  ProfileInv'
<1>1. /\ UNCHANGED <<tracing, policy>> /\ clock' = clock /\ frames' = frames /\ factor' = factor
      /\ UNCHANGED <<storage, next, stack, current, trace, measures>>
      /\ UNCHANGED loggerVars
      /\ activity' = [activity EXCEPT ![t] = Runs] /\ activity[t][2] \in Methods
      /\ adapted' \subseteq adapted \cup {activity[t][2]}
      /\ invalidated' \subseteq invalidated \cup {activity[t][2]}
      /\ recursive' \subseteq recursive \cup {activity[t][2]}
  BY DEF ClassTransformed
<1>2. /\ frames[t] \in Seq(Frame) /\ frames' = [frames EXCEPT ![t] = frames[t]]
      /\ factor[t] \in Nat \ {0} /\ factor' = [factor EXCEPT ![t] = factor[t]]
      /\ Runs \in Activity
  BY <1>1, Frames DEF ProfileInv, Indexed, Activity
<1>3. LoggerFits'
  BY <1>1 DEF ProfileInv, LoggerFits, loggerVars
<1> QED BY <1>1, <1>2, <1>3, LogStays, OneThreadMoves

LEMMA MeasuresMerged ==
  ASSUME NEW a \in Measure, NEW b \in Measure
  PROVE  plusEquals(a, b) \in Measure
<1>1. \A x, y \in Time : MergedTime(x, y) \in Time
  BY DEF MergedTime, Time, Counters
<1> HIDE DEF MergedTime
<1> QED BY <1>1 DEF plusEquals, Measure

LEMMA onThreadEnd_Step ==
  ASSUME ProfileInv, NEW t \in ProfiledThreads, onThreadEnd(t)
  PROVE  ProfileInv'
<1>0. /\ LogFits(storage[t], next[t], stack[t], current[t], clock[t])
      /\ \A k \in DOMAIN measures[t] : k \in Paths /\ measures[t][k] \in Measure
      /\ \A k \in DOMAIN merged : k \in Paths /\ merged[k] \in Measure
      /\ Indexed
  BY DEF ProfileInv, ThreadFits, LoggerFits
<1>1. /\ UNCHANGED <<tracing, policy>> /\ clock' = clock /\ frames' = frames
      /\ activity' = [activity EXCEPT ![t] = Ended]
      /\ factor' = [factor EXCEPT ![t] = 1]
      /\ UNCHANGED methodVars
      /\ known' \subseteq known \cup {Last(k) : k \in DOMAIN measures[t]}
      /\ createMeasuresForThread(t)
  BY DEF onThreadEnd
<1>2. /\ frames[t] \in Seq(Frame) /\ frames' = [frames EXCEPT ![t] = frames[t]]
      /\ Ended \in Activity /\ 1 \in Nat \ {0}
  <2>1. frames[t] \in Seq(Frame) /\ frames' = [frames EXCEPT ![t] = frames[t]]
    BY <1>1, Frames DEF ProfileInv, Indexed
  <2>2. Ended \in Activity
    BY DEF Activity
  <2> QED BY <2>1, <2>2
<1>3. LogMoves(t)
  <2>1. /\ storage' = [storage EXCEPT ![t] = <<>>] /\ next' = [next EXCEPT ![t] = 0]
        /\ stack' = [stack EXCEPT ![t] = <<>>] /\ current' = [current EXCEPT ![t] = 0]
        /\ trace' = [trace EXCEPT ![t] = <<>>] /\ measures' = [measures EXCEPT ![t] = <<>>]
    BY DEF onThreadEnd
  <2>2. /\ storage'[t] = <<>> /\ next'[t] = 0 /\ stack'[t] = <<>> /\ current'[t] = 0
        /\ trace'[t] = <<>> /\ measures'[t] = <<>>
    BY <1>0, <2>1 DEF Indexed
  <2>3. LogFits(<<>>, 0, <<>>, 0, clock[t])
    BY <1>0, EmptyFits
  <2>4. <<>> \in Seq(Methods) /\ DOMAIN <<>> = {}
    OBVIOUS
  <2> QED BY <2>1, <2>2, <2>3, <2>4 DEF LogMoves
<1>4. \A k \in Paths : Last(k) \in Methods
  <2> SUFFICES ASSUME NEW k \in Paths PROVE Last(k) \in Methods
    OBVIOUS
  <2>1. k \in Seq(Methods) /\ Len(k) \in 1..Len(k)
    BY EmptySeq DEF Paths
  <2> QED BY <2>1, ElementOfSeq DEF Last
<1>5. \A k \in DOMAIN merged' : k \in Paths /\ merged'[k] \in Measure
  <2> SUFFICES ASSUME NEW k \in DOMAIN merged' PROVE k \in Paths /\ merged'[k] \in Measure
    OBVIOUS
  <2>1. /\ k \in DOMAIN merged \cup Mergeable(t)
        /\ merged'[k] = IF k \notin Mergeable(t) THEN merged[k]
                        ELSE IF k \notin DOMAIN merged THEN measures[t][k]
                        ELSE plusEquals(merged[k], measures[t][k])
    BY <1>1 DEF createMeasuresForThread
  <2>2. Mergeable(t) \subseteq DOMAIN measures[t]
    BY DEF Mergeable
  <2> QED BY <1>0, <2>1, <2>2, MeasuresMerged
<1>6. LoggerFits'
  BY <1>0, <1>1, <1>4, <1>5 DEF ProfileInv, LoggerFits, methodVars
<1> QED BY <1>1, <1>2, <1>3, <1>6, OneThreadMoves

LEMMA Work_Step ==
  ASSUME ProfileInv, NEW t \in ProfiledThreads, NEW kind, Work(t, kind)
  PROVE  ProfileInv'
<1>1. /\ UNCHANGED <<tracing, policy, frames, activity, factor>>
      /\ UNCHANGED <<storage, next, stack, current, trace, measures>>
      /\ UNCHANGED loggerVars /\ UNCHANGED methodVars
      /\ clock' = [clock EXCEPT ![t] = Plus(clock[t], Tick(kind))]
  BY DEF Work
<1>2. clock[t] \in Time /\ Plus(clock[t], Tick(kind)) \in Time
      /\ Behind(clock[t], Plus(clock[t], Tick(kind)))
  <2>1. clock[t] \in Time
    BY DEF ProfileInv, ThreadFits, LogFits
  <2>2. Tick(kind) \in Time
    BY DEF Tick, Time, Counters
  <2>3. \A c \in Counters : clock[t][c] \in Nat /\ Tick(kind)[c] \in Nat
    BY <2>1, <2>2 DEF Time
  <2> QED BY <2>1, <2>2, <2>3, Sums DEF Behind
<1>3. ASSUME NEW u \in ProfiledThreads
      PROVE  ThreadFits(u)'
  <2>1. ThreadFits(u) /\ LogFits(storage[u], next[u], stack[u], current[u], clock[u])
    BY DEF ProfileInv, ThreadFits
  <2>2. clock'[u] = IF u = t THEN Plus(clock[t], Tick(kind)) ELSE clock[u]
    BY <1>1 DEF ProfileInv, Indexed
  <2>3. LogFits(storage[u], next[u], stack[u], current[u], clock'[u])
    BY <1>2, <2>1, <2>2, TimePasses
  <2>4. LogFits(storage[u], next[u], stack[u], current[u], clock[u])'
    BY <1>1, <2>3 DEF LogFits
  <2> QED BY <1>1, <2>1, <2>4 DEF ThreadFits
<1>4. Indexed' /\ LoggerFits' /\ <<tracing, policy>>' \in Configurations
  BY <1>1 DEF ProfileInv, Indexed, LoggerFits, loggerVars, methodVars
<1> QED BY <1>3, <1>4 DEF ProfileInv

\* An action that leaves the threads alone.
LEMMA LogsStay ==
  ASSUME ProfileInv, UNCHANGED <<tracing, policy, threadVars>>, LoggerFits'
  PROVE  ProfileInv'
<1>1. Indexed' /\ <<tracing, policy>>' \in Configurations
  BY DEF ProfileInv, Indexed, threadVars
<1>2. ASSUME NEW u \in ProfiledThreads PROVE ThreadFits(u)'
  BY DEF ProfileInv, ThreadFits, LogFits, threadVars
<1> QED BY <1>1, <1>2 DEF ProfileInv

LEMMA reset_Step ==
  ASSUME ProfileInv, reset
  PROVE  ProfileInv'
<1>1. UNCHANGED <<tracing, policy, threadVars>> /\ LoggerFits'
  BY DEF ProfileInv, LoggerFits, reset, methodVars
<1> QED BY <1>1, LogsStay

LEMMA printResults_Step ==
  ASSUME ProfileInv, printResults
  PROVE  ProfileInv'
<1>1. \A pm \in Measure : printMeansInMSec(pm) \in Measure
  <2> SUFFICES ASSUME NEW pm \in Measure PROVE printMeansInMSec(pm) \in Measure
    OBVIOUS
  <2>1. pm.excl \in Time /\ pm.incl \in Time
    BY DEF Measure
  <2>2. \A x \in Time : \A n \in Int : [x EXCEPT !["cpu"] = Max0(n)] \in Time
    <3>1. \A n \in Int : Max0(n) \in Nat
      BY DEF Max0
    <3>2. \A x \in Time : \A n \in Nat : [x EXCEPT !["cpu"] = n] \in Time
      BY DEF Time
    <3> HIDE DEF Max0
    <3> QED BY <3>1, <3>2
  <2>3. pm.excl["cpu"] - pm.excl["io"] \in Int /\ pm.incl["cpu"] - pm.incl["io"] \in Int
    BY <2>1 DEF Time, Counters
  <2> HIDE DEF Max0
  <2>4. printMeansInMSec(pm) =
          [pm EXCEPT !.excl = [pm.excl EXCEPT !["cpu"] = Max0(pm.excl["cpu"] - pm.excl["io"])],
                     !.incl = [pm.incl EXCEPT !["cpu"] = Max0(pm.incl["cpu"] - pm.incl["io"])]]
    BY DEF printMeansInMSec, Measure
  <2> QED BY <2>1, <2>2, <2>3, <2>4 DEF Measure
<1>2. /\ UNCHANGED <<tracing, policy, threadVars, known, methodVars>>
      /\ merged' = [k \in DOMAIN merged |->
                      IF k \in Printed THEN printMeansInMSec(merged[k]) ELSE merged[k]]
  BY DEF printResults
<1>3. LoggerFits'
  BY <1>1, <1>2 DEF ProfileInv, LoggerFits, methodVars
<1> QED BY <1>2, <1>3, LogsStay

LEMMA InitFits == ProfilingInit => ProfileInv
<1> SUFFICES ASSUME ProfilingInit PROVE ProfileInv
  OBVIOUS
<1>1. Indexed
  BY DEF ProfilingInit, Indexed
<1>2. <<tracing, policy>> \in Configurations
  BY ParametersAssumption DEF ProfilingInit
<1>3. LoggerFits
  BY ParametersAssumption DEF ProfilingInit, LoggerFits
<1>4. ASSUME NEW t \in ProfiledThreads
      PROVE  ThreadFits(t)
  <2>1. /\ storage[t] = <<>> /\ next[t] = 0 /\ stack[t] = <<>> /\ current[t] = 0
        /\ clock[t] = NoTime /\ activity[t] = Runs /\ factor[t] = 1 /\ trace[t] = <<>>
        /\ measures[t] = <<>>
    BY DEF ProfilingInit
  <2>2. frames[t] \in Seq(Frame)
    <3>1. \A m \in Methods : [method |-> m, logged |-> TRUE] \in Frame
      BY DEF Frame
    <3>2. \A f \in Frame : <<f>> \in Seq(Frame)
      OBVIOUS
    <3>3. frames[t] = <<>> \/ \E m \in Methods : frames[t] = <<[method |-> m, logged |-> TRUE]>>
      BY DEF ProfilingInit
    <3>4. <<>> \in Seq(Frame)
      OBVIOUS
    <3> QED BY <3>1, <3>2, <3>3, <3>4
  <2>3. LogFits(<<>>, 0, <<>>, 0, NoTime)
    BY DEF LogFits, NoTime, Time
  <2> QED BY <2>1, <2>2, <2>3 DEF ThreadFits, Activity
<1> QED BY <1>1, <1>2, <1>3, <1>4 DEF ProfileInv

LEMMA StepFits == ProfileInv /\ [ProfilingNext]_profilingVars => ProfileInv'
<1> SUFFICES ASSUME ProfileInv, [ProfilingNext]_profilingVars PROVE ProfileInv'
  OBVIOUS
<1>1. CASE ProfilingNext
  BY <1>1, Call_Step, Return_Step, Unwind_Step, ClassTransformed_Step, onThreadEnd_Step, Work_Step,
     reset_Step, printResults_Step DEF ProfilingNext
<1>2. CASE UNCHANGED profilingVars
  <2>1. UNCHANGED <<tracing, policy, threadVars>> /\ LoggerFits'
    BY <1>2 DEF ProfileInv, LoggerFits, profilingVars, loggerVars, methodVars
  <2> QED BY <2>1, LogsStay
<1> QED BY <1>1, <1>2

LEMMA ProfileInvSuffices == ProfileInv => ProfileTypeOK /\ CallInfosAreNotShared
<1> SUFFICES ASSUME ProfileInv PROVE ProfileTypeOK /\ CallInfosAreNotShared
  OBVIOUS
<1>1. ASSUME NEW t \in ProfiledThreads
      PROVE  /\ stack[t] \in Seq(DOMAIN storage[t]) /\ current[t] \in 0..Len(storage[t])
             /\ \A i \in 1..Len(stack[t]) : stack[t][i] <= next[t]
             /\ current[t] = IF stack[t] = <<>> THEN 0 ELSE Last(stack[t])
  <2>1. LogFits(storage[t], next[t], stack[t], current[t], clock[t])
    BY DEF ProfileInv, ThreadFits
  <2>2. /\ storage[t] \in Seq(Info) /\ Len(storage[t]) \in Nat
        /\ DOMAIN storage[t] = 1..Len(storage[t])
        /\ stack[t] \in Seq(1..next[t]) /\ next[t] \in 0..Len(storage[t])
    BY <2>1, LenProperties DEF LogFits
  <2>3. 1..next[t] \subseteq DOMAIN storage[t]
    BY <2>2
  <2>4. stack[t] \in Seq(DOMAIN storage[t])
    BY <2>2, <2>3, SeqMonotonic
  <2>5. \A i \in 1..Len(stack[t]) : stack[t][i] \in 1..next[t]
    BY <2>2, ElementOfSeq
  <2>6. current[t] = IF stack[t] = <<>> THEN 0 ELSE Last(stack[t])
    BY <2>1 DEF LogFits, Last
  <2>7. current[t] \in 0..Len(storage[t])
    <3>1. CASE stack[t] = <<>>
      BY <2>2, <2>6, <3>1
    <3>2. CASE stack[t] # <<>>
      <4>1. Len(stack[t]) \in 1..Len(stack[t])
        BY <2>2, <3>2, EmptySeq
      <4> QED BY <2>2, <2>5, <2>6, <3>2, <4>1 DEF Last
    <3> QED BY <3>1, <3>2
  <2> QED BY <2>2, <2>4, <2>5, <2>6, <2>7
<1>2. ProfileTypeOK
  <2>1. /\ \A k \in DOMAIN merged : k \in Seq(Methods) /\ merged[k] \in Measure
        /\ known \subseteq Methods /\ invalidated \subseteq Methods /\ recursive \subseteq Methods
        /\ adapted \subseteq Methods
    BY DEF ProfileInv, LoggerFits, Paths
  <2>2. ASSUME NEW t \in ProfiledThreads
        PROVE  /\ frames[t] \in Seq([method : Methods, logged : BOOLEAN])
               /\ activity[t] \in {Runs, Ended, Crashed} \cup ({"invalidate", "reinstrument"} \X Methods)
               /\ clock[t] \in Time /\ storage[t] \in Seq(Info) /\ next[t] \in 0..Len(storage[t])
               /\ factor[t] \in Nat \ {0} /\ trace[t] \in Seq(Methods)
               /\ \A k \in DOMAIN measures[t] : k \in Seq(Methods) /\ measures[t][k] \in Measure
    BY DEF ProfileInv, ThreadFits, LogFits, Frame, Activity, Paths
  <2> QED BY <1>1, <2>1, <2>2 DEF ProfileTypeOK, ProfileInv
<1>3. CallInfosAreNotShared
  <2>1. \A t \in ProfiledThreads : \A i, j \in 1..Len(stack[t]) : i < j => stack[t][i] < stack[t][j]
    BY DEF ProfileInv, ThreadFits, LogFits
  <2> QED BY <1>1, <2>1 DEF CallInfosAreNotShared
<1> QED BY <1>2, <1>3

\* For all methods, threads and configurations, and any exceptions: two calls on
\* the stack of a thread never share an entry of its log, an entry in use is
\* never taken for the next call, although the exit of a call gives back one entry
\* when it drops several (MethodLog, VexThreadState::onVexMethodExit), and no
\* inclusive or exclusive time is negative, in the thread or in the merged profile.
THEOREM MethodLogIsSound == ProfilingSpec => [](ProfileTypeOK /\ CallInfosAreNotShared)
BY InitFits, StepFits, ProfileInvSuffices, PTL DEF ProfilingSpec

-----------------------------------------------------------------------------
(***************************************************************************)
(* Performance models.                                                     *)
(***************************************************************************)
Simulated == {"IN_MODEL", "IN_MODEL_WAITING"}

\* Where the code of a thread is in each of its states, and who simulates it.
PhaseOf(t) ==
  /\ pc[t] = "user" => state[t] = "RUNNING"
  /\ pc[t] = "asleep" => state[t] = "SUSPENDED"
  /\ pc[t] = "ended" => state[t] = "ENDED"
  /\ pc[t] = "exit" => state[t] = "AFTER_MODEL"
  /\ pc[t] = "simulate" => state[t] \in Simulated /\ at[t] # "no"
  /\ pc[t] = "real" => state[t] \in Simulated \cup {"AFTER_MODEL"}
  /\ simulatingModel[t] <=> state[t] \in Simulated
  /\ key[t] = NoThread <=> at[t] = "no"
  /\ at[t] # "no" => state[t] \in Simulated

\* Where its customer is: a simulator enters the loop only with a customer that
\* can go on, and a customer outside a model has left the network for good.
CustomerOf(t) ==
  /\ at[t] = "in" => state[t] = "IN_MODEL" /\ timeout[t] <= 0 /\ budget[t] > 0 /\ ~finished(t)
  /\ state[t] \in Simulated /\ finished(t) => at[t] = "test"
  /\ state[t] \notin Simulated =>
       finished(t) \/ (currentNode[t] = <<Source, "enter">> /\ calls[t] = 0)
  /\ finished(t) => remaining[t] = 0 /\ timeout[t] <= 0
  /\ state[t] = "IN_MODEL_WAITING" => currentNode[t][2] = "queued"

\* The demands are on the thread's clock, still to be consumed or, while the
\* thread waits for its real code, kept in resumedLastAt.
ClockOf(t) ==
  /\ state[t] \in Simulated => due[t] <= ert[t] + remaining[t]
  /\ state[t] = "AFTER_MODEL" /\ pc[t] = "real" => due[t] <= resumedAt[t]
  /\ pc[t] = "exit" => due[t] <= ert[t]

\* Who may run is running or runnable, unless a simulator has it.
RunnableOf(t) ==
  /\ state[t] = "RUNNING" => runningThread = t
  /\ state[t] \in {"SUSPENDED", "AFTER_MODEL"} => t \in queue
  /\ state[t] = "IN_MODEL" /\ at[t] = "no" => t \in queue

ThreadOf(t) == PhaseOf(t) /\ CustomerOf(t) /\ ClockOf(t) /\ RunnableOf(t)

\* Customer t has a resource of node n: it is served there, or it has been taken
\* from the queue to be served; and customer t is in the queue of node n.
Holds(t, n) ==
  /\ simulatingModel[t]
  /\ \/ currentNode[t] = <<n, "served">>
     \/ currentNode[t] = <<n, "queued">> /\ state[t] # "IN_MODEL_WAITING"
Waits(t, n) == state[t] = "IN_MODEL_WAITING" /\ currentNode[t] = <<n, "queued">>

HoldersOf(n) == {t \in Threads : Holds(t, n)}

NodeOf(n) ==
  /\ claimed[n] = Cardinality(HoldersOf(n))
  /\ claimed[n] <= Servers[n]
  /\ waiting[n] # <<>> => claimed[n] = Servers[n]
  /\ IsInjective(waiting[n])
  /\ \A t \in Threads : Contains(waiting[n], t) <=> Waits(t, n)

ThreadPlaces == \A t \in Threads : ThreadOf(t)
NodePlaces == \A n \in Queueing : NodeOf(n)

ModelInv == TypeOK /\ ThreadPlaces /\ NodePlaces

\* A step that leaves alone what the invariant says of the threads outside S.
OthersStay(S) ==
  \A u \in Threads \ S :
    /\ pc'[u] = pc[u] /\ state'[u] = state[u] /\ key'[u] = key[u] /\ at'[u] = at[u]
    /\ simulatingModel'[u] = simulatingModel[u] /\ currentNode'[u] = currentNode[u]
    /\ calls'[u] = calls[u] /\ timeout'[u] = timeout[u] /\ budget'[u] = budget[u]
    /\ remaining'[u] = remaining[u] /\ due'[u] = due[u]
    /\ ert'[u] = ert[u] /\ resumedAt'[u] = resumedAt[u]
    /\ u \in queue' <=> u \in queue
    /\ runningThread = u => runningThread' = u

\* What every turn of the simulation loop does besides entering a node.
Turn(t) ==
  /\ at[t] = "in"
  /\ at' = Set(at, t, "test")
  /\ UNCHANGED <<pc, calls, key, simulatingModel, heap, gvt, runningThread>>
-----------------------------------------------------------------------------
\* What the queue of a node holds after a customer joined or left it.
LEMMA Joining ==
  ASSUME NEW s \in Seq(Threads), NEW t \in Threads, IsInjective(s), ~Contains(s, t)
  PROVE  /\ Append(s, t) \in Seq(Threads) /\ Append(s, t) # <<>>
         /\ IsInjective(Append(s, t))
         /\ \A u \in Threads : Contains(Append(s, t), u) <=> Contains(s, u) \/ u = t
  <1>1. /\ Append(s, t) \in Seq(Threads) /\ Len(Append(s, t)) = Len(s) + 1
        /\ \A i \in 1..Len(s) : Append(s, t)[i] = s[i]
        /\ Append(s, t)[Len(s) + 1] = t
        /\ Len(s) \in Nat
    BY AppendProperties, LenProperties
  <1>2. DOMAIN s = 1..Len(s) /\ DOMAIN Append(s, t) = 1..(Len(s) + 1)
    BY <1>1, LenProperties
  <1>3. \A i \in 1..Len(s) : s[i] # t
    BY DEF Contains
  <1>4. \A i \in 1..(Len(s) + 1) : i \in 1..Len(s) \/ i = Len(s) + 1
    BY <1>1
  <1>5. \A i \in 1..Len(s) : i \in 1..(Len(s) + 1)
    BY <1>1
  <1>6. Len(s) + 1 \in 1..(Len(s) + 1)
    BY <1>1
  <1>7. IsInjective(Append(s, t))
    <2>1. SUFFICES ASSUME NEW i \in 1..(Len(s) + 1), NEW j \in 1..(Len(s) + 1),
                          Append(s, t)[i] = Append(s, t)[j]
                   PROVE  i = j
      BY <1>2 DEF IsInjective
    <2>2. CASE i \in 1..Len(s) /\ j \in 1..Len(s)
      BY <1>1, <1>2, <2>1, <2>2 DEF IsInjective
    <2>3. CASE i \in 1..Len(s) /\ j = Len(s) + 1
      BY <1>1, <1>3, <2>1, <2>3
    <2>4. CASE i = Len(s) + 1 /\ j \in 1..Len(s)
      BY <1>1, <1>3, <2>1, <2>4
    <2> QED BY <1>4, <2>2, <2>3, <2>4
  <1>8. ASSUME NEW u \in Threads
        PROVE  Contains(Append(s, t), u) <=> Contains(s, u) \/ u = t
    <2>1. Contains(Append(s, t), u) => Contains(s, u) \/ u = t
      BY <1>1, <1>4 DEF Contains
    <2>2. Contains(s, u) => Contains(Append(s, t), u)
      BY <1>1, <1>5 DEF Contains
    <2>3. u = t => Contains(Append(s, t), u)
      BY <1>1, <1>6 DEF Contains
    <2> QED BY <2>1, <2>2, <2>3
  <1>9. Append(s, t) # <<>>
    BY <1>1
  <1> QED BY <1>1, <1>7, <1>8, <1>9

LEMMA Leaving ==
  ASSUME NEW s \in Seq(Threads), s # <<>>, IsInjective(s)
  PROVE  /\ Head(s) \in Threads /\ Tail(s) \in Seq(Threads)
         /\ Contains(s, Head(s))
         /\ IsInjective(Tail(s))
         /\ \A u \in Threads : Contains(Tail(s), u) <=> Contains(s, u) /\ u # Head(s)
  <1>1. /\ Head(s) \in Threads /\ Tail(s) \in Seq(Threads) /\ Len(Tail(s)) = Len(s) - 1
        /\ \A i \in 1..Len(Tail(s)) : Tail(s)[i] = s[i + 1]
        /\ Head(s) = s[1] /\ Len(s) \in Nat /\ Len(s) # 0
    <2>1. Head(s) \in Threads /\ Tail(s) \in Seq(Threads) /\ Len(Tail(s)) = Len(s) - 1
      BY HeadTailProperties
    <2>2. \A i \in 1..Len(Tail(s)) : Tail(s)[i] = s[i + 1]
      BY HeadTailProperties
    <2>3. Len(s) \in Nat /\ Len(s) # 0 /\ Head(s) = s[1]
      BY EmptySeq, LenProperties
    <2> QED BY <2>1, <2>2, <2>3
  <1>2. DOMAIN s = 1..Len(s) /\ DOMAIN Tail(s) = 1..(Len(s) - 1)
    BY <1>1, LenProperties
  <1>3. /\ 1 \in 1..Len(s)
        /\ \A i \in 1..(Len(s) - 1) : i + 1 \in 1..Len(s) /\ i + 1 # 1
        /\ \A i \in 1..Len(s) : i = 1 \/ (i - 1 \in 1..(Len(s) - 1) /\ (i - 1) + 1 = i)
    BY <1>1
  <1>4. Contains(s, Head(s))
    BY <1>1, <1>3 DEF Contains
  <1>5. IsInjective(Tail(s))
    <2>1. SUFFICES ASSUME NEW i \in 1..(Len(s) - 1), NEW j \in 1..(Len(s) - 1),
                          Tail(s)[i] = Tail(s)[j]
                   PROVE  i = j
      BY <1>2 DEF IsInjective
    <2>2. s[i + 1] = s[j + 1]
      BY <1>1, <2>1
    <2>3. i + 1 = j + 1
      BY <1>2, <1>3, <2>2 DEF IsInjective
    <2> QED BY <2>3
  <1>6. ASSUME NEW u \in Threads
        PROVE  Contains(Tail(s), u) <=> Contains(s, u) /\ u # Head(s)
    <2>1. ASSUME Contains(Tail(s), u)
          PROVE  Contains(s, u) /\ u # Head(s)
      <3>1. PICK i \in 1..(Len(s) - 1) : Tail(s)[i] = u
        BY <1>1, <2>1 DEF Contains
      <3>2. s[i + 1] = u
        BY <1>1, <3>1
      <3>3. s[i + 1] # s[1]
        BY <1>2, <1>3 DEF IsInjective
      <3> QED BY <1>1, <1>3, <3>2, <3>3 DEF Contains
    <2>2. ASSUME Contains(s, u), u # Head(s)
          PROVE  Contains(Tail(s), u)
      <3>1. PICK i \in 1..Len(s) : s[i] = u
        BY <2>2 DEF Contains
      <3>2. i - 1 \in 1..(Len(s) - 1) /\ (i - 1) + 1 = i
        BY <1>1, <1>3, <2>2, <3>1
      <3>3. Tail(s)[i - 1] = u
        BY <1>1, <3>1, <3>2
      <3> QED BY <1>1, <3>2, <3>3 DEF Contains
    <2> QED BY <2>1, <2>2
  <1> QED BY <1>1, <1>4, <1>5, <1>6

LEMMA Counting ==
  ASSUME NEW n
  PROVE  IsFiniteSet(HoldersOf(n)) /\ Cardinality(HoldersOf(n)) \in Nat
  <1>1. HoldersOf(n) \subseteq Threads
    BY DEF HoldersOf
  <1> QED BY <1>1, FS_Subset, FS_CardinalityType, FiniteAssumption

LEMMA SourceIsNode ==
  Source \in Nodes
  BY NetworkAssumption DEF Source

LEMMA Domains ==
  ASSUME TypeOK
  PROVE  /\ DOMAIN pc = Threads /\ DOMAIN calls = Threads /\ DOMAIN state = Threads
         /\ DOMAIN key = Threads /\ DOMAIN simulatingModel = Threads
         /\ DOMAIN ert = Threads /\ DOMAIN resumedAt = Threads /\ DOMAIN ran = Threads
         /\ DOMAIN timeout = Threads /\ DOMAIN currentNode = Threads
         /\ DOMAIN remaining = Threads /\ DOMAIN budget = Threads /\ DOMAIN at = Threads
         /\ DOMAIN due = Threads /\ DOMAIN claimed = Queueing /\ DOMAIN waiting = Queueing
  BY DEF TypeOK

\* The values of one thread.
LEMMA TypesAt ==
  ASSUME TypeOK, NEW t \in Threads
  PROVE  /\ pc[t] \in {"user", "simulate", "real", "exit", "asleep", "ended"}
         /\ state[t] \in {"RUNNING", "SUSPENDED", "IN_MODEL", "IN_MODEL_WAITING",
                          "AFTER_MODEL", "ENDED"}
         /\ ert[t] \in Nat /\ resumedAt[t] \in Nat /\ ran[t] \in Nat /\ gvt \in Nat
         /\ timeout[t] \in Nat \cup {-1} /\ remaining[t] \in Nat /\ budget[t] \in Int
         /\ due[t] \in Nat /\ calls[t] \in Nat /\ calls[t] \in 0..MaxCalls
         /\ at[t] \in {"no", "in", "test"} /\ simulatingModel[t] \in BOOLEAN
         /\ currentNode[t] = <<currentNode[t][1], currentNode[t][2]>>
         /\ currentNode[t][1] \in Nodes
         /\ currentNode[t][2] \in {"enter", "queued", "served", "finished"}
         /\ key[t] \in Threads \cup {Scheduler, NoThread}
         /\ Later(ert[t], gvt) \in Nat /\ Later(gvt, resumedAt[t] + ran[t]) \in Nat
         /\ Later(ert[t], gvt) >= ert[t]
  <1>1. MaxCalls \in Nat
    BY BoundsAssumption
  <1>2. calls[t] \in 0..MaxCalls
    BY DEF TypeOK
  <1>3. ert[t] \in Nat /\ resumedAt[t] \in Nat /\ ran[t] \in Nat /\ gvt \in Nat
    BY DEF TypeOK
  <1>4. /\ timeout[t] \in Nat \cup {-1} /\ remaining[t] \in Nat /\ budget[t] \in Int
        /\ due[t] \in Nat
    BY DEF TypeOK
  <1>5. /\ pc[t] \in {"user", "simulate", "real", "exit", "asleep", "ended"}
        /\ state[t] \in {"RUNNING", "SUSPENDED", "IN_MODEL", "IN_MODEL_WAITING",
                          "AFTER_MODEL", "ENDED"}
        /\ at[t] \in {"no", "in", "test"} /\ simulatingModel[t] \in BOOLEAN
        /\ key[t] \in Threads \cup {Scheduler, NoThread}
    BY DEF TypeOK
  <1>6. currentNode[t] \in Nodes \X {"enter", "queued", "served", "finished"}
    BY DEF TypeOK
  <1>7. /\ Later(ert[t], gvt) \in Nat /\ Later(gvt, resumedAt[t] + ran[t]) \in Nat
        /\ Later(ert[t], gvt) >= ert[t]
    BY <1>3 DEF Later
  <1> QED BY <1>1, <1>2, <1>3, <1>4, <1>5, <1>6, <1>7

\* The invariant of a thread that a step leaves alone.
LEMMA OthersKeep ==
  ASSUME NEW S, OthersStay(S), ThreadPlaces, NEW u \in Threads \ S
  PROVE  ThreadOf(u)'
  <1>1. ThreadOf(u) /\ u \in Threads
    BY DEF ThreadPlaces
  <1>2. PhaseOf(u)'
    BY <1>1 DEF OthersStay, ThreadOf, PhaseOf
  <1>3. CustomerOf(u)'
    BY <1>1 DEF OthersStay, ThreadOf, CustomerOf, finished
  <1>4. ClockOf(u)'
    BY <1>1 DEF OthersStay, ThreadOf, ClockOf
  <1>5. RunnableOf(u)'
    BY <1>1 DEF OthersStay, ThreadOf, RunnableOf
  <1> QED BY <1>2, <1>3, <1>4, <1>5 DEF ThreadOf

LEMMA OthersKeepNodes ==
  ASSUME NEW S, OthersStay(S), NEW n \in Queueing, NEW u \in Threads \ S
  PROVE  (Holds(u, n)' <=> Holds(u, n)) /\ (Waits(u, n)' <=> Waits(u, n))
  BY DEF OthersStay, Holds, Waits

\* A node at which no customer takes, gives or waits for a resource.
LEMMA NodeStays ==
  ASSUME NEW S, OthersStay(S), NEW n \in Queueing, NodeOf(n),
         claimed'[n] = claimed[n], waiting'[n] = waiting[n],
         \A u \in S : (Holds(u, n)' <=> Holds(u, n)) /\ (Waits(u, n)' <=> Waits(u, n))
  PROVE  NodeOf(n)'
  <1>1. ASSUME NEW u \in Threads
        PROVE  (Holds(u, n)' <=> Holds(u, n)) /\ (Waits(u, n)' <=> Waits(u, n))
    BY OthersKeepNodes
  <1>2. HoldersOf(n)' = HoldersOf(n)
    BY <1>1 DEF HoldersOf
  <1> QED BY <1>1, <1>2 DEF NodeOf

LEMMA NodesStay ==
  ASSUME NEW t \in Threads, OthersStay({t}), NodePlaces,
         claimed' = claimed, waiting' = waiting,
         \A n \in Queueing : (Holds(t, n)' <=> Holds(t, n)) /\ (Waits(t, n)' <=> Waits(t, n))
  PROVE  NodePlaces'
  <1>1. ASSUME NEW n \in Queueing
        PROVE  NodeOf(n)'
    BY NodeStays DEF NodePlaces
  <1> QED BY <1>1 DEF NodePlaces
-----------------------------------------------------------------------------
LEMMA Compute ==
  ASSUME ModelInv, NEW t \in Threads, compute(t)
  PROVE  ModelInv'
  <1>t. TypeOK /\ ThreadOf(t) /\ ThreadPlaces /\ NodePlaces
    BY DEF ModelInv, ThreadPlaces
  <1>1. /\ ert' = [ert EXCEPT ![t] = ert[t] + 1] /\ ran' = [ran EXCEPT ![t] = ran[t] + 1]
        /\ pc' = pc /\ calls' = calls /\ state' = state /\ key' = key
        /\ simulatingModel' = simulatingModel /\ resumedAt' = resumedAt /\ timeout' = timeout
        /\ currentNode' = currentNode /\ remaining' = remaining /\ budget' = budget /\ at' = at
        /\ due' = due /\ claimed' = claimed /\ waiting' = waiting /\ queue' = queue
        /\ gvt' = gvt /\ runningThread' = runningThread
    BY <1>t DEF compute, Set, push, clocks, network, place
  <1>2. heap' \in BOOLEAN /\ failed' \in BOOLEAN
    BY <1>t DEF compute, Set, push, clocks, network, place, TypeOK
  <1>3. OthersStay({t})
    BY <1>t, <1>1, Domains, DistinctAssumption
       DEF OthersStay, ThreadPlaces, ThreadOf, PhaseOf, RunnableOf
  <1>4. /\ pc'[t] = pc[t] /\ calls'[t] = calls[t] /\ state'[t] = state[t] /\ key'[t] = key[t]
        /\ simulatingModel'[t] = simulatingModel[t] /\ ert'[t] = ert[t] + 1
        /\ resumedAt'[t] = resumedAt[t] /\ ran'[t] = ran[t] + 1 /\ timeout'[t] = timeout[t]
        /\ currentNode'[t] = currentNode[t] /\ remaining'[t] = remaining[t]
        /\ budget'[t] = budget[t] /\ at'[t] = at[t] /\ due'[t] = due[t]
    BY <1>t, <1>1, Domains
  <1>5. TypeOK'
    <2>1. ert[t] + 1 \in Nat /\ ran[t] + 1 \in Nat
      BY <1>t, TypesAt
    <2>2. /\ queue' \subseteq Threads /\ gvt' \in Nat
          /\ runningThread' \in Threads \cup {NoThread}
      BY <1>t, <1>1, TypesAt DEF TypeOK, Later
    <2> QED BY <1>t, <1>1, <1>2, <2>1, <2>2 DEF TypeOK
  <1>6. ThreadOf(t)'
    <2>1. PhaseOf(t)'
      BY <1>t, <1>1, <1>4, TypesAt DEF ThreadOf, PhaseOf, Simulated
    <2>2. CustomerOf(t)'
      BY <1>t, <1>1, <1>4, TypesAt DEF ThreadOf, PhaseOf, CustomerOf, Simulated, finished
    <2>3. ClockOf(t)'
      BY <1>t, <1>1, <1>4, TypesAt
         DEF ThreadOf, PhaseOf, CustomerOf, ClockOf, Simulated, finished, Later
    <2>4. RunnableOf(t)'
      BY <1>t, <1>1, <1>4, TypesAt DEF ThreadOf, PhaseOf, CustomerOf, RunnableOf, Simulated
    <2> QED BY <2>1, <2>2, <2>3, <2>4 DEF ThreadOf
  <1>7. NodePlaces'
    <2>1. \A m \in Queueing : (Holds(t, m)' <=> Holds(t, m)) /\ (Waits(t, m)' <=> Waits(t, m))
      BY <1>t, <1>4, TypesAt
         DEF ThreadOf, PhaseOf, CustomerOf, Simulated, finished, Holds, Waits
    <2> QED BY <1>t, <1>1, <1>3, <2>1, NodesStay
  <1> QED BY <1>t, <1>3, <1>5, <1>6, <1>7, OthersKeep DEF ModelInv, ThreadPlaces

LEMMA Suspend ==
  ASSUME ModelInv, NEW t \in Threads, suspendThread(t)
  PROVE  ModelInv'
  <1>t. TypeOK /\ ThreadOf(t) /\ ThreadPlaces /\ NodePlaces
    BY DEF ModelInv, ThreadPlaces
  <1>a. pc[t] = "user"
    BY DEF suspendThread
  <1>b. state[t] = "RUNNING"
    BY <1>a, <1>t DEF ThreadOf, PhaseOf
  <1>1. /\ pc' = [pc EXCEPT ![t] = "asleep"] /\ state' = [state EXCEPT ![t] = "SUSPENDED"]
        /\ calls' = calls /\ key' = key /\ simulatingModel' = simulatingModel /\ ert' = ert
        /\ resumedAt' = resumedAt /\ ran' = ran /\ timeout' = timeout
        /\ currentNode' = currentNode /\ remaining' = remaining /\ budget' = budget /\ at' = at
        /\ due' = due /\ claimed' = claimed /\ waiting' = waiting /\ queue' = queue \cup {t}
        /\ gvt' = Later(gvt, resumedAt[t] + ran[t])
        /\ runningThread' = NoThread /\ runningThread = t
    BY <1>t DEF suspendThread, Set, push, clocks, network, place
  <1>2. heap' \in BOOLEAN /\ failed' \in BOOLEAN
    BY <1>t DEF suspendThread, Set, push, clocks, network, place, TypeOK
  <1>3. OthersStay({t})
    BY <1>t, <1>1, Domains, DistinctAssumption
       DEF OthersStay, ThreadPlaces, ThreadOf, PhaseOf, RunnableOf
  <1>4. /\ pc'[t] = "asleep" /\ calls'[t] = calls[t] /\ state'[t] = "SUSPENDED"
        /\ key'[t] = key[t] /\ simulatingModel'[t] = simulatingModel[t] /\ ert'[t] = ert[t]
        /\ resumedAt'[t] = resumedAt[t] /\ ran'[t] = ran[t] /\ timeout'[t] = timeout[t]
        /\ currentNode'[t] = currentNode[t] /\ remaining'[t] = remaining[t]
        /\ budget'[t] = budget[t] /\ at'[t] = at[t] /\ due'[t] = due[t]
    BY <1>t, <1>1, Domains
  <1>5. TypeOK'
    <2>2. /\ queue' \subseteq Threads /\ gvt' \in Nat
          /\ runningThread' \in Threads \cup {NoThread}
      BY <1>t, <1>1, TypesAt DEF TypeOK, Later
    <2> QED BY <1>t, <1>1, <1>2, <2>2 DEF TypeOK
  <1>6. ThreadOf(t)'
    <2>1. PhaseOf(t)'
      BY <1>t, <1>1, <1>4, TypesAt, <1>a, <1>b DEF ThreadOf, PhaseOf, Simulated
    <2>2. CustomerOf(t)'
      BY <1>t, <1>1, <1>4, TypesAt, <1>a, <1>b
         DEF ThreadOf, PhaseOf, CustomerOf, Simulated, finished
    <2>3. ClockOf(t)'
      BY <1>t, <1>1, <1>4, TypesAt, <1>a, <1>b
         DEF ThreadOf, PhaseOf, CustomerOf, ClockOf, Simulated, finished, Later
    <2>4. RunnableOf(t)'
      BY <1>t, <1>1, <1>4, TypesAt, <1>a, <1>b
         DEF ThreadOf, PhaseOf, CustomerOf, RunnableOf, Simulated
    <2> QED BY <2>1, <2>2, <2>3, <2>4 DEF ThreadOf
  <1>7. NodePlaces'
    <2>1. \A m \in Queueing : (Holds(t, m)' <=> Holds(t, m)) /\ (Waits(t, m)' <=> Waits(t, m))
      BY <1>t, <1>4, TypesAt, <1>b
         DEF ThreadOf, PhaseOf, CustomerOf, Simulated, finished, Holds, Waits
    <2> QED BY <1>t, <1>1, <1>3, <2>1, NodesStay
  <1> QED BY <1>t, <1>3, <1>5, <1>6, <1>7, OthersKeep DEF ModelInv, ThreadPlaces

LEMMA End ==
  ASSUME ModelInv, NEW t \in Threads, onEnd(t)
  PROVE  ModelInv'
  <1>t. TypeOK /\ ThreadOf(t) /\ ThreadPlaces /\ NodePlaces
    BY DEF ModelInv, ThreadPlaces
  <1>a. pc[t] = "user"
    BY DEF onEnd
  <1>b. state[t] = "RUNNING"
    BY <1>a, <1>t DEF ThreadOf, PhaseOf
  <1>1. /\ pc' = [pc EXCEPT ![t] = "ended"] /\ state' = [state EXCEPT ![t] = "ENDED"]
        /\ calls' = calls /\ key' = key /\ simulatingModel' = simulatingModel /\ ert' = ert
        /\ resumedAt' = resumedAt /\ ran' = ran /\ timeout' = timeout
        /\ currentNode' = currentNode /\ remaining' = remaining /\ budget' = budget /\ at' = at
        /\ due' = due /\ claimed' = claimed /\ waiting' = waiting /\ queue' = queue
        /\ gvt' = Later(gvt, resumedAt[t] + ran[t])
        /\ runningThread' = NoThread /\ runningThread = t
    BY <1>t DEF onEnd, Set, push, clocks, network, place
  <1>2. heap' \in BOOLEAN /\ failed' \in BOOLEAN
    BY <1>t DEF onEnd, Set, push, clocks, network, place, TypeOK
  <1>3. OthersStay({t})
    BY <1>t, <1>1, Domains, DistinctAssumption
       DEF OthersStay, ThreadPlaces, ThreadOf, PhaseOf, RunnableOf
  <1>4. /\ pc'[t] = "ended" /\ calls'[t] = calls[t] /\ state'[t] = "ENDED" /\ key'[t] = key[t]
        /\ simulatingModel'[t] = simulatingModel[t] /\ ert'[t] = ert[t]
        /\ resumedAt'[t] = resumedAt[t] /\ ran'[t] = ran[t] /\ timeout'[t] = timeout[t]
        /\ currentNode'[t] = currentNode[t] /\ remaining'[t] = remaining[t]
        /\ budget'[t] = budget[t] /\ at'[t] = at[t] /\ due'[t] = due[t]
    BY <1>t, <1>1, Domains
  <1>5. TypeOK'
    <2>2. /\ queue' \subseteq Threads /\ gvt' \in Nat
          /\ runningThread' \in Threads \cup {NoThread}
      BY <1>t, <1>1, TypesAt DEF TypeOK, Later
    <2> QED BY <1>t, <1>1, <1>2, <2>2 DEF TypeOK
  <1>6. ThreadOf(t)'
    <2>1. PhaseOf(t)'
      BY <1>t, <1>1, <1>4, TypesAt, <1>a, <1>b DEF ThreadOf, PhaseOf, Simulated
    <2>2. CustomerOf(t)'
      BY <1>t, <1>1, <1>4, TypesAt, <1>a, <1>b
         DEF ThreadOf, PhaseOf, CustomerOf, Simulated, finished
    <2>3. ClockOf(t)'
      BY <1>t, <1>1, <1>4, TypesAt, <1>a, <1>b
         DEF ThreadOf, PhaseOf, CustomerOf, ClockOf, Simulated, finished, Later
    <2>4. RunnableOf(t)'
      BY <1>t, <1>1, <1>4, TypesAt, <1>a, <1>b
         DEF ThreadOf, PhaseOf, CustomerOf, RunnableOf, Simulated
    <2> QED BY <2>1, <2>2, <2>3, <2>4 DEF ThreadOf
  <1>7. NodePlaces'
    <2>1. \A m \in Queueing : (Holds(t, m)' <=> Holds(t, m)) /\ (Waits(t, m)' <=> Waits(t, m))
      BY <1>t, <1>4, TypesAt, <1>b
         DEF ThreadOf, PhaseOf, CustomerOf, Simulated, finished, Holds, Waits
    <2> QED BY <1>t, <1>1, <1>3, <2>1, NodesStay
  <1> QED BY <1>t, <1>3, <1>5, <1>6, <1>7, OthersKeep DEF ModelInv, ThreadPlaces

LEMMA ResumeThread ==
  ASSUME ModelInv, NEW t \in Threads, resumeThread(t), runningThread = NoThread
  PROVE  ModelInv'
  <1>t. TypeOK /\ ThreadOf(t) /\ ThreadPlaces /\ NodePlaces
    BY DEF ModelInv, ThreadPlaces
  <1>a. state[t] = "SUSPENDED" /\ key[t] = NoThread
    BY DEF resumeThread
  <1>1. /\ pc' = [pc EXCEPT ![t] = "user"] /\ state' = [state EXCEPT ![t] = "RUNNING"]
        /\ ert' = [ert EXCEPT ![t] = Later(ert[t], gvt)]
        /\ resumedAt' = [resumedAt EXCEPT ![t] = gvt] /\ ran' = [ran EXCEPT ![t] = 0]
        /\ calls' = calls /\ key' = key /\ simulatingModel' = simulatingModel
        /\ timeout' = timeout /\ currentNode' = currentNode /\ remaining' = remaining
        /\ budget' = budget /\ at' = at /\ due' = due /\ claimed' = claimed
        /\ waiting' = waiting /\ queue' = queue \ {t} /\ gvt' = gvt /\ runningThread' = t
    BY <1>t DEF resumeThread, Set, push, clocks, network, place
  <1>2. heap' \in BOOLEAN /\ failed' \in BOOLEAN
    BY <1>t DEF resumeThread, Set, push, clocks, network, place, TypeOK
  <1>3. OthersStay({t})
    BY <1>t, <1>1, Domains, DistinctAssumption
       DEF OthersStay, ThreadPlaces, ThreadOf, PhaseOf, RunnableOf
  <1>4. /\ pc'[t] = "user" /\ calls'[t] = calls[t] /\ state'[t] = "RUNNING" /\ key'[t] = key[t]
        /\ simulatingModel'[t] = simulatingModel[t] /\ ert'[t] = Later(ert[t], gvt)
        /\ resumedAt'[t] = gvt /\ ran'[t] = 0 /\ timeout'[t] = timeout[t]
        /\ currentNode'[t] = currentNode[t] /\ remaining'[t] = remaining[t]
        /\ budget'[t] = budget[t] /\ at'[t] = at[t] /\ due'[t] = due[t]
    BY <1>t, <1>1, Domains
  <1>5. TypeOK'
    <2>1. Later(ert[t], gvt) \in Nat /\ gvt \in Nat /\ 0 \in Nat
      BY <1>t, TypesAt DEF Later
    <2>2. /\ queue' \subseteq Threads /\ gvt' \in Nat
          /\ runningThread' \in Threads \cup {NoThread}
      BY <1>t, <1>1, TypesAt DEF TypeOK, Later
    <2> QED BY <1>t, <1>1, <1>2, <2>1, <2>2 DEF TypeOK
  <1>6. ThreadOf(t)'
    <2>1. PhaseOf(t)'
      BY <1>t, <1>1, <1>4, TypesAt, <1>a DEF ThreadOf, PhaseOf, Simulated
    <2>2. CustomerOf(t)'
      BY <1>t, <1>1, <1>4, TypesAt, <1>a
         DEF ThreadOf, PhaseOf, CustomerOf, Simulated, finished
    <2>3. ClockOf(t)'
      BY <1>t, <1>1, <1>4, TypesAt, <1>a
         DEF ThreadOf, PhaseOf, CustomerOf, ClockOf, Simulated, finished, Later
    <2>4. RunnableOf(t)'
      BY <1>t, <1>1, <1>4, TypesAt, <1>a
         DEF ThreadOf, PhaseOf, CustomerOf, RunnableOf, Simulated
    <2> QED BY <2>1, <2>2, <2>3, <2>4 DEF ThreadOf
  <1>7. NodePlaces'
    <2>1. \A m \in Queueing : (Holds(t, m)' <=> Holds(t, m)) /\ (Waits(t, m)' <=> Waits(t, m))
      BY <1>t, <1>4, TypesAt, <1>a
         DEF ThreadOf, PhaseOf, CustomerOf, Simulated, finished, Holds, Waits
    <2> QED BY <1>t, <1>1, <1>3, <2>1, NodesStay
  <1> QED BY <1>t, <1>3, <1>5, <1>6, <1>7, OthersKeep DEF ModelInv, ThreadPlaces

\* The thread starts the simulation of its model itself, or leaves it to the
\* scheduler.
LEMMA SimulateItself ==
  ASSUME ModelInv, NEW t \in Threads, simulate(t), Slot - (ert[t] - resumedAt[t]) > 0,
         timeout[t] <= 0
  PROVE  ModelInv'
  <1>t. TypeOK /\ ThreadOf(t) /\ ThreadPlaces /\ NodePlaces
    BY DEF ModelInv, ThreadPlaces
  <1>a. calls[t] < MaxCalls /\ MaxCalls \in Nat /\ Slot \in Nat /\ state[t] = "RUNNING"
    BY BoundsAssumption DEF simulate
  <1>1. /\ pc' = [pc EXCEPT ![t] = "simulate"] /\ calls' = [calls EXCEPT ![t] = calls[t] + 1]
        /\ state' = [state EXCEPT ![t] = "IN_MODEL"] /\ key' = [key EXCEPT ![t] = t]
        /\ simulatingModel' = [simulatingModel EXCEPT ![t] = TRUE]
        /\ currentNode' = [currentNode EXCEPT ![t] = <<Source, "enter">>]
        /\ budget' = [budget EXCEPT ![t] = Slot - (ert[t] - resumedAt[t])]
        /\ at' = [at EXCEPT ![t] = "in"] /\ due' = [due EXCEPT ![t] = ert[t]] /\ ert' = ert
        /\ resumedAt' = resumedAt /\ ran' = ran /\ timeout' = timeout /\ remaining' = remaining
        /\ claimed' = claimed /\ waiting' = waiting /\ queue' = queue /\ gvt' = gvt
        /\ runningThread' = NoThread /\ runningThread = t
    BY <1>t DEF simulate, ThreadOf, PhaseOf, RunnableOf, Set, push, clocks, network, place
  <1>2. heap' \in BOOLEAN /\ failed' \in BOOLEAN
    BY <1>t
       DEF simulate, ThreadOf, PhaseOf, RunnableOf, Set, push, clocks, network, place,
           TypeOK
  <1>3. OthersStay({t})
    BY <1>t, <1>1, Domains, DistinctAssumption
       DEF OthersStay, ThreadPlaces, ThreadOf, PhaseOf, RunnableOf
  <1>4. /\ pc'[t] = "simulate" /\ calls'[t] = calls[t] + 1 /\ state'[t] = "IN_MODEL"
        /\ key'[t] = t /\ simulatingModel'[t] = TRUE /\ ert'[t] = ert[t]
        /\ resumedAt'[t] = resumedAt[t] /\ ran'[t] = ran[t] /\ timeout'[t] = timeout[t]
        /\ currentNode'[t] = <<Source, "enter">> /\ remaining'[t] = remaining[t]
        /\ budget'[t] = Slot - (ert[t] - resumedAt[t]) /\ at'[t] = "in" /\ due'[t] = ert[t]
    BY <1>t, <1>1, Domains
  <1>5. TypeOK'
    <2>1. /\ calls[t] + 1 \in 0..MaxCalls
          /\ <<Source, "enter">> \in Nodes \X {"enter", "queued", "served", "finished"}
          /\ Slot - (ert[t] - resumedAt[t]) \in Int /\ ert[t] \in Nat
      BY <1>t, TypesAt, SourceIsNode, BoundsAssumption, <1>a
    <2>2. /\ queue' \subseteq Threads /\ gvt' \in Nat
          /\ runningThread' \in Threads \cup {NoThread}
      BY <1>t, <1>1, TypesAt DEF TypeOK, Later
    <2> QED BY <1>t, <1>1, <1>2, <2>1, <2>2 DEF TypeOK
  <1>6. ThreadOf(t)'
    <2>1. PhaseOf(t)'
      BY <1>t, <1>1, <1>4, TypesAt, <1>a, DistinctAssumption
         DEF ThreadOf, PhaseOf, Simulated
    <2>2. CustomerOf(t)'
      BY <1>t, <1>1, <1>4, TypesAt, <1>a, DistinctAssumption
         DEF ThreadOf, PhaseOf, CustomerOf, Simulated, finished
    <2>3. ClockOf(t)'
      BY <1>t, <1>1, <1>4, TypesAt, <1>a
         DEF ThreadOf, PhaseOf, CustomerOf, ClockOf, Simulated, finished, Later
    <2>4. RunnableOf(t)'
      BY <1>t, <1>1, <1>4, TypesAt, <1>a, DistinctAssumption
         DEF ThreadOf, PhaseOf, CustomerOf, RunnableOf, Simulated
    <2> QED BY <2>1, <2>2, <2>3, <2>4 DEF ThreadOf
  <1>7. NodePlaces'
    <2>1. \A m \in Queueing : (Holds(t, m)' <=> Holds(t, m)) /\ (Waits(t, m)' <=> Waits(t, m))
      BY <1>t, <1>4, TypesAt, <1>a
         DEF ThreadOf, PhaseOf, CustomerOf, Simulated, finished, Holds, Waits
    <2> QED BY <1>t, <1>1, <1>3, <2>1, NodesStay
  <1> QED BY <1>t, <1>3, <1>5, <1>6, <1>7, OthersKeep DEF ModelInv, ThreadPlaces

LEMMA SimulateLater ==
  ASSUME ModelInv, NEW t \in Threads, simulate(t),
         ~(Slot - (ert[t] - resumedAt[t]) > 0 /\ timeout[t] <= 0)
  PROVE  ModelInv'
  <1>t. TypeOK /\ ThreadOf(t) /\ ThreadPlaces /\ NodePlaces
    BY DEF ModelInv, ThreadPlaces
  <1>a. calls[t] < MaxCalls /\ MaxCalls \in Nat /\ Slot \in Nat /\ state[t] = "RUNNING"
    BY BoundsAssumption DEF simulate
  <1>1. /\ pc' = [pc EXCEPT ![t] = "real"] /\ calls' = [calls EXCEPT ![t] = calls[t] + 1]
        /\ state' = [state EXCEPT ![t] = "IN_MODEL"] /\ key' = [key EXCEPT ![t] = NoThread]
        /\ simulatingModel' = [simulatingModel EXCEPT ![t] = TRUE]
        /\ currentNode' = [currentNode EXCEPT ![t] = <<Source, "enter">>]
        /\ budget' = [budget EXCEPT ![t] = 0] /\ at' = [at EXCEPT ![t] = "no"]
        /\ due' = [due EXCEPT ![t] = ert[t]] /\ ert' = ert /\ resumedAt' = resumedAt
        /\ ran' = ran /\ timeout' = timeout /\ remaining' = remaining /\ claimed' = claimed
        /\ waiting' = waiting /\ queue' = queue \cup {t} /\ gvt' = gvt
        /\ runningThread' = NoThread /\ runningThread = t
    BY <1>t DEF simulate, ThreadOf, PhaseOf, RunnableOf, Set, push, clocks, network, place
  <1>2. heap' \in BOOLEAN /\ failed' \in BOOLEAN
    BY <1>t
       DEF simulate, ThreadOf, PhaseOf, RunnableOf, Set, push, clocks, network, place,
           TypeOK
  <1>3. OthersStay({t})
    BY <1>t, <1>1, Domains, DistinctAssumption
       DEF OthersStay, ThreadPlaces, ThreadOf, PhaseOf, RunnableOf
  <1>4. /\ pc'[t] = "real" /\ calls'[t] = calls[t] + 1 /\ state'[t] = "IN_MODEL"
        /\ key'[t] = NoThread /\ simulatingModel'[t] = TRUE /\ ert'[t] = ert[t]
        /\ resumedAt'[t] = resumedAt[t] /\ ran'[t] = ran[t] /\ timeout'[t] = timeout[t]
        /\ currentNode'[t] = <<Source, "enter">> /\ remaining'[t] = remaining[t]
        /\ budget'[t] = 0 /\ at'[t] = "no" /\ due'[t] = ert[t]
    BY <1>t, <1>1, Domains
  <1>5. TypeOK'
    <2>1. /\ calls[t] + 1 \in 0..MaxCalls
          /\ <<Source, "enter">> \in Nodes \X {"enter", "queued", "served", "finished"}
          /\ 0 \in Int /\ ert[t] \in Nat
      BY <1>t, TypesAt, SourceIsNode, BoundsAssumption, <1>a
    <2>2. /\ queue' \subseteq Threads /\ gvt' \in Nat
          /\ runningThread' \in Threads \cup {NoThread}
      BY <1>t, <1>1, TypesAt DEF TypeOK, Later
    <2> QED BY <1>t, <1>1, <1>2, <2>1, <2>2 DEF TypeOK
  <1>6. ThreadOf(t)'
    <2>1. PhaseOf(t)'
      BY <1>t, <1>1, <1>4, TypesAt, <1>a, DistinctAssumption
         DEF ThreadOf, PhaseOf, Simulated
    <2>2. CustomerOf(t)'
      BY <1>t, <1>1, <1>4, TypesAt, <1>a, DistinctAssumption
         DEF ThreadOf, PhaseOf, CustomerOf, Simulated, finished
    <2>3. ClockOf(t)'
      BY <1>t, <1>1, <1>4, TypesAt, <1>a
         DEF ThreadOf, PhaseOf, CustomerOf, ClockOf, Simulated, finished, Later
    <2>4. RunnableOf(t)'
      BY <1>t, <1>1, <1>4, TypesAt, <1>a, DistinctAssumption
         DEF ThreadOf, PhaseOf, CustomerOf, RunnableOf, Simulated
    <2> QED BY <2>1, <2>2, <2>3, <2>4 DEF ThreadOf
  <1>7. NodePlaces'
    <2>1. \A m \in Queueing : (Holds(t, m)' <=> Holds(t, m)) /\ (Waits(t, m)' <=> Waits(t, m))
      BY <1>t, <1>4, TypesAt, <1>a
         DEF ThreadOf, PhaseOf, CustomerOf, Simulated, finished, Holds, Waits
    <2> QED BY <1>t, <1>1, <1>3, <2>1, NodesStay
  <1> QED BY <1>t, <1>3, <1>5, <1>6, <1>7, OthersKeep DEF ModelInv, ThreadPlaces

\* The scheduler resumes a simulation, after a timed service or at once.
LEMMA ResumeTimed ==
  ASSUME ModelInv, NEW t \in Threads, resumeModelSimulation(t), timeout[t] > 0
  PROVE  ModelInv'
  <1>t. TypeOK /\ ThreadOf(t) /\ ThreadPlaces /\ NodePlaces
    BY DEF ModelInv, ThreadPlaces
  <1>a. (6 * Slot) \div 5 \in Int /\ (6 * Slot) \div 5 > 0
    BY BoundsAssumption
  <1>b. state[t] = "IN_MODEL" /\ key[t] = NoThread
    BY DEF resumeModelSimulation
  <1>1. /\ key' = [key EXCEPT ![t] = Scheduler]
        /\ resumedAt' = [resumedAt EXCEPT ![t] = Later(gvt, ert[t])]
        /\ ran' = [ran EXCEPT ![t] = 0] /\ timeout' = [timeout EXCEPT ![t] = -1]
        /\ budget' = [budget EXCEPT ![t] = (6 * Slot) \div 5] /\ at' = [at EXCEPT ![t] = "in"]
        /\ pc' = pc /\ calls' = calls /\ state' = state /\ simulatingModel' = simulatingModel
        /\ ert' = ert /\ currentNode' = currentNode /\ remaining' = remaining /\ due' = due
        /\ claimed' = claimed /\ waiting' = waiting /\ queue' = queue \ {t}
        /\ gvt' = Later(gvt, ert[t]) /\ runningThread' = runningThread
    BY <1>t
       DEF resumeModelSimulation, isModelTimedWaiting, Set, push, clocks, network, place
  <1>2. heap' \in BOOLEAN /\ failed' \in BOOLEAN
    BY <1>t
       DEF resumeModelSimulation, isModelTimedWaiting, Set, push, clocks, network, place,
           TypeOK
  <1>3. OthersStay({t})
    BY <1>t, <1>1, Domains, DistinctAssumption
       DEF OthersStay, ThreadPlaces, ThreadOf, PhaseOf, RunnableOf
  <1>4. /\ pc'[t] = pc[t] /\ calls'[t] = calls[t] /\ state'[t] = state[t] /\ key'[t] = Scheduler
        /\ simulatingModel'[t] = simulatingModel[t] /\ ert'[t] = ert[t]
        /\ resumedAt'[t] = Later(gvt, ert[t]) /\ ran'[t] = 0 /\ timeout'[t] = -1
        /\ currentNode'[t] = currentNode[t] /\ remaining'[t] = remaining[t]
        /\ budget'[t] = (6 * Slot) \div 5 /\ at'[t] = "in" /\ due'[t] = due[t]
    BY <1>t, <1>1, Domains
  <1>5. TypeOK'
    <2>1. Later(gvt, ert[t]) \in Nat /\ 0 \in Nat /\ (6 * Slot) \div 5 \in Int
      BY <1>t, TypesAt, <1>a DEF Later
    <2>2. /\ queue' \subseteq Threads /\ gvt' \in Nat
          /\ runningThread' \in Threads \cup {NoThread}
      BY <1>t, <1>1, TypesAt DEF TypeOK, Later
    <2> QED BY <1>t, <1>1, <1>2, <2>1, <2>2 DEF TypeOK
  <1>6. ThreadOf(t)'
    <2>1. PhaseOf(t)'
      BY <1>t, <1>1, <1>4, TypesAt, <1>a, <1>b, DistinctAssumption
         DEF ThreadOf, PhaseOf, Simulated
    <2>2. CustomerOf(t)'
      BY <1>t, <1>1, <1>4, TypesAt, <1>a, <1>b, DistinctAssumption
         DEF ThreadOf, PhaseOf, CustomerOf, Simulated, finished
    <2>3. ClockOf(t)'
      BY <1>t, <1>1, <1>4, TypesAt, <1>b
         DEF ThreadOf, PhaseOf, CustomerOf, ClockOf, Simulated, finished, Later
    <2>4. RunnableOf(t)'
      BY <1>t, <1>1, <1>4, TypesAt, <1>a, <1>b, DistinctAssumption
         DEF ThreadOf, PhaseOf, CustomerOf, RunnableOf, Simulated
    <2> QED BY <2>1, <2>2, <2>3, <2>4 DEF ThreadOf
  <1>7. NodePlaces'
    <2>1. \A m \in Queueing : (Holds(t, m)' <=> Holds(t, m)) /\ (Waits(t, m)' <=> Waits(t, m))
      BY <1>t, <1>4, TypesAt, <1>b
         DEF ThreadOf, PhaseOf, CustomerOf, Simulated, finished, Holds, Waits
    <2> QED BY <1>t, <1>1, <1>3, <2>1, NodesStay
  <1> QED BY <1>t, <1>3, <1>5, <1>6, <1>7, OthersKeep DEF ModelInv, ThreadPlaces

LEMMA ResumeModel ==
  ASSUME ModelInv, NEW t \in Threads, resumeModelSimulation(t), ~(timeout[t] > 0)
  PROVE  ModelInv'
  <1>t. TypeOK /\ ThreadOf(t) /\ ThreadPlaces /\ NodePlaces
    BY DEF ModelInv, ThreadPlaces
  <1>a. (6 * Slot) \div 5 \in Int /\ (6 * Slot) \div 5 > 0
    BY BoundsAssumption
  <1>b. state[t] = "IN_MODEL" /\ key[t] = NoThread
    BY DEF resumeModelSimulation
  <1>1. /\ key' = [key EXCEPT ![t] = Scheduler] /\ ert' = [ert EXCEPT ![t] = Later(ert[t], gvt)]
        /\ resumedAt' = [resumedAt EXCEPT ![t] = gvt] /\ ran' = [ran EXCEPT ![t] = 0]
        /\ budget' = [budget EXCEPT ![t] = (6 * Slot) \div 5] /\ at' = [at EXCEPT ![t] = "in"]
        /\ pc' = pc /\ calls' = calls /\ state' = state /\ simulatingModel' = simulatingModel
        /\ timeout' = timeout /\ currentNode' = currentNode /\ remaining' = remaining
        /\ due' = due /\ claimed' = claimed /\ waiting' = waiting /\ queue' = queue \ {t}
        /\ gvt' = gvt /\ runningThread' = runningThread
    BY <1>t
       DEF resumeModelSimulation, isModelTimedWaiting, Set, push, clocks, network, place
  <1>2. heap' \in BOOLEAN /\ failed' \in BOOLEAN
    BY <1>t
       DEF resumeModelSimulation, isModelTimedWaiting, Set, push, clocks, network, place,
           TypeOK
  <1>3. OthersStay({t})
    BY <1>t, <1>1, Domains, DistinctAssumption
       DEF OthersStay, ThreadPlaces, ThreadOf, PhaseOf, RunnableOf
  <1>4. /\ pc'[t] = pc[t] /\ calls'[t] = calls[t] /\ state'[t] = state[t] /\ key'[t] = Scheduler
        /\ simulatingModel'[t] = simulatingModel[t] /\ ert'[t] = Later(ert[t], gvt)
        /\ resumedAt'[t] = gvt /\ ran'[t] = 0 /\ timeout'[t] = timeout[t]
        /\ currentNode'[t] = currentNode[t] /\ remaining'[t] = remaining[t]
        /\ budget'[t] = (6 * Slot) \div 5 /\ at'[t] = "in" /\ due'[t] = due[t]
    BY <1>t, <1>1, Domains
  <1>5. TypeOK'
    <2>1. Later(ert[t], gvt) \in Nat /\ gvt \in Nat /\ 0 \in Nat /\ (6 * Slot) \div 5 \in Int
      BY <1>t, TypesAt, <1>a DEF Later
    <2>2. /\ queue' \subseteq Threads /\ gvt' \in Nat
          /\ runningThread' \in Threads \cup {NoThread}
      BY <1>t, <1>1, TypesAt DEF TypeOK, Later
    <2> QED BY <1>t, <1>1, <1>2, <2>1, <2>2 DEF TypeOK
  <1>6. ThreadOf(t)'
    <2>1. PhaseOf(t)'
      BY <1>t, <1>1, <1>4, TypesAt, <1>a, <1>b, DistinctAssumption
         DEF ThreadOf, PhaseOf, Simulated
    <2>2. CustomerOf(t)'
      BY <1>t, <1>1, <1>4, TypesAt, <1>a, <1>b, DistinctAssumption
         DEF ThreadOf, PhaseOf, CustomerOf, Simulated, finished
    <2>3. ClockOf(t)'
      BY <1>t, <1>1, <1>4, TypesAt, <1>b
         DEF ThreadOf, PhaseOf, CustomerOf, ClockOf, Simulated, finished, Later
    <2>4. RunnableOf(t)'
      BY <1>t, <1>1, <1>4, TypesAt, <1>a, <1>b, DistinctAssumption
         DEF ThreadOf, PhaseOf, CustomerOf, RunnableOf, Simulated
    <2> QED BY <2>1, <2>2, <2>3, <2>4 DEF ThreadOf
  <1>7. NodePlaces'
    <2>1. \A m \in Queueing : (Holds(t, m)' <=> Holds(t, m)) /\ (Waits(t, m)' <=> Waits(t, m))
      BY <1>t, <1>4, TypesAt, <1>b
         DEF ThreadOf, PhaseOf, CustomerOf, Simulated, finished, Holds, Waits
    <2> QED BY <1>t, <1>1, <1>3, <2>1, NodesStay
  <1> QED BY <1>t, <1>3, <1>5, <1>6, <1>7, OthersKeep DEF ModelInv, ThreadPlaces

LEMMA PollBlocked ==
  ASSUME ModelInv, NEW t \in Threads, pollFindsBlocked(t)
  PROVE  ModelInv'
  <1>t. TypeOK /\ ThreadOf(t) /\ ThreadPlaces /\ NodePlaces
    BY DEF ModelInv, ThreadPlaces
  <1>a. state[t] = "AFTER_MODEL" /\ pc[t] = "real"
    BY DEF pollFindsBlocked
  <1>p. PICK v \in queue : ert' = Set(ert, t, Later(ert[t], ert[v] + 1))
    BY DEF pollFindsBlocked
  <1>c. ert[v] \in Nat
    BY <1>t DEF TypeOK
  <1>1. /\ ert' = [ert EXCEPT ![t] = Later(ert[t], ert[v] + 1)] /\ pc' = pc /\ calls' = calls
        /\ state' = state /\ key' = key /\ simulatingModel' = simulatingModel
        /\ resumedAt' = resumedAt /\ ran' = ran /\ timeout' = timeout
        /\ currentNode' = currentNode /\ remaining' = remaining /\ budget' = budget /\ at' = at
        /\ due' = due /\ claimed' = claimed /\ waiting' = waiting /\ queue' = queue
        /\ gvt' = gvt /\ runningThread' = runningThread
    BY <1>t, <1>p DEF pollFindsBlocked, Set, push, clocks, network, place
  <1>2. heap' \in BOOLEAN /\ failed' \in BOOLEAN
    BY <1>t, <1>p DEF pollFindsBlocked, Set, push, clocks, network, place, TypeOK
  <1>3. OthersStay({t})
    BY <1>t, <1>1, Domains, DistinctAssumption
       DEF OthersStay, ThreadPlaces, ThreadOf, PhaseOf, RunnableOf
  <1>4. /\ pc'[t] = pc[t] /\ calls'[t] = calls[t] /\ state'[t] = state[t] /\ key'[t] = key[t]
        /\ simulatingModel'[t] = simulatingModel[t] /\ ert'[t] = Later(ert[t], ert[v] + 1)
        /\ resumedAt'[t] = resumedAt[t] /\ ran'[t] = ran[t] /\ timeout'[t] = timeout[t]
        /\ currentNode'[t] = currentNode[t] /\ remaining'[t] = remaining[t]
        /\ budget'[t] = budget[t] /\ at'[t] = at[t] /\ due'[t] = due[t]
    BY <1>t, <1>1, Domains
  <1>5. TypeOK'
    <2>1. Later(ert[t], ert[v] + 1) \in Nat
      BY <1>t, TypesAt, <1>p, <1>c DEF Later
    <2>2. /\ queue' \subseteq Threads /\ gvt' \in Nat
          /\ runningThread' \in Threads \cup {NoThread}
      BY <1>t, <1>1, TypesAt DEF TypeOK, Later
    <2> QED BY <1>t, <1>1, <1>2, <2>1, <2>2 DEF TypeOK
  <1>6. ThreadOf(t)'
    <2>1. PhaseOf(t)'
      BY <1>t, <1>1, <1>4, TypesAt, <1>p, <1>a DEF ThreadOf, PhaseOf, Simulated
    <2>2. CustomerOf(t)'
      BY <1>t, <1>1, <1>4, TypesAt, <1>p, <1>a
         DEF ThreadOf, PhaseOf, CustomerOf, Simulated, finished
    <2>3. ClockOf(t)'
      BY <1>t, <1>1, <1>4, TypesAt, <1>p, <1>a, <1>c
         DEF ThreadOf, PhaseOf, CustomerOf, ClockOf, Simulated, finished, Later
    <2>4. RunnableOf(t)'
      BY <1>t, <1>1, <1>4, TypesAt, <1>p, <1>a
         DEF ThreadOf, PhaseOf, CustomerOf, RunnableOf, Simulated
    <2> QED BY <2>1, <2>2, <2>3, <2>4 DEF ThreadOf
  <1>7. NodePlaces'
    <2>1. \A m \in Queueing : (Holds(t, m)' <=> Holds(t, m)) /\ (Waits(t, m)' <=> Waits(t, m))
      BY <1>t, <1>4, TypesAt, <1>p
         DEF ThreadOf, PhaseOf, CustomerOf, Simulated, finished, Holds, Waits
    <2> QED BY <1>t, <1>1, <1>3, <2>1, NodesStay
  <1> QED BY <1>t, <1>3, <1>5, <1>6, <1>7, OthersKeep DEF ModelInv, ThreadPlaces

LEMMA Continues ==
  ASSUME ModelInv, NEW t \in Threads, simulationContinues(t)
  PROVE  ModelInv'
  <1>t. TypeOK /\ ThreadOf(t) /\ ThreadPlaces /\ NodePlaces
    BY DEF ModelInv, ThreadPlaces
  <1>a. at[t] = "test" /\ ~finished(t) /\ state[t] = "IN_MODEL" /\ timeout[t] <= 0 /\ budget[t] > 0
    BY DEF simulationContinues, simulationGoesOn
  <1>1. /\ at' = [at EXCEPT ![t] = "in"] /\ pc' = pc /\ calls' = calls /\ state' = state
        /\ key' = key /\ simulatingModel' = simulatingModel /\ ert' = ert
        /\ resumedAt' = resumedAt /\ ran' = ran /\ timeout' = timeout
        /\ currentNode' = currentNode /\ remaining' = remaining /\ budget' = budget
        /\ due' = due /\ claimed' = claimed /\ waiting' = waiting /\ queue' = queue
        /\ gvt' = gvt /\ runningThread' = runningThread
    BY <1>t DEF simulationContinues, Set, push, clocks, network, place
  <1>2. heap' \in BOOLEAN /\ failed' \in BOOLEAN
    BY <1>t DEF simulationContinues, Set, push, clocks, network, place, TypeOK
  <1>3. OthersStay({t})
    BY <1>t, <1>1, Domains, DistinctAssumption
       DEF OthersStay, ThreadPlaces, ThreadOf, PhaseOf, RunnableOf
  <1>4. /\ pc'[t] = pc[t] /\ calls'[t] = calls[t] /\ state'[t] = state[t] /\ key'[t] = key[t]
        /\ simulatingModel'[t] = simulatingModel[t] /\ ert'[t] = ert[t]
        /\ resumedAt'[t] = resumedAt[t] /\ ran'[t] = ran[t] /\ timeout'[t] = timeout[t]
        /\ currentNode'[t] = currentNode[t] /\ remaining'[t] = remaining[t]
        /\ budget'[t] = budget[t] /\ at'[t] = "in" /\ due'[t] = due[t]
    BY <1>t, <1>1, Domains
  <1>5. TypeOK'
    <2>2. /\ queue' \subseteq Threads /\ gvt' \in Nat
          /\ runningThread' \in Threads \cup {NoThread}
      BY <1>t, <1>1, TypesAt DEF TypeOK, Later
    <2> QED BY <1>t, <1>1, <1>2, <2>2 DEF TypeOK
  <1>6. ThreadOf(t)'
    <2>1. PhaseOf(t)'
      BY <1>t, <1>1, <1>4, TypesAt, <1>a DEF ThreadOf, PhaseOf, Simulated
    <2>2. CustomerOf(t)'
      BY <1>t, <1>1, <1>4, TypesAt, <1>a
         DEF ThreadOf, PhaseOf, CustomerOf, Simulated, finished
    <2>3. ClockOf(t)'
      BY <1>t, <1>1, <1>4, TypesAt
         DEF ThreadOf, PhaseOf, CustomerOf, ClockOf, Simulated, finished, Later
    <2>4. RunnableOf(t)'
      BY <1>t, <1>1, <1>4, TypesAt, <1>a
         DEF ThreadOf, PhaseOf, CustomerOf, RunnableOf, Simulated
    <2> QED BY <2>1, <2>2, <2>3, <2>4 DEF ThreadOf
  <1>7. NodePlaces'
    <2>1. \A m \in Queueing : (Holds(t, m)' <=> Holds(t, m)) /\ (Waits(t, m)' <=> Waits(t, m))
      BY <1>t, <1>4, TypesAt, <1>a
         DEF ThreadOf, PhaseOf, CustomerOf, Simulated, finished, Holds, Waits
    <2> QED BY <1>t, <1>1, <1>3, <2>1, NodesStay
  <1> QED BY <1>t, <1>3, <1>5, <1>6, <1>7, OthersKeep DEF ModelInv, ThreadPlaces

\* The loop ends with the simulation: the thread waits for its real code.
LEMMA StopsFinished ==
  ASSUME ModelInv, NEW t \in Threads, simulationStops(t), finished(t)
  PROVE  ModelInv'
  <1>t. TypeOK /\ ThreadOf(t) /\ ThreadPlaces /\ NodePlaces
    BY DEF ModelInv, ThreadPlaces
  <1>a. at[t] = "test" /\ ~simulationGoesOn(t)
    BY DEF simulationStops
  <1>b. PICK p \in {"user", "simulate", "real", "exit", "asleep", "ended"} :
          /\ pc' = [pc EXCEPT ![t] = p]
          /\ p = pc[t] \/ (pc[t] = "simulate" /\ p = "real")
          /\ p # "simulate"
    <2>1. pc \in [Threads -> {"user", "simulate", "real", "exit", "asleep", "ended"}]
      BY <1>t DEF TypeOK
    <2> QED BY <2>1 DEF simulationStops, Set
  <1>1. /\ pc' = [pc EXCEPT ![t] = p] /\ state' = [state EXCEPT ![t] = "AFTER_MODEL"]
        /\ key' = [key EXCEPT ![t] = NoThread]
        /\ simulatingModel' = [simulatingModel EXCEPT ![t] = FALSE]
        /\ ert' = [ert EXCEPT ![t] = resumedAt[t]]
        /\ resumedAt' = [resumedAt EXCEPT ![t] = ert[t]] /\ budget' = [budget EXCEPT ![t] = 0]
        /\ at' = [at EXCEPT ![t] = "no"] /\ calls' = calls /\ ran' = ran /\ timeout' = timeout
        /\ currentNode' = currentNode /\ remaining' = remaining /\ due' = due
        /\ claimed' = claimed /\ waiting' = waiting /\ queue' = queue \cup {t} /\ gvt' \in Nat
        /\ runningThread' = runningThread
    BY <1>t, <1>b, TypesAt
       DEF simulationStops, _simulateModel, waitForRealCodeToComplete, Set, push, clocks,
           network, place
  <1>2. heap' \in BOOLEAN /\ failed' \in BOOLEAN
    BY <1>t
       DEF simulationStops, _simulateModel, waitForRealCodeToComplete, Set, push, clocks,
           network, place, TypeOK
  <1>3. OthersStay({t})
    BY <1>t, <1>1, Domains, DistinctAssumption
       DEF OthersStay, ThreadPlaces, ThreadOf, PhaseOf, RunnableOf
  <1>4. /\ pc'[t] = p /\ calls'[t] = calls[t] /\ state'[t] = "AFTER_MODEL" /\ key'[t] = NoThread
        /\ simulatingModel'[t] = FALSE /\ ert'[t] = resumedAt[t] /\ resumedAt'[t] = ert[t]
        /\ ran'[t] = ran[t] /\ timeout'[t] = timeout[t] /\ currentNode'[t] = currentNode[t]
        /\ remaining'[t] = remaining[t] /\ budget'[t] = 0 /\ at'[t] = "no" /\ due'[t] = due[t]
    BY <1>t, <1>1, Domains
  <1>5. TypeOK'
    <2>1. resumedAt[t] \in Nat /\ ert[t] \in Nat /\ 0 \in Int
      BY <1>t, TypesAt
    <2>2. /\ queue' \subseteq Threads /\ gvt' \in Nat
          /\ runningThread' \in Threads \cup {NoThread}
      BY <1>t, <1>1, TypesAt DEF TypeOK, Later
    <2> QED BY <1>t, <1>1, <1>2, <2>1, <2>2 DEF TypeOK
  <1>6. ThreadOf(t)'
    <2>1. PhaseOf(t)'
      BY <1>t, <1>1, <1>4, TypesAt, <1>a, <1>b DEF ThreadOf, PhaseOf, Simulated
    <2>2. CustomerOf(t)'
      BY <1>t, <1>1, <1>4, TypesAt, <1>a, <1>b
         DEF ThreadOf, PhaseOf, CustomerOf, Simulated, finished
    <2>3. ClockOf(t)'
      BY <1>t, <1>1, <1>4, TypesAt, <1>a, <1>b
         DEF ThreadOf, PhaseOf, CustomerOf, ClockOf, Simulated, finished, Later
    <2>4. RunnableOf(t)'
      BY <1>t, <1>1, <1>4, TypesAt, <1>a, <1>b
         DEF ThreadOf, PhaseOf, CustomerOf, RunnableOf, Simulated
    <2> QED BY <2>1, <2>2, <2>3, <2>4 DEF ThreadOf
  <1>7. NodePlaces'
    <2>1. \A m \in Queueing : (Holds(t, m)' <=> Holds(t, m)) /\ (Waits(t, m)' <=> Waits(t, m))
      BY <1>t, <1>4, TypesAt, <1>a
         DEF ThreadOf, PhaseOf, CustomerOf, Simulated, finished, Holds, Waits
    <2> QED BY <1>t, <1>1, <1>3, <2>1, NodesStay
  <1> QED BY <1>t, <1>3, <1>5, <1>6, <1>7, OthersKeep DEF ModelInv, ThreadPlaces

\* It ends for now, with the thread runnable or in the queue of a node.
LEMMA StopsRunnable ==
  ASSUME ModelInv, NEW t \in Threads, simulationStops(t), ~finished(t),
         state[t] = "IN_MODEL"
  PROVE  ModelInv'
  <1>t. TypeOK /\ ThreadOf(t) /\ ThreadPlaces /\ NodePlaces
    BY DEF ModelInv, ThreadPlaces
  <1>a. at[t] = "test" /\ ~simulationGoesOn(t)
    BY DEF simulationStops
  <1>b. PICK p \in {"user", "simulate", "real", "exit", "asleep", "ended"} :
          /\ pc' = [pc EXCEPT ![t] = p]
          /\ p = pc[t] \/ (pc[t] = "simulate" /\ p = "real")
          /\ p # "simulate"
    <2>1. pc \in [Threads -> {"user", "simulate", "real", "exit", "asleep", "ended"}]
      BY <1>t DEF TypeOK
    <2> QED BY <2>1 DEF simulationStops, Set
  <1>1. /\ pc' = [pc EXCEPT ![t] = p] /\ key' = [key EXCEPT ![t] = NoThread]
        /\ budget' = [budget EXCEPT ![t] = 0] /\ at' = [at EXCEPT ![t] = "no"] /\ calls' = calls
        /\ state' = state /\ simulatingModel' = simulatingModel /\ ert' = ert
        /\ resumedAt' = resumedAt /\ ran' = ran /\ timeout' = timeout
        /\ currentNode' = currentNode /\ remaining' = remaining /\ due' = due
        /\ claimed' = claimed /\ waiting' = waiting /\ queue' = queue \cup {t} /\ gvt' \in Nat
        /\ runningThread' = runningThread
    BY <1>t, <1>b, TypesAt
       DEF simulationStops, _simulateModel, Set, push, clocks, network, place
  <1>2. heap' \in BOOLEAN /\ failed' \in BOOLEAN
    BY <1>t DEF simulationStops, _simulateModel, Set, push, clocks, network, place, TypeOK
  <1>3. OthersStay({t})
    BY <1>t, <1>1, Domains, DistinctAssumption
       DEF OthersStay, ThreadPlaces, ThreadOf, PhaseOf, RunnableOf
  <1>4. /\ pc'[t] = p /\ calls'[t] = calls[t] /\ state'[t] = state[t] /\ key'[t] = NoThread
        /\ simulatingModel'[t] = simulatingModel[t] /\ ert'[t] = ert[t]
        /\ resumedAt'[t] = resumedAt[t] /\ ran'[t] = ran[t] /\ timeout'[t] = timeout[t]
        /\ currentNode'[t] = currentNode[t] /\ remaining'[t] = remaining[t] /\ budget'[t] = 0
        /\ at'[t] = "no" /\ due'[t] = due[t]
    BY <1>t, <1>1, Domains
  <1>5. TypeOK'
    <2>1. 0 \in Int
      BY <1>t, TypesAt
    <2>2. /\ queue' \subseteq Threads /\ gvt' \in Nat
          /\ runningThread' \in Threads \cup {NoThread}
      BY <1>t, <1>1, TypesAt DEF TypeOK, Later
    <2> QED BY <1>t, <1>1, <1>2, <2>1, <2>2 DEF TypeOK
  <1>6. ThreadOf(t)'
    <2>1. PhaseOf(t)'
      BY <1>t, <1>1, <1>4, TypesAt, <1>a, <1>b DEF ThreadOf, PhaseOf, Simulated
    <2>2. CustomerOf(t)'
      BY <1>t, <1>1, <1>4, TypesAt, <1>a, <1>b
         DEF ThreadOf, PhaseOf, CustomerOf, Simulated, finished
    <2>3. ClockOf(t)'
      BY <1>t, <1>1, <1>4, TypesAt, <1>a, <1>b
         DEF ThreadOf, PhaseOf, CustomerOf, ClockOf, Simulated, finished, Later
    <2>4. RunnableOf(t)'
      BY <1>t, <1>1, <1>4, TypesAt, <1>a, <1>b
         DEF ThreadOf, PhaseOf, CustomerOf, RunnableOf, Simulated
    <2> QED BY <2>1, <2>2, <2>3, <2>4 DEF ThreadOf
  <1>7. NodePlaces'
    <2>1. \A m \in Queueing : (Holds(t, m)' <=> Holds(t, m)) /\ (Waits(t, m)' <=> Waits(t, m))
      BY <1>t, <1>4, TypesAt, <1>a
         DEF ThreadOf, PhaseOf, CustomerOf, Simulated, finished, Holds, Waits
    <2> QED BY <1>t, <1>1, <1>3, <2>1, NodesStay
  <1> QED BY <1>t, <1>3, <1>5, <1>6, <1>7, OthersKeep DEF ModelInv, ThreadPlaces

LEMMA StopsWaiting ==
  ASSUME ModelInv, NEW t \in Threads, simulationStops(t), ~finished(t),
         state[t] # "IN_MODEL"
  PROVE  ModelInv'
  <1>t. TypeOK /\ ThreadOf(t) /\ ThreadPlaces /\ NodePlaces
    BY DEF ModelInv, ThreadPlaces
  <1>a. at[t] = "test" /\ ~simulationGoesOn(t)
    BY DEF simulationStops
  <1>b. PICK p \in {"user", "simulate", "real", "exit", "asleep", "ended"} :
          /\ pc' = [pc EXCEPT ![t] = p]
          /\ p = pc[t] \/ (pc[t] = "simulate" /\ p = "real")
          /\ p # "simulate"
    <2>1. pc \in [Threads -> {"user", "simulate", "real", "exit", "asleep", "ended"}]
      BY <1>t DEF TypeOK
    <2> QED BY <2>1 DEF simulationStops, Set
  <1>1. /\ pc' = [pc EXCEPT ![t] = p] /\ key' = [key EXCEPT ![t] = NoThread]
        /\ budget' = [budget EXCEPT ![t] = 0] /\ at' = [at EXCEPT ![t] = "no"] /\ calls' = calls
        /\ state' = state /\ simulatingModel' = simulatingModel /\ ert' = ert
        /\ resumedAt' = resumedAt /\ ran' = ran /\ timeout' = timeout
        /\ currentNode' = currentNode /\ remaining' = remaining /\ due' = due
        /\ claimed' = claimed /\ waiting' = waiting /\ queue' = queue /\ gvt' \in Nat
        /\ runningThread' = runningThread
    BY <1>t, <1>b, TypesAt
       DEF simulationStops, _simulateModel, Set, push, clocks, network, place
  <1>2. heap' \in BOOLEAN /\ failed' \in BOOLEAN
    BY <1>t DEF simulationStops, _simulateModel, Set, push, clocks, network, place, TypeOK
  <1>3. OthersStay({t})
    BY <1>t, <1>1, Domains, DistinctAssumption
       DEF OthersStay, ThreadPlaces, ThreadOf, PhaseOf, RunnableOf
  <1>4. /\ pc'[t] = p /\ calls'[t] = calls[t] /\ state'[t] = state[t] /\ key'[t] = NoThread
        /\ simulatingModel'[t] = simulatingModel[t] /\ ert'[t] = ert[t]
        /\ resumedAt'[t] = resumedAt[t] /\ ran'[t] = ran[t] /\ timeout'[t] = timeout[t]
        /\ currentNode'[t] = currentNode[t] /\ remaining'[t] = remaining[t] /\ budget'[t] = 0
        /\ at'[t] = "no" /\ due'[t] = due[t]
    BY <1>t, <1>1, Domains
  <1>5. TypeOK'
    <2>1. 0 \in Int
      BY <1>t, TypesAt
    <2>2. /\ queue' \subseteq Threads /\ gvt' \in Nat
          /\ runningThread' \in Threads \cup {NoThread}
      BY <1>t, <1>1, TypesAt DEF TypeOK, Later
    <2> QED BY <1>t, <1>1, <1>2, <2>1, <2>2 DEF TypeOK
  <1>6. ThreadOf(t)'
    <2>1. PhaseOf(t)'
      BY <1>t, <1>1, <1>4, TypesAt, <1>a, <1>b DEF ThreadOf, PhaseOf, Simulated
    <2>2. CustomerOf(t)'
      BY <1>t, <1>1, <1>4, TypesAt, <1>a, <1>b
         DEF ThreadOf, PhaseOf, CustomerOf, Simulated, finished
    <2>3. ClockOf(t)'
      BY <1>t, <1>1, <1>4, TypesAt, <1>a, <1>b
         DEF ThreadOf, PhaseOf, CustomerOf, ClockOf, Simulated, finished, Later
    <2>4. RunnableOf(t)'
      BY <1>t, <1>1, <1>4, TypesAt, <1>a, <1>b
         DEF ThreadOf, PhaseOf, CustomerOf, RunnableOf, Simulated
    <2> QED BY <2>1, <2>2, <2>3, <2>4 DEF ThreadOf
  <1>7. NodePlaces'
    <2>1. \A m \in Queueing : (Holds(t, m)' <=> Holds(t, m)) /\ (Waits(t, m)' <=> Waits(t, m))
      BY <1>t, <1>4, TypesAt, <1>a
         DEF ThreadOf, PhaseOf, CustomerOf, Simulated, finished, Holds, Waits
    <2> QED BY <1>t, <1>1, <1>3, <2>1, NodesStay
  <1> QED BY <1>t, <1>3, <1>5, <1>6, <1>7, OthersKeep DEF ModelInv, ThreadPlaces

LEMMA ModelExit ==
  ASSUME ModelInv, NEW t \in Threads, onSynchronizeOnModelExit(t)
  PROVE  ModelInv'
  <1>t. TypeOK /\ ThreadOf(t) /\ ThreadPlaces /\ NodePlaces
    BY DEF ModelInv, ThreadPlaces
  <1>a. pc[t] = "real" /\ ~simulatingModel[t]
    BY DEF onSynchronizeOnModelExit, blockUntilModelSimulationEnd
  <1>b. state[t] = "AFTER_MODEL"
    BY <1>a, <1>t DEF ThreadOf, PhaseOf, Simulated
  <1>1. /\ pc' = [pc EXCEPT ![t] = "exit"] /\ ert' = [ert EXCEPT ![t] = resumedAt[t]]
        /\ resumedAt' = [resumedAt EXCEPT ![t] = ert[t]] /\ calls' = calls /\ state' = state
        /\ key' = key /\ simulatingModel' = simulatingModel /\ ran' = ran /\ timeout' = timeout
        /\ currentNode' = currentNode /\ remaining' = remaining /\ budget' = budget /\ at' = at
        /\ due' = due /\ claimed' = claimed /\ waiting' = waiting /\ queue' = queue
        /\ gvt' = gvt /\ runningThread' = runningThread
    BY <1>t DEF onSynchronizeOnModelExit, Set, push, clocks, network, place
  <1>2. heap' \in BOOLEAN /\ failed' \in BOOLEAN
    BY <1>t DEF onSynchronizeOnModelExit, Set, push, clocks, network, place, TypeOK
  <1>3. OthersStay({t})
    BY <1>t, <1>1, Domains, DistinctAssumption
       DEF OthersStay, ThreadPlaces, ThreadOf, PhaseOf, RunnableOf
  <1>4. /\ pc'[t] = "exit" /\ calls'[t] = calls[t] /\ state'[t] = state[t] /\ key'[t] = key[t]
        /\ simulatingModel'[t] = simulatingModel[t] /\ ert'[t] = resumedAt[t]
        /\ resumedAt'[t] = ert[t] /\ ran'[t] = ran[t] /\ timeout'[t] = timeout[t]
        /\ currentNode'[t] = currentNode[t] /\ remaining'[t] = remaining[t]
        /\ budget'[t] = budget[t] /\ at'[t] = at[t] /\ due'[t] = due[t]
    BY <1>t, <1>1, Domains
  <1>5. TypeOK'
    <2>1. resumedAt[t] \in Nat /\ ert[t] \in Nat
      BY <1>t, TypesAt
    <2>2. /\ queue' \subseteq Threads /\ gvt' \in Nat
          /\ runningThread' \in Threads \cup {NoThread}
      BY <1>t, <1>1, TypesAt DEF TypeOK, Later
    <2> QED BY <1>t, <1>1, <1>2, <2>1, <2>2 DEF TypeOK
  <1>6. ThreadOf(t)'
    <2>1. PhaseOf(t)'
      BY <1>t, <1>1, <1>4, TypesAt, <1>a, <1>b DEF ThreadOf, PhaseOf, Simulated
    <2>2. CustomerOf(t)'
      BY <1>t, <1>1, <1>4, TypesAt, <1>a, <1>b
         DEF ThreadOf, PhaseOf, CustomerOf, Simulated, finished
    <2>3. ClockOf(t)'
      BY <1>t, <1>1, <1>4, TypesAt, <1>a, <1>b
         DEF ThreadOf, PhaseOf, CustomerOf, ClockOf, Simulated, finished, Later
    <2>4. RunnableOf(t)'
      BY <1>t, <1>1, <1>4, TypesAt, <1>a, <1>b
         DEF ThreadOf, PhaseOf, CustomerOf, RunnableOf, Simulated
    <2> QED BY <2>1, <2>2, <2>3, <2>4 DEF ThreadOf
  <1>7. NodePlaces'
    <2>1. \A m \in Queueing : (Holds(t, m)' <=> Holds(t, m)) /\ (Waits(t, m)' <=> Waits(t, m))
      BY <1>t, <1>4, TypesAt, <1>a, <1>b
         DEF ThreadOf, PhaseOf, CustomerOf, Simulated, finished, Holds, Waits
    <2> QED BY <1>t, <1>1, <1>3, <2>1, NodesStay
  <1> QED BY <1>t, <1>3, <1>5, <1>6, <1>7, OthersKeep DEF ModelInv, ThreadPlaces

\* The method returns: the thread sleeps in the queue, or runs.
LEMMA FinishSuspended ==
  ASSUME ModelInv, NEW t \in Threads, suspendModelSimulationFinishingThread(t),
         state' = Set(state, t, "SUSPENDED")
  PROVE  ModelInv'
  <1>t. TypeOK /\ ThreadOf(t) /\ ThreadPlaces /\ NodePlaces
    BY DEF ModelInv, ThreadPlaces
  <1>a. pc[t] = "exit" /\ key[t] = NoThread
    BY DEF suspendModelSimulationFinishingThread
  <1>b. state[t] = "AFTER_MODEL"
    BY <1>a, <1>t DEF ThreadOf, PhaseOf
  <1>c. state' # [state EXCEPT ![t] = "RUNNING"]
    BY <1>t, Domains DEF Set
  <1>1. /\ pc' = [pc EXCEPT ![t] = "asleep"] /\ state' = [state EXCEPT ![t] = "SUSPENDED"]
        /\ calls' = calls /\ key' = key /\ simulatingModel' = simulatingModel /\ ert' = ert
        /\ resumedAt' = resumedAt /\ ran' = ran /\ timeout' = timeout
        /\ currentNode' = currentNode /\ remaining' = remaining /\ budget' = budget /\ at' = at
        /\ due' = due /\ claimed' = claimed /\ waiting' = waiting /\ queue' = queue
        /\ gvt' = gvt /\ runningThread' = runningThread
    BY <1>t, <1>b, <1>c
       DEF suspendModelSimulationFinishingThread, Set, push, clocks, network, place
  <1>2. heap' \in BOOLEAN /\ failed' \in BOOLEAN
    BY <1>t
       DEF suspendModelSimulationFinishingThread, Set, push, clocks, network, place, TypeOK
  <1>3. OthersStay({t})
    BY <1>t, <1>1, Domains, DistinctAssumption
       DEF OthersStay, ThreadPlaces, ThreadOf, PhaseOf, RunnableOf
  <1>4. /\ pc'[t] = "asleep" /\ calls'[t] = calls[t] /\ state'[t] = "SUSPENDED"
        /\ key'[t] = key[t] /\ simulatingModel'[t] = simulatingModel[t] /\ ert'[t] = ert[t]
        /\ resumedAt'[t] = resumedAt[t] /\ ran'[t] = ran[t] /\ timeout'[t] = timeout[t]
        /\ currentNode'[t] = currentNode[t] /\ remaining'[t] = remaining[t]
        /\ budget'[t] = budget[t] /\ at'[t] = at[t] /\ due'[t] = due[t]
    BY <1>t, <1>1, Domains
  <1>5. TypeOK'
    <2>2. /\ queue' \subseteq Threads /\ gvt' \in Nat
          /\ runningThread' \in Threads \cup {NoThread}
      BY <1>t, <1>1, TypesAt DEF TypeOK, Later
    <2> QED BY <1>t, <1>1, <1>2, <2>2 DEF TypeOK
  <1>6. ThreadOf(t)'
    <2>1. PhaseOf(t)'
      BY <1>t, <1>1, <1>4, TypesAt, <1>a, <1>b DEF ThreadOf, PhaseOf, Simulated
    <2>2. CustomerOf(t)'
      BY <1>t, <1>1, <1>4, TypesAt, <1>a, <1>b
         DEF ThreadOf, PhaseOf, CustomerOf, Simulated, finished
    <2>3. ClockOf(t)'
      BY <1>t, <1>1, <1>4, TypesAt, <1>a, <1>b
         DEF ThreadOf, PhaseOf, CustomerOf, ClockOf, Simulated, finished, Later
    <2>4. RunnableOf(t)'
      BY <1>t, <1>1, <1>4, TypesAt, <1>a, <1>b
         DEF ThreadOf, PhaseOf, CustomerOf, RunnableOf, Simulated
    <2> QED BY <2>1, <2>2, <2>3, <2>4 DEF ThreadOf
  <1>7. NodePlaces'
    <2>1. \A m \in Queueing : (Holds(t, m)' <=> Holds(t, m)) /\ (Waits(t, m)' <=> Waits(t, m))
      BY <1>t, <1>4, TypesAt, <1>a, <1>b
         DEF ThreadOf, PhaseOf, CustomerOf, Simulated, finished, Holds, Waits
    <2> QED BY <1>t, <1>1, <1>3, <2>1, NodesStay
  <1> QED BY <1>t, <1>3, <1>5, <1>6, <1>7, OthersKeep DEF ModelInv, ThreadPlaces

LEMMA FinishRunning ==
  ASSUME ModelInv, NEW t \in Threads, suspendModelSimulationFinishingThread(t),
         state' # Set(state, t, "SUSPENDED")
  PROVE  ModelInv'
  <1>t. TypeOK /\ ThreadOf(t) /\ ThreadPlaces /\ NodePlaces
    BY DEF ModelInv, ThreadPlaces
  <1>a. pc[t] = "exit" /\ key[t] = NoThread
    BY DEF suspendModelSimulationFinishingThread
  <1>b. state[t] = "AFTER_MODEL"
    BY <1>a, <1>t DEF ThreadOf, PhaseOf
  <1>1. /\ pc' = [pc EXCEPT ![t] = "user"] /\ state' = [state EXCEPT ![t] = "RUNNING"]
        /\ ert' = [ert EXCEPT ![t] = Later(ert[t], gvt)] /\ calls' = calls /\ key' = key
        /\ simulatingModel' = simulatingModel /\ resumedAt' = resumedAt /\ ran' = ran
        /\ timeout' = timeout /\ currentNode' = currentNode /\ remaining' = remaining
        /\ budget' = budget /\ at' = at /\ due' = due /\ claimed' = claimed
        /\ waiting' = waiting /\ queue' = queue \ {t} /\ gvt' = gvt
        /\ runningThread' = t /\ runningThread \in {NoThread, t}
    BY <1>t, <1>b
       DEF suspendModelSimulationFinishingThread, Set, push, clocks, network, place
  <1>2. heap' \in BOOLEAN /\ failed' \in BOOLEAN
    BY <1>t
       DEF suspendModelSimulationFinishingThread, Set, push, clocks, network, place, TypeOK
  <1>3. OthersStay({t})
    BY <1>t, <1>1, Domains, DistinctAssumption
       DEF OthersStay, ThreadPlaces, ThreadOf, PhaseOf, RunnableOf
  <1>4. /\ pc'[t] = "user" /\ calls'[t] = calls[t] /\ state'[t] = "RUNNING" /\ key'[t] = key[t]
        /\ simulatingModel'[t] = simulatingModel[t] /\ ert'[t] = Later(ert[t], gvt)
        /\ resumedAt'[t] = resumedAt[t] /\ ran'[t] = ran[t] /\ timeout'[t] = timeout[t]
        /\ currentNode'[t] = currentNode[t] /\ remaining'[t] = remaining[t]
        /\ budget'[t] = budget[t] /\ at'[t] = at[t] /\ due'[t] = due[t]
    BY <1>t, <1>1, Domains
  <1>5. TypeOK'
    <2>1. Later(ert[t], gvt) \in Nat
      BY <1>t, TypesAt DEF Later
    <2>2. /\ queue' \subseteq Threads /\ gvt' \in Nat
          /\ runningThread' \in Threads \cup {NoThread}
      BY <1>t, <1>1, TypesAt DEF TypeOK, Later
    <2> QED BY <1>t, <1>1, <1>2, <2>1, <2>2 DEF TypeOK
  <1>6. ThreadOf(t)'
    <2>1. PhaseOf(t)'
      BY <1>t, <1>1, <1>4, TypesAt, <1>a, <1>b DEF ThreadOf, PhaseOf, Simulated
    <2>2. CustomerOf(t)'
      BY <1>t, <1>1, <1>4, TypesAt, <1>a, <1>b
         DEF ThreadOf, PhaseOf, CustomerOf, Simulated, finished
    <2>3. ClockOf(t)'
      BY <1>t, <1>1, <1>4, TypesAt, <1>a, <1>b
         DEF ThreadOf, PhaseOf, CustomerOf, ClockOf, Simulated, finished, Later
    <2>4. RunnableOf(t)'
      BY <1>t, <1>1, <1>4, TypesAt, <1>a, <1>b
         DEF ThreadOf, PhaseOf, CustomerOf, RunnableOf, Simulated
    <2> QED BY <2>1, <2>2, <2>3, <2>4 DEF ThreadOf
  <1>7. NodePlaces'
    <2>1. \A m \in Queueing : (Holds(t, m)' <=> Holds(t, m)) /\ (Waits(t, m)' <=> Waits(t, m))
      BY <1>t, <1>4, TypesAt, <1>a, <1>b
         DEF ThreadOf, PhaseOf, CustomerOf, Simulated, finished, Holds, Waits
    <2> QED BY <1>t, <1>1, <1>3, <2>1, NodesStay
  <1> QED BY <1>t, <1>3, <1>5, <1>6, <1>7, OthersKeep DEF ModelInv, ThreadPlaces
-----------------------------------------------------------------------------
\* The service of a customer: its demand goes to the clock or to the remaining
\* local consumption.
LEMMA Service ==
  ASSUME TypeOK, NEW t \in Threads, NEW n \in Nodes, invokeService(t, n), remaining[t] = 0
  PROVE  \E d \in Nat, e \in Nat, r \in Nat, w \in Nat \cup {-1}, b \in Int :
           /\ e + r = ert[t] + d
           /\ ert' = [ert EXCEPT ![t] = e] /\ timeout' = [timeout EXCEPT ![t] = w]
           /\ remaining' = [remaining EXCEPT ![t] = r] /\ budget' = [budget EXCEPT ![t] = b]
           /\ due' = [due EXCEPT ![t] = due[t] + d]
           /\ currentNode' = [currentNode EXCEPT ![t] = <<n, "served">>]
           /\ resumedAt' = resumedAt /\ ran' = ran
  <1>1. PICK d \in Demands :
          /\ IF n \in Local THEN service(t, d) ELSE waitRemote(t, d)
          /\ due' = [due EXCEPT ![t] = due[t] + d]
          /\ currentNode' = [currentNode EXCEPT ![t] = <<n, "served">>]
          /\ resumedAt' = resumedAt /\ ran' = ran
    BY DEF invokeService, Set
  <1>2. d \in Nat /\ ert[t] \in Nat /\ budget[t] \in Int /\ timeout[t] \in Nat \cup {-1}
    BY TypesAt, BoundsAssumption
  <1>3. /\ ert = [ert EXCEPT ![t] = ert[t]] /\ timeout = [timeout EXCEPT ![t] = timeout[t]]
        /\ budget = [budget EXCEPT ![t] = budget[t]]
        /\ remaining = [remaining EXCEPT ![t] = 0]
    BY DEF TypeOK
  <1>4. CASE n \in Local
    <2>1. /\ ert' = [ert EXCEPT ![t] = ert[t]] /\ timeout' = [timeout EXCEPT ![t] = timeout[t]]
          /\ remaining' = [remaining EXCEPT ![t] = d] /\ budget' = [budget EXCEPT ![t] = budget[t]]
      BY <1>1, <1>3, <1>4 DEF service, Set
    <2> QED BY <1>1, <1>2, <2>1
  <1>5. CASE n \notin Local
    <2>1. /\ ert' = [ert EXCEPT ![t] = ert[t] + d] /\ timeout' = [timeout EXCEPT ![t] = d]
          /\ remaining' = [remaining EXCEPT ![t] = 0]
          /\ budget' = [budget EXCEPT ![t] = budget[t] - d]
      BY <1>1, <1>3, <1>5 DEF waitRemote, Set
    <2>2. ert[t] + d \in Nat /\ budget[t] - d \in Int /\ (ert[t] + d) + 0 = ert[t] + d
      BY <1>2
    <2>3. d \in Nat \cup {-1} /\ 0 \in Nat
      BY <1>2
    <2>4. /\ due' = [due EXCEPT ![t] = due[t] + d]
          /\ currentNode' = [currentNode EXCEPT ![t] = <<n, "served">>]
          /\ resumedAt' = resumedAt /\ ran' = ran
      BY <1>1
    <2> QED BY <1>2, <2>1, <2>2, <2>3, <2>4, Zenon
  <1> QED BY <1>4, <1>5

LEMMA LocalTurn ==
  ASSUME ModelInv, NEW t \in Threads, Turn(t), simulateLocalServiceTime(t)
  PROVE  ModelInv'
  <1>t. TypeOK /\ ThreadOf(t) /\ ThreadPlaces /\ NodePlaces
    BY DEF ModelInv, ThreadPlaces
  <1>a. /\ at[t] = "in" /\ state[t] = "IN_MODEL" /\ simulatingModel[t] /\ timeout[t] <= 0
        /\ budget[t] > 0
    BY <1>t DEF Turn, ThreadOf, PhaseOf, CustomerOf, Simulated
  <1>p. PICK d \in Nat : /\ d <= remaining[t]
                         /\ ert' = Set(ert, t, ert[t] + d) /\ ran' = Set(ran, t, ran[t] + d)
                         /\ remaining' = Set(remaining, t, remaining[t] - d)
                         /\ budget' = Set(budget, t, budget[t] - d)
    BY <1>t, <1>a, TypesAt DEF simulateLocalServiceTime
  <1>1. /\ ert' = [ert EXCEPT ![t] = ert[t] + d] /\ ran' = [ran EXCEPT ![t] = ran[t] + d]
        /\ remaining' = [remaining EXCEPT ![t] = remaining[t] - d]
        /\ budget' = [budget EXCEPT ![t] = budget[t] - d] /\ at' = [at EXCEPT ![t] = "test"]
        /\ pc' = pc /\ calls' = calls /\ state' = state /\ key' = key
        /\ simulatingModel' = simulatingModel /\ resumedAt' = resumedAt /\ timeout' = timeout
        /\ currentNode' = currentNode /\ due' = due /\ claimed' = claimed /\ waiting' = waiting
        /\ queue' = queue /\ gvt' = gvt /\ runningThread' = runningThread
    BY <1>t, <1>p DEF Turn, simulateLocalServiceTime, Set, push, clocks, network, place
  <1>2. heap' \in BOOLEAN /\ failed' \in BOOLEAN
    BY <1>t DEF Turn, simulateLocalServiceTime, Set, push, clocks, network, place, TypeOK
  <1>3. OthersStay({t})
    BY <1>t, <1>1, Domains, DistinctAssumption
       DEF OthersStay, ThreadPlaces, ThreadOf, PhaseOf, RunnableOf
  <1>4. /\ pc'[t] = pc[t] /\ calls'[t] = calls[t] /\ state'[t] = state[t] /\ key'[t] = key[t]
        /\ simulatingModel'[t] = simulatingModel[t] /\ ert'[t] = ert[t] + d
        /\ resumedAt'[t] = resumedAt[t] /\ ran'[t] = ran[t] + d /\ timeout'[t] = timeout[t]
        /\ currentNode'[t] = currentNode[t] /\ remaining'[t] = remaining[t] - d
        /\ budget'[t] = budget[t] - d /\ at'[t] = "test" /\ due'[t] = due[t]
    BY <1>t, <1>1, Domains
  <1>5. TypeOK'
    <2>1. /\ ert[t] + d \in Nat /\ ran[t] + d \in Nat /\ remaining[t] - d \in Nat
          /\ budget[t] - d \in Int
      BY <1>t, TypesAt, <1>a, <1>p
    <2>2. /\ queue' \subseteq Threads /\ gvt' \in Nat
          /\ runningThread' \in Threads \cup {NoThread}
      BY <1>t, <1>1, TypesAt DEF TypeOK, Later
    <2> QED BY <1>t, <1>1, <1>2, <2>1, <2>2 DEF TypeOK
  <1>6. ThreadOf(t)'
    <2>1. PhaseOf(t)'
      BY <1>t, <1>1, <1>4, TypesAt, <1>a DEF ThreadOf, PhaseOf, Simulated
    <2>2. CustomerOf(t)'
      BY <1>t, <1>1, <1>4, TypesAt, <1>a
         DEF ThreadOf, PhaseOf, CustomerOf, Simulated, finished
    <2>3. ClockOf(t)'
      BY <1>t, <1>1, <1>4, TypesAt, <1>a, <1>p
         DEF ThreadOf, PhaseOf, CustomerOf, ClockOf, Simulated, finished, Later
    <2>4. RunnableOf(t)'
      BY <1>t, <1>1, <1>4, TypesAt, <1>a
         DEF ThreadOf, PhaseOf, CustomerOf, RunnableOf, Simulated
    <2> QED BY <2>1, <2>2, <2>3, <2>4 DEF ThreadOf
  <1>7. NodePlaces'
    <2>1. \A m \in Queueing : (Holds(t, m)' <=> Holds(t, m)) /\ (Waits(t, m)' <=> Waits(t, m))
      BY <1>t, <1>4, TypesAt, <1>a
         DEF ThreadOf, PhaseOf, CustomerOf, Simulated, finished, Holds, Waits
    <2> QED BY <1>t, <1>1, <1>3, <2>1, NodesStay
  <1> QED BY <1>t, <1>3, <1>5, <1>6, <1>7, OthersKeep DEF ModelInv, ThreadPlaces

\* A customer is served that has a resource already or needs none.
LEMMA ServeTurn ==
  ASSUME ModelInv, NEW t \in Threads, Turn(t), NEW n \in Nodes, serve(t, n),
         remaining[t] = 0,
         currentNode[t] = <<n, "queued">> \/ (currentNode[t] = <<n, "enter">> /\ n \notin Queueing)
  PROVE  ModelInv'
  <1>t. TypeOK /\ ThreadOf(t) /\ ThreadPlaces /\ NodePlaces
    BY DEF ModelInv, ThreadPlaces
  <1>a. /\ at[t] = "in" /\ state[t] = "IN_MODEL" /\ simulatingModel[t] /\ timeout[t] <= 0
        /\ budget[t] > 0
    BY <1>t DEF Turn, ThreadOf, PhaseOf, CustomerOf, Simulated
  <1>p. PICK d \in Nat, e \in Nat, r \in Nat, w \in Nat \cup {-1}, b \in Int :
           /\ e + r = ert[t] + d
           /\ ert' = [ert EXCEPT ![t] = e] /\ timeout' = [timeout EXCEPT ![t] = w]
           /\ remaining' = [remaining EXCEPT ![t] = r] /\ budget' = [budget EXCEPT ![t] = b]
           /\ due' = [due EXCEPT ![t] = due[t] + d]
           /\ currentNode' = [currentNode EXCEPT ![t] = <<n, "served">>]
           /\ resumedAt' = resumedAt /\ ran' = ran
    BY <1>t, Service DEF serve
  <1>1. /\ ert' = [ert EXCEPT ![t] = e] /\ timeout' = [timeout EXCEPT ![t] = w]
        /\ currentNode' = [currentNode EXCEPT ![t] = <<n, "served">>]
        /\ remaining' = [remaining EXCEPT ![t] = r] /\ budget' = [budget EXCEPT ![t] = b]
        /\ at' = [at EXCEPT ![t] = "test"] /\ due' = [due EXCEPT ![t] = due[t] + d] /\ pc' = pc
        /\ calls' = calls /\ state' = state /\ key' = key /\ simulatingModel' = simulatingModel
        /\ resumedAt' = resumedAt /\ ran' = ran /\ claimed' = claimed /\ waiting' = waiting
        /\ queue' = queue /\ gvt' = gvt /\ runningThread' = runningThread
    BY <1>t, <1>p DEF Turn, serve, Set, push, clocks, network, place
  <1>2. heap' \in BOOLEAN /\ failed' \in BOOLEAN
    BY <1>t DEF Turn, serve, Set, push, clocks, network, place, TypeOK
  <1>3. OthersStay({t})
    BY <1>t, <1>1, Domains, DistinctAssumption
       DEF OthersStay, ThreadPlaces, ThreadOf, PhaseOf, RunnableOf
  <1>4. /\ pc'[t] = pc[t] /\ calls'[t] = calls[t] /\ state'[t] = state[t] /\ key'[t] = key[t]
        /\ simulatingModel'[t] = simulatingModel[t] /\ ert'[t] = e
        /\ resumedAt'[t] = resumedAt[t] /\ ran'[t] = ran[t] /\ timeout'[t] = w
        /\ currentNode'[t] = <<n, "served">> /\ remaining'[t] = r /\ budget'[t] = b
        /\ at'[t] = "test" /\ due'[t] = due[t] + d
    BY <1>t, <1>1, Domains
  <1>5. TypeOK'
    <2>1. /\ <<n, "served">> \in Nodes \X {"enter", "queued", "served", "finished"}
          /\ due[t] + d \in Nat
      BY <1>t, TypesAt, <1>a
    <2>2. /\ queue' \subseteq Threads /\ gvt' \in Nat
          /\ runningThread' \in Threads \cup {NoThread}
      BY <1>t, <1>1, TypesAt DEF TypeOK, Later
    <2> QED BY <1>t, <1>1, <1>2, <2>1, <2>2 DEF TypeOK
  <1>6. ThreadOf(t)'
    <2>1. PhaseOf(t)'
      BY <1>t, <1>1, <1>4, TypesAt, <1>a, <1>p DEF ThreadOf, PhaseOf, Simulated
    <2>2. CustomerOf(t)'
      BY <1>t, <1>1, <1>4, TypesAt, <1>a, <1>p
         DEF ThreadOf, PhaseOf, CustomerOf, Simulated, finished
    <2>3. ClockOf(t)'
      BY <1>t, <1>1, <1>4, TypesAt, <1>a, <1>p
         DEF ThreadOf, PhaseOf, CustomerOf, ClockOf, Simulated, finished, Later
    <2>4. RunnableOf(t)'
      BY <1>t, <1>1, <1>4, TypesAt, <1>a, <1>p
         DEF ThreadOf, PhaseOf, CustomerOf, RunnableOf, Simulated
    <2> QED BY <2>1, <2>2, <2>3, <2>4 DEF ThreadOf
  <1>7. NodePlaces'
    <2>1. \A m \in Queueing : (Holds(t, m)' <=> Holds(t, m)) /\ (Waits(t, m)' <=> Waits(t, m))
      BY <1>t, <1>4, TypesAt, <1>a
         DEF ThreadOf, PhaseOf, CustomerOf, Simulated, finished, Holds, Waits
    <2> QED BY <1>t, <1>1, <1>3, <2>1, NodesStay
  <1> QED BY <1>t, <1>3, <1>5, <1>6, <1>7, OthersKeep DEF ModelInv, ThreadPlaces

\* A customer passes the source, or leaves the network.
LEMMA PassTurn ==
  ASSUME ModelInv, NEW t \in Threads, Turn(t), NEW n \in Nodes, pass(t, n),
         currentNode[t] = <<n, "enter">>
  PROVE  ModelInv'
  <1>t. TypeOK /\ ThreadOf(t) /\ ThreadPlaces /\ NodePlaces
    BY DEF ModelInv, ThreadPlaces
  <1>a. /\ at[t] = "in" /\ state[t] = "IN_MODEL" /\ simulatingModel[t] /\ timeout[t] <= 0
        /\ budget[t] > 0
    BY <1>t DEF Turn, ThreadOf, PhaseOf, CustomerOf, Simulated
  <1>p. PICK target \in Nodes : currentNode' = Set(currentNode, t, <<target, "enter">>)
    BY NetworkAssumption DEF pass, forward
  <1>1. /\ currentNode' = [currentNode EXCEPT ![t] = <<target, "enter">>]
        /\ at' = [at EXCEPT ![t] = "test"] /\ pc' = pc /\ calls' = calls /\ state' = state
        /\ key' = key /\ simulatingModel' = simulatingModel /\ ert' = ert
        /\ resumedAt' = resumedAt /\ ran' = ran /\ timeout' = timeout /\ remaining' = remaining
        /\ budget' = budget /\ due' = due /\ claimed' = claimed /\ waiting' = waiting
        /\ queue' = queue /\ gvt' = gvt /\ runningThread' = runningThread
    BY <1>t, <1>p DEF Turn, pass, Set, push, clocks, network, place
  <1>2. heap' \in BOOLEAN /\ failed' \in BOOLEAN
    BY <1>t DEF Turn, pass, Set, push, clocks, network, place, TypeOK
  <1>3. OthersStay({t})
    BY <1>t, <1>1, Domains, DistinctAssumption
       DEF OthersStay, ThreadPlaces, ThreadOf, PhaseOf, RunnableOf
  <1>4. /\ pc'[t] = pc[t] /\ calls'[t] = calls[t] /\ state'[t] = state[t] /\ key'[t] = key[t]
        /\ simulatingModel'[t] = simulatingModel[t] /\ ert'[t] = ert[t]
        /\ resumedAt'[t] = resumedAt[t] /\ ran'[t] = ran[t] /\ timeout'[t] = timeout[t]
        /\ currentNode'[t] = <<target, "enter">> /\ remaining'[t] = remaining[t]
        /\ budget'[t] = budget[t] /\ at'[t] = "test" /\ due'[t] = due[t]
    BY <1>t, <1>1, Domains
  <1>5. TypeOK'
    <2>1. <<target, "enter">> \in Nodes \X {"enter", "queued", "served", "finished"}
      BY <1>t, TypesAt, <1>a
    <2>2. /\ queue' \subseteq Threads /\ gvt' \in Nat
          /\ runningThread' \in Threads \cup {NoThread}
      BY <1>t, <1>1, TypesAt DEF TypeOK, Later
    <2> QED BY <1>t, <1>1, <1>2, <2>1, <2>2 DEF TypeOK
  <1>6. ThreadOf(t)'
    <2>1. PhaseOf(t)'
      BY <1>t, <1>1, <1>4, TypesAt, <1>a, <1>p DEF ThreadOf, PhaseOf, Simulated
    <2>2. CustomerOf(t)'
      BY <1>t, <1>1, <1>4, TypesAt, <1>a, <1>p
         DEF ThreadOf, PhaseOf, CustomerOf, Simulated, finished
    <2>3. ClockOf(t)'
      BY <1>t, <1>1, <1>4, TypesAt, <1>a
         DEF ThreadOf, PhaseOf, CustomerOf, ClockOf, Simulated, finished, Later
    <2>4. RunnableOf(t)'
      BY <1>t, <1>1, <1>4, TypesAt, <1>a, <1>p
         DEF ThreadOf, PhaseOf, CustomerOf, RunnableOf, Simulated
    <2> QED BY <2>1, <2>2, <2>3, <2>4 DEF ThreadOf
  <1>7. NodePlaces'
    <2>1. \A m \in Queueing : (Holds(t, m)' <=> Holds(t, m)) /\ (Waits(t, m)' <=> Waits(t, m))
      BY <1>t, <1>4, TypesAt, <1>a, <1>p
         DEF ThreadOf, PhaseOf, CustomerOf, Simulated, finished, Holds, Waits
    <2> QED BY <1>t, <1>1, <1>3, <2>1, NodesStay
  <1> QED BY <1>t, <1>3, <1>5, <1>6, <1>7, OthersKeep DEF ModelInv, ThreadPlaces

LEMMA AbsorbTurn ==
  ASSUME ModelInv, NEW t \in Threads, Turn(t), NEW n \in Nodes, absorb(t, n),
         currentNode[t] = <<n, "enter">>, remaining[t] = 0
  PROVE  ModelInv'
  <1>t. TypeOK /\ ThreadOf(t) /\ ThreadPlaces /\ NodePlaces
    BY DEF ModelInv, ThreadPlaces
  <1>a. /\ at[t] = "in" /\ state[t] = "IN_MODEL" /\ simulatingModel[t] /\ timeout[t] <= 0
        /\ budget[t] > 0
    BY <1>t DEF Turn, ThreadOf, PhaseOf, CustomerOf, Simulated
  <1>1. /\ currentNode' = [currentNode EXCEPT ![t] = <<n, "finished">>]
        /\ at' = [at EXCEPT ![t] = "test"] /\ pc' = pc /\ calls' = calls /\ state' = state
        /\ key' = key /\ simulatingModel' = simulatingModel /\ ert' = ert
        /\ resumedAt' = resumedAt /\ ran' = ran /\ timeout' = timeout /\ remaining' = remaining
        /\ budget' = budget /\ due' = due /\ claimed' = claimed /\ waiting' = waiting
        /\ queue' = queue /\ gvt' = gvt /\ runningThread' = runningThread
    BY <1>t DEF Turn, absorb, Set, push, clocks, network, place
  <1>2. heap' \in BOOLEAN /\ failed' \in BOOLEAN
    BY <1>t DEF Turn, absorb, Set, push, clocks, network, place, TypeOK
  <1>3. OthersStay({t})
    BY <1>t, <1>1, Domains, DistinctAssumption
       DEF OthersStay, ThreadPlaces, ThreadOf, PhaseOf, RunnableOf
  <1>4. /\ pc'[t] = pc[t] /\ calls'[t] = calls[t] /\ state'[t] = state[t] /\ key'[t] = key[t]
        /\ simulatingModel'[t] = simulatingModel[t] /\ ert'[t] = ert[t]
        /\ resumedAt'[t] = resumedAt[t] /\ ran'[t] = ran[t] /\ timeout'[t] = timeout[t]
        /\ currentNode'[t] = <<n, "finished">> /\ remaining'[t] = remaining[t]
        /\ budget'[t] = budget[t] /\ at'[t] = "test" /\ due'[t] = due[t]
    BY <1>t, <1>1, Domains
  <1>5. TypeOK'
    <2>1. <<n, "finished">> \in Nodes \X {"enter", "queued", "served", "finished"}
      BY <1>t, TypesAt, <1>a
    <2>2. /\ queue' \subseteq Threads /\ gvt' \in Nat
          /\ runningThread' \in Threads \cup {NoThread}
      BY <1>t, <1>1, TypesAt DEF TypeOK, Later
    <2> QED BY <1>t, <1>1, <1>2, <2>1, <2>2 DEF TypeOK
  <1>6. ThreadOf(t)'
    <2>1. PhaseOf(t)'
      BY <1>t, <1>1, <1>4, TypesAt, <1>a DEF ThreadOf, PhaseOf, Simulated
    <2>2. CustomerOf(t)'
      BY <1>t, <1>1, <1>4, TypesAt, <1>a
         DEF ThreadOf, PhaseOf, CustomerOf, Simulated, finished
    <2>3. ClockOf(t)'
      BY <1>t, <1>1, <1>4, TypesAt, <1>a
         DEF ThreadOf, PhaseOf, CustomerOf, ClockOf, Simulated, finished, Later
    <2>4. RunnableOf(t)'
      BY <1>t, <1>1, <1>4, TypesAt, <1>a
         DEF ThreadOf, PhaseOf, CustomerOf, RunnableOf, Simulated
    <2> QED BY <2>1, <2>2, <2>3, <2>4 DEF ThreadOf
  <1>7. NodePlaces'
    <2>1. \A m \in Queueing : (Holds(t, m)' <=> Holds(t, m)) /\ (Waits(t, m)' <=> Waits(t, m))
      BY <1>t, <1>4, TypesAt, <1>a
         DEF ThreadOf, PhaseOf, CustomerOf, Simulated, finished, Holds, Waits
    <2> QED BY <1>t, <1>1, <1>3, <2>1, NodesStay
  <1> QED BY <1>t, <1>3, <1>5, <1>6, <1>7, OthersKeep DEF ModelInv, ThreadPlaces

\* A customer leaves a node without resources.
LEMMA LeaveTurn ==
  ASSUME ModelInv, NEW t \in Threads, Turn(t), NEW n \in Nodes, onCompletingService(t, n),
         n \notin Queueing,
         currentNode[t] = <<n, "served">>
  PROVE  ModelInv'
  <1>t. TypeOK /\ ThreadOf(t) /\ ThreadPlaces /\ NodePlaces
    BY DEF ModelInv, ThreadPlaces
  <1>a. /\ at[t] = "in" /\ state[t] = "IN_MODEL" /\ simulatingModel[t] /\ timeout[t] <= 0
        /\ budget[t] > 0
    BY <1>t DEF Turn, ThreadOf, PhaseOf, CustomerOf, Simulated
  <1>p. PICK target \in Nodes : currentNode' = Set(currentNode, t, <<target, "enter">>)
    BY NetworkAssumption DEF onCompletingService, forward
  <1>1. /\ currentNode' = [currentNode EXCEPT ![t] = <<target, "enter">>]
        /\ at' = [at EXCEPT ![t] = "test"] /\ pc' = pc /\ calls' = calls /\ state' = state
        /\ key' = key /\ simulatingModel' = simulatingModel /\ ert' = ert
        /\ resumedAt' = resumedAt /\ ran' = ran /\ timeout' = timeout /\ remaining' = remaining
        /\ budget' = budget /\ due' = due /\ claimed' = claimed /\ waiting' = waiting
        /\ queue' = queue /\ gvt' = gvt /\ runningThread' = runningThread
    BY <1>t, <1>p DEF Turn, onCompletingService, Set, push, clocks, network, place
  <1>2. heap' \in BOOLEAN /\ failed' \in BOOLEAN
    BY <1>t DEF Turn, onCompletingService, Set, push, clocks, network, place, TypeOK
  <1>3. OthersStay({t})
    BY <1>t, <1>1, Domains, DistinctAssumption
       DEF OthersStay, ThreadPlaces, ThreadOf, PhaseOf, RunnableOf
  <1>4. /\ pc'[t] = pc[t] /\ calls'[t] = calls[t] /\ state'[t] = state[t] /\ key'[t] = key[t]
        /\ simulatingModel'[t] = simulatingModel[t] /\ ert'[t] = ert[t]
        /\ resumedAt'[t] = resumedAt[t] /\ ran'[t] = ran[t] /\ timeout'[t] = timeout[t]
        /\ currentNode'[t] = <<target, "enter">> /\ remaining'[t] = remaining[t]
        /\ budget'[t] = budget[t] /\ at'[t] = "test" /\ due'[t] = due[t]
    BY <1>t, <1>1, Domains
  <1>5. TypeOK'
    <2>1. <<target, "enter">> \in Nodes \X {"enter", "queued", "served", "finished"}
      BY <1>t, TypesAt, <1>a
    <2>2. /\ queue' \subseteq Threads /\ gvt' \in Nat
          /\ runningThread' \in Threads \cup {NoThread}
      BY <1>t, <1>1, TypesAt DEF TypeOK, Later
    <2> QED BY <1>t, <1>1, <1>2, <2>1, <2>2 DEF TypeOK
  <1>6. ThreadOf(t)'
    <2>1. PhaseOf(t)'
      BY <1>t, <1>1, <1>4, TypesAt, <1>a, <1>p DEF ThreadOf, PhaseOf, Simulated
    <2>2. CustomerOf(t)'
      BY <1>t, <1>1, <1>4, TypesAt, <1>a, <1>p
         DEF ThreadOf, PhaseOf, CustomerOf, Simulated, finished
    <2>3. ClockOf(t)'
      BY <1>t, <1>1, <1>4, TypesAt, <1>a
         DEF ThreadOf, PhaseOf, CustomerOf, ClockOf, Simulated, finished, Later
    <2>4. RunnableOf(t)'
      BY <1>t, <1>1, <1>4, TypesAt, <1>a, <1>p
         DEF ThreadOf, PhaseOf, CustomerOf, RunnableOf, Simulated
    <2> QED BY <2>1, <2>2, <2>3, <2>4 DEF ThreadOf
  <1>7. NodePlaces'
    <2>1. \A m \in Queueing : (Holds(t, m)' <=> Holds(t, m)) /\ (Waits(t, m)' <=> Waits(t, m))
      BY <1>t, <1>4, TypesAt, <1>a, <1>p
         DEF ThreadOf, PhaseOf, CustomerOf, Simulated, finished, Holds, Waits
    <2> QED BY <1>t, <1>1, <1>3, <2>1, NodesStay
  <1> QED BY <1>t, <1>3, <1>5, <1>6, <1>7, OthersKeep DEF ModelInv, ThreadPlaces

\* A customer takes a free resource.
LEMMA ClaimTurn ==
  ASSUME ModelInv, NEW t \in Threads, Turn(t), NEW n \in Queueing, remaining[t] = 0,
         currentNode[t] = <<n, "enter">>,
         claimed[n] < Servers[n], claimed' = Set(claimed, n, claimed[n] + 1), invokeService(t, n),
         UNCHANGED <<waiting, state, queue, failed>>
  PROVE  ModelInv'
  <1>t. TypeOK /\ ThreadOf(t) /\ ThreadPlaces /\ NodePlaces
    BY DEF ModelInv, ThreadPlaces
  <1>a. /\ at[t] = "in" /\ state[t] = "IN_MODEL" /\ simulatingModel[t] /\ timeout[t] <= 0
        /\ budget[t] > 0
    BY <1>t DEF Turn, ThreadOf, PhaseOf, CustomerOf, Simulated
  <1>n. NodeOf(n) /\ claimed[n] \in Nat /\ waiting[n] \in Seq(Threads) /\ Servers[n] \in Nat
    BY <1>t, ServersAssumption DEF NodePlaces, TypeOK
  <1>q. n \in Nodes
    BY DEF Queueing
  <1>p. PICK d \in Nat, e \in Nat, r \in Nat, w \in Nat \cup {-1}, b \in Int :
           /\ e + r = ert[t] + d
           /\ ert' = [ert EXCEPT ![t] = e] /\ timeout' = [timeout EXCEPT ![t] = w]
           /\ remaining' = [remaining EXCEPT ![t] = r] /\ budget' = [budget EXCEPT ![t] = b]
           /\ due' = [due EXCEPT ![t] = due[t] + d]
           /\ currentNode' = [currentNode EXCEPT ![t] = <<n, "served">>]
           /\ resumedAt' = resumedAt /\ ran' = ran
    BY <1>t, <1>q, Service
  <1>1. /\ ert' = [ert EXCEPT ![t] = e] /\ timeout' = [timeout EXCEPT ![t] = w]
        /\ currentNode' = [currentNode EXCEPT ![t] = <<n, "served">>]
        /\ remaining' = [remaining EXCEPT ![t] = r] /\ budget' = [budget EXCEPT ![t] = b]
        /\ at' = [at EXCEPT ![t] = "test"] /\ due' = [due EXCEPT ![t] = due[t] + d] /\ pc' = pc
        /\ calls' = calls /\ state' = state /\ key' = key /\ simulatingModel' = simulatingModel
        /\ resumedAt' = resumedAt /\ ran' = ran
        /\ claimed' = [claimed EXCEPT ![n] = claimed[n] + 1] /\ waiting' = waiting
        /\ queue' = queue /\ gvt' = gvt /\ runningThread' = runningThread
    BY <1>t, <1>p DEF Turn, Set, push, clocks, network, place
  <1>2. heap' \in BOOLEAN /\ failed' \in BOOLEAN
    BY <1>t DEF Turn, Set, push, clocks, network, place, TypeOK
  <1>3. OthersStay({t})
    BY <1>t, <1>1, Domains, DistinctAssumption
       DEF OthersStay, ThreadPlaces, ThreadOf, PhaseOf, RunnableOf
  <1>4. /\ pc'[t] = pc[t] /\ calls'[t] = calls[t] /\ state'[t] = state[t] /\ key'[t] = key[t]
        /\ simulatingModel'[t] = simulatingModel[t] /\ ert'[t] = e
        /\ resumedAt'[t] = resumedAt[t] /\ ran'[t] = ran[t] /\ timeout'[t] = w
        /\ currentNode'[t] = <<n, "served">> /\ remaining'[t] = r /\ budget'[t] = b
        /\ at'[t] = "test" /\ due'[t] = due[t] + d
    BY <1>t, <1>1, Domains
  <1>5. TypeOK'
    <2>1. /\ <<n, "served">> \in Nodes \X {"enter", "queued", "served", "finished"}
          /\ due[t] + d \in Nat
      BY <1>t, TypesAt, <1>a, <1>q
    <2>2. /\ queue' \subseteq Threads /\ gvt' \in Nat
          /\ runningThread' \in Threads \cup {NoThread}
      BY <1>t, <1>1, TypesAt DEF TypeOK, Later
    <2>3. claimed[n] + 1 \in Nat
      BY <1>n
    <2>4. claimed' \in [Queueing -> Nat] /\ waiting' \in [Queueing -> Seq(Threads)]
      <3>1. claimed \in [Queueing -> Nat] /\ waiting \in [Queueing -> Seq(Threads)]
        BY <1>t DEF TypeOK
      <3>2. claimed' = [claimed EXCEPT ![n] = claimed[n] + 1] /\ waiting' = waiting
        BY <1>1
      <3> QED BY <2>3, <3>1, <3>2
    <2> QED BY <1>t, <1>1, <1>2, <2>1, <2>2, <2>4 DEF TypeOK
  <1>6. ThreadOf(t)'
    <2>1. PhaseOf(t)'
      BY <1>t, <1>1, <1>4, TypesAt, <1>a, <1>p DEF ThreadOf, PhaseOf, Simulated
    <2>2. CustomerOf(t)'
      BY <1>t, <1>1, <1>4, TypesAt, <1>a, <1>p
         DEF ThreadOf, PhaseOf, CustomerOf, Simulated, finished
    <2>3. ClockOf(t)'
      BY <1>t, <1>1, <1>4, TypesAt, <1>a, <1>p
         DEF ThreadOf, PhaseOf, CustomerOf, ClockOf, Simulated, finished, Later
    <2>4. RunnableOf(t)'
      BY <1>t, <1>1, <1>4, TypesAt, <1>a, <1>p
         DEF ThreadOf, PhaseOf, CustomerOf, RunnableOf, Simulated
    <2> QED BY <2>1, <2>2, <2>3, <2>4 DEF ThreadOf
  <1>7. NodePlaces'
    <2>1. ~Holds(t, n) /\ ~Waits(t, n) /\ Holds(t, n)' /\ ~Waits(t, n)'
      BY <1>4, <1>a DEF Holds, Waits
    <2>2. HoldersOf(n)' = HoldersOf(n) \cup {t}
      BY <1>3, <2>1, OthersKeepNodes DEF HoldersOf
    <2>3. Cardinality(HoldersOf(n))' = Cardinality(HoldersOf(n)) + 1
      <3>1. t \notin HoldersOf(n)
        BY <2>1 DEF HoldersOf
      <3>2. Cardinality(HoldersOf(n) \cup {t}) = Cardinality(HoldersOf(n)) + 1
        BY <3>1, Counting, FS_AddElement
      <3> QED BY <2>2, <3>2
    <2>4. \A u \in Threads : Waits(u, n)' <=> Waits(u, n)
      BY <1>3, <2>1, OthersKeepNodes
    <2>5. claimed'[n] = claimed[n] + 1 /\ waiting'[n] = waiting[n]
      BY <1>t, <1>1, Domains
    <2>6. waiting[n] = <<>>
      BY <1>n DEF NodeOf
    <2>7. NodeOf(n)'
      BY <1>n, <2>3, <2>4, <2>5, <2>6 DEF NodeOf
    <2>8. ASSUME NEW m \in Queueing, m # n
          PROVE  NodeOf(m)'
      <3>1. claimed'[m] = claimed[m] /\ waiting'[m] = waiting[m]
        BY <1>t, <1>1, <2>8, Domains
      <3>2. (Holds(t, m)' <=> Holds(t, m)) /\ (Waits(t, m)' <=> Waits(t, m))
        BY <1>t, <1>4, <1>a, <2>8, TypesAt DEF Holds, Waits
      <3>3. NodeOf(m)
        BY <1>t DEF NodePlaces
      <3> QED BY <1>3, <3>1, <3>2, <3>3, NodeStays
    <2> QED BY <2>7, <2>8 DEF NodePlaces
  <1> QED BY <1>t, <1>3, <1>5, <1>6, <1>7, OthersKeep DEF ModelInv, ThreadPlaces

\* A customer that finds all resources in use joins the queue.
LEMMA BlockTurn ==
  ASSUME ModelInv, NEW t \in Threads, Turn(t), NEW n \in Queueing, remaining[t] = 0,
         currentNode[t] = <<n, "enter">>,
         claimed[n] >= Servers[n], blockAtQueue(t, n),
         UNCHANGED <<clocks, remaining, budget, claimed, due, queue, failed>>
  PROVE  ModelInv'
  <1>t. TypeOK /\ ThreadOf(t) /\ ThreadPlaces /\ NodePlaces
    BY DEF ModelInv, ThreadPlaces
  <1>a. /\ at[t] = "in" /\ state[t] = "IN_MODEL" /\ simulatingModel[t] /\ timeout[t] <= 0
        /\ budget[t] > 0
    BY <1>t DEF Turn, ThreadOf, PhaseOf, CustomerOf, Simulated
  <1>n. NodeOf(n) /\ claimed[n] \in Nat /\ waiting[n] \in Seq(Threads) /\ Servers[n] \in Nat
    BY <1>t, ServersAssumption DEF NodePlaces, TypeOK
  <1>q. n \in Nodes
    BY DEF Queueing
  <1>j. ~Contains(waiting[n], t)
    BY <1>n, <1>a DEF NodeOf, Waits
  <1>1. /\ state' = [state EXCEPT ![t] = "IN_MODEL_WAITING"]
        /\ currentNode' = [currentNode EXCEPT ![t] = <<n, "queued">>]
        /\ at' = [at EXCEPT ![t] = "test"] /\ pc' = pc /\ calls' = calls /\ key' = key
        /\ simulatingModel' = simulatingModel /\ ert' = ert /\ resumedAt' = resumedAt
        /\ ran' = ran /\ timeout' = timeout /\ remaining' = remaining /\ budget' = budget
        /\ due' = due /\ claimed' = claimed
        /\ waiting' = [waiting EXCEPT ![n] = Append(waiting[n], t)] /\ queue' = queue
        /\ gvt' = gvt /\ runningThread' = runningThread
    BY <1>t DEF Turn, blockAtQueue, Set, push, clocks, network, place
  <1>2. heap' \in BOOLEAN /\ failed' \in BOOLEAN
    BY <1>t DEF Turn, blockAtQueue, Set, push, clocks, network, place, TypeOK
  <1>3. OthersStay({t})
    BY <1>t, <1>1, Domains, DistinctAssumption
       DEF OthersStay, ThreadPlaces, ThreadOf, PhaseOf, RunnableOf
  <1>4. /\ pc'[t] = pc[t] /\ calls'[t] = calls[t] /\ state'[t] = "IN_MODEL_WAITING"
        /\ key'[t] = key[t] /\ simulatingModel'[t] = simulatingModel[t] /\ ert'[t] = ert[t]
        /\ resumedAt'[t] = resumedAt[t] /\ ran'[t] = ran[t] /\ timeout'[t] = timeout[t]
        /\ currentNode'[t] = <<n, "queued">> /\ remaining'[t] = remaining[t]
        /\ budget'[t] = budget[t] /\ at'[t] = "test" /\ due'[t] = due[t]
    BY <1>t, <1>1, Domains
  <1>5. TypeOK'
    <2>1. <<n, "queued">> \in Nodes \X {"enter", "queued", "served", "finished"}
      BY <1>t, TypesAt, <1>a, <1>q
    <2>2. /\ queue' \subseteq Threads /\ gvt' \in Nat
          /\ runningThread' \in Threads \cup {NoThread}
      BY <1>t, <1>1, TypesAt DEF TypeOK, Later
    <2>3. Append(waiting[n], t) \in Seq(Threads)
      BY <1>n, <1>j, Joining DEF NodeOf
    <2>4. claimed' \in [Queueing -> Nat] /\ waiting' \in [Queueing -> Seq(Threads)]
      <3>1. claimed \in [Queueing -> Nat] /\ waiting \in [Queueing -> Seq(Threads)]
        BY <1>t DEF TypeOK
      <3>2. claimed' = claimed /\ waiting' = [waiting EXCEPT ![n] = Append(waiting[n], t)]
        BY <1>1
      <3> QED BY <2>3, <3>1, <3>2
    <2> QED BY <1>t, <1>1, <1>2, <2>1, <2>2, <2>4 DEF TypeOK
  <1>6. ThreadOf(t)'
    <2>1. PhaseOf(t)'
      BY <1>t, <1>1, <1>4, TypesAt, <1>a DEF ThreadOf, PhaseOf, Simulated
    <2>2. CustomerOf(t)'
      BY <1>t, <1>1, <1>4, TypesAt, <1>a
         DEF ThreadOf, PhaseOf, CustomerOf, Simulated, finished
    <2>3. ClockOf(t)'
      BY <1>t, <1>1, <1>4, TypesAt, <1>a
         DEF ThreadOf, PhaseOf, CustomerOf, ClockOf, Simulated, finished, Later
    <2>4. RunnableOf(t)'
      BY <1>t, <1>1, <1>4, TypesAt, <1>a
         DEF ThreadOf, PhaseOf, CustomerOf, RunnableOf, Simulated
    <2> QED BY <2>1, <2>2, <2>3, <2>4 DEF ThreadOf
  <1>7. NodePlaces'
    <2>1. ~Holds(t, n) /\ ~Waits(t, n) /\ ~Holds(t, n)' /\ Waits(t, n)'
      BY <1>4, <1>a DEF Holds, Waits
    <2>2. HoldersOf(n)' = HoldersOf(n)
      BY <1>3, <2>1, OthersKeepNodes DEF HoldersOf
    <2>3. \A u \in Threads : Waits(u, n)' <=> Waits(u, n) \/ u = t
      BY <1>3, <2>1, OthersKeepNodes
    <2>4. claimed'[n] = claimed[n] /\ waiting'[n] = Append(waiting[n], t)
      BY <1>t, <1>1, Domains
    <2>5. /\ IsInjective(Append(waiting[n], t))
          /\ \A u \in Threads :
               Contains(Append(waiting[n], t), u) <=> Contains(waiting[n], u) \/ u = t
      BY <1>n, <1>j, Joining DEF NodeOf
    <2>6. claimed[n] = Servers[n]
      BY <1>n DEF NodeOf
    <2>7. NodeOf(n)'
      BY <1>n, <2>2, <2>3, <2>4, <2>5, <2>6 DEF NodeOf
    <2>8. ASSUME NEW m \in Queueing, m # n
          PROVE  NodeOf(m)'
      <3>1. claimed'[m] = claimed[m] /\ waiting'[m] = waiting[m]
        BY <1>t, <1>1, <2>8, Domains
      <3>2. (Holds(t, m)' <=> Holds(t, m)) /\ (Waits(t, m)' <=> Waits(t, m))
        BY <1>t, <1>4, <1>a, <2>8, TypesAt DEF Holds, Waits
      <3>3. NodeOf(m)
        BY <1>t DEF NodePlaces
      <3> QED BY <1>3, <3>1, <3>2, <3>3, NodeStays
    <2> QED BY <2>7, <2>8 DEF NodePlaces
  <1> QED BY <1>t, <1>3, <1>5, <1>6, <1>7, OthersKeep DEF ModelInv, ThreadPlaces

\* A customer leaves a node at which nobody waits: its resource is free.
LEMMA ReleaseTurn ==
  ASSUME ModelInv, NEW t \in Threads, Turn(t), NEW n \in Queueing, onCompletingService(t,
         n),
         currentNode[t] = <<n, "served">>, waiting[n] = <<>>
  PROVE  ModelInv'
  <1>t. TypeOK /\ ThreadOf(t) /\ ThreadPlaces /\ NodePlaces
    BY DEF ModelInv, ThreadPlaces
  <1>a. /\ at[t] = "in" /\ state[t] = "IN_MODEL" /\ simulatingModel[t] /\ timeout[t] <= 0
        /\ budget[t] > 0
    BY <1>t DEF Turn, ThreadOf, PhaseOf, CustomerOf, Simulated
  <1>n. NodeOf(n) /\ claimed[n] \in Nat /\ waiting[n] \in Seq(Threads) /\ Servers[n] \in Nat
    BY <1>t, ServersAssumption DEF NodePlaces, TypeOK
  <1>p. PICK target \in Nodes : currentNode' = Set(currentNode, t, <<target, "enter">>)
    <2>1. n \in Nodes
      BY DEF Queueing
    <2> QED BY <2>1, NetworkAssumption DEF onCompletingService, forward
  <1>h. t \in HoldersOf(n) /\ claimed[n] = Cardinality(HoldersOf(n)) /\ claimed[n] # 0
    <2>1. t \in HoldersOf(n)
      BY <1>a DEF HoldersOf, Holds
    <2> QED BY <1>n, <2>1, Counting, FS_EmptySet DEF NodeOf
  <1>1. /\ currentNode' = [currentNode EXCEPT ![t] = <<target, "enter">>]
        /\ at' = [at EXCEPT ![t] = "test"] /\ pc' = pc /\ calls' = calls /\ state' = state
        /\ key' = key /\ simulatingModel' = simulatingModel /\ ert' = ert
        /\ resumedAt' = resumedAt /\ ran' = ran /\ timeout' = timeout /\ remaining' = remaining
        /\ budget' = budget /\ due' = due /\ claimed' = [claimed EXCEPT ![n] = claimed[n] - 1]
        /\ waiting' = waiting /\ queue' = queue /\ gvt' = gvt /\ runningThread' = runningThread
    BY <1>t, <1>p
       DEF Turn, onCompletingService, releaseResourceAt, Set, push, clocks, network, place
  <1>2. heap' \in BOOLEAN /\ failed' \in BOOLEAN
    BY <1>t
       DEF Turn, onCompletingService, releaseResourceAt, Set, push, clocks, network, place,
           TypeOK
  <1>3. OthersStay({t})
    BY <1>t, <1>1, Domains, DistinctAssumption
       DEF OthersStay, ThreadPlaces, ThreadOf, PhaseOf, RunnableOf
  <1>4. /\ pc'[t] = pc[t] /\ calls'[t] = calls[t] /\ state'[t] = state[t] /\ key'[t] = key[t]
        /\ simulatingModel'[t] = simulatingModel[t] /\ ert'[t] = ert[t]
        /\ resumedAt'[t] = resumedAt[t] /\ ran'[t] = ran[t] /\ timeout'[t] = timeout[t]
        /\ currentNode'[t] = <<target, "enter">> /\ remaining'[t] = remaining[t]
        /\ budget'[t] = budget[t] /\ at'[t] = "test" /\ due'[t] = due[t]
    BY <1>t, <1>1, Domains
  <1>5. TypeOK'
    <2>1. <<target, "enter">> \in Nodes \X {"enter", "queued", "served", "finished"}
      BY <1>t, TypesAt, <1>a, <1>p
    <2>2. /\ queue' \subseteq Threads /\ gvt' \in Nat
          /\ runningThread' \in Threads \cup {NoThread}
      BY <1>t, <1>1, TypesAt DEF TypeOK, Later
    <2>3. claimed[n] - 1 \in Nat
      BY <1>n, <1>h
    <2>4. claimed' \in [Queueing -> Nat] /\ waiting' \in [Queueing -> Seq(Threads)]
      <3>1. claimed \in [Queueing -> Nat] /\ waiting \in [Queueing -> Seq(Threads)]
        BY <1>t DEF TypeOK
      <3>2. claimed' = [claimed EXCEPT ![n] = claimed[n] - 1] /\ waiting' = waiting
        BY <1>1
      <3> QED BY <2>3, <3>1, <3>2
    <2> QED BY <1>t, <1>1, <1>2, <2>1, <2>2, <2>4 DEF TypeOK
  <1>6. ThreadOf(t)'
    <2>1. PhaseOf(t)'
      BY <1>t, <1>1, <1>4, TypesAt, <1>a, <1>p DEF ThreadOf, PhaseOf, Simulated
    <2>2. CustomerOf(t)'
      BY <1>t, <1>1, <1>4, TypesAt, <1>a, <1>p
         DEF ThreadOf, PhaseOf, CustomerOf, Simulated, finished
    <2>3. ClockOf(t)'
      BY <1>t, <1>1, <1>4, TypesAt, <1>a
         DEF ThreadOf, PhaseOf, CustomerOf, ClockOf, Simulated, finished, Later
    <2>4. RunnableOf(t)'
      BY <1>t, <1>1, <1>4, TypesAt, <1>a, <1>p
         DEF ThreadOf, PhaseOf, CustomerOf, RunnableOf, Simulated
    <2> QED BY <2>1, <2>2, <2>3, <2>4 DEF ThreadOf
  <1>7. NodePlaces'
    <2>1. ~Waits(t, n) /\ ~Holds(t, n)' /\ ~Waits(t, n)'
      BY <1>4, <1>a DEF Holds, Waits
    <2>2. HoldersOf(n)' = HoldersOf(n) \ {t}
      BY <1>3, <2>1, OthersKeepNodes DEF HoldersOf
    <2>3. Cardinality(HoldersOf(n))' = Cardinality(HoldersOf(n)) - 1
      BY <1>h, <2>2, Counting, FS_RemoveElement
    <2>4. \A u \in Threads : Waits(u, n)' <=> Waits(u, n)
      BY <1>3, <2>1, OthersKeepNodes
    <2>5. claimed'[n] = claimed[n] - 1 /\ waiting'[n] = waiting[n]
      BY <1>t, <1>1, Domains
    <2>6. NodeOf(n)'
      BY <1>n, <1>h, <2>3, <2>4, <2>5 DEF NodeOf
    <2>7. ASSUME NEW m \in Queueing, m # n
          PROVE  NodeOf(m)'
      <3>1. claimed'[m] = claimed[m] /\ waiting'[m] = waiting[m]
        BY <1>t, <1>1, <2>7, Domains
      <3>2. (Holds(t, m)' <=> Holds(t, m)) /\ (Waits(t, m)' <=> Waits(t, m))
        BY <1>t, <1>4, <1>a, <2>7, TypesAt DEF Holds, Waits
      <3>3. NodeOf(m)
        BY <1>t DEF NodePlaces
      <3> QED BY <1>3, <3>1, <3>2, <3>3, NodeStays
    <2> QED BY <2>6, <2>7 DEF NodePlaces
  <1> QED BY <1>t, <1>3, <1>5, <1>6, <1>7, OthersKeep DEF ModelInv, ThreadPlaces

\* It leaves one at which others wait: the first of them gets the resource.
LEMMA HandOverTurn ==
  ASSUME ModelInv, NEW t \in Threads, Turn(t), NEW n \in Queueing, onCompletingService(t,
         n),
         currentNode[t] = <<n, "served">>, waiting[n] # <<>>
  PROVE  ModelInv'
  <1>t. TypeOK /\ ThreadOf(t) /\ ThreadPlaces /\ NodePlaces
    BY DEF ModelInv, ThreadPlaces
  <1>a. /\ at[t] = "in" /\ state[t] = "IN_MODEL" /\ simulatingModel[t] /\ timeout[t] <= 0
        /\ budget[t] > 0
    BY <1>t DEF Turn, ThreadOf, PhaseOf, CustomerOf, Simulated
  <1>n. NodeOf(n) /\ claimed[n] \in Nat /\ waiting[n] \in Seq(Threads) /\ Servers[n] \in Nat
    BY <1>t, ServersAssumption DEF NodePlaces, TypeOK
  <1>p. PICK target \in Nodes : currentNode' = [currentNode EXCEPT ![t] = <<target, "enter">>]
    <2>1. n \in Nodes
      BY DEF Queueing
    <2> QED BY <2>1, NetworkAssumption DEF onCompletingService, forward, Set
  <1>d. PICK c : c = Head(waiting[n])
    OBVIOUS
  <1>c. /\ c \in Threads /\ Tail(waiting[n]) \in Seq(Threads)
        /\ Contains(waiting[n], c) /\ IsInjective(Tail(waiting[n]))
        /\ \A u \in Threads : Contains(Tail(waiting[n]), u) <=> Contains(waiting[n], u) /\ u # c
    BY <1>n, <1>d, Leaving DEF NodeOf
  <1>w. state[c] = "IN_MODEL_WAITING" /\ currentNode[c] = <<n, "queued">> /\ ThreadOf(c) /\ c # t
    BY <1>t, <1>n, <1>c, <1>a DEF NodeOf, Waits, ThreadPlaces
  <1>1. /\ at' = [at EXCEPT ![t] = "test"]
        /\ waiting' = [waiting EXCEPT ![n] = Tail(waiting[n])] /\ claimed' = claimed
        /\ state' = [state EXCEPT ![c] = "IN_MODEL"]
        /\ ert' = [ert EXCEPT ![c] = Later(ert[c], ert[t])]
        /\ queue' = queue \cup {c}
        /\ pc' = pc /\ calls' = calls /\ key' = key /\ simulatingModel' = simulatingModel
        /\ resumedAt' = resumedAt /\ ran' = ran /\ timeout' = timeout /\ remaining' = remaining
        /\ budget' = budget /\ due' = due /\ gvt' = gvt /\ runningThread' = runningThread
    BY <1>d DEF Turn, onCompletingService, releaseResourceAt, resume, push, Set
  <1>2. heap' \in BOOLEAN /\ failed' \in BOOLEAN
    BY <1>t DEF TypeOK, Turn, onCompletingService, releaseResourceAt, resume, push
  <1>3. OthersStay({t, c})
    BY <1>t, <1>1, <1>p, <1>c, Domains DEF OthersStay
  <1>4. /\ pc'[t] = pc[t] /\ state'[t] = state[t] /\ key'[t] = key[t] /\ at'[t] = "test"
        /\ simulatingModel'[t] = simulatingModel[t] /\ currentNode'[t] = <<target, "enter">>
        /\ calls'[t] = calls[t] /\ timeout'[t] = timeout[t] /\ budget'[t] = budget[t]
        /\ remaining'[t] = remaining[t] /\ due'[t] = due[t]
        /\ ert'[t] = ert[t] /\ resumedAt'[t] = resumedAt[t]
    BY <1>t, <1>1, <1>p, <1>c, <1>w, Domains
  <1>5. /\ pc'[c] = pc[c] /\ state'[c] = "IN_MODEL" /\ key'[c] = key[c] /\ at'[c] = at[c]
        /\ simulatingModel'[c] = simulatingModel[c] /\ currentNode'[c] = currentNode[c]
        /\ calls'[c] = calls[c] /\ timeout'[c] = timeout[c] /\ budget'[c] = budget[c]
        /\ remaining'[c] = remaining[c] /\ due'[c] = due[c]
        /\ ert'[c] = Later(ert[c], ert[t]) /\ resumedAt'[c] = resumedAt[c]
        /\ c \in queue'
    BY <1>t, <1>1, <1>p, <1>c, <1>w, Domains
  <1>6. TypeOK'
    <2>1. Later(ert[c], ert[t]) \in Nat
      BY <1>t, <1>c, TypesAt DEF Later
    <2>2. /\ <<target, "enter">> \in Nodes \X {"enter", "queued", "served", "finished"}
          /\ queue' \subseteq Threads
      BY <1>t, <1>1, <1>c DEF TypeOK
    <2> QED BY <1>t, <1>1, <1>2, <1>p, <1>c, <2>1, <2>2 DEF TypeOK
  <1>7. ThreadOf(t)'
    <2>1. PhaseOf(t)'
      BY <1>t, <1>a, <1>4, TypesAt DEF ThreadOf, PhaseOf, Simulated
    <2>2. CustomerOf(t)'
      BY <1>t, <1>a, <1>4, TypesAt DEF ThreadOf, PhaseOf, CustomerOf, Simulated, finished
    <2>3. ClockOf(t)'
      BY <1>t, <1>a, <1>4, TypesAt DEF ThreadOf, PhaseOf, ClockOf, Simulated
    <2>4. RunnableOf(t)'
      BY <1>t, <1>a, <1>1, <1>4, TypesAt DEF ThreadOf, PhaseOf, RunnableOf
    <2> QED BY <2>1, <2>2, <2>3, <2>4 DEF ThreadOf
  <1>8. ThreadOf(c)'
    <2>1. PhaseOf(c)'
      BY <1>c, <1>w, <1>5 DEF ThreadOf, PhaseOf, Simulated
    <2>2. CustomerOf(c)'
      BY <1>c, <1>w, <1>5 DEF ThreadOf, PhaseOf, CustomerOf, Simulated, finished
    <2>3. ClockOf(c)'
      <3>1. /\ due[c] <= ert[c] + remaining[c] /\ Later(ert[c], ert[t]) >= ert[c]
            /\ due[c] \in Nat /\ ert[c] \in Nat /\ remaining[c] \in Nat
            /\ Later(ert[c], ert[t]) \in Nat
        BY <1>t, <1>c, <1>w, TypesAt DEF ThreadOf, ClockOf, Simulated, Later
      <3> QED BY <1>w, <1>5, <3>1 DEF ThreadOf, PhaseOf, ClockOf, Simulated
    <2>4. RunnableOf(c)'
      BY <1>c, <1>w, <1>5 DEF RunnableOf
    <2> QED BY <2>1, <2>2, <2>3, <2>4 DEF ThreadOf
  <1>9. NodePlaces'
    <2>1. Holds(t, n) /\ ~Holds(t, n)' /\ ~Waits(t, n) /\ ~Waits(t, n)'
      BY <1>a, <1>4 DEF Holds, Waits
    <2>2. ~Holds(c, n) /\ Holds(c, n)' /\ Waits(c, n) /\ ~Waits(c, n)'
      BY <1>c, <1>w, <1>5 DEF Holds, Waits, ThreadOf, PhaseOf, Simulated
    <2>3. HoldersOf(n)' = (HoldersOf(n) \ {t}) \cup {c}
      BY <1>3, <1>c, <2>1, <2>2, OthersKeepNodes DEF HoldersOf
    <2>4. Cardinality(HoldersOf(n))' = Cardinality(HoldersOf(n))
      <3>1. t \in HoldersOf(n) /\ c \notin HoldersOf(n) \ {t}
        BY <2>1, <2>2 DEF HoldersOf
      <3>2. /\ IsFiniteSet(HoldersOf(n) \ {t})
            /\ Cardinality(HoldersOf(n) \ {t}) = Cardinality(HoldersOf(n)) - 1
        BY <3>1, Counting, FS_RemoveElement
      <3>3. Cardinality(HoldersOf(n)') = Cardinality(HoldersOf(n) \ {t}) + 1
        BY <2>3, <3>1, <3>2, FS_AddElement
      <3> QED BY <3>2, <3>3, Counting
    <2>5. \A u \in Threads : Waits(u, n)' <=> Waits(u, n) /\ u # c
      BY <1>3, <2>1, <2>2, OthersKeepNodes
    <2>6. claimed'[n] = claimed[n] /\ waiting'[n] = Tail(waiting[n])
      BY <1>t, <1>1, Domains
    <2>7. NodeOf(n)'
      BY <1>n, <1>c, <2>4, <2>5, <2>6 DEF NodeOf
    <2>8. ASSUME NEW m \in Queueing, m # n
          PROVE  NodeOf(m)'
      <3>1. claimed'[m] = claimed[m] /\ waiting'[m] = waiting[m]
        BY <1>t, <1>1, <2>8, Domains
      <3>2. (Holds(t, m)' <=> Holds(t, m)) /\ (Waits(t, m)' <=> Waits(t, m))
        BY <1>4, <1>a, <2>8 DEF Holds, Waits
      <3>3. (Holds(c, m)' <=> Holds(c, m)) /\ (Waits(c, m)' <=> Waits(c, m))
        BY <1>5, <1>w, <2>8 DEF Holds, Waits
      <3>4. NodeOf(m)
        BY <1>t DEF NodePlaces
      <3> QED BY <1>3, <3>1, <3>2, <3>3, <3>4, NodeStays
    <2> QED BY <2>7, <2>8 DEF NodePlaces
  <1> QED BY <1>t, <1>3, <1>6, <1>7, <1>8, <1>9, OthersKeep DEF ModelInv, ThreadPlaces
-----------------------------------------------------------------------------
LEMMA InitHolds ==
  ASSUME Init
  PROVE  ModelInv
  <1>1. TypeOK
    <2>1. 0 \in 0..MaxCalls /\ 0 \in Nat /\ 0 \in Int /\ -1 \in Nat \cup {-1}
      BY BoundsAssumption
    <2>2. <<Source, "enter">> \in Nodes \X {"enter", "queued", "served", "finished"}
      BY SourceIsNode
    <2>3. <<>> \in Seq(Threads)
      OBVIOUS
    <2> QED BY <2>1, <2>2, <2>3 DEF Init, TypeOK
  <1>2. ASSUME NEW t \in Threads
        PROVE  ThreadOf(t)
    BY DEF Init, ThreadOf, PhaseOf, CustomerOf, ClockOf, RunnableOf, Simulated, finished
  <1>3. ASSUME NEW n \in Queueing
        PROVE  NodeOf(n)
    <2>1. HoldersOf(n) = {}
      BY DEF Init, HoldersOf, Holds
    <2>2. claimed[n] = Cardinality(HoldersOf(n)) /\ claimed[n] = 0 /\ waiting[n] = <<>>
      BY <2>1, FS_EmptySet DEF Init
    <2>3. Servers[n] \in Nat
      BY ServersAssumption
    <2>4. IsInjective(waiting[n]) /\ \A t \in Threads : ~Contains(waiting[n], t)
      BY <2>2 DEF IsInjective, Contains
    <2>5. \A t \in Threads : ~Waits(t, n)
      BY DEF Init, Waits
    <2> QED BY <2>2, <2>3, <2>4, <2>5 DEF NodeOf
  <1> QED BY <1>1, <1>2, <1>3 DEF ModelInv, ThreadPlaces, NodePlaces

LEMMA StutterHolds ==
  ASSUME ModelInv, UNCHANGED vars
  PROVE  ModelInv'
  <1>1. TypeOK'
    BY DEF ModelInv, vars, TypeOK
  <1>2. OthersStay({})
    BY DEF vars, OthersStay
  <1>3. ThreadPlaces'
    BY <1>2, OthersKeep DEF ModelInv, ThreadPlaces
  <1>4. NodePlaces'
    <2>1. claimed' = claimed /\ waiting' = waiting
      BY DEF vars
    <2> QED BY <1>2, <2>1, NodeStays DEF ModelInv, NodePlaces
  <1> QED BY <1>1, <1>3, <1>4 DEF ModelInv

\* A turn of the simulation loop, whichever node it enters.
LEMMA TurnHolds ==
  ASSUME ModelInv, NEW t \in Threads, simulationStep(t)
  PROVE  ModelInv'
  <1>1. Turn(t)
    BY DEF simulationStep, Turn
  <1>2. TypeOK
    BY DEF ModelInv
  <1>3. PICK n \in Nodes, phase \in {"enter", "queued", "served", "finished"} :
          /\ currentNode[t] = <<n, phase>>
          /\ currentNode[t][1] = n /\ currentNode[t][2] = phase
    BY <1>2, TypesAt
  <1>4. CASE simulateLocalServiceTime(t)
    BY <1>1, <1>4, LocalTurn
  <1>5. CASE enter(t)
    <2>0. /\ remaining[t] = 0
          /\ \/ phase = "served" /\ onCompletingService(t, n)
             \/ phase = "queued" /\ serve(t, n)
             \/ phase = "enter" /\ Kind[n] = "source" /\ pass(t, n)
             \/ phase = "enter" /\ n \in Queueing /\ accept(t, n)
             \/ phase = "enter" /\ Kind[n] \in {"delay", "localDelay"} /\ serve(t, n)
             \/ phase = "enter" /\ Kind[n] = "sink" /\ absorb(t, n)
      BY <1>3, <1>5 DEF enter
    <2>1. CASE phase = "served" /\ onCompletingService(t, n)
      BY <1>1, <1>3, <2>0, <2>1, LeaveTurn, ReleaseTurn, HandOverTurn
    <2>2. CASE phase = "queued" /\ serve(t, n)
      BY <1>1, <1>3, <2>0, <2>2, ServeTurn
    <2>3. CASE phase = "enter" /\ pass(t, n)
      BY <1>1, <1>3, <2>3, PassTurn
    <2>4. CASE phase = "enter" /\ n \in Queueing /\ accept(t, n)
      BY <1>1, <1>3, <2>0, <2>4, ClaimTurn, BlockTurn DEF accept
    <2>5. CASE phase = "enter" /\ Kind[n] \in {"delay", "localDelay"} /\ serve(t, n)
      <3>1. n \notin Queueing
        BY <2>5 DEF Queueing
      <3> QED BY <1>1, <1>3, <2>0, <2>5, <3>1, ServeTurn
    <2>6. CASE phase = "enter" /\ absorb(t, n)
      BY <1>1, <1>3, <2>0, <2>6, AbsorbTurn
    <2> QED BY <2>0, <2>1, <2>2, <2>3, <2>4, <2>5, <2>6
  <1> QED BY <1>4, <1>5 DEF simulationStep

LEMMA StepHolds ==
  ASSUME ModelInv, NEW t \in Threads, Step(t)
  PROVE  ModelInv'
  <1>1. CASE compute(t)
    BY <1>1, Compute
  <1>2. CASE suspendThread(t)
    BY <1>2, Suspend
  <1>3. CASE onEnd(t)
    BY <1>3, End
  <1>4. CASE simulate(t)
    BY <1>4, SimulateItself, SimulateLater
  <1>5. CASE simulationStep(t)
    BY <1>5, TurnHolds
  <1>6. CASE simulationContinues(t)
    BY <1>6, Continues
  <1>7. CASE simulationStops(t)
    BY <1>7, StopsFinished, StopsRunnable, StopsWaiting
  <1>8. CASE onSynchronizeOnModelExit(t)
    BY <1>8, ModelExit
  <1>9. CASE suspendModelSimulationFinishingThread(t)
    BY <1>9, FinishSuspended, FinishRunning
  <1>10. CASE continueThread(t)
    <2>0. runningThread = NoThread
      BY <1>10 DEF continueThread
    <2>1. CASE resumeThread(t)
      BY <2>0, <2>1, ResumeThread
    <2>2. CASE resumeModelSimulation(t)
      BY <2>2, ResumeTimed, ResumeModel
    <2>3. CASE leapRefused(t)
      BY <2>3, StutterHolds DEF leapRefused
    <2>4. CASE pollFindsBlocked(t)
      BY <2>4, PollBlocked
    <2> QED BY <1>10, <2>1, <2>2, <2>3, <2>4 DEF continueThread
  <1> QED BY <1>1, <1>2, <1>3, <1>4, <1>5, <1>6, <1>7, <1>8, <1>9, <1>10 DEF Step

LEMMA ModelInvariant ==
  Spec => []ModelInv
  <1>1. Init => ModelInv
    BY InitHolds
  <1>2. ModelInv /\ [Next]_vars => ModelInv'
    <2>1. ASSUME ModelInv, Next
          PROVE  ModelInv'
      BY <2>1, StepHolds, StutterHolds DEF Next
    <2> QED BY <2>1, StutterHolds
  <1> QED BY <1>1, <1>2, PTL DEF Spec
-----------------------------------------------------------------------------
LEMMA PlacesFollow ==
  ASSUME ModelInv
  PROVE  CustomersKeepTheirPlace
  <1>1. TypeOK /\ ThreadPlaces /\ NodePlaces
    BY DEF ModelInv
  <1>2. ASSUME NEW n \in Queueing
        PROVE  InService(n) \cup {t \in Threads :
                 currentNode[t] = <<n, "queued">> /\ ~Contains(waiting[n], t)} = HoldersOf(n)
    <2>1. ASSUME NEW t \in Threads
          PROVE  Holds(t, n) <=> \/ simulatingModel[t] /\ currentNode[t] = <<n, "served">>
                                 \/ currentNode[t] = <<n, "queued">> /\ ~Contains(waiting[n], t)
      <3>1. Contains(waiting[n], t) <=> Waits(t, n)
        BY <1>1 DEF NodePlaces, NodeOf
      <3>2. currentNode[t] = <<n, "queued">> => simulatingModel[t]
        BY <1>1 DEF ThreadPlaces, ThreadOf, PhaseOf, CustomerOf, finished
      <3> QED BY <3>1, <3>2 DEF Holds, Waits
    <2> QED BY <2>1 DEF InService, HoldersOf
  <1>3. ResourcesAreConserved
    BY <1>1, <1>2 DEF ResourcesAreConserved, NodePlaces, NodeOf
  <1>4. WaitingCustomersAreQueued
    BY <1>1 DEF WaitingCustomersAreQueued, NodePlaces, NodeOf, Waits
  <1>5. NoThreadIsLost
    BY <1>1, TypesAt DEF NoThreadIsLost, ThreadPlaces, ThreadOf, RunnableOf
  <1> QED BY <1>1, <1>3, <1>4, <1>5 DEF CustomersKeepTheirPlace

\* Resources are neither lost nor handed out twice, whatever the network: no
\* interleaving of simulators loses or duplicates a server, forgets a customer
\* in the queue of a VexQueueingNode or leaves a thread where nobody finds it.
THEOREM NetworkIsConserved == Spec => []CustomersKeepTheirPlace
  <1>1. ModelInv => CustomersKeepTheirPlace
    BY PlacesFollow
  <1> QED BY <1>1, ModelInvariant, PTL

\* A method described by a model returns only after its customer has left the
\* network, and with all the service times it was given on its clock, whether
\* its real code or its simulation takes longer.
THEOREM ModelTimeIsCharged == Spec => []MethodTakesItsModelTime
  <1>1. ModelInv => MethodTakesItsModelTime
    <2>1. ASSUME ModelInv
          PROVE  MethodTakesItsModelTime
      <3>1. TypeOK /\ ThreadPlaces
        BY <2>1 DEF ModelInv
      <3>2. MethodOutlivesItsModel
        BY <3>1, TypesAt
           DEF MethodOutlivesItsModel, ThreadPlaces, ThreadOf, PhaseOf, CustomerOf,
                             Simulated
      <3>3. DemandIsCharged
        BY <3>1 DEF DemandIsCharged, ThreadPlaces, ThreadOf, ClockOf
      <3> QED BY <3>2, <3>3 DEF MethodTakesItsModelTime
    <2> QED BY <2>1
  <1> QED BY <1>1, ModelInvariant, PTL
=============================================================================
