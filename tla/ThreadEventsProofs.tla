------------------------- MODULE ThreadEventsProofs -------------------------
(***************************************************************************)
(* The thread events on one core, for every set of threads, objects and    *)
(* operations: the registries say what the threads do, nobody works on a   *)
(* deleted thread, a waiter knows what woke it and a joiner is told the    *)
(* truth.                                                                  *)
(***************************************************************************)
EXTENDS ThreadEvents, FiniteSetTheorems, TLAPS

\* Where a thread is that has no state in the thread registry.
Outside == {"unborn", "ignored", "deleted"}

\* Where a thread may be resumed.
ResumesAt == {"user", "listed", "listedTimed", "reenter", "joining", "parkGap"}

\* Where a thread works on the state of another one.
TargetsAt == {"unparking", "unparkHolds", "flagNotify", "flagBroadcast", "flagInterrupt"}
FlagsAt == {"flagNotify", "flagBroadcast", "flagInterrupt"}

\* Where a thread is only while it runs.
RunsAt == (ResumesAt \cup TargetsAt \cup {"broadcasting"}) \ {"user"}

\* Where the thread is, or is to go on once it is resumed.
At(t) == IF pc[t] = "asleep" THEN back[t] ELSE pc[t]

\* The thread runs or is being resumed.
Active(t) == state[t] = "RUNNING" \/ t \in inHand

\* On one core there is one such thread.
OneActive == \A t, u \in Threads : Active(t) /\ Active(u) => t = u

\* The state of a thread fits what it does.
StateFits(t) ==
  /\ pc[t] \in {"unborn", "ignored"} => state[t] = "REGISTERING"
  /\ pc[t] = "deleted" => state[t] = "VEX_ZOMBIE"
  /\ pc[t] = "user" => state[t] \in {"RUNNING", "NATIVE_WAITING", "WAITING", "SUSPENDED"}
  /\ pc[t] \in {"asleep", "parkUnlock", "parking", "joinWait"} => state[t] \in {"SUSPENDED", "WAITING"}
  /\ pc[t] \in RunsAt => state[t] = "RUNNING"
  /\ t \in inHand => state[t] = "SUSPENDED"

\* The registry and its owner agree on who exists, and only threads that are
\* not simulated are left alone.
PlaceFits(t) ==
  /\ back[t] \in ResumesAt
  /\ pc[t] # "asleep" => back[t] = "user"
  /\ t \in index <=> pc[t] \notin Outside
  /\ pc[t] = "ignored" => t \in Excluded \cup Foreign
  /\ pc[t] \in {"broadcasting", "flagBroadcast"} => obj[t] \in Objects

\* A thread is flagged as parked from the park to the unpark: only a park with a
\* timeout may end before. A waiter is no parked thread once it was woken.
ParkFits(t) ==
  /\ ~(parked[t] /\ unparked[t])
  /\ At(t) = "reenter" /\ state[t] # "WAITING" => ~parked[t]
  /\ "timedPark" \notin Ops[t] =>
       /\ parked[t] => At(t) \in {"parkGap", "parkUnlock", "parking"}
       /\ pc[t] \in {"parkUnlock", "parking"} => timeout[t] <= 0

\* No thread both parks with a timeout and is taken for native waiting.
ParksApart == \A t \in Threads : ~("timedPark" \in Ops[t] /\ "native" \in Ops[t])

NativeFits(t) ==
  /\ state[t] = "NATIVE_WAITING" => "native" \in Ops[t] /\ t \in nativeQueue
  /\ ParksApart /\ t \in nativeQueue => state[t] = "NATIVE_WAITING"

\* A thread at work on another knows it and its cause.
TargetFits(t) ==
  /\ pc[t] \in TargetsAt => peer[t] \in Threads \ {t} /\ pc[peer[t]] \notin Outside
  /\ pc[t] \in FlagsAt => (isNotification(t) <=> cause[peer[t]] # "interrupt")

\* Somebody is about to say what woke the thread.
BeingFlagged(t) == \E u \in Threads : pc[u] \in FlagsAt /\ peer[u] = t

CauseFits(t) ==
  At(t) = "reenter" /\ state[t] # "WAITING" =>
    BeingFlagged(t) \/ (timedOut[t] <=> cause[t] # "interrupt")

\* Whom a thread has to tell of its end waits for it.
JoinFits(t) == LET j == joiner[t] IN
  j # NoThread =>
    /\ pc[t] \notin {"unborn", "ignored"}
    /\ pc[t] # "deleted" => peer[j] = t /\ At(j) \in {"joining", "joinWait"}

ThreadFits(t) ==
  /\ StateFits(t) /\ PlaceFits(t) /\ ParkFits(t) /\ NativeFits(t)
  /\ TargetFits(t) /\ CauseFits(t) /\ JoinFits(t)

EventsInv ==
  /\ TypeOK
  /\ OneActive
  /\ \A t \in Threads : ThreadFits(t)
  /\ RegistryIsAccurate
  /\ SpawnCountIsAccurate
-----------------------------------------------------------------------------
LEMMA Domains ==
  ASSUME TypeOK
  PROVE  /\ DOMAIN pc = Threads /\ DOMAIN back = Threads /\ DOMAIN obj = Threads
         /\ DOMAIN peer = Threads /\ DOMAIN state = Threads /\ DOMAIN timeout = Threads
         /\ DOMAIN timedOut = Threads /\ DOMAIN waitObj = Threads
         /\ DOMAIN parked = Threads /\ DOMAIN unparked = Threads
         /\ DOMAIN afterParking = Threads /\ DOMAIN cause = Threads
         /\ DOMAIN waiting = Objects /\ DOMAIN monitor = Objects /\ DOMAIN holder = Threads
         /\ DOMAIN joiner = Threads /\ DOMAIN awakening = Threads
  BY DEF TypeOK

\* A registry whose lists did not change stays accurate if no waiter leaves.
LEMMA RegistryKept ==
  ASSUME TypeOK, RegistryIsAccurate, waiting' = waiting,
         \A w \in Threads, o \in Objects : InWait(w, o) => InWait(w, o)'
  PROVE  RegistryIsAccurate'
  BY DEF TypeOK, RegistryIsAccurate

LEMMA SpawnsKept ==
  ASSUME TypeOK, SpawnCountIsAccurate, parents' = parents, spawning' = spawning,
         \A w \in Threads : pc'[w] = "unborn" <=> pc[w] = "unborn"
  PROVE  SpawnCountIsAccurate'
  <1>1. {t \in parents : pc[t] = "unborn"} = {t \in parents : pc'[t] = "unborn"}
    BY DEF TypeOK
  <1> QED BY <1>1 DEF SpawnCountIsAccurate

LEMMA ThreadsAreCounted == Cardinality(Threads) \in Nat
  BY FiniteAssumption, FS_CardinalityType

LEMMA OneMore ==
  ASSUME NEW S, IsFiniteSet(S), NEW x, x \notin S
  PROVE  Cardinality(S \cup {x}) = Cardinality(S) + 1
  BY FS_AddElement

LEMMA OneLess ==
  ASSUME NEW S, IsFiniteSet(S), NEW x \in S
  PROVE  Cardinality(S \ {x}) = Cardinality(S) - 1 /\ Cardinality(S) \in Nat \ {0}
  BY FS_RemoveElement, FS_EmptySet, FS_CardinalityType

\* A core is free when nobody runs and nobody is being resumed.
LEMMA FreeMeansNobody ==
  ASSUME TypeOK, Cores = 1, FreeCore, NEW w \in Threads
  PROVE  ~Active(w)
  <1>1. Running \cup inHand \subseteq Threads
    BY DEF TypeOK, Running
  <1>2. IsFiniteSet(Running \cup inHand)
    BY <1>1, FiniteAssumption, FS_Subset
  <1>3. Running \cup inHand = {}
    BY <1>2, FS_EmptySet, FS_CardinalityType DEF FreeCore
  <1> QED BY <1>3 DEF Running, Active

\* A list without its first entry at i.
LEMMA RemovedAt ==
  ASSUME NEW S, NEW s \in Seq(S), NEW i \in 1 .. Len(s)
  PROVE  /\ RemoveAt(s, i) \in Seq(S)
         /\ Len(RemoveAt(s, i)) = Len(s) - 1
         /\ \A j \in 1 .. Len(s) - 1 : RemoveAt(s, i)[j] = s[IF j < i THEN j ELSE j + 1]
  <1>1. PICK a, b : a = SubSeq(s, 1, i - 1) /\ b = SubSeq(s, i + 1, Len(s))
    OBVIOUS
  <1>2. /\ a \in Seq(S) /\ Len(a) = i - 1
        /\ \A j \in 1 .. i - 1 : a[j] = s[j]
    BY <1>1
  <1>3. /\ b \in Seq(S) /\ Len(b) = Len(s) - i
        /\ \A j \in 1 .. Len(s) - i : b[j] = s[i + j]
    BY <1>1
  <1>4. RemoveAt(s, i) = a \o b
    BY <1>1 DEF RemoveAt
  <1>5. /\ a \o b \in Seq(S) /\ Len(a \o b) = Len(s) - 1
        /\ \A j \in 1 .. Len(s) - 1 :
             (a \o b)[j] = IF j <= i - 1 THEN a[j] ELSE b[j - (i - 1)]
    BY <1>2, <1>3
  <1>6. ASSUME NEW j \in 1 .. Len(s) - 1
        PROVE  (a \o b)[j] = s[IF j < i THEN j ELSE j + 1]
    <2>1. CASE j < i
      BY <2>1, <1>2, <1>5
    <2>2. CASE ~(j < i)
      <3>1. j - (i - 1) \in 1 .. Len(s) - i /\ i + (j - (i - 1)) = j + 1
        BY <2>2
      <3>2. (a \o b)[j] = b[j - (i - 1)]
        BY <2>2, <1>5
      <3> QED BY <3>1, <3>2, <2>2, <1>3
    <2> QED BY <2>1, <2>2
  <1> QED BY <1>4, <1>5, <1>6

\* Where every entry is there once, the first one is the one.
LEMMA TheOnlyEntry ==
  ASSUME NEW S, NEW s \in Seq(S), IsInjective(s), NEW i \in 1 .. Len(s)
  PROVE  RemoveFirst(s, s[i]) = RemoveAt(s, i)
  <1>1. {j \in 1 .. Len(s) : s[j] = s[i]} = {i}
    BY DEF IsInjective
  <1>2. Min({i}) = i
    BY DEF Min
  <1>3. SelectInSeq(s, LAMBDA v : v = s[i]) = i
    BY <1>1, <1>2 DEF SelectInSeq
  <1> QED BY <1>3 DEF RemoveFirst

LEMMA FirstRemoved ==
  ASSUME NEW S, NEW s \in Seq(S), IsInjective(s), NEW e
  PROVE  /\ RemoveFirst(s, e) \in Seq(S)
         /\ IsInjective(RemoveFirst(s, e))
         /\ \A i \in DOMAIN RemoveFirst(s, e) :
              /\ RemoveFirst(s, e)[i] # e
              /\ \E j \in DOMAIN s : s[j] = RemoveFirst(s, e)[i]
  <1>1. CASE \A i \in 1 .. Len(s) : s[i] # e
    <2>1. RemoveFirst(s, e) = s
      BY <1>1 DEF RemoveFirst
    <2> QED BY <1>1, <2>1
  <1>2. CASE \E i \in 1 .. Len(s) : s[i] = e
    <2>1. PICK i \in 1 .. Len(s) : s[i] = e
      BY <1>2
    <2>2. PICK r : r = RemoveAt(s, i)
      OBVIOUS
    <2>3. RemoveFirst(s, e) = r
      BY <2>1, <2>2, TheOnlyEntry
    <2>4. /\ r \in Seq(S) /\ Len(r) = Len(s) - 1 /\ Len(s) \in Nat \ {0}
          /\ \A j \in 1 .. Len(s) - 1 : r[j] = s[IF j < i THEN j ELSE j + 1]
          /\ DOMAIN r = 1 .. Len(s) - 1 /\ DOMAIN s = 1 .. Len(s)
      BY <2>2, RemovedAt
    <2>5. \A j, k \in 1 .. Len(s) : s[j] = s[k] => j = k
      BY <2>4 DEF IsInjective
    <2>6. ASSUME NEW j \in 1 .. Len(s) - 1
          PROVE  r[j] # e /\ \E k \in DOMAIN s : s[k] = r[j]
      <3>1. PICK k \in 1 .. Len(s) : k = IF j < i THEN j ELSE j + 1
        BY <2>4
      <3>2. r[j] = s[k] /\ k # i
        BY <2>4, <3>1
      <3> QED BY <2>1, <2>4, <2>5, <3>2
    <2>7. ASSUME NEW j \in 1 .. Len(s) - 1, NEW k \in 1 .. Len(s) - 1, r[j] = r[k]
          PROVE  j = k
      BY <2>4, <2>5, <2>7
    <2>8. IsInjective(r)
      BY <2>4, <2>7 DEF IsInjective
    <2> QED BY <2>3, <2>4, <2>6, <2>8
  <1> QED BY <1>1, <1>2

LEMMA Erased ==
  ASSUME NEW reg \in [Objects -> Seq(Threads)], \A o \in Objects : IsInjective(reg[o]),
         NEW u \in Threads, NEW p \in Objects \cup {0}, NEW r, r = erase(reg, p, u)
  PROVE  /\ r \in [Objects -> Seq(Threads)]
         /\ \A o \in Objects :
              /\ IsInjective(r[o])
              /\ \A i \in DOMAIN r[o] :
                   /\ \E j \in DOMAIN reg[o] : reg[o][j] = r[o][i]
                   /\ o = p => r[o][i] # u
  <1>1. CASE p = 0
    BY <1>1, ObjectsAssumption DEF erase
  <1>2. CASE p \in Objects
    <2>1. r = [reg EXCEPT ![p] = RemoveFirst(reg[p], u)]
      BY <1>2, ObjectsAssumption DEF erase
    <2>2. /\ RemoveFirst(reg[p], u) \in Seq(Threads)
          /\ IsInjective(RemoveFirst(reg[p], u))
          /\ \A i \in DOMAIN RemoveFirst(reg[p], u) :
               /\ RemoveFirst(reg[p], u)[i] # u
               /\ \E j \in DOMAIN reg[p] : reg[p][j] = RemoveFirst(reg[p], u)[i]
      BY <1>2, FirstRemoved
    <2>3. \A o \in Objects : r[o] = IF o = p THEN RemoveFirst(reg[p], u) ELSE reg[o]
      BY <2>1
    <2>4. ASSUME NEW o \in Objects
          PROVE  /\ IsInjective(r[o])
                 /\ \A i \in DOMAIN r[o] :
                      /\ \E j \in DOMAIN reg[o] : reg[o][j] = r[o][i]
                      /\ o = p => r[o][i] # u
      <3>1. CASE o = p
        BY <2>2, <2>3, <3>1
      <3>2. CASE o # p
        BY <2>3, <3>2
      <3> QED BY <3>1, <3>2
    <2> QED BY <2>1, <2>2, <2>4
  <1> QED BY <1>1, <1>2

LEMMA WaiterErased ==
  ASSUME TypeOK, NEW reg \in [Objects -> Seq(Threads)], \A o \in Objects : IsInjective(reg[o]),
         NEW u \in Threads, waiting' = erase(reg, waitObj[u], u)
  PROVE  /\ waiting' \in [Objects -> Seq(Threads)]
         /\ \A o \in Objects :
              /\ IsInjective(waiting'[o])
              /\ \A i \in DOMAIN waiting'[o] :
                   /\ \E j \in DOMAIN reg[o] : reg[o][j] = waiting'[o][i]
                   /\ o = waitObj[u] => waiting'[o][i] # u
  <1>1. waitObj[u] \in Objects \cup {0}
    BY DEF TypeOK
  <1> QED BY <1>1, Erased

LEMMA preempt_Step ==
  ASSUME EventsInv, NEW t \in Threads,
         preempt(t)
  PROVE  EventsInv'
  <1>i. /\ TypeOK /\ OneActive /\ RegistryIsAccurate /\ SpawnCountIsAccurate
        /\ \A w \in Threads : ThreadFits(w)
    BY DEF EventsInv
  <1>1. /\ state' = [state EXCEPT ![t] = "SUSPENDED"]
        /\ runnables' = runnables \cup {t}
        /\ pc' = [pc EXCEPT ![t] = "asleep"]
        /\ back' = [back EXCEPT ![t] = pc[t]]
        /\ UNCHANGED << obj, peer, timeout, timedOut, waitObj, parked, unparked, afterParking,
                    cause, waiting, monitor, holder, inHand, index, parents, spawning, joiner,
                    awakening, nativeQueue, polled>>
        /\ state[t] = "RUNNING"
        /\ pc[t] \in ResumesAt
    BY <1>i DEF preempt, MayPreempt, ResumesAt, Set, Goto, Sleep, Event, waitVars, schedVars,
       spawnVars, joinVars, nativeVars
  <1>2. /\ \A w \in Threads : state'[w] = IF w = t THEN "SUSPENDED" ELSE state[w]
        /\ \A w \in Threads : pc'[w] = IF w = t THEN "asleep" ELSE pc[w]
        /\ \A w \in Threads : back'[w] = IF w = t THEN pc[t] ELSE back[w]
    BY <1>i, <1>1, Domains
  <1>3. TypeOK'
    BY <1>i, <1>1 DEF TypeOK, Labels, States, ResumesAt
  <1>4. OneActive'
    BY <1>i, <1>1, <1>2 DEF OneActive, Active
  <1>5. ASSUME NEW w \in Threads PROVE ThreadFits(w)'
    <2>1. StateFits(w)'
      BY <1>i, <1>1, <1>2 DEF ThreadFits, StateFits, OneActive, Active, At, Outside, ResumesAt,
         TargetsAt, FlagsAt, RunsAt
    <2>2. PlaceFits(w)'
      BY <1>i, <1>1, <1>2 DEF ThreadFits, PlaceFits, At, Outside, ResumesAt, TargetsAt, FlagsAt,
         RunsAt
    <2>3. ParkFits(w)'
      BY <1>i, <1>1, <1>2 DEF ThreadFits, ParkFits, PlaceFits, At, Outside, ResumesAt,
         TargetsAt, FlagsAt, RunsAt
    <2>4. NativeFits(w)'
      BY <1>i, <1>1, <1>2 DEF ThreadFits, NativeFits, StateFits
    <2>5. TargetFits(w)'
      BY <1>i, <1>1, <1>2 DEF ThreadFits, TargetFits, isNotification, StateFits, OneActive,
         Active, At, Outside, ResumesAt, TargetsAt, FlagsAt, RunsAt
    <2>6. CauseFits(w)'
      BY <1>i, <1>1, <1>2 DEF ThreadFits, CauseFits, PlaceFits, BeingFlagged, At, Outside,
         ResumesAt, TargetsAt, FlagsAt, RunsAt
    <2>7. JoinFits(w)'
      BY <1>i, <1>1, <1>2 DEF ThreadFits, JoinFits, PlaceFits, TypeOK, At, Outside, ResumesAt,
         TargetsAt, FlagsAt, RunsAt
    <2> QED BY <2>1, <2>2, <2>3, <2>4, <2>5, <2>6, <2>7 DEF ThreadFits
  <1>6. RegistryIsAccurate'
    <2>1. \A w \in Threads, o \in Objects : InWait(w, o) => InWait(w, o)'
      BY <1>i, <1>1, <1>2 DEF InWait, ThreadFits, StateFits, At, Outside, ResumesAt, TargetsAt,
         FlagsAt, RunsAt
    <2> QED BY <2>1, <1>i, <1>1, RegistryKept
  <1>7. SpawnCountIsAccurate'
    BY <1>i, <1>1, <1>2, SpawnsKept DEF At, Outside, ResumesAt, TargetsAt, FlagsAt, RunsAt
  <1> QED BY <1>3, <1>4, <1>5, <1>6, <1>7 DEF EventsInv

LEMMA joinWaitingStart_Step ==
  ASSUME EventsInv, NEW t \in Threads,
         joinWaitingStart(t)
  PROVE  EventsInv'
  <1>i. /\ TypeOK /\ OneActive /\ RegistryIsAccurate /\ SpawnCountIsAccurate
        /\ \A w \in Threads : ThreadFits(w)
    BY DEF EventsInv
  <1>1. /\ state' = [state EXCEPT ![t] = "WAITING"]
        /\ timedOut' = [timedOut EXCEPT ![t] = TRUE]
        /\ afterParking' = [afterParking EXCEPT ![t] = FALSE]
        /\ timeout' = [timeout EXCEPT ![t] = -1]
        /\ awakening' = [awakening EXCEPT ![t] = FALSE]
        /\ pc' = [pc EXCEPT ![t] = "joinWait"]
        /\ UNCHANGED << back, obj, peer, waitObj, parked, unparked, cause, waiting, monitor,
                    runnables, holder, inHand, index, parents, spawning, joiner, nativeQueue,
                    polled>>
        /\ pc[t] = "joining"
        /\ state[t] = "RUNNING"
    BY <1>i DEF joinWaitingStart, onWrappedWaitingStart, setWaiting, Set, Goto, Sleep, Event,
       waitVars, schedVars, spawnVars, joinVars, nativeVars
  <1>2. /\ \A w \in Threads : state'[w] = IF w = t THEN "WAITING" ELSE state[w]
        /\ \A w \in Threads : timedOut'[w] = IF w = t THEN TRUE ELSE timedOut[w]
        /\ \A w \in Threads : afterParking'[w] = IF w = t THEN FALSE ELSE afterParking[w]
        /\ \A w \in Threads : timeout'[w] = IF w = t THEN -1 ELSE timeout[w]
        /\ \A w \in Threads : awakening'[w] = IF w = t THEN FALSE ELSE awakening[w]
        /\ \A w \in Threads : pc'[w] = IF w = t THEN "joinWait" ELSE pc[w]
    BY <1>i, <1>1, Domains
  <1>3. TypeOK'
    BY <1>i, <1>1 DEF TypeOK, Labels, States, ResumesAt
  <1>4. OneActive'
    BY <1>i, <1>1, <1>2 DEF OneActive, Active
  <1>5. ASSUME NEW w \in Threads PROVE ThreadFits(w)'
    <2>1. StateFits(w)'
      BY <1>i, <1>1, <1>2 DEF ThreadFits, StateFits, OneActive, Active, At, Outside, ResumesAt,
         TargetsAt, FlagsAt, RunsAt
    <2>2. PlaceFits(w)'
      BY <1>i, <1>1, <1>2 DEF ThreadFits, PlaceFits, At, Outside, ResumesAt, TargetsAt, FlagsAt,
         RunsAt
    <2>3. ParkFits(w)'
      BY <1>i, <1>1, <1>2 DEF ThreadFits, ParkFits, PlaceFits, At, Outside, ResumesAt,
         TargetsAt, FlagsAt, RunsAt
    <2>4. NativeFits(w)'
      BY <1>i, <1>1, <1>2 DEF ThreadFits, NativeFits, StateFits
    <2>5. TargetFits(w)'
      BY <1>i, <1>1, <1>2 DEF ThreadFits, TargetFits, isNotification, StateFits, OneActive,
         Active, At, Outside, ResumesAt, TargetsAt, FlagsAt, RunsAt
    <2>6. CauseFits(w)'
      BY <1>i, <1>1, <1>2 DEF ThreadFits, CauseFits, PlaceFits, BeingFlagged, At, Outside,
         ResumesAt, TargetsAt, FlagsAt, RunsAt
    <2>7. JoinFits(w)'
      BY <1>i, <1>1, <1>2 DEF ThreadFits, JoinFits, PlaceFits, TypeOK, At, Outside, ResumesAt,
         TargetsAt, FlagsAt, RunsAt
    <2> QED BY <2>1, <2>2, <2>3, <2>4, <2>5, <2>6, <2>7 DEF ThreadFits
  <1>6. RegistryIsAccurate'
    <2>1. \A w \in Threads, o \in Objects : InWait(w, o) => InWait(w, o)'
      BY <1>i, <1>1, <1>2 DEF InWait, ThreadFits, StateFits, At, Outside, ResumesAt, TargetsAt,
         FlagsAt, RunsAt
    <2> QED BY <2>1, <1>i, <1>1, RegistryKept
  <1>7. SpawnCountIsAccurate'
    BY <1>i, <1>1, <1>2, SpawnsKept DEF At, Outside, ResumesAt, TargetsAt, FlagsAt, RunsAt
  <1> QED BY <1>3, <1>4, <1>5, <1>6, <1>7 DEF EventsInv

LEMMA joinWaitingEnd_Step ==
  ASSUME EventsInv, NEW t \in Threads,
         joinWaitingEnd(t)
  PROVE  EventsInv'
  <1>i. /\ TypeOK /\ OneActive /\ RegistryIsAccurate /\ SpawnCountIsAccurate
        /\ \A w \in Threads : ThreadFits(w)
    BY DEF EventsInv
  <1>1. /\ state' = [state EXCEPT ![t] = "SUSPENDED"]
        /\ timedOut' = [timedOut EXCEPT ![t] = TRUE]
        /\ timeout' = [timeout EXCEPT ![t] = -1]
        /\ runnables' = runnables \cup {t}
        /\ awakening' = [awakening EXCEPT ![t] = FALSE]
        /\ pc' = [pc EXCEPT ![t] = "asleep"]
        /\ back' = [back EXCEPT ![t] = "user"]
        /\ peer' = [peer EXCEPT ![t] = NoThread]
        /\ UNCHANGED << obj, waitObj, parked, unparked, afterParking, cause, waiting, monitor,
                    holder, inHand, index, parents, spawning, joiner, nativeQueue, polled>>
        /\ pc[t] = "joinWait"
        /\ peer[t] \notin index
    BY <1>i DEF joinWaitingEnd, onWrappedWaitingEnd, setSuspendedAndPush, Set, Goto, Sleep,
       Event, waitVars, schedVars, spawnVars, joinVars, nativeVars
  <1>2. /\ \A w \in Threads : state'[w] = IF w = t THEN "SUSPENDED" ELSE state[w]
        /\ \A w \in Threads : timedOut'[w] = IF w = t THEN TRUE ELSE timedOut[w]
        /\ \A w \in Threads : timeout'[w] = IF w = t THEN -1 ELSE timeout[w]
        /\ \A w \in Threads : awakening'[w] = IF w = t THEN FALSE ELSE awakening[w]
        /\ \A w \in Threads : pc'[w] = IF w = t THEN "asleep" ELSE pc[w]
        /\ \A w \in Threads : back'[w] = IF w = t THEN "user" ELSE back[w]
        /\ \A w \in Threads : peer'[w] = IF w = t THEN NoThread ELSE peer[w]
    BY <1>i, <1>1, Domains
  <1>3. TypeOK'
    BY <1>i, <1>1 DEF TypeOK, Labels, States, ResumesAt
  <1>4. OneActive'
    BY <1>i, <1>1, <1>2 DEF OneActive, Active
  <1>5. ASSUME NEW w \in Threads PROVE ThreadFits(w)'
    <2>1. StateFits(w)'
      BY <1>i, <1>1, <1>2 DEF ThreadFits, StateFits, OneActive, Active, At, Outside, ResumesAt,
         TargetsAt, FlagsAt, RunsAt
    <2>2. PlaceFits(w)'
      BY <1>i, <1>1, <1>2 DEF ThreadFits, PlaceFits, At, Outside, ResumesAt, TargetsAt, FlagsAt,
         RunsAt
    <2>3. ParkFits(w)'
      BY <1>i, <1>1, <1>2 DEF ThreadFits, ParkFits, PlaceFits, At, Outside, ResumesAt,
         TargetsAt, FlagsAt, RunsAt
    <2>4. NativeFits(w)'
      BY <1>i, <1>1, <1>2 DEF ThreadFits, NativeFits, StateFits
    <2>5. TargetFits(w)'
      BY <1>i, <1>1, <1>2 DEF ThreadFits, TargetFits, isNotification, StateFits, OneActive,
         Active, At, Outside, ResumesAt, TargetsAt, FlagsAt, RunsAt
    <2>6. CauseFits(w)'
      BY <1>i, <1>1, <1>2 DEF ThreadFits, CauseFits, PlaceFits, BeingFlagged, At, Outside,
         ResumesAt, TargetsAt, FlagsAt, RunsAt
    <2>7. JoinFits(w)'
      BY <1>i, <1>1, <1>2 DEF ThreadFits, JoinFits, PlaceFits, TypeOK, At, Outside, ResumesAt,
         TargetsAt, FlagsAt, RunsAt
    <2> QED BY <2>1, <2>2, <2>3, <2>4, <2>5, <2>6, <2>7 DEF ThreadFits
  <1>6. RegistryIsAccurate'
    <2>1. \A w \in Threads, o \in Objects : InWait(w, o) => InWait(w, o)'
      BY <1>i, <1>1, <1>2 DEF InWait, ThreadFits, StateFits, At, Outside, ResumesAt, TargetsAt,
         FlagsAt, RunsAt
    <2> QED BY <2>1, <1>i, <1>1, RegistryKept
  <1>7. SpawnCountIsAccurate'
    BY <1>i, <1>1, <1>2, SpawnsKept DEF At, Outside, ResumesAt, TargetsAt, FlagsAt, RunsAt
  <1> QED BY <1>3, <1>4, <1>5, <1>6, <1>7 DEF EventsInv

LEMMA joinReturns_Step ==
  ASSUME EventsInv, NEW t \in Threads,
         joinReturns(t)
  PROVE  EventsInv'
  <1>i. /\ TypeOK /\ OneActive /\ RegistryIsAccurate /\ SpawnCountIsAccurate
        /\ \A w \in Threads : ThreadFits(w)
    BY DEF EventsInv
  <1>1. /\ pc' = [pc EXCEPT ![t] = "user"]
        /\ peer' = [peer EXCEPT ![t] = NoThread]
        /\ UNCHANGED << back, obj, state, timeout, timedOut, waitObj, parked, unparked,
                    afterParking, cause, waiting, monitor, runnables, holder, inHand, index,
                    parents, spawning, joiner, awakening, nativeQueue, polled>>
        /\ pc[t] = "joining"
        /\ state[t] = "RUNNING"
        /\ peer[t] \notin index
    BY <1>i DEF joinReturns, Set, Goto, Sleep, Event, waitVars, schedVars, spawnVars, joinVars,
       nativeVars
  <1>2. /\ \A w \in Threads : pc'[w] = IF w = t THEN "user" ELSE pc[w]
        /\ \A w \in Threads : peer'[w] = IF w = t THEN NoThread ELSE peer[w]
    BY <1>i, <1>1, Domains
  <1>3. TypeOK'
    BY <1>i, <1>1 DEF TypeOK, Labels, States, ResumesAt
  <1>4. OneActive'
    BY <1>i, <1>1, <1>2 DEF OneActive, Active
  <1>5. ASSUME NEW w \in Threads PROVE ThreadFits(w)'
    <2>1. StateFits(w)'
      BY <1>i, <1>1, <1>2 DEF ThreadFits, StateFits, OneActive, Active, At, Outside, ResumesAt,
         TargetsAt, FlagsAt, RunsAt
    <2>2. PlaceFits(w)'
      BY <1>i, <1>1, <1>2 DEF ThreadFits, PlaceFits, At, Outside, ResumesAt, TargetsAt, FlagsAt,
         RunsAt
    <2>3. ParkFits(w)'
      BY <1>i, <1>1, <1>2 DEF ThreadFits, ParkFits, PlaceFits, At, Outside, ResumesAt,
         TargetsAt, FlagsAt, RunsAt
    <2>4. NativeFits(w)'
      BY <1>i, <1>1, <1>2 DEF ThreadFits, NativeFits, StateFits
    <2>5. TargetFits(w)'
      BY <1>i, <1>1, <1>2 DEF ThreadFits, TargetFits, isNotification, StateFits, OneActive,
         Active, At, Outside, ResumesAt, TargetsAt, FlagsAt, RunsAt
    <2>6. CauseFits(w)'
      BY <1>i, <1>1, <1>2 DEF ThreadFits, CauseFits, PlaceFits, BeingFlagged, At, Outside,
         ResumesAt, TargetsAt, FlagsAt, RunsAt
    <2>7. JoinFits(w)'
      BY <1>i, <1>1, <1>2 DEF ThreadFits, JoinFits, PlaceFits, TypeOK, At, Outside, ResumesAt,
         TargetsAt, FlagsAt, RunsAt
    <2> QED BY <2>1, <2>2, <2>3, <2>4, <2>5, <2>6, <2>7 DEF ThreadFits
  <1>6. RegistryIsAccurate'
    <2>1. \A w \in Threads, o \in Objects : InWait(w, o) => InWait(w, o)'
      BY <1>i, <1>1, <1>2 DEF InWait, ThreadFits, StateFits, At, Outside, ResumesAt, TargetsAt,
         FlagsAt, RunsAt
    <2> QED BY <2>1, <1>i, <1>1, RegistryKept
  <1>7. SpawnCountIsAccurate'
    BY <1>i, <1>1, <1>2, SpawnsKept DEF At, Outside, ResumesAt, TargetsAt, FlagsAt, RunsAt
  <1> QED BY <1>3, <1>4, <1>5, <1>6, <1>7 DEF EventsInv

LEMMA onEnd_Step ==
  ASSUME EventsInv, NEW t \in Threads,
         onEnd(t)
  PROVE  EventsInv'
  <1>i. /\ TypeOK /\ OneActive /\ RegistryIsAccurate /\ SpawnCountIsAccurate
        /\ \A w \in Threads : ThreadFits(w)
    BY DEF EventsInv
  <1>1. /\ state' = [state EXCEPT ![t] = "VEX_ZOMBIE"]
        /\ awakening' = IF joiner[t] = NoThread THEN awakening ELSE [awakening EXCEPT ![joiner[t]] = TRUE]
        /\ index' = index \ {t}
        /\ nativeQueue' = nativeQueue \ {t}
        /\ pc' = [pc EXCEPT ![t] = "deleted"]
        /\ UNCHANGED << back, obj, peer, timeout, timedOut, waitObj, parked, unparked,
                    afterParking, cause, waiting, monitor, runnables, holder, inHand, parents,
                    spawning, joiner, polled>>
        /\ state[t] = "RUNNING"
        /\ pc[t] = "user"
    BY <1>i DEF onEnd, remove, notifyParentWaitingForYouToJoin, Set, Goto, Sleep, Event,
       waitVars, schedVars, spawnVars, joinVars, nativeVars
  <1>2. /\ \A w \in Threads : state'[w] = IF w = t THEN "VEX_ZOMBIE" ELSE state[w]
        /\ \A w \in Threads : pc'[w] = IF w = t THEN "deleted" ELSE pc[w]
    BY <1>i, <1>1, Domains
  <1>3. TypeOK'
    BY <1>i, <1>1 DEF TypeOK, Labels, States, ResumesAt
  <1>4. OneActive'
    BY <1>i, <1>1, <1>2 DEF OneActive, Active
  <1>5. ASSUME NEW w \in Threads PROVE ThreadFits(w)'
    <2>1. StateFits(w)'
      BY <1>i, <1>1, <1>2 DEF ThreadFits, StateFits, OneActive, Active, At, Outside, ResumesAt,
         TargetsAt, FlagsAt, RunsAt
    <2>2. PlaceFits(w)'
      BY <1>i, <1>1, <1>2 DEF ThreadFits, PlaceFits, At, Outside, ResumesAt, TargetsAt, FlagsAt,
         RunsAt
    <2>3. ParkFits(w)'
      BY <1>i, <1>1, <1>2 DEF ThreadFits, ParkFits, PlaceFits, At, Outside, ResumesAt,
         TargetsAt, FlagsAt, RunsAt
    <2>4. NativeFits(w)'
      BY <1>i, <1>1, <1>2 DEF ThreadFits, NativeFits, StateFits
    <2>5. TargetFits(w)'
      BY <1>i, <1>1, <1>2 DEF ThreadFits, TargetFits, isNotification, StateFits, OneActive,
         Active, At, Outside, ResumesAt, TargetsAt, FlagsAt, RunsAt
    <2>6. CauseFits(w)'
      BY <1>i, <1>1, <1>2 DEF ThreadFits, CauseFits, PlaceFits, BeingFlagged, At, Outside,
         ResumesAt, TargetsAt, FlagsAt, RunsAt
    <2>7. JoinFits(w)'
      BY <1>i, <1>1, <1>2 DEF ThreadFits, JoinFits, PlaceFits, TypeOK, At, Outside, ResumesAt,
         TargetsAt, FlagsAt, RunsAt
    <2> QED BY <2>1, <2>2, <2>3, <2>4, <2>5, <2>6, <2>7 DEF ThreadFits
  <1>6. RegistryIsAccurate'
    <2>1. \A w \in Threads, o \in Objects : InWait(w, o) => InWait(w, o)'
      BY <1>i, <1>1, <1>2 DEF InWait, ThreadFits, StateFits, At, Outside, ResumesAt, TargetsAt,
         FlagsAt, RunsAt
    <2> QED BY <2>1, <1>i, <1>1, RegistryKept
  <1>7. SpawnCountIsAccurate'
    BY <1>i, <1>1, <1>2, SpawnsKept DEF At, Outside, ResumesAt, TargetsAt, FlagsAt, RunsAt
  <1> QED BY <1>3, <1>4, <1>5, <1>6, <1>7 DEF EventsInv

LEMMA onStart_Ignores ==
  ASSUME EventsInv, NEW t \in Threads,
         onStart(t), t \notin Excluded, t \notin parents
  PROVE  EventsInv'
  <1>i. /\ TypeOK /\ OneActive /\ RegistryIsAccurate /\ SpawnCountIsAccurate
        /\ \A w \in Threads : ThreadFits(w)
    BY DEF EventsInv
  <1>1. /\ pc' = [pc EXCEPT ![t] = "ignored"]
        /\ UNCHANGED << back, obj, peer, state, timeout, timedOut, waitObj, parked, unparked,
                    afterParking, cause, waiting, monitor, runnables, holder, inHand, index,
                    parents, spawning, joiner, awakening, nativeQueue, polled>>
        /\ pc[t] = "unborn"
        /\ t \in Foreign
    BY <1>i DEF onStart, isThreadInExcludedThreadNamesList, hasThreadParentRegisteredThisThread,
       Set, Goto, Sleep, Event, waitVars, schedVars, spawnVars, joinVars, nativeVars
  <1>2. /\ \A w \in Threads : pc'[w] = IF w = t THEN "ignored" ELSE pc[w]
    BY <1>i, <1>1, Domains
  <1>3. TypeOK'
    BY <1>i, <1>1 DEF TypeOK, Labels, States, ResumesAt
  <1>4. OneActive'
    BY <1>i, <1>1, <1>2 DEF OneActive, Active
  <1>5. ASSUME NEW w \in Threads PROVE ThreadFits(w)'
    <2>1. StateFits(w)'
      BY <1>i, <1>1, <1>2 DEF ThreadFits, StateFits, OneActive, Active, At, Outside, ResumesAt,
         TargetsAt, FlagsAt, RunsAt
    <2>2. PlaceFits(w)'
      BY <1>i, <1>1, <1>2 DEF ThreadFits, PlaceFits, At, Outside, ResumesAt, TargetsAt, FlagsAt,
         RunsAt
    <2>3. ParkFits(w)'
      BY <1>i, <1>1, <1>2 DEF ThreadFits, ParkFits, PlaceFits, At, Outside, ResumesAt,
         TargetsAt, FlagsAt, RunsAt
    <2>4. NativeFits(w)'
      BY <1>i, <1>1, <1>2 DEF ThreadFits, NativeFits, StateFits
    <2>5. TargetFits(w)'
      BY <1>i, <1>1, <1>2 DEF ThreadFits, TargetFits, isNotification, StateFits, OneActive,
         Active, At, Outside, ResumesAt, TargetsAt, FlagsAt, RunsAt
    <2>6. CauseFits(w)'
      BY <1>i, <1>1, <1>2 DEF ThreadFits, CauseFits, PlaceFits, BeingFlagged, At, Outside,
         ResumesAt, TargetsAt, FlagsAt, RunsAt
    <2>7. JoinFits(w)'
      BY <1>i, <1>1, <1>2 DEF ThreadFits, JoinFits, PlaceFits, TypeOK, At, Outside, ResumesAt,
         TargetsAt, FlagsAt, RunsAt
    <2> QED BY <2>1, <2>2, <2>3, <2>4, <2>5, <2>6, <2>7 DEF ThreadFits
  <1>6. RegistryIsAccurate'
    <2>1. \A w \in Threads, o \in Objects : InWait(w, o) => InWait(w, o)'
      BY <1>i, <1>1, <1>2 DEF InWait, ThreadFits, StateFits, At, Outside, ResumesAt, TargetsAt,
         FlagsAt, RunsAt
    <2> QED BY <2>1, <1>i, <1>1, RegistryKept
  <1>7. SpawnCountIsAccurate'
    <2>1. {w \in parents : pc[w] = "unborn"} = {w \in parents : pc'[w] = "unborn"}
      BY <1>i, <1>1, <1>2 DEF TypeOK
    <2> QED BY <2>1, <1>i, <1>1 DEF SpawnCountIsAccurate
  <1> QED BY <1>3, <1>4, <1>5, <1>6, <1>7 DEF EventsInv

LEMMA onStart_Excluded ==
  ASSUME EventsInv, NEW t \in Threads,
         Excluded \cap Foreign = {}, onStart(t), t \in Excluded
  PROVE  EventsInv'
  <1>i. /\ TypeOK /\ OneActive /\ RegistryIsAccurate /\ SpawnCountIsAccurate
        /\ \A w \in Threads : ThreadFits(w)
    BY DEF EventsInv
  <1>1. /\ pc' = [pc EXCEPT ![t] = "ignored"]
        /\ spawning' = IF spawning > 0 THEN spawning - 1 ELSE 0
        /\ UNCHANGED << back, obj, peer, state, timeout, timedOut, waitObj, parked, unparked,
                    afterParking, cause, waiting, monitor, runnables, holder, inHand, index,
                    parents, joiner, awakening, nativeQueue, polled>>
        /\ pc[t] = "unborn"
        /\ t \in parents
    BY <1>i DEF onStart, newThreadStarted, isThreadInExcludedThreadNamesList,
       hasThreadParentRegisteredThisThread, Set, Goto, Sleep, Event, waitVars, schedVars,
       spawnVars, joinVars, nativeVars
  <1>2. /\ \A w \in Threads : pc'[w] = IF w = t THEN "ignored" ELSE pc[w]
    BY <1>i, <1>1, Domains
  <1>3. TypeOK'
    BY <1>i, <1>1, ThreadsAreCounted DEF TypeOK, Labels, States, ResumesAt
  <1>4. OneActive'
    BY <1>i, <1>1, <1>2 DEF OneActive, Active
  <1>5. ASSUME NEW w \in Threads PROVE ThreadFits(w)'
    <2>1. StateFits(w)'
      BY <1>i, <1>1, <1>2 DEF ThreadFits, StateFits, OneActive, Active, At, Outside, ResumesAt,
         TargetsAt, FlagsAt, RunsAt
    <2>2. PlaceFits(w)'
      BY <1>i, <1>1, <1>2 DEF ThreadFits, PlaceFits, At, Outside, ResumesAt, TargetsAt, FlagsAt,
         RunsAt
    <2>3. ParkFits(w)'
      BY <1>i, <1>1, <1>2 DEF ThreadFits, ParkFits, PlaceFits, At, Outside, ResumesAt,
         TargetsAt, FlagsAt, RunsAt
    <2>4. NativeFits(w)'
      BY <1>i, <1>1, <1>2 DEF ThreadFits, NativeFits, StateFits
    <2>5. TargetFits(w)'
      BY <1>i, <1>1, <1>2 DEF ThreadFits, TargetFits, isNotification, StateFits, OneActive,
         Active, At, Outside, ResumesAt, TargetsAt, FlagsAt, RunsAt
    <2>6. CauseFits(w)'
      BY <1>i, <1>1, <1>2 DEF ThreadFits, CauseFits, PlaceFits, BeingFlagged, At, Outside,
         ResumesAt, TargetsAt, FlagsAt, RunsAt
    <2>7. JoinFits(w)'
      BY <1>i, <1>1, <1>2 DEF ThreadFits, JoinFits, PlaceFits, TypeOK, At, Outside, ResumesAt,
         TargetsAt, FlagsAt, RunsAt
    <2> QED BY <2>1, <2>2, <2>3, <2>4, <2>5, <2>6, <2>7 DEF ThreadFits
  <1>6. RegistryIsAccurate'
    <2>1. \A w \in Threads, o \in Objects : InWait(w, o) => InWait(w, o)'
      BY <1>i, <1>1, <1>2 DEF InWait, ThreadFits, StateFits, At, Outside, ResumesAt, TargetsAt,
         FlagsAt, RunsAt
    <2> QED BY <2>1, <1>i, <1>1, RegistryKept
  <1>7. SpawnCountIsAccurate'
    <2>1. /\ IsFiniteSet({w \in parents : pc[w] = "unborn"})
          /\ t \in {w \in parents : pc[w] = "unborn"}
      BY <1>i, <1>1, FiniteAssumption, FS_Subset DEF TypeOK
    <2>2. {w \in parents' : pc'[w] = "unborn"} = {w \in parents : pc[w] = "unborn"} \ {t}
      BY <1>i, <1>1, <1>2 DEF TypeOK
    <2>3. /\ Cardinality({w \in parents : pc[w] = "unborn"} \ {t}) = spawning - 1
          /\ spawning \in Nat \ {0}
      BY <2>1, <1>i, OneLess DEF SpawnCountIsAccurate
    <2>4. spawning' = spawning - 1
      BY <2>3, <1>1
    <2> QED BY <2>2, <2>3, <2>4 DEF SpawnCountIsAccurate
  <1> QED BY <1>3, <1>4, <1>5, <1>6, <1>7 DEF EventsInv

LEMMA onStart_Registers ==
  ASSUME EventsInv, NEW t \in Threads,
         onStart(t), t \notin Excluded, t \in parents
  PROVE  EventsInv'
  <1>i. /\ TypeOK /\ OneActive /\ RegistryIsAccurate /\ SpawnCountIsAccurate
        /\ \A w \in Threads : ThreadFits(w)
    BY DEF EventsInv
  <1>1. /\ state' = [state EXCEPT ![t] = "SUSPENDED"]
        /\ timedOut' = [timedOut EXCEPT ![t] = TRUE]
        /\ timeout' = [timeout EXCEPT ![t] = -1]
        /\ runnables' = runnables \cup {t}
        /\ pc' = [pc EXCEPT ![t] = "asleep"]
        /\ parents' = parents \ {t}
        /\ index' = index \cup {t}
        /\ spawning' = IF spawning > 0 THEN spawning - 1 ELSE 0
        /\ UNCHANGED << back, obj, peer, waitObj, parked, unparked, afterParking, cause, waiting,
                    monitor, holder, inHand, joiner, awakening, nativeQueue, polled>>
        /\ pc[t] = "unborn"
    BY <1>i DEF onStart, add, setSuspendedAndPush, isThreadInExcludedThreadNamesList,
       hasThreadParentRegisteredThisThread, Set, Goto, Sleep, Event, waitVars, schedVars,
       spawnVars, joinVars, nativeVars
  <1>2. /\ \A w \in Threads : state'[w] = IF w = t THEN "SUSPENDED" ELSE state[w]
        /\ \A w \in Threads : timedOut'[w] = IF w = t THEN TRUE ELSE timedOut[w]
        /\ \A w \in Threads : timeout'[w] = IF w = t THEN -1 ELSE timeout[w]
        /\ \A w \in Threads : pc'[w] = IF w = t THEN "asleep" ELSE pc[w]
    BY <1>i, <1>1, Domains
  <1>3. TypeOK'
    BY <1>i, <1>1, ThreadsAreCounted DEF TypeOK, Labels, States, ResumesAt
  <1>4. OneActive'
    BY <1>i, <1>1, <1>2 DEF OneActive, Active
  <1>5. ASSUME NEW w \in Threads PROVE ThreadFits(w)'
    <2>1. StateFits(w)'
      BY <1>i, <1>1, <1>2 DEF ThreadFits, StateFits, OneActive, Active, At, Outside, ResumesAt,
         TargetsAt, FlagsAt, RunsAt
    <2>2. PlaceFits(w)'
      BY <1>i, <1>1, <1>2 DEF ThreadFits, PlaceFits, At, Outside, ResumesAt, TargetsAt, FlagsAt,
         RunsAt
    <2>3. ParkFits(w)'
      BY <1>i, <1>1, <1>2 DEF ThreadFits, ParkFits, PlaceFits, At, Outside, ResumesAt,
         TargetsAt, FlagsAt, RunsAt
    <2>4. NativeFits(w)'
      BY <1>i, <1>1, <1>2 DEF ThreadFits, NativeFits, StateFits
    <2>5. TargetFits(w)'
      BY <1>i, <1>1, <1>2 DEF ThreadFits, TargetFits, isNotification, StateFits, OneActive,
         Active, At, Outside, ResumesAt, TargetsAt, FlagsAt, RunsAt
    <2>6. CauseFits(w)'
      BY <1>i, <1>1, <1>2 DEF ThreadFits, CauseFits, PlaceFits, BeingFlagged, At, Outside,
         ResumesAt, TargetsAt, FlagsAt, RunsAt
    <2>7. JoinFits(w)'
      BY <1>i, <1>1, <1>2 DEF ThreadFits, JoinFits, PlaceFits, TypeOK, At, Outside, ResumesAt,
         TargetsAt, FlagsAt, RunsAt
    <2> QED BY <2>1, <2>2, <2>3, <2>4, <2>5, <2>6, <2>7 DEF ThreadFits
  <1>6. RegistryIsAccurate'
    <2>1. \A w \in Threads, o \in Objects : InWait(w, o) => InWait(w, o)'
      BY <1>i, <1>1, <1>2 DEF InWait, ThreadFits, StateFits, At, Outside, ResumesAt, TargetsAt,
         FlagsAt, RunsAt
    <2> QED BY <2>1, <1>i, <1>1, RegistryKept
  <1>7. SpawnCountIsAccurate'
    <2>1. /\ IsFiniteSet({w \in parents : pc[w] = "unborn"})
          /\ t \in {w \in parents : pc[w] = "unborn"}
      BY <1>i, <1>1, FiniteAssumption, FS_Subset DEF TypeOK
    <2>2. {w \in parents' : pc'[w] = "unborn"} = {w \in parents : pc[w] = "unborn"} \ {t}
      BY <1>i, <1>1, <1>2 DEF TypeOK
    <2>3. /\ Cardinality({w \in parents : pc[w] = "unborn"} \ {t}) = spawning - 1
          /\ spawning \in Nat \ {0}
      BY <2>1, <1>i, OneLess DEF SpawnCountIsAccurate
    <2>4. spawning' = spawning - 1
      BY <2>3, <1>1
    <2> QED BY <2>2, <2>3, <2>4 DEF SpawnCountIsAccurate
  <1> QED BY <1>3, <1>4, <1>5, <1>6, <1>7 DEF EventsInv

LEMMA beforeCreatingThread_Step ==
  ASSUME EventsInv, NEW t \in Threads, NEW u \in Threads,
         beforeCreatingThread(t, u)
  PROVE  EventsInv'
  <1>i. /\ TypeOK /\ OneActive /\ RegistryIsAccurate /\ SpawnCountIsAccurate
        /\ \A w \in Threads : ThreadFits(w)
    BY DEF EventsInv
  <1>1. /\ parents' = parents \cup {u}
        /\ spawning' = spawning + 1
        /\ UNCHANGED << pc, back, obj, peer, state, timeout, timedOut, waitObj, parked, unparked,
                    afterParking, cause, waiting, monitor, runnables, holder, inHand, index,
                    joiner, awakening, nativeQueue, polled>>
        /\ pc[u] = "unborn"
        /\ u \notin parents
    BY <1>i DEF beforeCreatingThread, newThreadBeingSpawned, Set, Goto, Sleep, Event, waitVars,
       schedVars, spawnVars, joinVars, nativeVars
  <1>3. TypeOK'
    <2>1. Cardinality({w \in parents : pc[w] = "unborn"} \cup {u}) <= Cardinality(Threads)
      BY <1>i, FS_Subset, FiniteAssumption DEF TypeOK
    <2>2. IsFiniteSet({w \in parents : pc[w] = "unborn"})
      BY <1>i, FiniteAssumption, FS_Subset DEF TypeOK
    <2>3. spawning + 1 <= Cardinality(Threads) /\ Cardinality(Threads) \in Nat
      BY <2>1, <2>2, <1>i, <1>1, OneMore, ThreadsAreCounted DEF SpawnCountIsAccurate
    <2> QED BY <1>i, <1>1, <2>3 DEF TypeOK
  <1>4. OneActive'
    BY <1>i, <1>1 DEF OneActive, Active
  <1>5. ASSUME NEW w \in Threads PROVE ThreadFits(w)'
    <2>1. StateFits(w)'
      BY <1>i, <1>1 DEF ThreadFits, StateFits, OneActive, Active, At, Outside, ResumesAt,
         TargetsAt, FlagsAt, RunsAt
    <2>2. PlaceFits(w)'
      BY <1>i, <1>1 DEF ThreadFits, PlaceFits, At, Outside, ResumesAt, TargetsAt, FlagsAt,
         RunsAt
    <2>3. ParkFits(w)'
      BY <1>i, <1>1 DEF ThreadFits, ParkFits, PlaceFits, At, Outside, ResumesAt, TargetsAt,
         FlagsAt, RunsAt
    <2>4. NativeFits(w)'
      BY <1>i, <1>1 DEF ThreadFits, NativeFits, StateFits
    <2>5. TargetFits(w)'
      BY <1>i, <1>1 DEF ThreadFits, TargetFits, isNotification, StateFits, OneActive, Active,
         At, Outside, ResumesAt, TargetsAt, FlagsAt, RunsAt
    <2>6. CauseFits(w)'
      BY <1>i, <1>1 DEF ThreadFits, CauseFits, PlaceFits, BeingFlagged, At, Outside, ResumesAt,
         TargetsAt, FlagsAt, RunsAt
    <2>7. JoinFits(w)'
      BY <1>i, <1>1 DEF ThreadFits, JoinFits, PlaceFits, TypeOK, At, Outside, ResumesAt,
         TargetsAt, FlagsAt, RunsAt
    <2> QED BY <2>1, <2>2, <2>3, <2>4, <2>5, <2>6, <2>7 DEF ThreadFits
  <1>6. RegistryIsAccurate'
    <2>1. \A w \in Threads, o \in Objects : InWait(w, o) => InWait(w, o)'
      BY <1>i, <1>1 DEF InWait, ThreadFits, StateFits, At, Outside, ResumesAt, TargetsAt,
         FlagsAt, RunsAt
    <2> QED BY <2>1, <1>i, <1>1, RegistryKept
  <1>7. SpawnCountIsAccurate'
    <2>1. IsFiniteSet({w \in parents : pc[w] = "unborn"})
      BY <1>i, FiniteAssumption, FS_Subset DEF TypeOK
    <2>2. {w \in parents' : pc'[w] = "unborn"} = {w \in parents : pc[w] = "unborn"} \cup {u}
      BY <1>i, <1>1 DEF TypeOK
    <2>3. Cardinality({w \in parents : pc[w] = "unborn"} \cup {u}) = spawning + 1
      BY <2>1, <1>i, <1>1, OneMore DEF SpawnCountIsAccurate
    <2> QED BY <2>2, <2>3, <1>1 DEF SpawnCountIsAccurate
  <1> QED BY <1>3, <1>4, <1>5, <1>6, <1>7 DEF EventsInv

LEMMA onJoin_Suspends ==
  ASSUME EventsInv, NEW t \in Threads, NEW u \in Threads,
         onJoin(t, u), spawning > 0
  PROVE  EventsInv'
  <1>i. /\ TypeOK /\ OneActive /\ RegistryIsAccurate /\ SpawnCountIsAccurate
        /\ \A w \in Threads : ThreadFits(w)
    BY DEF EventsInv
  <1>1. /\ state' = [state EXCEPT ![t] = "SUSPENDED"]
        /\ timedOut' = [timedOut EXCEPT ![t] = TRUE]
        /\ timeout' = [timeout EXCEPT ![t] = -1]
        /\ runnables' = runnables \cup {t}
        /\ pc' = [pc EXCEPT ![t] = "asleep"]
        /\ back' = [back EXCEPT ![t] = "user"]
        /\ UNCHANGED << obj, peer, waitObj, parked, unparked, afterParking, cause, waiting,
                    monitor, holder, inHand, index, parents, spawning, joiner, awakening,
                    nativeQueue, polled>>
        /\ state[t] = "RUNNING"
        /\ pc[t] = "user"
    BY <1>i DEF onJoin, coordinateJoiningThreads, setSuspendedAndPush, Set, Goto, Sleep, Event,
       waitVars, schedVars, spawnVars, joinVars, nativeVars
  <1>2. /\ \A w \in Threads : state'[w] = IF w = t THEN "SUSPENDED" ELSE state[w]
        /\ \A w \in Threads : timedOut'[w] = IF w = t THEN TRUE ELSE timedOut[w]
        /\ \A w \in Threads : timeout'[w] = IF w = t THEN -1 ELSE timeout[w]
        /\ \A w \in Threads : pc'[w] = IF w = t THEN "asleep" ELSE pc[w]
        /\ \A w \in Threads : back'[w] = IF w = t THEN "user" ELSE back[w]
    BY <1>i, <1>1, Domains
  <1>3. TypeOK'
    BY <1>i, <1>1 DEF TypeOK, Labels, States, ResumesAt
  <1>4. OneActive'
    BY <1>i, <1>1, <1>2 DEF OneActive, Active
  <1>5. ASSUME NEW w \in Threads PROVE ThreadFits(w)'
    <2>1. StateFits(w)'
      BY <1>i, <1>1, <1>2 DEF ThreadFits, StateFits, OneActive, Active, At, Outside, ResumesAt,
         TargetsAt, FlagsAt, RunsAt
    <2>2. PlaceFits(w)'
      BY <1>i, <1>1, <1>2 DEF ThreadFits, PlaceFits, At, Outside, ResumesAt, TargetsAt, FlagsAt,
         RunsAt
    <2>3. ParkFits(w)'
      BY <1>i, <1>1, <1>2 DEF ThreadFits, ParkFits, PlaceFits, At, Outside, ResumesAt,
         TargetsAt, FlagsAt, RunsAt
    <2>4. NativeFits(w)'
      BY <1>i, <1>1, <1>2 DEF ThreadFits, NativeFits, StateFits
    <2>5. TargetFits(w)'
      BY <1>i, <1>1, <1>2 DEF ThreadFits, TargetFits, isNotification, StateFits, OneActive,
         Active, At, Outside, ResumesAt, TargetsAt, FlagsAt, RunsAt
    <2>6. CauseFits(w)'
      BY <1>i, <1>1, <1>2 DEF ThreadFits, CauseFits, PlaceFits, BeingFlagged, At, Outside,
         ResumesAt, TargetsAt, FlagsAt, RunsAt
    <2>7. JoinFits(w)'
      BY <1>i, <1>1, <1>2 DEF ThreadFits, JoinFits, PlaceFits, TypeOK, At, Outside, ResumesAt,
         TargetsAt, FlagsAt, RunsAt
    <2> QED BY <2>1, <2>2, <2>3, <2>4, <2>5, <2>6, <2>7 DEF ThreadFits
  <1>6. RegistryIsAccurate'
    <2>1. \A w \in Threads, o \in Objects : InWait(w, o) => InWait(w, o)'
      BY <1>i, <1>1, <1>2 DEF InWait, ThreadFits, StateFits, At, Outside, ResumesAt, TargetsAt,
         FlagsAt, RunsAt
    <2> QED BY <2>1, <1>i, <1>1, RegistryKept
  <1>7. SpawnCountIsAccurate'
    BY <1>i, <1>1, <1>2, SpawnsKept DEF At, Outside, ResumesAt, TargetsAt, FlagsAt, RunsAt
  <1> QED BY <1>3, <1>4, <1>5, <1>6, <1>7 DEF EventsInv

LEMMA onJoin_Registers ==
  ASSUME EventsInv, NEW t \in Threads, NEW u \in Threads,
         onJoin(t, u), spawning = 0, u \in index, state[u] # "VEX_ZOMBIE"
  PROVE  EventsInv'
  <1>i. /\ TypeOK /\ OneActive /\ RegistryIsAccurate /\ SpawnCountIsAccurate
        /\ \A w \in Threads : ThreadFits(w)
    BY DEF EventsInv
  <1>1. /\ joiner' = [joiner EXCEPT ![u] = t]
        /\ peer' = [peer EXCEPT ![t] = u]
        /\ pc' = [pc EXCEPT ![t] = "joining"]
        /\ UNCHANGED << back, obj, state, timeout, timedOut, waitObj, parked, unparked,
                    afterParking, cause, waiting, monitor, runnables, holder, inHand, index,
                    parents, spawning, awakening, nativeQueue, polled>>
        /\ state[t] = "RUNNING"
        /\ pc[t] = "user"
        /\ u # t
    BY <1>i DEF onJoin, coordinateJoiningThreads, setSuspendedAndPush, Set, Goto, Sleep, Event,
       waitVars, schedVars, spawnVars, joinVars, nativeVars
  <1>2. /\ \A w \in Threads : joiner'[w] = IF w = u THEN t ELSE joiner[w]
        /\ \A w \in Threads : peer'[w] = IF w = t THEN u ELSE peer[w]
        /\ \A w \in Threads : pc'[w] = IF w = t THEN "joining" ELSE pc[w]
    BY <1>i, <1>1, Domains
  <1>3. TypeOK'
    BY <1>i, <1>1 DEF TypeOK, Labels, States, ResumesAt
  <1>4. OneActive'
    BY <1>i, <1>1, <1>2 DEF OneActive, Active
  <1>5. ASSUME NEW w \in Threads PROVE ThreadFits(w)'
    <2>1. StateFits(w)'
      BY <1>i, <1>1, <1>2 DEF ThreadFits, StateFits, OneActive, Active, At, Outside, ResumesAt,
         TargetsAt, FlagsAt, RunsAt
    <2>2. PlaceFits(w)'
      BY <1>i, <1>1, <1>2 DEF ThreadFits, PlaceFits, At, Outside, ResumesAt, TargetsAt, FlagsAt,
         RunsAt
    <2>3. ParkFits(w)'
      BY <1>i, <1>1, <1>2 DEF ThreadFits, ParkFits, PlaceFits, At, Outside, ResumesAt,
         TargetsAt, FlagsAt, RunsAt
    <2>4. NativeFits(w)'
      BY <1>i, <1>1, <1>2 DEF ThreadFits, NativeFits, StateFits
    <2>5. TargetFits(w)'
      BY <1>i, <1>1, <1>2 DEF ThreadFits, TargetFits, isNotification, StateFits, OneActive,
         Active, At, Outside, ResumesAt, TargetsAt, FlagsAt, RunsAt
    <2>6. CauseFits(w)'
      BY <1>i, <1>1, <1>2 DEF ThreadFits, CauseFits, PlaceFits, BeingFlagged, At, Outside,
         ResumesAt, TargetsAt, FlagsAt, RunsAt
    <2>7. JoinFits(w)'
      BY <1>i, <1>1, <1>2 DEF ThreadFits, JoinFits, PlaceFits, TypeOK, At, Outside, ResumesAt,
         TargetsAt, FlagsAt, RunsAt
    <2> QED BY <2>1, <2>2, <2>3, <2>4, <2>5, <2>6, <2>7 DEF ThreadFits
  <1>6. RegistryIsAccurate'
    <2>1. \A w \in Threads, o \in Objects : InWait(w, o) => InWait(w, o)'
      BY <1>i, <1>1, <1>2 DEF InWait, ThreadFits, StateFits, At, Outside, ResumesAt, TargetsAt,
         FlagsAt, RunsAt
    <2> QED BY <2>1, <1>i, <1>1, RegistryKept
  <1>7. SpawnCountIsAccurate'
    BY <1>i, <1>1, <1>2, SpawnsKept DEF At, Outside, ResumesAt, TargetsAt, FlagsAt, RunsAt
  <1> QED BY <1>3, <1>4, <1>5, <1>6, <1>7 DEF EventsInv

LEMMA onJoin_Ended ==
  ASSUME EventsInv, NEW t \in Threads, NEW u \in Threads,
         onJoin(t, u), spawning = 0, u \notin index \/ state[u] = "VEX_ZOMBIE"
  PROVE  EventsInv'
  <1>i. /\ TypeOK /\ OneActive /\ RegistryIsAccurate /\ SpawnCountIsAccurate
        /\ \A w \in Threads : ThreadFits(w)
    BY DEF EventsInv
  <1>1. /\ awakening' = [awakening EXCEPT ![t] = TRUE]
        /\ peer' = [peer EXCEPT ![t] = u]
        /\ pc' = [pc EXCEPT ![t] = "joining"]
        /\ UNCHANGED << back, obj, state, timeout, timedOut, waitObj, parked, unparked,
                    afterParking, cause, waiting, monitor, runnables, holder, inHand, index,
                    parents, spawning, joiner, nativeQueue, polled>>
        /\ state[t] = "RUNNING"
        /\ pc[t] = "user"
        /\ u # t
    BY <1>i DEF onJoin, coordinateJoiningThreads, setSuspendedAndPush, Set, Goto, Sleep, Event,
       waitVars, schedVars, spawnVars, joinVars, nativeVars
  <1>2. /\ \A w \in Threads : awakening'[w] = IF w = t THEN TRUE ELSE awakening[w]
        /\ \A w \in Threads : peer'[w] = IF w = t THEN u ELSE peer[w]
        /\ \A w \in Threads : pc'[w] = IF w = t THEN "joining" ELSE pc[w]
    BY <1>i, <1>1, Domains
  <1>3. TypeOK'
    BY <1>i, <1>1 DEF TypeOK, Labels, States, ResumesAt
  <1>4. OneActive'
    BY <1>i, <1>1, <1>2 DEF OneActive, Active
  <1>5. ASSUME NEW w \in Threads PROVE ThreadFits(w)'
    <2>1. StateFits(w)'
      BY <1>i, <1>1, <1>2 DEF ThreadFits, StateFits, OneActive, Active, At, Outside, ResumesAt,
         TargetsAt, FlagsAt, RunsAt
    <2>2. PlaceFits(w)'
      BY <1>i, <1>1, <1>2 DEF ThreadFits, PlaceFits, At, Outside, ResumesAt, TargetsAt, FlagsAt,
         RunsAt
    <2>3. ParkFits(w)'
      BY <1>i, <1>1, <1>2 DEF ThreadFits, ParkFits, PlaceFits, At, Outside, ResumesAt,
         TargetsAt, FlagsAt, RunsAt
    <2>4. NativeFits(w)'
      BY <1>i, <1>1, <1>2 DEF ThreadFits, NativeFits, StateFits
    <2>5. TargetFits(w)'
      BY <1>i, <1>1, <1>2 DEF ThreadFits, TargetFits, isNotification, StateFits, OneActive,
         Active, At, Outside, ResumesAt, TargetsAt, FlagsAt, RunsAt
    <2>6. CauseFits(w)'
      BY <1>i, <1>1, <1>2 DEF ThreadFits, CauseFits, PlaceFits, BeingFlagged, At, Outside,
         ResumesAt, TargetsAt, FlagsAt, RunsAt
    <2>7. JoinFits(w)'
      BY <1>i, <1>1, <1>2 DEF ThreadFits, JoinFits, PlaceFits, TypeOK, At, Outside, ResumesAt,
         TargetsAt, FlagsAt, RunsAt
    <2> QED BY <2>1, <2>2, <2>3, <2>4, <2>5, <2>6, <2>7 DEF ThreadFits
  <1>6. RegistryIsAccurate'
    <2>1. \A w \in Threads, o \in Objects : InWait(w, o) => InWait(w, o)'
      BY <1>i, <1>1, <1>2 DEF InWait, ThreadFits, StateFits, At, Outside, ResumesAt, TargetsAt,
         FlagsAt, RunsAt
    <2> QED BY <2>1, <1>i, <1>1, RegistryKept
  <1>7. SpawnCountIsAccurate'
    BY <1>i, <1>1, <1>2, SpawnsKept DEF At, Outside, ResumesAt, TargetsAt, FlagsAt, RunsAt
  <1> QED BY <1>3, <1>4, <1>5, <1>6, <1>7 DEF EventsInv

LEMMA beforeReleasingLock_Step ==
  ASSUME EventsInv, NEW t \in Threads, NEW o \in Objects, NEW kind,
         beforeReleasingLockOfAnyReplacedWaiting(t, o, kind)
  PROVE  EventsInv'
  <1>i. /\ TypeOK /\ OneActive /\ RegistryIsAccurate /\ SpawnCountIsAccurate
        /\ \A w \in Threads : ThreadFits(w)
    BY DEF EventsInv
  <1>1. /\ monitor' = [monitor EXCEPT ![o] = t]
        /\ waiting' = [waiting EXCEPT ![o] = Append(waiting[o], t)]
        /\ obj' = [obj EXCEPT ![t] = o]
        /\ pc' = [pc EXCEPT ![t] = IF kind = "wait" THEN "listed" ELSE "listedTimed"]
        /\ UNCHANGED << back, peer, state, timeout, timedOut, waitObj, parked, unparked,
                    afterParking, cause, runnables, holder, inHand, index, parents, spawning,
                    joiner, awakening, nativeQueue, polled>>
        /\ state[t] = "RUNNING"
        /\ pc[t] = "user"
    BY <1>i DEF beforeReleasingLockOfAnyReplacedWaiting, insert, Set, Goto, Sleep, Event,
       waitVars, schedVars, spawnVars, joinVars, nativeVars
  <1>2. /\ \A w \in Threads : monitor'[w] = IF w = o THEN t ELSE monitor[w]
        /\ \A w \in Threads : obj'[w] = IF w = t THEN o ELSE obj[w]
        /\ \A w \in Threads : pc'[w] = IF w = t THEN IF kind = "wait" THEN "listed" ELSE "listedTimed" ELSE pc[w]
    BY <1>i, <1>1, Domains
  <1>3. TypeOK'
    BY <1>i, <1>1 DEF TypeOK, Labels, States, ResumesAt
  <1>4. OneActive'
    BY <1>i, <1>1, <1>2 DEF OneActive, Active
  <1>5. ASSUME NEW w \in Threads PROVE ThreadFits(w)'
    <2>1. StateFits(w)'
      BY <1>i, <1>1, <1>2 DEF ThreadFits, StateFits, OneActive, Active, At, Outside, ResumesAt,
         TargetsAt, FlagsAt, RunsAt
    <2>2. PlaceFits(w)'
      BY <1>i, <1>1, <1>2 DEF ThreadFits, PlaceFits, At, Outside, ResumesAt, TargetsAt, FlagsAt,
         RunsAt
    <2>3. ParkFits(w)'
      BY <1>i, <1>1, <1>2 DEF ThreadFits, ParkFits, PlaceFits, At, Outside, ResumesAt,
         TargetsAt, FlagsAt, RunsAt
    <2>4. NativeFits(w)'
      BY <1>i, <1>1, <1>2 DEF ThreadFits, NativeFits, StateFits
    <2>5. TargetFits(w)'
      BY <1>i, <1>1, <1>2 DEF ThreadFits, TargetFits, isNotification, StateFits, OneActive,
         Active, At, Outside, ResumesAt, TargetsAt, FlagsAt, RunsAt
    <2>6. CauseFits(w)'
      BY <1>i, <1>1, <1>2 DEF ThreadFits, CauseFits, PlaceFits, BeingFlagged, At, Outside,
         ResumesAt, TargetsAt, FlagsAt, RunsAt
    <2>7. JoinFits(w)'
      BY <1>i, <1>1, <1>2 DEF ThreadFits, JoinFits, PlaceFits, TypeOK, At, Outside, ResumesAt,
         TargetsAt, FlagsAt, RunsAt
    <2> QED BY <2>1, <2>2, <2>3, <2>4, <2>5, <2>6, <2>7 DEF ThreadFits
  <1>6. RegistryIsAccurate'
    <2>1. \A w \in Threads, p \in Objects : InWait(w, p) => w # t /\ InWait(w, p)'
      BY <1>i, <1>1, <1>2 DEF InWait
    <2>2. \A i \in DOMAIN waiting[o] : waiting[o][i] # t
      BY <2>1, <1>i DEF RegistryIsAccurate, TypeOK
    <2>3. InWait(t, o)'
      BY <1>i, <1>1, <1>2 DEF InWait
    <2>4. ASSUME NEW p \in Objects, p # o
          PROVE  /\ \A i \in DOMAIN waiting'[p] : InWait(waiting[p][i], p)'
                 /\ IsInjective(waiting'[p])
      BY <2>1, <2>4, <1>i, <1>1 DEF RegistryIsAccurate, TypeOK
    <2>5. /\ waiting'[o] \in Seq(Threads) /\ DOMAIN waiting'[o] = 1 .. Len(waiting[o]) + 1
          /\ \A i \in 1 .. Len(waiting[o]) : waiting'[o][i] = waiting[o][i]
          /\ waiting'[o][Len(waiting[o]) + 1] = t
          /\ DOMAIN waiting[o] = 1 .. Len(waiting[o]) /\ Len(waiting[o]) \in Nat
      BY <1>i, <1>1 DEF TypeOK
    <2>6. \A i \in DOMAIN waiting'[o] : InWait(waiting[o][i], o)'
      <3>1. ASSUME NEW i \in 1 .. Len(waiting[o]) PROVE InWait(waiting[o][i], o)'
        BY <2>1, <2>5, <1>i DEF RegistryIsAccurate, TypeOK
      <3>2. \A i \in 1 .. Len(waiting[o]) + 1 : i \in 1 .. Len(waiting[o]) \/ i = Len(waiting[o]) + 1
        BY <2>5
      <3> QED BY <2>3, <2>5, <3>1, <3>2
    <2>7. \A i, j \in 1 .. Len(waiting[o]) : waiting[o][i] = waiting[o][j] => i = j
      BY <2>5, <1>i DEF RegistryIsAccurate, IsInjective
    <2>8. ASSUME NEW i \in 1 .. Len(waiting[o]) + 1, NEW j \in 1 .. Len(waiting[o]) + 1,
                 waiting'[o][i] = waiting'[o][j]
          PROVE  i = j
      <3>a. \A k \in 1 .. Len(waiting[o]) : waiting'[o][k] # t
        BY <2>2, <2>5
      <3>b. \A k \in 1 .. Len(waiting[o]) + 1 : k \in 1 .. Len(waiting[o]) \/ k = Len(waiting[o]) + 1
        BY <2>5
      <3>1. CASE i = Len(waiting[o]) + 1 /\ j = Len(waiting[o]) + 1
        BY <3>1
      <3>2. CASE i = Len(waiting[o]) + 1 /\ j \in 1 .. Len(waiting[o])
        BY <2>5, <2>8, <3>a, <3>2
      <3>3. CASE j = Len(waiting[o]) + 1 /\ i \in 1 .. Len(waiting[o])
        BY <2>5, <2>8, <3>a, <3>3
      <3>4. CASE i \in 1 .. Len(waiting[o]) /\ j \in 1 .. Len(waiting[o])
        BY <2>5, <2>7, <2>8, <3>4
      <3> QED BY <3>b, <3>1, <3>2, <3>3, <3>4
    <2>9. IsInjective(waiting'[o])
      BY <2>5, <2>8 DEF IsInjective
    <2> QED BY <2>4, <2>6, <2>9 DEF RegistryIsAccurate
  <1>7. SpawnCountIsAccurate'
    BY <1>i, <1>1, <1>2, SpawnsKept DEF At, Outside, ResumesAt, TargetsAt, FlagsAt, RunsAt
  <1> QED BY <1>3, <1>4, <1>5, <1>6, <1>7 DEF EventsInv

LEMMA MonitorExit_Step ==
  ASSUME EventsInv, NEW t \in Threads,
         MonitorExit(t)
  PROVE  EventsInv'
  <1>i. /\ TypeOK /\ OneActive /\ RegistryIsAccurate /\ SpawnCountIsAccurate
        /\ \A w \in Threads : ThreadFits(w)
    BY DEF EventsInv
  <1>1. /\ monitor' = [monitor EXCEPT ![obj[t]] = NoThread]
        /\ UNCHANGED << pc, back, obj, peer, state, timeout, timedOut, waitObj, parked, unparked,
                    afterParking, cause, waiting, runnables, holder, inHand, index, parents,
                    spawning, joiner, awakening, nativeQueue, polled>>
    BY <1>i DEF MonitorExit, Set, Goto, Sleep, Event, waitVars, schedVars, spawnVars, joinVars,
       nativeVars
  <1>3. TypeOK'
    BY <1>i, <1>1 DEF TypeOK, Labels, States, ResumesAt
  <1>4. OneActive'
    BY <1>i, <1>1 DEF OneActive, Active
  <1>5. ASSUME NEW w \in Threads PROVE ThreadFits(w)'
    <2>1. StateFits(w)'
      BY <1>i, <1>1 DEF ThreadFits, StateFits, OneActive, Active, At, Outside, ResumesAt,
         TargetsAt, FlagsAt, RunsAt
    <2>2. PlaceFits(w)'
      BY <1>i, <1>1 DEF ThreadFits, PlaceFits, At, Outside, ResumesAt, TargetsAt, FlagsAt,
         RunsAt
    <2>3. ParkFits(w)'
      BY <1>i, <1>1 DEF ThreadFits, ParkFits, PlaceFits, At, Outside, ResumesAt, TargetsAt,
         FlagsAt, RunsAt
    <2>4. NativeFits(w)'
      BY <1>i, <1>1 DEF ThreadFits, NativeFits, StateFits
    <2>5. TargetFits(w)'
      BY <1>i, <1>1 DEF ThreadFits, TargetFits, isNotification, StateFits, OneActive, Active,
         At, Outside, ResumesAt, TargetsAt, FlagsAt, RunsAt
    <2>6. CauseFits(w)'
      BY <1>i, <1>1 DEF ThreadFits, CauseFits, PlaceFits, BeingFlagged, At, Outside, ResumesAt,
         TargetsAt, FlagsAt, RunsAt
    <2>7. JoinFits(w)'
      BY <1>i, <1>1 DEF ThreadFits, JoinFits, PlaceFits, TypeOK, At, Outside, ResumesAt,
         TargetsAt, FlagsAt, RunsAt
    <2> QED BY <2>1, <2>2, <2>3, <2>4, <2>5, <2>6, <2>7 DEF ThreadFits
  <1>6. RegistryIsAccurate'
    <2>1. \A w \in Threads, o \in Objects : InWait(w, o) => InWait(w, o)'
      BY <1>i, <1>1 DEF InWait, ThreadFits, StateFits, At, Outside, ResumesAt, TargetsAt,
         FlagsAt, RunsAt
    <2> QED BY <2>1, <1>i, <1>1, RegistryKept
  <1>7. SpawnCountIsAccurate'
    BY <1>i, <1>1, SpawnsKept DEF At, Outside, ResumesAt, TargetsAt, FlagsAt, RunsAt
  <1> QED BY <1>3, <1>4, <1>5, <1>6, <1>7 DEF EventsInv

LEMMA onReplacedTimedWaiting_Step ==
  ASSUME EventsInv, NEW t \in Threads,
         onReplacedTimedWaiting(t)
  PROVE  EventsInv'
  <1>i. /\ TypeOK /\ OneActive /\ RegistryIsAccurate /\ SpawnCountIsAccurate
        /\ \A w \in Threads : ThreadFits(w)
    BY DEF EventsInv
  <1>1. /\ state' = [state EXCEPT ![t] = "WAITING"]
        /\ timedOut' = [timedOut EXCEPT ![t] = TRUE]
        /\ afterParking' = [afterParking EXCEPT ![t] = FALSE]
        /\ timeout' = [timeout EXCEPT ![t] = 1]
        /\ runnables' = runnables \cup {t}
        /\ cause' = [cause EXCEPT ![t] = "none"]
        /\ pc' = [pc EXCEPT ![t] = "asleep"]
        /\ back' = [back EXCEPT ![t] = "reenter"]
        /\ waitObj' = IF obj[t] = 0 THEN waitObj ELSE [waitObj EXCEPT ![t] = obj[t]]
        /\ UNCHANGED << obj, peer, parked, unparked, waiting, monitor, holder, inHand, index,
                    parents, spawning, joiner, awakening, nativeQueue, polled>>
        /\ state[t] = "RUNNING"
        /\ pc[t] = "listedTimed"
    BY <1>i DEF onReplacedTimedWaiting, setWaitingObjectId, BlocksFor, setTimedWaiting,
       setWaiting, Set, Goto, Sleep, Event, waitVars, schedVars, spawnVars, joinVars, nativeVars
  <1>2. /\ \A w \in Threads : state'[w] = IF w = t THEN "WAITING" ELSE state[w]
        /\ \A w \in Threads : timedOut'[w] = IF w = t THEN TRUE ELSE timedOut[w]
        /\ \A w \in Threads : afterParking'[w] = IF w = t THEN FALSE ELSE afterParking[w]
        /\ \A w \in Threads : timeout'[w] = IF w = t THEN 1 ELSE timeout[w]
        /\ \A w \in Threads : cause'[w] = IF w = t THEN "none" ELSE cause[w]
        /\ \A w \in Threads : pc'[w] = IF w = t THEN "asleep" ELSE pc[w]
        /\ \A w \in Threads : back'[w] = IF w = t THEN "reenter" ELSE back[w]
    BY <1>i, <1>1, Domains
  <1>3. TypeOK'
    BY <1>i, <1>1 DEF TypeOK, Labels, States, ResumesAt
  <1>4. OneActive'
    BY <1>i, <1>1, <1>2 DEF OneActive, Active
  <1>5. ASSUME NEW w \in Threads PROVE ThreadFits(w)'
    <2>1. StateFits(w)'
      BY <1>i, <1>1, <1>2 DEF ThreadFits, StateFits, OneActive, Active, At, Outside, ResumesAt,
         TargetsAt, FlagsAt, RunsAt
    <2>2. PlaceFits(w)'
      BY <1>i, <1>1, <1>2 DEF ThreadFits, PlaceFits, At, Outside, ResumesAt, TargetsAt, FlagsAt,
         RunsAt
    <2>3. ParkFits(w)'
      BY <1>i, <1>1, <1>2 DEF ThreadFits, ParkFits, PlaceFits, At, Outside, ResumesAt,
         TargetsAt, FlagsAt, RunsAt
    <2>4. NativeFits(w)'
      BY <1>i, <1>1, <1>2 DEF ThreadFits, NativeFits, StateFits
    <2>5. TargetFits(w)'
      BY <1>i, <1>1, <1>2 DEF ThreadFits, TargetFits, isNotification, StateFits, OneActive,
         Active, At, Outside, ResumesAt, TargetsAt, FlagsAt, RunsAt
    <2>6. CauseFits(w)'
      BY <1>i, <1>1, <1>2 DEF ThreadFits, CauseFits, PlaceFits, BeingFlagged, At, Outside,
         ResumesAt, TargetsAt, FlagsAt, RunsAt
    <2>7. JoinFits(w)'
      BY <1>i, <1>1, <1>2 DEF ThreadFits, JoinFits, PlaceFits, TypeOK, At, Outside, ResumesAt,
         TargetsAt, FlagsAt, RunsAt
    <2> QED BY <2>1, <2>2, <2>3, <2>4, <2>5, <2>6, <2>7 DEF ThreadFits
  <1>6. RegistryIsAccurate'
    <2>1. \A w \in Threads, o \in Objects : InWait(w, o) => InWait(w, o)'
      BY <1>i, <1>1, <1>2, ObjectsAssumption, Domains DEF InWait, ThreadFits, StateFits, At,
         Outside, ResumesAt, TargetsAt, FlagsAt, RunsAt
    <2> QED BY <2>1, <1>i, <1>1, RegistryKept
  <1>7. SpawnCountIsAccurate'
    BY <1>i, <1>1, <1>2, SpawnsKept DEF At, Outside, ResumesAt, TargetsAt, FlagsAt, RunsAt
  <1> QED BY <1>3, <1>4, <1>5, <1>6, <1>7 DEF EventsInv

LEMMA onSleep_Step ==
  ASSUME EventsInv, NEW t \in Threads,
         onSleep(t)
  PROVE  EventsInv'
  <1>i. /\ TypeOK /\ OneActive /\ RegistryIsAccurate /\ SpawnCountIsAccurate
        /\ \A w \in Threads : ThreadFits(w)
    BY DEF EventsInv
  <1>1. /\ state' = [state EXCEPT ![t] = "WAITING"]
        /\ timedOut' = [timedOut EXCEPT ![t] = TRUE]
        /\ afterParking' = [afterParking EXCEPT ![t] = FALSE]
        /\ timeout' = [timeout EXCEPT ![t] = 1]
        /\ runnables' = runnables \cup {t}
        /\ cause' = [cause EXCEPT ![t] = "none"]
        /\ pc' = [pc EXCEPT ![t] = "asleep"]
        /\ back' = [back EXCEPT ![t] = "user"]
        /\ waitObj' = waitObj
        /\ UNCHANGED << obj, peer, parked, unparked, waiting, monitor, holder, inHand, index,
                    parents, spawning, joiner, awakening, nativeQueue, polled>>
        /\ state[t] = "RUNNING"
        /\ pc[t] = "user"
    BY <1>i DEF onSleep, setWaitingObjectId, BlocksFor, setTimedWaiting, setWaiting, Set, Goto,
       Sleep, Event, waitVars, schedVars, spawnVars, joinVars, nativeVars
  <1>2. /\ \A w \in Threads : state'[w] = IF w = t THEN "WAITING" ELSE state[w]
        /\ \A w \in Threads : timedOut'[w] = IF w = t THEN TRUE ELSE timedOut[w]
        /\ \A w \in Threads : afterParking'[w] = IF w = t THEN FALSE ELSE afterParking[w]
        /\ \A w \in Threads : timeout'[w] = IF w = t THEN 1 ELSE timeout[w]
        /\ \A w \in Threads : cause'[w] = IF w = t THEN "none" ELSE cause[w]
        /\ \A w \in Threads : pc'[w] = IF w = t THEN "asleep" ELSE pc[w]
        /\ \A w \in Threads : back'[w] = IF w = t THEN "user" ELSE back[w]
    BY <1>i, <1>1, Domains
  <1>3. TypeOK'
    BY <1>i, <1>1 DEF TypeOK, Labels, States, ResumesAt
  <1>4. OneActive'
    BY <1>i, <1>1, <1>2 DEF OneActive, Active
  <1>5. ASSUME NEW w \in Threads PROVE ThreadFits(w)'
    <2>1. StateFits(w)'
      BY <1>i, <1>1, <1>2 DEF ThreadFits, StateFits, OneActive, Active, At, Outside, ResumesAt,
         TargetsAt, FlagsAt, RunsAt
    <2>2. PlaceFits(w)'
      BY <1>i, <1>1, <1>2 DEF ThreadFits, PlaceFits, At, Outside, ResumesAt, TargetsAt, FlagsAt,
         RunsAt
    <2>3. ParkFits(w)'
      BY <1>i, <1>1, <1>2 DEF ThreadFits, ParkFits, PlaceFits, At, Outside, ResumesAt,
         TargetsAt, FlagsAt, RunsAt
    <2>4. NativeFits(w)'
      BY <1>i, <1>1, <1>2 DEF ThreadFits, NativeFits, StateFits
    <2>5. TargetFits(w)'
      BY <1>i, <1>1, <1>2 DEF ThreadFits, TargetFits, isNotification, StateFits, OneActive,
         Active, At, Outside, ResumesAt, TargetsAt, FlagsAt, RunsAt
    <2>6. CauseFits(w)'
      BY <1>i, <1>1, <1>2 DEF ThreadFits, CauseFits, PlaceFits, BeingFlagged, At, Outside,
         ResumesAt, TargetsAt, FlagsAt, RunsAt
    <2>7. JoinFits(w)'
      BY <1>i, <1>1, <1>2 DEF ThreadFits, JoinFits, PlaceFits, TypeOK, At, Outside, ResumesAt,
         TargetsAt, FlagsAt, RunsAt
    <2> QED BY <2>1, <2>2, <2>3, <2>4, <2>5, <2>6, <2>7 DEF ThreadFits
  <1>6. RegistryIsAccurate'
    <2>1. \A w \in Threads, o \in Objects : InWait(w, o) => InWait(w, o)'
      BY <1>i, <1>1, <1>2, ObjectsAssumption, Domains DEF InWait, ThreadFits, StateFits, At,
         Outside, ResumesAt, TargetsAt, FlagsAt, RunsAt
    <2> QED BY <2>1, <1>i, <1>1, RegistryKept
  <1>7. SpawnCountIsAccurate'
    BY <1>i, <1>1, <1>2, SpawnsKept DEF At, Outside, ResumesAt, TargetsAt, FlagsAt, RunsAt
  <1> QED BY <1>3, <1>4, <1>5, <1>6, <1>7 DEF EventsInv

LEMMA onReplacedWaiting_Step ==
  ASSUME EventsInv, NEW t \in Threads,
         onReplacedWaiting(t)
  PROVE  EventsInv'
  <1>i. /\ TypeOK /\ OneActive /\ RegistryIsAccurate /\ SpawnCountIsAccurate
        /\ \A w \in Threads : ThreadFits(w)
    BY DEF EventsInv
  <1>1. /\ state' = [state EXCEPT ![t] = "WAITING"]
        /\ timedOut' = [timedOut EXCEPT ![t] = TRUE]
        /\ afterParking' = [afterParking EXCEPT ![t] = FALSE]
        /\ timeout' = [timeout EXCEPT ![t] = -2]
        /\ cause' = [cause EXCEPT ![t] = "none"]
        /\ pc' = [pc EXCEPT ![t] = "asleep"]
        /\ back' = [back EXCEPT ![t] = "reenter"]
        /\ waitObj' = IF obj[t] = 0 THEN waitObj ELSE [waitObj EXCEPT ![t] = obj[t]]
        /\ UNCHANGED << obj, peer, parked, unparked, waiting, monitor, runnables, holder, inHand,
                    index, parents, spawning, joiner, awakening, nativeQueue, polled>>
        /\ state[t] = "RUNNING"
        /\ pc[t] = "listed"
    BY <1>i DEF onReplacedWaiting, setWaitingObjectId, setWaiting, Set, Goto, Sleep, Event,
       waitVars, schedVars, spawnVars, joinVars, nativeVars
  <1>2. /\ \A w \in Threads : state'[w] = IF w = t THEN "WAITING" ELSE state[w]
        /\ \A w \in Threads : timedOut'[w] = IF w = t THEN TRUE ELSE timedOut[w]
        /\ \A w \in Threads : afterParking'[w] = IF w = t THEN FALSE ELSE afterParking[w]
        /\ \A w \in Threads : timeout'[w] = IF w = t THEN -2 ELSE timeout[w]
        /\ \A w \in Threads : cause'[w] = IF w = t THEN "none" ELSE cause[w]
        /\ \A w \in Threads : pc'[w] = IF w = t THEN "asleep" ELSE pc[w]
        /\ \A w \in Threads : back'[w] = IF w = t THEN "reenter" ELSE back[w]
    BY <1>i, <1>1, Domains
  <1>3. TypeOK'
    BY <1>i, <1>1 DEF TypeOK, Labels, States, ResumesAt
  <1>4. OneActive'
    BY <1>i, <1>1, <1>2 DEF OneActive, Active
  <1>5. ASSUME NEW w \in Threads PROVE ThreadFits(w)'
    <2>1. StateFits(w)'
      BY <1>i, <1>1, <1>2 DEF ThreadFits, StateFits, OneActive, Active, At, Outside, ResumesAt,
         TargetsAt, FlagsAt, RunsAt
    <2>2. PlaceFits(w)'
      BY <1>i, <1>1, <1>2 DEF ThreadFits, PlaceFits, At, Outside, ResumesAt, TargetsAt, FlagsAt,
         RunsAt
    <2>3. ParkFits(w)'
      BY <1>i, <1>1, <1>2 DEF ThreadFits, ParkFits, PlaceFits, At, Outside, ResumesAt,
         TargetsAt, FlagsAt, RunsAt
    <2>4. NativeFits(w)'
      BY <1>i, <1>1, <1>2 DEF ThreadFits, NativeFits, StateFits
    <2>5. TargetFits(w)'
      BY <1>i, <1>1, <1>2 DEF ThreadFits, TargetFits, isNotification, StateFits, OneActive,
         Active, At, Outside, ResumesAt, TargetsAt, FlagsAt, RunsAt
    <2>6. CauseFits(w)'
      BY <1>i, <1>1, <1>2 DEF ThreadFits, CauseFits, PlaceFits, BeingFlagged, At, Outside,
         ResumesAt, TargetsAt, FlagsAt, RunsAt
    <2>7. JoinFits(w)'
      BY <1>i, <1>1, <1>2 DEF ThreadFits, JoinFits, PlaceFits, TypeOK, At, Outside, ResumesAt,
         TargetsAt, FlagsAt, RunsAt
    <2> QED BY <2>1, <2>2, <2>3, <2>4, <2>5, <2>6, <2>7 DEF ThreadFits
  <1>6. RegistryIsAccurate'
    <2>1. \A w \in Threads, o \in Objects : InWait(w, o) => InWait(w, o)'
      BY <1>i, <1>1, <1>2, ObjectsAssumption, Domains DEF InWait, ThreadFits, StateFits, At,
         Outside, ResumesAt, TargetsAt, FlagsAt, RunsAt
    <2> QED BY <2>1, <1>i, <1>1, RegistryKept
  <1>7. SpawnCountIsAccurate'
    BY <1>i, <1>1, <1>2, SpawnsKept DEF At, Outside, ResumesAt, TargetsAt, FlagsAt, RunsAt
  <1> QED BY <1>3, <1>4, <1>5, <1>6, <1>7 DEF EventsInv

LEMMA MonitorEnter_Step ==
  ASSUME EventsInv, NEW t \in Threads,
         MonitorEnter(t)
  PROVE  EventsInv'
  <1>i. /\ TypeOK /\ OneActive /\ RegistryIsAccurate /\ SpawnCountIsAccurate
        /\ \A w \in Threads : ThreadFits(w)
    BY DEF EventsInv
  <1>1. /\ pc' = [pc EXCEPT ![t] = "user"]
        /\ cause' = [cause EXCEPT ![t] = "none"]
        /\ obj' = [obj EXCEPT ![t] = 0]
        /\ UNCHANGED << back, peer, state, timeout, timedOut, waitObj, parked, unparked,
                    afterParking, waiting, monitor, runnables, holder, inHand, index, parents,
                    spawning, joiner, awakening, nativeQueue, polled>>
        /\ pc[t] = "reenter"
        /\ state[t] = "RUNNING"
    BY <1>i DEF MonitorEnter, Set, Goto, Sleep, Event, waitVars, schedVars, spawnVars, joinVars,
       nativeVars
  <1>2. /\ \A w \in Threads : pc'[w] = IF w = t THEN "user" ELSE pc[w]
        /\ \A w \in Threads : cause'[w] = IF w = t THEN "none" ELSE cause[w]
        /\ \A w \in Threads : obj'[w] = IF w = t THEN 0 ELSE obj[w]
    BY <1>i, <1>1, Domains
  <1>3. TypeOK'
    BY <1>i, <1>1 DEF TypeOK, Labels, States, ResumesAt
  <1>4. OneActive'
    BY <1>i, <1>1, <1>2 DEF OneActive, Active
  <1>5. ASSUME NEW w \in Threads PROVE ThreadFits(w)'
    <2>1. StateFits(w)'
      BY <1>i, <1>1, <1>2 DEF ThreadFits, StateFits, OneActive, Active, At, Outside, ResumesAt,
         TargetsAt, FlagsAt, RunsAt
    <2>2. PlaceFits(w)'
      BY <1>i, <1>1, <1>2 DEF ThreadFits, PlaceFits, At, Outside, ResumesAt, TargetsAt, FlagsAt,
         RunsAt
    <2>3. ParkFits(w)'
      BY <1>i, <1>1, <1>2 DEF ThreadFits, ParkFits, PlaceFits, At, Outside, ResumesAt,
         TargetsAt, FlagsAt, RunsAt
    <2>4. NativeFits(w)'
      BY <1>i, <1>1, <1>2 DEF ThreadFits, NativeFits, StateFits
    <2>5. TargetFits(w)'
      BY <1>i, <1>1, <1>2 DEF ThreadFits, TargetFits, isNotification, StateFits, OneActive,
         Active, At, Outside, ResumesAt, TargetsAt, FlagsAt, RunsAt
    <2>6. CauseFits(w)'
      BY <1>i, <1>1, <1>2 DEF ThreadFits, CauseFits, PlaceFits, BeingFlagged, At, Outside,
         ResumesAt, TargetsAt, FlagsAt, RunsAt
    <2>7. JoinFits(w)'
      BY <1>i, <1>1, <1>2 DEF ThreadFits, JoinFits, PlaceFits, TypeOK, At, Outside, ResumesAt,
         TargetsAt, FlagsAt, RunsAt
    <2> QED BY <2>1, <2>2, <2>3, <2>4, <2>5, <2>6, <2>7 DEF ThreadFits
  <1>6. RegistryIsAccurate'
    <2>1. \A w \in Threads, o \in Objects : InWait(w, o) => InWait(w, o)'
      BY <1>i, <1>1, <1>2 DEF InWait, ThreadFits, StateFits, At, Outside, ResumesAt, TargetsAt,
         FlagsAt, RunsAt
    <2> QED BY <2>1, <1>i, <1>1, RegistryKept
  <1>7. SpawnCountIsAccurate'
    BY <1>i, <1>1, <1>2, SpawnsKept DEF At, Outside, ResumesAt, TargetsAt, FlagsAt, RunsAt
  <1> QED BY <1>3, <1>4, <1>5, <1>6, <1>7 DEF EventsInv

LEMMA setTimedOut_Step ==
  ASSUME EventsInv, NEW t \in Threads,
         setTimedOut(t)
  PROVE  EventsInv'
  <1>i. /\ TypeOK /\ OneActive /\ RegistryIsAccurate /\ SpawnCountIsAccurate
        /\ \A w \in Threads : ThreadFits(w)
    BY DEF EventsInv
  <1>1. /\ timedOut' = [timedOut EXCEPT ![peer[t]] = isNotification(t)]
        /\ pc' = [pc EXCEPT ![t] = IF pc[t] = "flagBroadcast" THEN "broadcasting" ELSE "user"]
        /\ monitor' = IF pc[t] = "flagNotify" THEN [monitor EXCEPT ![obj[t]] = NoThread] ELSE monitor
        /\ peer' = [peer EXCEPT ![t] = NoThread]
        /\ obj' = IF pc[t] = "flagNotify" THEN [obj EXCEPT ![t] = 0] ELSE obj
        /\ UNCHANGED << back, state, timeout, waitObj, parked, unparked, afterParking, cause,
                    waiting, runnables, holder, inHand, index, parents, spawning, joiner,
                    awakening, nativeQueue, polled>>
        /\ pc[t] \in FlagsAt
        /\ state[t] = "RUNNING"
    BY <1>i DEF setTimedOut, FlagsAt, RunsAt, TargetsAt, ThreadFits, StateFits, Set, Goto,
       Sleep, Event, waitVars, schedVars, spawnVars, joinVars, nativeVars
  <1>2. /\ \A w \in Threads : timedOut'[w] = IF w = peer[t] THEN isNotification(t) ELSE timedOut[w]
        /\ \A w \in Threads : pc'[w] = IF w = t THEN IF pc[t] = "flagBroadcast" THEN "broadcasting" ELSE "user" ELSE pc[w]
        /\ \A w \in Threads : peer'[w] = IF w = t THEN NoThread ELSE peer[w]
    BY <1>i, <1>1, Domains
  <1>3. TypeOK'
    <2>1. isNotification(t) \in BOOLEAN
      BY DEF isNotification
    <2> QED BY <2>1, <1>i, <1>1 DEF TypeOK, Labels, States
  <1>4. OneActive'
    BY <1>i, <1>1, <1>2 DEF OneActive, Active
  <1>5. ASSUME NEW w \in Threads PROVE ThreadFits(w)'
    <2>1. StateFits(w)'
      BY <1>i, <1>1, <1>2 DEF ThreadFits, StateFits, OneActive, Active, At, Outside, ResumesAt,
         TargetsAt, FlagsAt, RunsAt
    <2>2. PlaceFits(w)'
      BY <1>i, <1>1, <1>2 DEF ThreadFits, PlaceFits, At, Outside, ResumesAt, TargetsAt, FlagsAt,
         RunsAt
    <2>3. ParkFits(w)'
      BY <1>i, <1>1, <1>2 DEF ThreadFits, ParkFits, PlaceFits, At, Outside, ResumesAt,
         TargetsAt, FlagsAt, RunsAt
    <2>4. NativeFits(w)'
      BY <1>i, <1>1, <1>2 DEF ThreadFits, NativeFits, StateFits
    <2>5. TargetFits(w)'
      BY <1>i, <1>1, <1>2 DEF ThreadFits, TargetFits, isNotification, StateFits, OneActive,
         Active, At, Outside, ResumesAt, TargetsAt, FlagsAt, RunsAt
    <2>6. CauseFits(w)'
      <3>1. /\ peer[t] \in Threads \ {t} /\ isNotification(t) <=> cause[peer[t]] # "interrupt"
            /\ At(w)' = "reenter" => w # t /\ At(w) = "reenter"
        BY <1>i, <1>1, <1>2 DEF ThreadFits, TargetFits, PlaceFits, At, ResumesAt, TargetsAt, FlagsAt
      <3>2. ASSUME NEW u \in Threads, pc[u] \in FlagsAt PROVE u = t
        BY <3>2, <1>i, <1>1 DEF ThreadFits, StateFits, OneActive, Active, RunsAt, TargetsAt, FlagsAt
      <3>3. CASE w = peer[t]
        BY <3>1, <3>3, <1>1, <1>2 DEF CauseFits
      <3>4. CASE w # peer[t]
        BY <3>1, <3>2, <3>4, <1>i, <1>1, <1>2 DEF CauseFits, ThreadFits, BeingFlagged
      <3> QED BY <3>3, <3>4
    <2>7. JoinFits(w)'
      BY <1>i, <1>1, <1>2 DEF ThreadFits, JoinFits, PlaceFits, TypeOK, At, Outside, ResumesAt,
         TargetsAt, FlagsAt, RunsAt
    <2> QED BY <2>1, <2>2, <2>3, <2>4, <2>5, <2>6, <2>7 DEF ThreadFits
  <1>6. RegistryIsAccurate'
    <2>1. \A w \in Threads, o \in Objects : InWait(w, o) => InWait(w, o)'
      BY <1>i, <1>1, <1>2 DEF InWait, ThreadFits, StateFits, At, Outside, ResumesAt, TargetsAt,
         FlagsAt, RunsAt
    <2> QED BY <2>1, <1>i, <1>1, RegistryKept
  <1>7. SpawnCountIsAccurate'
    BY <1>i, <1>1, <1>2, SpawnsKept DEF At, Outside, ResumesAt, TargetsAt, FlagsAt, RunsAt
  <1> QED BY <1>3, <1>4, <1>5, <1>6, <1>7 DEF EventsInv

LEMMA onBroadcastingOnObject_Step ==
  ASSUME EventsInv, NEW t \in Threads, NEW o \in Objects,
         onBroadcastingOnObject(t, o)
  PROVE  EventsInv'
  <1>i. /\ TypeOK /\ OneActive /\ RegistryIsAccurate /\ SpawnCountIsAccurate
        /\ \A w \in Threads : ThreadFits(w)
    BY DEF EventsInv
  <1>1. /\ monitor' = [monitor EXCEPT ![o] = t]
        /\ obj' = [obj EXCEPT ![t] = o]
        /\ pc' = [pc EXCEPT ![t] = "broadcasting"]
        /\ UNCHANGED << back, peer, state, timeout, timedOut, waitObj, parked, unparked,
                    afterParking, cause, waiting, runnables, holder, inHand, index, parents,
                    spawning, joiner, awakening, nativeQueue, polled>>
        /\ state[t] = "RUNNING"
        /\ pc[t] = "user"
    BY <1>i DEF onBroadcastingOnObject, Set, Goto, Sleep, Event, waitVars, schedVars, spawnVars,
       joinVars, nativeVars
  <1>2. /\ \A w \in Threads : monitor'[w] = IF w = o THEN t ELSE monitor[w]
        /\ \A w \in Threads : obj'[w] = IF w = t THEN o ELSE obj[w]
        /\ \A w \in Threads : pc'[w] = IF w = t THEN "broadcasting" ELSE pc[w]
    BY <1>i, <1>1, Domains
  <1>3. TypeOK'
    BY <1>i, <1>1 DEF TypeOK, Labels, States, ResumesAt
  <1>4. OneActive'
    BY <1>i, <1>1, <1>2 DEF OneActive, Active
  <1>5. ASSUME NEW w \in Threads PROVE ThreadFits(w)'
    <2>1. StateFits(w)'
      BY <1>i, <1>1, <1>2 DEF ThreadFits, StateFits, OneActive, Active, At, Outside, ResumesAt,
         TargetsAt, FlagsAt, RunsAt
    <2>2. PlaceFits(w)'
      BY <1>i, <1>1, <1>2 DEF ThreadFits, PlaceFits, At, Outside, ResumesAt, TargetsAt, FlagsAt,
         RunsAt
    <2>3. ParkFits(w)'
      BY <1>i, <1>1, <1>2 DEF ThreadFits, ParkFits, PlaceFits, At, Outside, ResumesAt,
         TargetsAt, FlagsAt, RunsAt
    <2>4. NativeFits(w)'
      BY <1>i, <1>1, <1>2 DEF ThreadFits, NativeFits, StateFits
    <2>5. TargetFits(w)'
      BY <1>i, <1>1, <1>2 DEF ThreadFits, TargetFits, isNotification, StateFits, OneActive,
         Active, At, Outside, ResumesAt, TargetsAt, FlagsAt, RunsAt
    <2>6. CauseFits(w)'
      BY <1>i, <1>1, <1>2 DEF ThreadFits, CauseFits, PlaceFits, BeingFlagged, At, Outside,
         ResumesAt, TargetsAt, FlagsAt, RunsAt
    <2>7. JoinFits(w)'
      BY <1>i, <1>1, <1>2 DEF ThreadFits, JoinFits, PlaceFits, TypeOK, At, Outside, ResumesAt,
         TargetsAt, FlagsAt, RunsAt
    <2> QED BY <2>1, <2>2, <2>3, <2>4, <2>5, <2>6, <2>7 DEF ThreadFits
  <1>6. RegistryIsAccurate'
    <2>1. \A w \in Threads, b \in Objects : InWait(w, b) => InWait(w, b)'
      BY <1>i, <1>1, <1>2 DEF InWait, ThreadFits, StateFits, At, Outside, ResumesAt, TargetsAt,
         FlagsAt, RunsAt
    <2> QED BY <2>1, <1>i, <1>1, RegistryKept
  <1>7. SpawnCountIsAccurate'
    BY <1>i, <1>1, <1>2, SpawnsKept DEF At, Outside, ResumesAt, TargetsAt, FlagsAt, RunsAt
  <1> QED BY <1>3, <1>4, <1>5, <1>6, <1>7 DEF EventsInv

LEMMA broadcastEnds_Step ==
  ASSUME EventsInv, NEW t \in Threads,
         broadcastEnds(t)
  PROVE  EventsInv'
  <1>i. /\ TypeOK /\ OneActive /\ RegistryIsAccurate /\ SpawnCountIsAccurate
        /\ \A w \in Threads : ThreadFits(w)
    BY DEF EventsInv
  <1>1. /\ monitor' = [monitor EXCEPT ![obj[t]] = NoThread]
        /\ pc' = [pc EXCEPT ![t] = "user"]
        /\ obj' = [obj EXCEPT ![t] = 0]
        /\ UNCHANGED << back, peer, state, timeout, timedOut, waitObj, parked, unparked,
                    afterParking, cause, waiting, runnables, holder, inHand, index, parents,
                    spawning, joiner, awakening, nativeQueue, polled>>
        /\ pc[t] = "broadcasting"
    BY <1>i DEF broadcastEnds, Set, Goto, Sleep, Event, waitVars, schedVars, spawnVars,
       joinVars, nativeVars
  <1>2. /\ \A w \in Threads : pc'[w] = IF w = t THEN "user" ELSE pc[w]
        /\ \A w \in Threads : obj'[w] = IF w = t THEN 0 ELSE obj[w]
    BY <1>i, <1>1, Domains
  <1>3. TypeOK'
    BY <1>i, <1>1 DEF TypeOK, Labels, States, ResumesAt
  <1>4. OneActive'
    BY <1>i, <1>1, <1>2 DEF OneActive, Active
  <1>5. ASSUME NEW w \in Threads PROVE ThreadFits(w)'
    <2>1. StateFits(w)'
      BY <1>i, <1>1, <1>2 DEF ThreadFits, StateFits, OneActive, Active, At, Outside, ResumesAt,
         TargetsAt, FlagsAt, RunsAt
    <2>2. PlaceFits(w)'
      BY <1>i, <1>1, <1>2 DEF ThreadFits, PlaceFits, At, Outside, ResumesAt, TargetsAt, FlagsAt,
         RunsAt
    <2>3. ParkFits(w)'
      BY <1>i, <1>1, <1>2 DEF ThreadFits, ParkFits, PlaceFits, At, Outside, ResumesAt,
         TargetsAt, FlagsAt, RunsAt
    <2>4. NativeFits(w)'
      BY <1>i, <1>1, <1>2 DEF ThreadFits, NativeFits, StateFits
    <2>5. TargetFits(w)'
      BY <1>i, <1>1, <1>2 DEF ThreadFits, TargetFits, isNotification, StateFits, OneActive,
         Active, At, Outside, ResumesAt, TargetsAt, FlagsAt, RunsAt
    <2>6. CauseFits(w)'
      BY <1>i, <1>1, <1>2 DEF ThreadFits, CauseFits, PlaceFits, BeingFlagged, At, Outside,
         ResumesAt, TargetsAt, FlagsAt, RunsAt
    <2>7. JoinFits(w)'
      BY <1>i, <1>1, <1>2 DEF ThreadFits, JoinFits, PlaceFits, TypeOK, At, Outside, ResumesAt,
         TargetsAt, FlagsAt, RunsAt
    <2> QED BY <2>1, <2>2, <2>3, <2>4, <2>5, <2>6, <2>7 DEF ThreadFits
  <1>6. RegistryIsAccurate'
    <2>1. \A w \in Threads, o \in Objects : InWait(w, o) => InWait(w, o)'
      BY <1>i, <1>1, <1>2 DEF InWait, ThreadFits, StateFits, At, Outside, ResumesAt, TargetsAt,
         FlagsAt, RunsAt
    <2> QED BY <2>1, <1>i, <1>1, RegistryKept
  <1>7. SpawnCountIsAccurate'
    BY <1>i, <1>1, <1>2, SpawnsKept DEF At, Outside, ResumesAt, TargetsAt, FlagsAt, RunsAt
  <1> QED BY <1>3, <1>4, <1>5, <1>6, <1>7 DEF EventsInv

LEMMA onPark_Permitted ==
  ASSUME EventsInv, NEW t \in Threads, NEW kind,
         onPark(t, kind), unparked[t]
  PROVE  EventsInv'
  <1>i. /\ TypeOK /\ OneActive /\ RegistryIsAccurate /\ SpawnCountIsAccurate
        /\ \A w \in Threads : ThreadFits(w)
    BY DEF EventsInv
  <1>1. /\ unparked' = [unparked EXCEPT ![t] = FALSE]
        /\ parked' = [parked EXCEPT ![t] = ~unparked[t]]
        /\ waitObj' = IF unparked[t] THEN waitObj ELSE [waitObj EXCEPT ![t] = 0]
        /\ UNCHANGED << pc, back, obj, peer, state, timeout, timedOut, afterParking, cause,
                    waiting, monitor, runnables, holder, inHand, index, parents, spawning,
                    joiner, awakening, nativeQueue, polled>>
        /\ state[t] = "RUNNING"
        /\ pc[t] = "user"
    BY <1>i DEF onPark, getAndSetUnparkedState, setTimedWaiting, setWaiting, Set, Goto, Sleep,
       Event, waitVars, schedVars, spawnVars, joinVars, nativeVars
  <1>2. /\ \A w \in Threads : unparked'[w] = IF w = t THEN FALSE ELSE unparked[w]
        /\ \A w \in Threads : parked'[w] = IF w = t THEN ~unparked[t] ELSE parked[w]
    BY <1>i, <1>1, Domains
  <1>3. TypeOK'
    BY <1>i, <1>1 DEF TypeOK, Labels, States, ResumesAt
  <1>4. OneActive'
    BY <1>i, <1>1, <1>2 DEF OneActive, Active
  <1>5. ASSUME NEW w \in Threads PROVE ThreadFits(w)'
    <2>1. StateFits(w)'
      BY <1>i, <1>1, <1>2 DEF ThreadFits, StateFits, OneActive, Active, At, Outside, ResumesAt,
         TargetsAt, FlagsAt, RunsAt
    <2>2. PlaceFits(w)'
      BY <1>i, <1>1, <1>2 DEF ThreadFits, PlaceFits, At, Outside, ResumesAt, TargetsAt, FlagsAt,
         RunsAt
    <2>3. ParkFits(w)'
      BY <1>i, <1>1, <1>2 DEF ThreadFits, ParkFits, PlaceFits, At, Outside, ResumesAt,
         TargetsAt, FlagsAt, RunsAt
    <2>4. NativeFits(w)'
      BY <1>i, <1>1, <1>2 DEF ThreadFits, NativeFits, StateFits
    <2>5. TargetFits(w)'
      BY <1>i, <1>1, <1>2 DEF ThreadFits, TargetFits, isNotification, StateFits, OneActive,
         Active, At, Outside, ResumesAt, TargetsAt, FlagsAt, RunsAt
    <2>6. CauseFits(w)'
      BY <1>i, <1>1, <1>2 DEF ThreadFits, CauseFits, PlaceFits, BeingFlagged, At, Outside,
         ResumesAt, TargetsAt, FlagsAt, RunsAt
    <2>7. JoinFits(w)'
      BY <1>i, <1>1, <1>2 DEF ThreadFits, JoinFits, PlaceFits, TypeOK, At, Outside, ResumesAt,
         TargetsAt, FlagsAt, RunsAt
    <2> QED BY <2>1, <2>2, <2>3, <2>4, <2>5, <2>6, <2>7 DEF ThreadFits
  <1>6. RegistryIsAccurate'
    <2>1. \A w \in Threads, o \in Objects : InWait(w, o) => InWait(w, o)'
      BY <1>i, <1>1, <1>2 DEF InWait, ThreadFits, StateFits, At, Outside, ResumesAt, TargetsAt,
         FlagsAt, RunsAt
    <2> QED BY <2>1, <1>i, <1>1, RegistryKept
  <1>7. SpawnCountIsAccurate'
    BY <1>i, <1>1, <1>2, SpawnsKept DEF At, Outside, ResumesAt, TargetsAt, FlagsAt, RunsAt
  <1> QED BY <1>3, <1>4, <1>5, <1>6, <1>7 DEF EventsInv

LEMMA onPark_Timed ==
  ASSUME EventsInv, NEW t \in Threads, NEW kind,
         onPark(t, kind), ~unparked[t], kind = "timedPark"
  PROVE  EventsInv'
  <1>i. /\ TypeOK /\ OneActive /\ RegistryIsAccurate /\ SpawnCountIsAccurate
        /\ \A w \in Threads : ThreadFits(w)
    BY DEF EventsInv
  <1>1. /\ unparked' = [unparked EXCEPT ![t] = FALSE]
        /\ parked' = [parked EXCEPT ![t] = ~unparked[t]]
        /\ waitObj' = IF unparked[t] THEN waitObj ELSE [waitObj EXCEPT ![t] = 0]
        /\ state' = [state EXCEPT ![t] = "WAITING"]
        /\ timedOut' = [timedOut EXCEPT ![t] = TRUE]
        /\ afterParking' = [afterParking EXCEPT ![t] = FALSE]
        /\ timeout' = [timeout EXCEPT ![t] = 1]
        /\ runnables' = runnables \cup {t}
        /\ cause' = [cause EXCEPT ![t] = "none"]
        /\ pc' = [pc EXCEPT ![t] = "parking"]
        /\ UNCHANGED << back, obj, peer, waiting, monitor, holder, inHand, index, parents,
                    spawning, joiner, awakening, nativeQueue, polled>>
        /\ state[t] = "RUNNING"
        /\ pc[t] = "user"
        /\ "timedPark" \in Ops[t]
    BY <1>i DEF onPark, getAndSetUnparkedState, setTimedWaiting, setWaiting, Set, Goto, Sleep,
       Event, waitVars, schedVars, spawnVars, joinVars, nativeVars
  <1>2. /\ \A w \in Threads : unparked'[w] = IF w = t THEN FALSE ELSE unparked[w]
        /\ \A w \in Threads : parked'[w] = IF w = t THEN ~unparked[t] ELSE parked[w]
        /\ \A w \in Threads : state'[w] = IF w = t THEN "WAITING" ELSE state[w]
        /\ \A w \in Threads : timedOut'[w] = IF w = t THEN TRUE ELSE timedOut[w]
        /\ \A w \in Threads : afterParking'[w] = IF w = t THEN FALSE ELSE afterParking[w]
        /\ \A w \in Threads : timeout'[w] = IF w = t THEN 1 ELSE timeout[w]
        /\ \A w \in Threads : cause'[w] = IF w = t THEN "none" ELSE cause[w]
        /\ \A w \in Threads : pc'[w] = IF w = t THEN "parking" ELSE pc[w]
    BY <1>i, <1>1, Domains
  <1>3. TypeOK'
    BY <1>i, <1>1 DEF TypeOK, Labels, States, ResumesAt
  <1>4. OneActive'
    BY <1>i, <1>1, <1>2 DEF OneActive, Active
  <1>5. ASSUME NEW w \in Threads PROVE ThreadFits(w)'
    <2>1. StateFits(w)'
      BY <1>i, <1>1, <1>2 DEF ThreadFits, StateFits, OneActive, Active, At, Outside, ResumesAt,
         TargetsAt, FlagsAt, RunsAt
    <2>2. PlaceFits(w)'
      BY <1>i, <1>1, <1>2 DEF ThreadFits, PlaceFits, At, Outside, ResumesAt, TargetsAt, FlagsAt,
         RunsAt
    <2>3. ParkFits(w)'
      BY <1>i, <1>1, <1>2 DEF ThreadFits, ParkFits, PlaceFits, At, Outside, ResumesAt,
         TargetsAt, FlagsAt, RunsAt
    <2>4. NativeFits(w)'
      BY <1>i, <1>1, <1>2 DEF ThreadFits, NativeFits, StateFits
    <2>5. TargetFits(w)'
      BY <1>i, <1>1, <1>2 DEF ThreadFits, TargetFits, isNotification, StateFits, OneActive,
         Active, At, Outside, ResumesAt, TargetsAt, FlagsAt, RunsAt
    <2>6. CauseFits(w)'
      BY <1>i, <1>1, <1>2 DEF ThreadFits, CauseFits, PlaceFits, BeingFlagged, At, Outside,
         ResumesAt, TargetsAt, FlagsAt, RunsAt
    <2>7. JoinFits(w)'
      BY <1>i, <1>1, <1>2 DEF ThreadFits, JoinFits, PlaceFits, TypeOK, At, Outside, ResumesAt,
         TargetsAt, FlagsAt, RunsAt
    <2> QED BY <2>1, <2>2, <2>3, <2>4, <2>5, <2>6, <2>7 DEF ThreadFits
  <1>6. RegistryIsAccurate'
    <2>1. \A w \in Threads, o \in Objects : InWait(w, o) => InWait(w, o)'
      BY <1>i, <1>1, <1>2 DEF InWait, ThreadFits, StateFits, At, Outside, ResumesAt, TargetsAt,
         FlagsAt, RunsAt
    <2> QED BY <2>1, <1>i, <1>1, RegistryKept
  <1>7. SpawnCountIsAccurate'
    BY <1>i, <1>1, <1>2, SpawnsKept DEF At, Outside, ResumesAt, TargetsAt, FlagsAt, RunsAt
  <1> QED BY <1>3, <1>4, <1>5, <1>6, <1>7 DEF EventsInv

LEMMA onPark_Untimed ==
  ASSUME EventsInv, NEW t \in Threads, NEW kind,
         onPark(t, kind), ~unparked[t], kind = "park"
  PROVE  EventsInv'
  <1>i. /\ TypeOK /\ OneActive /\ RegistryIsAccurate /\ SpawnCountIsAccurate
        /\ \A w \in Threads : ThreadFits(w)
    BY DEF EventsInv
  <1>1. /\ unparked' = [unparked EXCEPT ![t] = FALSE]
        /\ parked' = [parked EXCEPT ![t] = ~unparked[t]]
        /\ waitObj' = IF unparked[t] THEN waitObj ELSE [waitObj EXCEPT ![t] = 0]
        /\ pc' = [pc EXCEPT ![t] = "parkGap"]
        /\ UNCHANGED << back, obj, peer, state, timeout, timedOut, afterParking, cause, waiting,
                    monitor, runnables, holder, inHand, index, parents, spawning, joiner,
                    awakening, nativeQueue, polled>>
        /\ state[t] = "RUNNING"
        /\ pc[t] = "user"
    BY <1>i DEF onPark, getAndSetUnparkedState, setTimedWaiting, setWaiting, Set, Goto, Sleep,
       Event, waitVars, schedVars, spawnVars, joinVars, nativeVars
  <1>2. /\ \A w \in Threads : unparked'[w] = IF w = t THEN FALSE ELSE unparked[w]
        /\ \A w \in Threads : parked'[w] = IF w = t THEN ~unparked[t] ELSE parked[w]
        /\ \A w \in Threads : pc'[w] = IF w = t THEN "parkGap" ELSE pc[w]
    BY <1>i, <1>1, Domains
  <1>3. TypeOK'
    BY <1>i, <1>1 DEF TypeOK, Labels, States, ResumesAt
  <1>4. OneActive'
    BY <1>i, <1>1, <1>2 DEF OneActive, Active
  <1>5. ASSUME NEW w \in Threads PROVE ThreadFits(w)'
    <2>1. StateFits(w)'
      BY <1>i, <1>1, <1>2 DEF ThreadFits, StateFits, OneActive, Active, At, Outside, ResumesAt,
         TargetsAt, FlagsAt, RunsAt
    <2>2. PlaceFits(w)'
      BY <1>i, <1>1, <1>2 DEF ThreadFits, PlaceFits, At, Outside, ResumesAt, TargetsAt, FlagsAt,
         RunsAt
    <2>3. ParkFits(w)'
      BY <1>i, <1>1, <1>2 DEF ThreadFits, ParkFits, PlaceFits, At, Outside, ResumesAt,
         TargetsAt, FlagsAt, RunsAt
    <2>4. NativeFits(w)'
      BY <1>i, <1>1, <1>2 DEF ThreadFits, NativeFits, StateFits
    <2>5. TargetFits(w)'
      BY <1>i, <1>1, <1>2 DEF ThreadFits, TargetFits, isNotification, StateFits, OneActive,
         Active, At, Outside, ResumesAt, TargetsAt, FlagsAt, RunsAt
    <2>6. CauseFits(w)'
      BY <1>i, <1>1, <1>2 DEF ThreadFits, CauseFits, PlaceFits, BeingFlagged, At, Outside,
         ResumesAt, TargetsAt, FlagsAt, RunsAt
    <2>7. JoinFits(w)'
      BY <1>i, <1>1, <1>2 DEF ThreadFits, JoinFits, PlaceFits, TypeOK, At, Outside, ResumesAt,
         TargetsAt, FlagsAt, RunsAt
    <2> QED BY <2>1, <2>2, <2>3, <2>4, <2>5, <2>6, <2>7 DEF ThreadFits
  <1>6. RegistryIsAccurate'
    <2>1. \A w \in Threads, o \in Objects : InWait(w, o) => InWait(w, o)'
      BY <1>i, <1>1, <1>2 DEF InWait, ThreadFits, StateFits, At, Outside, ResumesAt, TargetsAt,
         FlagsAt, RunsAt
    <2> QED BY <2>1, <1>i, <1>1, RegistryKept
  <1>7. SpawnCountIsAccurate'
    BY <1>i, <1>1, <1>2, SpawnsKept DEF At, Outside, ResumesAt, TargetsAt, FlagsAt, RunsAt
  <1> QED BY <1>3, <1>4, <1>5, <1>6, <1>7 DEF EventsInv

LEMMA parkWaitingStart_Step ==
  ASSUME EventsInv, NEW t \in Threads,
         parkWaitingStart(t)
  PROVE  EventsInv'
  <1>i. /\ TypeOK /\ OneActive /\ RegistryIsAccurate /\ SpawnCountIsAccurate
        /\ \A w \in Threads : ThreadFits(w)
    BY DEF EventsInv
  <1>1. /\ state' = [state EXCEPT ![t] = "WAITING"]
        /\ timedOut' = [timedOut EXCEPT ![t] = TRUE]
        /\ afterParking' = [afterParking EXCEPT ![t] = FALSE]
        /\ timeout' = [timeout EXCEPT ![t] = -1]
        /\ awakening' = [awakening EXCEPT ![t] = FALSE]
        /\ cause' = [cause EXCEPT ![t] = "none"]
        /\ pc' = [pc EXCEPT ![t] = "parkUnlock"]
        /\ UNCHANGED << back, obj, peer, waitObj, parked, unparked, waiting, monitor, runnables,
                    holder, inHand, index, parents, spawning, joiner, nativeQueue, polled>>
        /\ pc[t] = "parkGap"
        /\ state[t] = "RUNNING"
    BY <1>i DEF parkWaitingStart, onWrappedWaitingStart, setWaiting, Set, Goto, Sleep, Event,
       waitVars, schedVars, spawnVars, joinVars, nativeVars
  <1>2. /\ \A w \in Threads : state'[w] = IF w = t THEN "WAITING" ELSE state[w]
        /\ \A w \in Threads : timedOut'[w] = IF w = t THEN TRUE ELSE timedOut[w]
        /\ \A w \in Threads : afterParking'[w] = IF w = t THEN FALSE ELSE afterParking[w]
        /\ \A w \in Threads : timeout'[w] = IF w = t THEN -1 ELSE timeout[w]
        /\ \A w \in Threads : awakening'[w] = IF w = t THEN FALSE ELSE awakening[w]
        /\ \A w \in Threads : cause'[w] = IF w = t THEN "none" ELSE cause[w]
        /\ \A w \in Threads : pc'[w] = IF w = t THEN "parkUnlock" ELSE pc[w]
    BY <1>i, <1>1, Domains
  <1>3. TypeOK'
    BY <1>i, <1>1 DEF TypeOK, Labels, States, ResumesAt
  <1>4. OneActive'
    BY <1>i, <1>1, <1>2 DEF OneActive, Active
  <1>5. ASSUME NEW w \in Threads PROVE ThreadFits(w)'
    <2>1. StateFits(w)'
      BY <1>i, <1>1, <1>2 DEF ThreadFits, StateFits, OneActive, Active, At, Outside, ResumesAt,
         TargetsAt, FlagsAt, RunsAt
    <2>2. PlaceFits(w)'
      BY <1>i, <1>1, <1>2 DEF ThreadFits, PlaceFits, At, Outside, ResumesAt, TargetsAt, FlagsAt,
         RunsAt
    <2>3. ParkFits(w)'
      BY <1>i, <1>1, <1>2 DEF ThreadFits, ParkFits, PlaceFits, At, Outside, ResumesAt,
         TargetsAt, FlagsAt, RunsAt
    <2>4. NativeFits(w)'
      BY <1>i, <1>1, <1>2 DEF ThreadFits, NativeFits, StateFits
    <2>5. TargetFits(w)'
      BY <1>i, <1>1, <1>2 DEF ThreadFits, TargetFits, isNotification, StateFits, OneActive,
         Active, At, Outside, ResumesAt, TargetsAt, FlagsAt, RunsAt
    <2>6. CauseFits(w)'
      BY <1>i, <1>1, <1>2 DEF ThreadFits, CauseFits, PlaceFits, BeingFlagged, At, Outside,
         ResumesAt, TargetsAt, FlagsAt, RunsAt
    <2>7. JoinFits(w)'
      BY <1>i, <1>1, <1>2 DEF ThreadFits, JoinFits, PlaceFits, TypeOK, At, Outside, ResumesAt,
         TargetsAt, FlagsAt, RunsAt
    <2> QED BY <2>1, <2>2, <2>3, <2>4, <2>5, <2>6, <2>7 DEF ThreadFits
  <1>6. RegistryIsAccurate'
    <2>1. \A w \in Threads, o \in Objects : InWait(w, o) => InWait(w, o)'
      BY <1>i, <1>1, <1>2 DEF InWait, ThreadFits, StateFits, At, Outside, ResumesAt, TargetsAt,
         FlagsAt, RunsAt
    <2> QED BY <2>1, <1>i, <1>1, RegistryKept
  <1>7. SpawnCountIsAccurate'
    BY <1>i, <1>1, <1>2, SpawnsKept DEF At, Outside, ResumesAt, TargetsAt, FlagsAt, RunsAt
  <1> QED BY <1>3, <1>4, <1>5, <1>6, <1>7 DEF EventsInv

LEMMA unlockAgain_Step ==
  ASSUME EventsInv, NEW t \in Threads,
         unlockAgain(t)
  PROVE  EventsInv'
  <1>i. /\ TypeOK /\ OneActive /\ RegistryIsAccurate /\ SpawnCountIsAccurate
        /\ \A w \in Threads : ThreadFits(w)
    BY DEF EventsInv
  <1>1. /\ holder' = [holder EXCEPT ![t] = NoThread]
        /\ pc' = [pc EXCEPT ![t] = "parking"]
        /\ UNCHANGED << back, obj, peer, state, timeout, timedOut, waitObj, parked, unparked,
                    afterParking, cause, waiting, monitor, runnables, inHand, index, parents,
                    spawning, joiner, awakening, nativeQueue, polled>>
        /\ pc[t] = "parkUnlock"
    BY <1>i DEF unlockAgain, Set, Goto, Sleep, Event, waitVars, schedVars, spawnVars, joinVars,
       nativeVars
  <1>2. /\ \A w \in Threads : holder'[w] = IF w = t THEN NoThread ELSE holder[w]
        /\ \A w \in Threads : pc'[w] = IF w = t THEN "parking" ELSE pc[w]
    BY <1>i, <1>1, Domains
  <1>3. TypeOK'
    BY <1>i, <1>1 DEF TypeOK, Labels, States, ResumesAt
  <1>4. OneActive'
    BY <1>i, <1>1, <1>2 DEF OneActive, Active
  <1>5. ASSUME NEW w \in Threads PROVE ThreadFits(w)'
    <2>1. StateFits(w)'
      BY <1>i, <1>1, <1>2 DEF ThreadFits, StateFits, OneActive, Active, At, Outside, ResumesAt,
         TargetsAt, FlagsAt, RunsAt
    <2>2. PlaceFits(w)'
      BY <1>i, <1>1, <1>2 DEF ThreadFits, PlaceFits, At, Outside, ResumesAt, TargetsAt, FlagsAt,
         RunsAt
    <2>3. ParkFits(w)'
      BY <1>i, <1>1, <1>2 DEF ThreadFits, ParkFits, PlaceFits, At, Outside, ResumesAt,
         TargetsAt, FlagsAt, RunsAt
    <2>4. NativeFits(w)'
      BY <1>i, <1>1, <1>2 DEF ThreadFits, NativeFits, StateFits
    <2>5. TargetFits(w)'
      BY <1>i, <1>1, <1>2 DEF ThreadFits, TargetFits, isNotification, StateFits, OneActive,
         Active, At, Outside, ResumesAt, TargetsAt, FlagsAt, RunsAt
    <2>6. CauseFits(w)'
      BY <1>i, <1>1, <1>2 DEF ThreadFits, CauseFits, PlaceFits, BeingFlagged, At, Outside,
         ResumesAt, TargetsAt, FlagsAt, RunsAt
    <2>7. JoinFits(w)'
      BY <1>i, <1>1, <1>2 DEF ThreadFits, JoinFits, PlaceFits, TypeOK, At, Outside, ResumesAt,
         TargetsAt, FlagsAt, RunsAt
    <2> QED BY <2>1, <2>2, <2>3, <2>4, <2>5, <2>6, <2>7 DEF ThreadFits
  <1>6. RegistryIsAccurate'
    <2>1. \A w \in Threads, o \in Objects : InWait(w, o) => InWait(w, o)'
      BY <1>i, <1>1, <1>2 DEF InWait, ThreadFits, StateFits, At, Outside, ResumesAt, TargetsAt,
         FlagsAt, RunsAt
    <2> QED BY <2>1, <1>i, <1>1, RegistryKept
  <1>7. SpawnCountIsAccurate'
    BY <1>i, <1>1, <1>2, SpawnsKept DEF At, Outside, ResumesAt, TargetsAt, FlagsAt, RunsAt
  <1> QED BY <1>3, <1>4, <1>5, <1>6, <1>7 DEF EventsInv

LEMMA onParked_Timed ==
  ASSUME EventsInv, NEW t \in Threads,
         onParked(t), timeout[t] > 0
  PROVE  EventsInv'
  <1>i. /\ TypeOK /\ OneActive /\ RegistryIsAccurate /\ SpawnCountIsAccurate
        /\ \A w \in Threads : ThreadFits(w)
    BY DEF EventsInv
  <1>a. "timedPark" \in Ops[t]
    <2>1. pc[t] = "parking"
      BY DEF onParked
    <2>2. ~(timeout[t] <= 0)
      BY <1>i DEF TypeOK
    <2> QED BY <2>1, <2>2, <1>i DEF ThreadFits, ParkFits
  <1>1. /\ state' = [state EXCEPT ![t] = "SUSPENDED"]
        /\ timedOut' = [timedOut EXCEPT ![t] = TRUE]
        /\ pc' = [pc EXCEPT ![t] = "asleep"]
        /\ back' = [back EXCEPT ![t] = "user"]
        /\ UNCHANGED << obj, peer, timeout, waitObj, parked, unparked, afterParking, cause,
                    waiting, monitor, runnables, holder, inHand, index, parents, spawning,
                    joiner, awakening, nativeQueue, polled>>
        /\ pc[t] = "parking"
        /\ "timedPark" \in Ops[t]
    BY <1>i, <1>a DEF onParked, onWrappedTimedWaitingEnd, onWrappedWaitingEnd,
       setSuspendedAndPush, Set, Goto, Sleep, Event, waitVars, schedVars, spawnVars, joinVars,
       nativeVars
  <1>2. /\ \A w \in Threads : state'[w] = IF w = t THEN "SUSPENDED" ELSE state[w]
        /\ \A w \in Threads : timedOut'[w] = IF w = t THEN TRUE ELSE timedOut[w]
        /\ \A w \in Threads : pc'[w] = IF w = t THEN "asleep" ELSE pc[w]
        /\ \A w \in Threads : back'[w] = IF w = t THEN "user" ELSE back[w]
    BY <1>i, <1>1, Domains
  <1>3. TypeOK'
    BY <1>i, <1>1 DEF TypeOK, Labels, States, ResumesAt
  <1>4. OneActive'
    BY <1>i, <1>1, <1>2 DEF OneActive, Active
  <1>5. ASSUME NEW w \in Threads PROVE ThreadFits(w)'
    <2>1. StateFits(w)'
      BY <1>i, <1>1, <1>2 DEF ThreadFits, StateFits, OneActive, Active, At, Outside, ResumesAt,
         TargetsAt, FlagsAt, RunsAt
    <2>2. PlaceFits(w)'
      BY <1>i, <1>1, <1>2 DEF ThreadFits, PlaceFits, At, Outside, ResumesAt, TargetsAt, FlagsAt,
         RunsAt
    <2>3. ParkFits(w)'
      BY <1>i, <1>1, <1>2 DEF ThreadFits, ParkFits, PlaceFits, At, Outside, ResumesAt,
         TargetsAt, FlagsAt, RunsAt
    <2>4. NativeFits(w)'
      BY <1>i, <1>1, <1>2 DEF ThreadFits, NativeFits, StateFits
    <2>5. TargetFits(w)'
      BY <1>i, <1>1, <1>2 DEF ThreadFits, TargetFits, isNotification, StateFits, OneActive,
         Active, At, Outside, ResumesAt, TargetsAt, FlagsAt, RunsAt
    <2>6. CauseFits(w)'
      BY <1>i, <1>1, <1>2 DEF ThreadFits, CauseFits, PlaceFits, BeingFlagged, At, Outside,
         ResumesAt, TargetsAt, FlagsAt, RunsAt
    <2>7. JoinFits(w)'
      BY <1>i, <1>1, <1>2 DEF ThreadFits, JoinFits, PlaceFits, TypeOK, At, Outside, ResumesAt,
         TargetsAt, FlagsAt, RunsAt
    <2> QED BY <2>1, <2>2, <2>3, <2>4, <2>5, <2>6, <2>7 DEF ThreadFits
  <1>6. RegistryIsAccurate'
    <2>1. \A w \in Threads, o \in Objects : InWait(w, o) => InWait(w, o)'
      BY <1>i, <1>1, <1>2 DEF InWait, ThreadFits, StateFits, At, Outside, ResumesAt, TargetsAt,
         FlagsAt, RunsAt
    <2> QED BY <2>1, <1>i, <1>1, RegistryKept
  <1>7. SpawnCountIsAccurate'
    BY <1>i, <1>1, <1>2, SpawnsKept DEF At, Outside, ResumesAt, TargetsAt, FlagsAt, RunsAt
  <1> QED BY <1>3, <1>4, <1>5, <1>6, <1>7 DEF EventsInv

LEMMA onParked_Untimed ==
  ASSUME EventsInv, NEW t \in Threads,
         onParked(t), ~(timeout[t] > 0)
  PROVE  EventsInv'
  <1>i. /\ TypeOK /\ OneActive /\ RegistryIsAccurate /\ SpawnCountIsAccurate
        /\ \A w \in Threads : ThreadFits(w)
    BY DEF EventsInv
  <1>1. /\ state' = [state EXCEPT ![t] = "SUSPENDED"]
        /\ timedOut' = [timedOut EXCEPT ![t] = TRUE]
        /\ timeout' = [timeout EXCEPT ![t] = -1]
        /\ runnables' = runnables \cup {t}
        /\ awakening' = [awakening EXCEPT ![t] = FALSE]
        /\ pc' = [pc EXCEPT ![t] = "asleep"]
        /\ back' = [back EXCEPT ![t] = "user"]
        /\ UNCHANGED << obj, peer, waitObj, parked, unparked, afterParking, cause, waiting,
                    monitor, holder, inHand, index, parents, spawning, joiner, nativeQueue,
                    polled>>
        /\ pc[t] = "parking"
        /\ ~parked[t]
    BY <1>i DEF onParked, onWrappedTimedWaitingEnd, onWrappedWaitingEnd, setSuspendedAndPush,
       Set, Goto, Sleep, Event, waitVars, schedVars, spawnVars, joinVars, nativeVars
  <1>2. /\ \A w \in Threads : state'[w] = IF w = t THEN "SUSPENDED" ELSE state[w]
        /\ \A w \in Threads : timedOut'[w] = IF w = t THEN TRUE ELSE timedOut[w]
        /\ \A w \in Threads : timeout'[w] = IF w = t THEN -1 ELSE timeout[w]
        /\ \A w \in Threads : awakening'[w] = IF w = t THEN FALSE ELSE awakening[w]
        /\ \A w \in Threads : pc'[w] = IF w = t THEN "asleep" ELSE pc[w]
        /\ \A w \in Threads : back'[w] = IF w = t THEN "user" ELSE back[w]
    BY <1>i, <1>1, Domains
  <1>3. TypeOK'
    BY <1>i, <1>1 DEF TypeOK, Labels, States, ResumesAt
  <1>4. OneActive'
    BY <1>i, <1>1, <1>2 DEF OneActive, Active
  <1>5. ASSUME NEW w \in Threads PROVE ThreadFits(w)'
    <2>1. StateFits(w)'
      BY <1>i, <1>1, <1>2 DEF ThreadFits, StateFits, OneActive, Active, At, Outside, ResumesAt,
         TargetsAt, FlagsAt, RunsAt
    <2>2. PlaceFits(w)'
      BY <1>i, <1>1, <1>2 DEF ThreadFits, PlaceFits, At, Outside, ResumesAt, TargetsAt, FlagsAt,
         RunsAt
    <2>3. ParkFits(w)'
      BY <1>i, <1>1, <1>2 DEF ThreadFits, ParkFits, PlaceFits, At, Outside, ResumesAt,
         TargetsAt, FlagsAt, RunsAt
    <2>4. NativeFits(w)'
      BY <1>i, <1>1, <1>2 DEF ThreadFits, NativeFits, StateFits
    <2>5. TargetFits(w)'
      BY <1>i, <1>1, <1>2 DEF ThreadFits, TargetFits, isNotification, StateFits, OneActive,
         Active, At, Outside, ResumesAt, TargetsAt, FlagsAt, RunsAt
    <2>6. CauseFits(w)'
      BY <1>i, <1>1, <1>2 DEF ThreadFits, CauseFits, PlaceFits, BeingFlagged, At, Outside,
         ResumesAt, TargetsAt, FlagsAt, RunsAt
    <2>7. JoinFits(w)'
      BY <1>i, <1>1, <1>2 DEF ThreadFits, JoinFits, PlaceFits, TypeOK, At, Outside, ResumesAt,
         TargetsAt, FlagsAt, RunsAt
    <2> QED BY <2>1, <2>2, <2>3, <2>4, <2>5, <2>6, <2>7 DEF ThreadFits
  <1>6. RegistryIsAccurate'
    <2>1. \A w \in Threads, o \in Objects : InWait(w, o) => InWait(w, o)'
      BY <1>i, <1>1, <1>2 DEF InWait, ThreadFits, StateFits, At, Outside, ResumesAt, TargetsAt,
         FlagsAt, RunsAt
    <2> QED BY <2>1, <1>i, <1>1, RegistryKept
  <1>7. SpawnCountIsAccurate'
    BY <1>i, <1>1, <1>2, SpawnsKept DEF At, Outside, ResumesAt, TargetsAt, FlagsAt, RunsAt
  <1> QED BY <1>3, <1>4, <1>5, <1>6, <1>7 DEF EventsInv

LEMMA onUnpark_Finds ==
  ASSUME EventsInv, NEW t \in Threads, NEW u \in Threads,
         onUnpark(t, u), u \in index
  PROVE  EventsInv'
  <1>i. /\ TypeOK /\ OneActive /\ RegistryIsAccurate /\ SpawnCountIsAccurate
        /\ \A w \in Threads : ThreadFits(w)
    BY DEF EventsInv
  <1>1. /\ peer' = [peer EXCEPT ![t] = u]
        /\ pc' = [pc EXCEPT ![t] = "unparking"]
        /\ UNCHANGED << back, obj, state, timeout, timedOut, waitObj, parked, unparked,
                    afterParking, cause, waiting, monitor, runnables, holder, inHand, index,
                    parents, spawning, joiner, awakening, nativeQueue, polled>>
        /\ state[t] = "RUNNING"
        /\ pc[t] = "user"
        /\ u # t
    BY <1>i DEF onUnpark, Lookup, Set, Goto, Sleep, Event, waitVars, schedVars, spawnVars,
       joinVars, nativeVars
  <1>2. /\ \A w \in Threads : peer'[w] = IF w = t THEN u ELSE peer[w]
        /\ \A w \in Threads : pc'[w] = IF w = t THEN "unparking" ELSE pc[w]
    BY <1>i, <1>1, Domains
  <1>3. TypeOK'
    BY <1>i, <1>1 DEF TypeOK, Labels, States, ResumesAt
  <1>4. OneActive'
    BY <1>i, <1>1, <1>2 DEF OneActive, Active
  <1>5. ASSUME NEW w \in Threads PROVE ThreadFits(w)'
    <2>1. StateFits(w)'
      BY <1>i, <1>1, <1>2 DEF ThreadFits, StateFits, OneActive, Active, At, Outside, ResumesAt,
         TargetsAt, FlagsAt, RunsAt
    <2>2. PlaceFits(w)'
      BY <1>i, <1>1, <1>2 DEF ThreadFits, PlaceFits, At, Outside, ResumesAt, TargetsAt, FlagsAt,
         RunsAt
    <2>3. ParkFits(w)'
      BY <1>i, <1>1, <1>2 DEF ThreadFits, ParkFits, PlaceFits, At, Outside, ResumesAt,
         TargetsAt, FlagsAt, RunsAt
    <2>4. NativeFits(w)'
      BY <1>i, <1>1, <1>2 DEF ThreadFits, NativeFits, StateFits
    <2>5. TargetFits(w)'
      BY <1>i, <1>1, <1>2 DEF ThreadFits, TargetFits, isNotification, StateFits, OneActive,
         Active, At, Outside, ResumesAt, TargetsAt, FlagsAt, RunsAt, PlaceFits
    <2>6. CauseFits(w)'
      BY <1>i, <1>1, <1>2 DEF ThreadFits, CauseFits, PlaceFits, BeingFlagged, At, Outside,
         ResumesAt, TargetsAt, FlagsAt, RunsAt
    <2>7. JoinFits(w)'
      BY <1>i, <1>1, <1>2 DEF ThreadFits, JoinFits, PlaceFits, TypeOK, At, Outside, ResumesAt,
         TargetsAt, FlagsAt, RunsAt
    <2> QED BY <2>1, <2>2, <2>3, <2>4, <2>5, <2>6, <2>7 DEF ThreadFits
  <1>6. RegistryIsAccurate'
    <2>1. \A w \in Threads, o \in Objects : InWait(w, o) => InWait(w, o)'
      BY <1>i, <1>1, <1>2 DEF InWait, ThreadFits, StateFits, At, Outside, ResumesAt, TargetsAt,
         FlagsAt, RunsAt
    <2> QED BY <2>1, <1>i, <1>1, RegistryKept
  <1>7. SpawnCountIsAccurate'
    BY <1>i, <1>1, <1>2, SpawnsKept DEF At, Outside, ResumesAt, TargetsAt, FlagsAt, RunsAt
  <1> QED BY <1>3, <1>4, <1>5, <1>6, <1>7 DEF EventsInv

LEMMA onUnpark_Misses ==
  ASSUME EventsInv, NEW t \in Threads, NEW u \in Threads,
         onUnpark(t, u), u \notin index
  PROVE  EventsInv'
  <1>i. /\ TypeOK /\ OneActive /\ RegistryIsAccurate /\ SpawnCountIsAccurate
        /\ \A w \in Threads : ThreadFits(w)
    BY DEF EventsInv
  <1>1. /\ peer' = [peer EXCEPT ![t] = NoThread]
        /\ pc' = [pc EXCEPT ![t] = "user"]
        /\ UNCHANGED << back, obj, state, timeout, timedOut, waitObj, parked, unparked,
                    afterParking, cause, waiting, monitor, runnables, holder, inHand, index,
                    parents, spawning, joiner, awakening, nativeQueue, polled>>
        /\ state[t] = "RUNNING"
        /\ pc[t] = "user"
    BY <1>i DEF onUnpark, Lookup, Set, Goto, Sleep, Event, waitVars, schedVars, spawnVars,
       joinVars, nativeVars
  <1>2. /\ \A w \in Threads : peer'[w] = IF w = t THEN NoThread ELSE peer[w]
        /\ \A w \in Threads : pc'[w] = IF w = t THEN "user" ELSE pc[w]
    BY <1>i, <1>1, Domains
  <1>3. TypeOK'
    BY <1>i, <1>1 DEF TypeOK, Labels, States, ResumesAt
  <1>4. OneActive'
    BY <1>i, <1>1, <1>2 DEF OneActive, Active
  <1>5. ASSUME NEW w \in Threads PROVE ThreadFits(w)'
    <2>1. StateFits(w)'
      BY <1>i, <1>1, <1>2 DEF ThreadFits, StateFits, OneActive, Active, At, Outside, ResumesAt,
         TargetsAt, FlagsAt, RunsAt
    <2>2. PlaceFits(w)'
      BY <1>i, <1>1, <1>2 DEF ThreadFits, PlaceFits, At, Outside, ResumesAt, TargetsAt, FlagsAt,
         RunsAt
    <2>3. ParkFits(w)'
      BY <1>i, <1>1, <1>2 DEF ThreadFits, ParkFits, PlaceFits, At, Outside, ResumesAt,
         TargetsAt, FlagsAt, RunsAt
    <2>4. NativeFits(w)'
      BY <1>i, <1>1, <1>2 DEF ThreadFits, NativeFits, StateFits
    <2>5. TargetFits(w)'
      BY <1>i, <1>1, <1>2 DEF ThreadFits, TargetFits, isNotification, StateFits, OneActive,
         Active, At, Outside, ResumesAt, TargetsAt, FlagsAt, RunsAt
    <2>6. CauseFits(w)'
      BY <1>i, <1>1, <1>2 DEF ThreadFits, CauseFits, PlaceFits, BeingFlagged, At, Outside,
         ResumesAt, TargetsAt, FlagsAt, RunsAt
    <2>7. JoinFits(w)'
      BY <1>i, <1>1, <1>2 DEF ThreadFits, JoinFits, PlaceFits, TypeOK, At, Outside, ResumesAt,
         TargetsAt, FlagsAt, RunsAt
    <2> QED BY <2>1, <2>2, <2>3, <2>4, <2>5, <2>6, <2>7 DEF ThreadFits
  <1>6. RegistryIsAccurate'
    <2>1. \A w \in Threads, o \in Objects : InWait(w, o) => InWait(w, o)'
      BY <1>i, <1>1, <1>2 DEF InWait, ThreadFits, StateFits, At, Outside, ResumesAt, TargetsAt,
         FlagsAt, RunsAt
    <2> QED BY <2>1, <1>i, <1>1, RegistryKept
  <1>7. SpawnCountIsAccurate'
    BY <1>i, <1>1, <1>2, SpawnsKept DEF At, Outside, ResumesAt, TargetsAt, FlagsAt, RunsAt
  <1> QED BY <1>3, <1>4, <1>5, <1>6, <1>7 DEF EventsInv

LEMMA lockPeer_Step ==
  ASSUME EventsInv, NEW t \in Threads,
         lockPeer(t)
  PROVE  EventsInv'
  <1>i. /\ TypeOK /\ OneActive /\ RegistryIsAccurate /\ SpawnCountIsAccurate
        /\ \A w \in Threads : ThreadFits(w)
    BY DEF EventsInv
  <1>1. /\ holder' = [holder EXCEPT ![peer[t]] = t]
        /\ pc' = [pc EXCEPT ![t] = "unparkHolds"]
        /\ UNCHANGED << back, obj, peer, state, timeout, timedOut, waitObj, parked, unparked,
                    afterParking, cause, waiting, monitor, runnables, inHand, index, parents,
                    spawning, joiner, awakening, nativeQueue, polled>>
        /\ pc[t] = "unparking"
    BY <1>i DEF lockPeer, Set, Goto, Sleep, Event, waitVars, schedVars, spawnVars, joinVars,
       nativeVars
  <1>2. /\ \A w \in Threads : holder'[w] = IF w = peer[t] THEN t ELSE holder[w]
        /\ \A w \in Threads : pc'[w] = IF w = t THEN "unparkHolds" ELSE pc[w]
    BY <1>i, <1>1, Domains
  <1>3. TypeOK'
    BY <1>i, <1>1 DEF TypeOK, Labels, States, ResumesAt
  <1>4. OneActive'
    BY <1>i, <1>1, <1>2 DEF OneActive, Active
  <1>5. ASSUME NEW w \in Threads PROVE ThreadFits(w)'
    <2>1. StateFits(w)'
      BY <1>i, <1>1, <1>2 DEF ThreadFits, StateFits, OneActive, Active, At, Outside, ResumesAt,
         TargetsAt, FlagsAt, RunsAt
    <2>2. PlaceFits(w)'
      BY <1>i, <1>1, <1>2 DEF ThreadFits, PlaceFits, At, Outside, ResumesAt, TargetsAt, FlagsAt,
         RunsAt
    <2>3. ParkFits(w)'
      BY <1>i, <1>1, <1>2 DEF ThreadFits, ParkFits, PlaceFits, At, Outside, ResumesAt,
         TargetsAt, FlagsAt, RunsAt
    <2>4. NativeFits(w)'
      BY <1>i, <1>1, <1>2 DEF ThreadFits, NativeFits, StateFits
    <2>5. TargetFits(w)'
      BY <1>i, <1>1, <1>2 DEF ThreadFits, TargetFits, isNotification, StateFits, OneActive,
         Active, At, Outside, ResumesAt, TargetsAt, FlagsAt, RunsAt
    <2>6. CauseFits(w)'
      BY <1>i, <1>1, <1>2 DEF ThreadFits, CauseFits, PlaceFits, BeingFlagged, At, Outside,
         ResumesAt, TargetsAt, FlagsAt, RunsAt
    <2>7. JoinFits(w)'
      BY <1>i, <1>1, <1>2 DEF ThreadFits, JoinFits, PlaceFits, TypeOK, At, Outside, ResumesAt,
         TargetsAt, FlagsAt, RunsAt
    <2> QED BY <2>1, <2>2, <2>3, <2>4, <2>5, <2>6, <2>7 DEF ThreadFits
  <1>6. RegistryIsAccurate'
    <2>1. \A w \in Threads, o \in Objects : InWait(w, o) => InWait(w, o)'
      BY <1>i, <1>1, <1>2 DEF InWait, ThreadFits, StateFits, At, Outside, ResumesAt, TargetsAt,
         FlagsAt, RunsAt
    <2> QED BY <2>1, <1>i, <1>1, RegistryKept
  <1>7. SpawnCountIsAccurate'
    BY <1>i, <1>1, <1>2, SpawnsKept DEF At, Outside, ResumesAt, TargetsAt, FlagsAt, RunsAt
  <1> QED BY <1>3, <1>4, <1>5, <1>6, <1>7 DEF EventsInv

LEMMA unpark_Permits ==
  ASSUME EventsInv, NEW t \in Threads, NEW u \in Threads,
         unpark(t), peer[t] = u, ~parked[u]
  PROVE  EventsInv'
  <1>i. /\ TypeOK /\ OneActive /\ RegistryIsAccurate /\ SpawnCountIsAccurate
        /\ \A w \in Threads : ThreadFits(w)
    BY DEF EventsInv
  <1>1. /\ unparked' = [unparked EXCEPT ![u] = ~parked[u]]
        /\ parked' = [parked EXCEPT ![u] = FALSE]
        /\ pc' = [pc EXCEPT ![t] = "user"]
        /\ peer' = [peer EXCEPT ![t] = NoThread]
        /\ holder' = [holder EXCEPT ![u] = IF holder[u] = t THEN NoThread ELSE holder[u]]
        /\ UNCHANGED << back, obj, state, timeout, timedOut, waitObj, afterParking, cause,
                    waiting, monitor, runnables, inHand, index, parents, spawning, joiner,
                    awakening, nativeQueue, polled>>
        /\ pc[t] = "unparkHolds"
        /\ state[t] = "RUNNING"
        /\ state[u] # "RUNNING"
        /\ u # t
        /\ pc[u] \notin Outside
    BY <1>i DEF unpark, getAndSetParkedState, onWrappedWaitingInterrupt, ThreadFits, TargetFits,
       StateFits, Set, Goto, Sleep, Event, waitVars, schedVars, spawnVars, joinVars, nativeVars,
       At, Outside, ResumesAt, TargetsAt, FlagsAt, RunsAt, OneActive, Active
  <1>2. /\ \A w \in Threads : unparked'[w] = IF w = u THEN ~parked[u] ELSE unparked[w]
        /\ \A w \in Threads : parked'[w] = IF w = u THEN FALSE ELSE parked[w]
        /\ \A w \in Threads : pc'[w] = IF w = t THEN "user" ELSE pc[w]
        /\ \A w \in Threads : peer'[w] = IF w = t THEN NoThread ELSE peer[w]
    BY <1>i, <1>1, Domains
  <1>3. TypeOK'
    BY <1>i, <1>1 DEF TypeOK, Labels, States, ResumesAt
  <1>4. OneActive'
    BY <1>i, <1>1, <1>2 DEF OneActive, Active
  <1>5. ASSUME NEW w \in Threads PROVE ThreadFits(w)'
    <2>1. StateFits(w)'
      BY <1>i, <1>1, <1>2 DEF ThreadFits, StateFits, OneActive, Active, At, Outside, ResumesAt,
         TargetsAt, FlagsAt, RunsAt
    <2>2. PlaceFits(w)'
      BY <1>i, <1>1, <1>2 DEF ThreadFits, PlaceFits, At, Outside, ResumesAt, TargetsAt, FlagsAt,
         RunsAt
    <2>3. ParkFits(w)'
      BY <1>i, <1>1, <1>2 DEF ThreadFits, ParkFits, PlaceFits, At, Outside, ResumesAt,
         TargetsAt, FlagsAt, RunsAt
    <2>4. NativeFits(w)'
      BY <1>i, <1>1, <1>2 DEF ThreadFits, NativeFits, StateFits
    <2>5. TargetFits(w)'
      BY <1>i, <1>1, <1>2 DEF ThreadFits, TargetFits, isNotification, StateFits, OneActive,
         Active, At, Outside, ResumesAt, TargetsAt, FlagsAt, RunsAt
    <2>6. CauseFits(w)'
      BY <1>i, <1>1, <1>2 DEF ThreadFits, CauseFits, PlaceFits, BeingFlagged, At, Outside,
         ResumesAt, TargetsAt, FlagsAt, RunsAt
    <2>7. JoinFits(w)'
      BY <1>i, <1>1, <1>2 DEF ThreadFits, JoinFits, PlaceFits, TypeOK, At, Outside, ResumesAt,
         TargetsAt, FlagsAt, RunsAt
    <2> QED BY <2>1, <2>2, <2>3, <2>4, <2>5, <2>6, <2>7 DEF ThreadFits
  <1>6. RegistryIsAccurate'
    <2>1. \A w \in Threads, o \in Objects : InWait(w, o) => InWait(w, o)'
      BY <1>i, <1>1, <1>2 DEF InWait, ThreadFits, StateFits, At, Outside, ResumesAt, TargetsAt,
         FlagsAt, RunsAt
    <2> QED BY <2>1, <1>i, <1>1, RegistryKept
  <1>7. SpawnCountIsAccurate'
    BY <1>i, <1>1, <1>2, SpawnsKept DEF At, Outside, ResumesAt, TargetsAt, FlagsAt, RunsAt
  <1> QED BY <1>3, <1>4, <1>5, <1>6, <1>7 DEF EventsInv

LEMMA unpark_Timed ==
  ASSUME EventsInv, NEW t \in Threads, NEW u \in Threads,
         unpark(t), peer[t] = u, parked[u], timeout[u] > 0
  PROVE  EventsInv'
  <1>i. /\ TypeOK /\ OneActive /\ RegistryIsAccurate /\ SpawnCountIsAccurate
        /\ \A w \in Threads : ThreadFits(w)
    BY DEF EventsInv
  <1>a. ~(timeout[u] <= 0)
    BY <1>i DEF TypeOK
  <1>1. /\ unparked' = [unparked EXCEPT ![u] = ~parked[u]]
        /\ parked' = [parked EXCEPT ![u] = FALSE]
        /\ pc' = [pc EXCEPT ![t] = "user"]
        /\ peer' = [peer EXCEPT ![t] = NoThread]
        /\ holder' = [holder EXCEPT ![u] = IF holder[u] = t THEN NoThread ELSE holder[u]]
        /\ timedOut' = [timedOut EXCEPT ![u] = FALSE]
        /\ UNCHANGED << back, obj, state, timeout, waitObj, afterParking, cause, waiting,
                    monitor, runnables, inHand, index, parents, spawning, joiner, awakening,
                    nativeQueue, polled>>
        /\ pc[t] = "unparkHolds"
        /\ state[t] = "RUNNING"
        /\ state[u] # "RUNNING"
        /\ u # t
        /\ pc[u] \notin Outside
    BY <1>i, <1>a DEF unpark, getAndSetParkedState, onWrappedWaitingInterrupt, ThreadFits,
       TargetFits, StateFits, Set, Goto, Sleep, Event, waitVars, schedVars, spawnVars, joinVars,
       nativeVars, At, Outside, ResumesAt, TargetsAt, FlagsAt, RunsAt, OneActive, Active
  <1>2. /\ \A w \in Threads : unparked'[w] = IF w = u THEN ~parked[u] ELSE unparked[w]
        /\ \A w \in Threads : parked'[w] = IF w = u THEN FALSE ELSE parked[w]
        /\ \A w \in Threads : pc'[w] = IF w = t THEN "user" ELSE pc[w]
        /\ \A w \in Threads : peer'[w] = IF w = t THEN NoThread ELSE peer[w]
        /\ \A w \in Threads : timedOut'[w] = IF w = u THEN FALSE ELSE timedOut[w]
    BY <1>i, <1>1, Domains
  <1>3. TypeOK'
    BY <1>i, <1>1 DEF TypeOK, Labels, States, ResumesAt
  <1>4. OneActive'
    BY <1>i, <1>1, <1>2 DEF OneActive, Active
  <1>5. ASSUME NEW w \in Threads PROVE ThreadFits(w)'
    <2>1. StateFits(w)'
      BY <1>i, <1>1, <1>2 DEF ThreadFits, StateFits, OneActive, Active, At, Outside, ResumesAt,
         TargetsAt, FlagsAt, RunsAt
    <2>2. PlaceFits(w)'
      BY <1>i, <1>1, <1>2 DEF ThreadFits, PlaceFits, At, Outside, ResumesAt, TargetsAt, FlagsAt,
         RunsAt
    <2>3. ParkFits(w)'
      <3>1. CASE w = u
        <4>1. ~parked'[u] /\ timeout'[u] = timeout[u] /\ pc'[u] = pc[u]
          BY <1>i, <1>1, <1>2
        <4> QED BY <3>1, <4>1, <1>i DEF ThreadFits, ParkFits
      <3>2. CASE w = t
        BY <3>2, <1>i, <1>1, <1>2 DEF ThreadFits, ParkFits, At
      <3>3. CASE w \notin {t, u}
        BY <3>3, <1>i, <1>1, <1>2 DEF ThreadFits, ParkFits, At
      <3> QED BY <3>1, <3>2, <3>3
    <2>4. NativeFits(w)'
      BY <1>i, <1>1, <1>2 DEF ThreadFits, NativeFits, StateFits
    <2>5. TargetFits(w)'
      BY <1>i, <1>1, <1>2 DEF ThreadFits, TargetFits, isNotification, StateFits, OneActive,
         Active, At, Outside, ResumesAt, TargetsAt, FlagsAt, RunsAt
    <2>6. CauseFits(w)'
      BY <1>i, <1>1, <1>2 DEF ThreadFits, CauseFits, PlaceFits, BeingFlagged, At, Outside,
         ResumesAt, TargetsAt, FlagsAt, RunsAt, ParkFits
    <2>7. JoinFits(w)'
      BY <1>i, <1>1, <1>2 DEF ThreadFits, JoinFits, PlaceFits, TypeOK, At, Outside, ResumesAt,
         TargetsAt, FlagsAt, RunsAt
    <2> QED BY <2>1, <2>2, <2>3, <2>4, <2>5, <2>6, <2>7 DEF ThreadFits
  <1>6. RegistryIsAccurate'
    <2>1. \A w \in Threads, o \in Objects : InWait(w, o) => InWait(w, o)'
      BY <1>i, <1>1, <1>2 DEF InWait, ThreadFits, StateFits, At, Outside, ResumesAt, TargetsAt,
         FlagsAt, RunsAt
    <2> QED BY <2>1, <1>i, <1>1, RegistryKept
  <1>7. SpawnCountIsAccurate'
    BY <1>i, <1>1, <1>2, SpawnsKept DEF At, Outside, ResumesAt, TargetsAt, FlagsAt, RunsAt
  <1> QED BY <1>3, <1>4, <1>5, <1>6, <1>7 DEF EventsInv

LEMMA unpark_Untimed ==
  ASSUME EventsInv, NEW t \in Threads, NEW u \in Threads,
         unpark(t), peer[t] = u, parked[u], ~(timeout[u] > 0)
  PROVE  EventsInv'
  <1>i. /\ TypeOK /\ OneActive /\ RegistryIsAccurate /\ SpawnCountIsAccurate
        /\ \A w \in Threads : ThreadFits(w)
    BY DEF EventsInv
  <1>a. ParksApart => u \notin nativeQueue
    BY <1>i DEF ThreadFits, NativeFits, StateFits, ParkFits, ParksApart, TypeOK, Labels, At, RunsAt,
       ResumesAt, TargetsAt
  <1>1. /\ unparked' = [unparked EXCEPT ![u] = ~parked[u]]
        /\ parked' = [parked EXCEPT ![u] = FALSE]
        /\ pc' = [pc EXCEPT ![t] = "user"]
        /\ peer' = [peer EXCEPT ![t] = NoThread]
        /\ holder' = [holder EXCEPT ![u] = IF holder[u] = t THEN NoThread ELSE holder[u]]
        /\ timeout' = [timeout EXCEPT ![u] = 0]
        /\ afterParking' = [afterParking EXCEPT ![u] = FALSE]
        /\ state' = [state EXCEPT ![u] = "WAITING"]
        /\ timedOut' = [timedOut EXCEPT ![u] = FALSE]
        /\ UNCHANGED << back, obj, waitObj, cause, waiting, monitor, runnables, inHand, index,
                    parents, spawning, joiner, awakening, nativeQueue, polled>>
        /\ pc[t] = "unparkHolds"
        /\ state[t] = "RUNNING"
        /\ state[u] # "RUNNING"
        /\ u # t
        /\ pc[u] \notin Outside
    BY <1>i DEF unpark, getAndSetParkedState, onWrappedWaitingInterrupt, ThreadFits, TargetFits,
       StateFits, Set, Goto, Sleep, Event, waitVars, schedVars, spawnVars, joinVars, nativeVars,
       At, Outside, ResumesAt, TargetsAt, FlagsAt, RunsAt, OneActive, Active
  <1>2. /\ \A w \in Threads : unparked'[w] = IF w = u THEN ~parked[u] ELSE unparked[w]
        /\ \A w \in Threads : parked'[w] = IF w = u THEN FALSE ELSE parked[w]
        /\ \A w \in Threads : pc'[w] = IF w = t THEN "user" ELSE pc[w]
        /\ \A w \in Threads : peer'[w] = IF w = t THEN NoThread ELSE peer[w]
        /\ \A w \in Threads : timeout'[w] = IF w = u THEN 0 ELSE timeout[w]
        /\ \A w \in Threads : afterParking'[w] = IF w = u THEN FALSE ELSE afterParking[w]
        /\ \A w \in Threads : state'[w] = IF w = u THEN "WAITING" ELSE state[w]
        /\ \A w \in Threads : timedOut'[w] = IF w = u THEN FALSE ELSE timedOut[w]
    BY <1>i, <1>1, Domains
  <1>3. TypeOK'
    BY <1>i, <1>1 DEF TypeOK, Labels, States, ResumesAt
  <1>4. OneActive'
    BY <1>i, <1>1, <1>2 DEF OneActive, Active
  <1>5. ASSUME NEW w \in Threads PROVE ThreadFits(w)'
    <2>1. StateFits(w)'
      BY <1>i, <1>1, <1>2 DEF ThreadFits, StateFits, OneActive, Active, At, Outside, ResumesAt,
         TargetsAt, FlagsAt, RunsAt
    <2>2. PlaceFits(w)'
      BY <1>i, <1>1, <1>2 DEF ThreadFits, PlaceFits, At, Outside, ResumesAt, TargetsAt, FlagsAt,
         RunsAt
    <2>3. ParkFits(w)'
      <3>1. CASE w = u
        <4>1. ~parked'[u] /\ state'[u] = "WAITING" /\ timeout'[u] = 0
          BY <1>2
        <4> QED BY <4>1, <3>1 DEF ParkFits
      <3>2. CASE w = t
        BY <3>2, <1>i, <1>1, <1>2 DEF ThreadFits, ParkFits, At
      <3>3. CASE w \notin {t, u}
        BY <3>3, <1>i, <1>1, <1>2 DEF ThreadFits, ParkFits, At
      <3> QED BY <3>1, <3>2, <3>3
    <2>4. NativeFits(w)'
      BY <1>i, <1>1, <1>2, <1>a DEF ThreadFits, NativeFits, StateFits
    <2>5. TargetFits(w)'
      BY <1>i, <1>1, <1>2 DEF ThreadFits, TargetFits, isNotification, StateFits, OneActive,
         Active, At, Outside, ResumesAt, TargetsAt, FlagsAt, RunsAt
    <2>6. CauseFits(w)'
      BY <1>i, <1>1, <1>2 DEF ThreadFits, CauseFits, PlaceFits, BeingFlagged, At, Outside,
         ResumesAt, TargetsAt, FlagsAt, RunsAt
    <2>7. JoinFits(w)'
      BY <1>i, <1>1, <1>2 DEF ThreadFits, JoinFits, PlaceFits, TypeOK, At, Outside, ResumesAt,
         TargetsAt, FlagsAt, RunsAt
    <2> QED BY <2>1, <2>2, <2>3, <2>4, <2>5, <2>6, <2>7 DEF ThreadFits
  <1>6. RegistryIsAccurate'
    <2>1. \A w \in Threads, o \in Objects : InWait(w, o) => InWait(w, o)'
      BY <1>i, <1>1, <1>2 DEF InWait, ThreadFits, StateFits, At, Outside, ResumesAt, TargetsAt,
         FlagsAt, RunsAt
    <2> QED BY <2>1, <1>i, <1>1, RegistryKept
  <1>7. SpawnCountIsAccurate'
    BY <1>i, <1>1, <1>2, SpawnsKept DEF At, Outside, ResumesAt, TargetsAt, FlagsAt, RunsAt
  <1> QED BY <1>3, <1>4, <1>5, <1>6, <1>7 DEF EventsInv

LEMMA continueThread_Step ==
  ASSUME EventsInv, NEW t \in Threads,
         Cores = 1, continueThread(t)
  PROVE  EventsInv'
  <1>i. /\ TypeOK /\ OneActive /\ RegistryIsAccurate /\ SpawnCountIsAccurate
        /\ \A w \in Threads : ThreadFits(w)
    BY DEF EventsInv
  <1>1. /\ runnables' = runnables \ {t}
        /\ inHand' = inHand \cup {t}
        /\ UNCHANGED << pc, back, obj, peer, state, timeout, timedOut, waitObj, parked, unparked,
                    afterParking, cause, waiting, monitor, holder, index, parents, spawning,
                    joiner, awakening, nativeQueue, polled>>
        /\ state[t] = "SUSPENDED"
        /\ \A w \in Threads : ~Active(w)
    BY <1>i, FreeMeansNobody DEF continueThread, Set, Goto, Sleep, Event, waitVars, schedVars,
       spawnVars, joinVars, nativeVars
  <1>3. TypeOK'
    BY <1>i, <1>1 DEF TypeOK, Labels, States, ResumesAt
  <1>4. OneActive'
    BY <1>i, <1>1 DEF OneActive, Active
  <1>5. ASSUME NEW w \in Threads PROVE ThreadFits(w)'
    <2>1. StateFits(w)'
      BY <1>i, <1>1 DEF ThreadFits, StateFits, OneActive, Active, At, Outside, ResumesAt,
         TargetsAt, FlagsAt, RunsAt
    <2>2. PlaceFits(w)'
      BY <1>i, <1>1 DEF ThreadFits, PlaceFits, At, Outside, ResumesAt, TargetsAt, FlagsAt,
         RunsAt
    <2>3. ParkFits(w)'
      BY <1>i, <1>1 DEF ThreadFits, ParkFits, PlaceFits, At, Outside, ResumesAt, TargetsAt,
         FlagsAt, RunsAt
    <2>4. NativeFits(w)'
      BY <1>i, <1>1 DEF ThreadFits, NativeFits, StateFits
    <2>5. TargetFits(w)'
      BY <1>i, <1>1 DEF ThreadFits, TargetFits, isNotification, StateFits, OneActive, Active,
         At, Outside, ResumesAt, TargetsAt, FlagsAt, RunsAt
    <2>6. CauseFits(w)'
      BY <1>i, <1>1 DEF ThreadFits, CauseFits, PlaceFits, BeingFlagged, At, Outside, ResumesAt,
         TargetsAt, FlagsAt, RunsAt
    <2>7. JoinFits(w)'
      BY <1>i, <1>1 DEF ThreadFits, JoinFits, PlaceFits, TypeOK, At, Outside, ResumesAt,
         TargetsAt, FlagsAt, RunsAt
    <2> QED BY <2>1, <2>2, <2>3, <2>4, <2>5, <2>6, <2>7 DEF ThreadFits
  <1>6. RegistryIsAccurate'
    <2>1. \A w \in Threads, o \in Objects : InWait(w, o) => InWait(w, o)'
      BY <1>i, <1>1 DEF InWait, ThreadFits, StateFits, At, Outside, ResumesAt, TargetsAt,
         FlagsAt, RunsAt
    <2> QED BY <2>1, <1>i, <1>1, RegistryKept
  <1>7. SpawnCountIsAccurate'
    BY <1>i, <1>1, SpawnsKept DEF At, Outside, ResumesAt, TargetsAt, FlagsAt, RunsAt
  <1> QED BY <1>3, <1>4, <1>5, <1>6, <1>7 DEF EventsInv

LEMMA resumeThread_Step ==
  ASSUME EventsInv, NEW t \in Threads,
         resumeThread(t)
  PROVE  EventsInv'
  <1>i. /\ TypeOK /\ OneActive /\ RegistryIsAccurate /\ SpawnCountIsAccurate
        /\ \A w \in Threads : ThreadFits(w)
    BY DEF EventsInv
  <1>1. /\ inHand' = inHand \ {t}
        /\ state' = [state EXCEPT ![t] = "RUNNING"]
        /\ timeout' = [timeout EXCEPT ![t] = IF timeout[t] = 0 THEN -1 ELSE timeout[t]]
        /\ pc' = [pc EXCEPT ![t] = back[t]]
        /\ back' = [back EXCEPT ![t] = "user"]
        /\ UNCHANGED << obj, peer, timedOut, waitObj, parked, unparked, afterParking, cause,
                    waiting, monitor, runnables, holder, index, parents, spawning, joiner,
                    awakening, nativeQueue, polled>>
        /\ t \in inHand
        /\ pc[t] = "asleep"
        /\ state[t] = "SUSPENDED"
        /\ back[t] \in ResumesAt
    BY <1>i DEF resumeThread, ThreadFits, StateFits, PlaceFits, Set, Goto, Sleep, Event,
       waitVars, schedVars, spawnVars, joinVars, nativeVars
  <1>2. /\ \A w \in Threads : state'[w] = IF w = t THEN "RUNNING" ELSE state[w]
        /\ \A w \in Threads : timeout'[w] = IF w = t THEN IF timeout[t] = 0 THEN -1 ELSE timeout[t] ELSE timeout[w]
        /\ \A w \in Threads : pc'[w] = IF w = t THEN back[t] ELSE pc[w]
        /\ \A w \in Threads : back'[w] = IF w = t THEN "user" ELSE back[w]
    BY <1>i, <1>1, Domains
  <1>3. TypeOK'
    BY <1>i, <1>1 DEF TypeOK, Labels, States, ResumesAt
  <1>4. OneActive'
    BY <1>i, <1>1, <1>2 DEF OneActive, Active
  <1>5. ASSUME NEW w \in Threads PROVE ThreadFits(w)'
    <2>1. StateFits(w)'
      BY <1>i, <1>1, <1>2 DEF ThreadFits, StateFits, OneActive, Active, At, Outside, ResumesAt,
         TargetsAt, FlagsAt, RunsAt
    <2>2. PlaceFits(w)'
      BY <1>i, <1>1, <1>2 DEF ThreadFits, PlaceFits, At, Outside, ResumesAt, TargetsAt, FlagsAt,
         RunsAt
    <2>3. ParkFits(w)'
      BY <1>i, <1>1, <1>2 DEF ThreadFits, ParkFits, PlaceFits, At, Outside, ResumesAt,
         TargetsAt, FlagsAt, RunsAt
    <2>4. NativeFits(w)'
      BY <1>i, <1>1, <1>2 DEF ThreadFits, NativeFits, StateFits
    <2>5. TargetFits(w)'
      BY <1>i, <1>1, <1>2 DEF ThreadFits, TargetFits, isNotification, StateFits, OneActive,
         Active, At, Outside, ResumesAt, TargetsAt, FlagsAt, RunsAt
    <2>6. CauseFits(w)'
      BY <1>i, <1>1, <1>2 DEF ThreadFits, CauseFits, PlaceFits, BeingFlagged, At, Outside,
         ResumesAt, TargetsAt, FlagsAt, RunsAt
    <2>7. JoinFits(w)'
      BY <1>i, <1>1, <1>2 DEF ThreadFits, JoinFits, PlaceFits, TypeOK, At, Outside, ResumesAt,
         TargetsAt, FlagsAt, RunsAt
    <2> QED BY <2>1, <2>2, <2>3, <2>4, <2>5, <2>6, <2>7 DEF ThreadFits
  <1>6. RegistryIsAccurate'
    <2>1. \A w \in Threads, o \in Objects : InWait(w, o) => InWait(w, o)'
      BY <1>i, <1>1, <1>2 DEF InWait, ThreadFits, StateFits, At, Outside, ResumesAt, TargetsAt,
         FlagsAt, RunsAt
    <2> QED BY <2>1, <1>i, <1>1, RegistryKept
  <1>7. SpawnCountIsAccurate'
    BY <1>i, <1>1, <1>2, SpawnsKept DEF At, Outside, ResumesAt, TargetsAt, FlagsAt, RunsAt
  <1> QED BY <1>3, <1>4, <1>5, <1>6, <1>7 DEF EventsInv

LEMMA setNativeWaiting_Step ==
  ASSUME EventsInv, NEW t \in Threads,
         setNativeWaiting(t)
  PROVE  EventsInv'
  <1>i. /\ TypeOK /\ OneActive /\ RegistryIsAccurate /\ SpawnCountIsAccurate
        /\ \A w \in Threads : ThreadFits(w)
    BY DEF EventsInv
  <1>1. /\ state' = [state EXCEPT ![t] = "NATIVE_WAITING"]
        /\ nativeQueue' = nativeQueue \cup {t}
        /\ polled' = polled \ {t}
        /\ UNCHANGED << pc, back, obj, peer, timeout, timedOut, waitObj, parked, unparked,
                    afterParking, cause, waiting, monitor, runnables, holder, inHand, index,
                    parents, spawning, joiner, awakening>>
        /\ state[t] = "RUNNING"
        /\ pc[t] = "user"
        /\ "native" \in Ops[t]
    BY <1>i DEF setNativeWaiting, Set, Goto, Sleep, Event, waitVars, schedVars, spawnVars,
       joinVars, nativeVars
  <1>2. /\ \A w \in Threads : state'[w] = IF w = t THEN "NATIVE_WAITING" ELSE state[w]
    BY <1>i, <1>1, Domains
  <1>3. TypeOK'
    BY <1>i, <1>1 DEF TypeOK, Labels, States, ResumesAt
  <1>4. OneActive'
    BY <1>i, <1>1, <1>2 DEF OneActive, Active
  <1>5. ASSUME NEW w \in Threads PROVE ThreadFits(w)'
    <2>1. StateFits(w)'
      BY <1>i, <1>1, <1>2 DEF ThreadFits, StateFits, OneActive, Active, At, Outside, ResumesAt,
         TargetsAt, FlagsAt, RunsAt
    <2>2. PlaceFits(w)'
      BY <1>i, <1>1, <1>2 DEF ThreadFits, PlaceFits, At, Outside, ResumesAt, TargetsAt, FlagsAt,
         RunsAt
    <2>3. ParkFits(w)'
      BY <1>i, <1>1, <1>2 DEF ThreadFits, ParkFits, PlaceFits, At, Outside, ResumesAt,
         TargetsAt, FlagsAt, RunsAt
    <2>4. NativeFits(w)'
      BY <1>i, <1>1, <1>2 DEF ThreadFits, NativeFits, StateFits
    <2>5. TargetFits(w)'
      BY <1>i, <1>1, <1>2 DEF ThreadFits, TargetFits, isNotification, StateFits, OneActive,
         Active, At, Outside, ResumesAt, TargetsAt, FlagsAt, RunsAt
    <2>6. CauseFits(w)'
      BY <1>i, <1>1, <1>2 DEF ThreadFits, CauseFits, PlaceFits, BeingFlagged, At, Outside,
         ResumesAt, TargetsAt, FlagsAt, RunsAt
    <2>7. JoinFits(w)'
      BY <1>i, <1>1, <1>2 DEF ThreadFits, JoinFits, PlaceFits, TypeOK, At, Outside, ResumesAt,
         TargetsAt, FlagsAt, RunsAt
    <2> QED BY <2>1, <2>2, <2>3, <2>4, <2>5, <2>6, <2>7 DEF ThreadFits
  <1>6. RegistryIsAccurate'
    <2>1. \A w \in Threads, o \in Objects : InWait(w, o) => InWait(w, o)'
      BY <1>i, <1>1, <1>2 DEF InWait, ThreadFits, StateFits, At, Outside, ResumesAt, TargetsAt,
         FlagsAt, RunsAt
    <2> QED BY <2>1, <1>i, <1>1, RegistryKept
  <1>7. SpawnCountIsAccurate'
    BY <1>i, <1>1, <1>2, SpawnsKept DEF At, Outside, ResumesAt, TargetsAt, FlagsAt, RunsAt
  <1> QED BY <1>3, <1>4, <1>5, <1>6, <1>7 DEF EventsInv

LEMMA pollNativeWaitingThreads_Step ==
  ASSUME EventsInv, NEW t \in Threads,
         pollNativeWaitingThreads(t)
  PROVE  EventsInv'
  <1>i. /\ TypeOK /\ OneActive /\ RegistryIsAccurate /\ SpawnCountIsAccurate
        /\ \A w \in Threads : ThreadFits(w)
    BY DEF EventsInv
  <1>1. /\ polled' = polled \cup {t}
        /\ UNCHANGED << pc, back, obj, peer, state, timeout, timedOut, waitObj, parked, unparked,
                    afterParking, cause, waiting, monitor, runnables, holder, inHand, index,
                    parents, spawning, joiner, awakening, nativeQueue>>
    BY <1>i DEF pollNativeWaitingThreads, Set, Goto, Sleep, Event, waitVars, schedVars,
       spawnVars, joinVars, nativeVars
  <1>3. TypeOK'
    BY <1>i, <1>1 DEF TypeOK, Labels, States, ResumesAt
  <1>4. OneActive'
    BY <1>i, <1>1 DEF OneActive, Active
  <1>5. ASSUME NEW w \in Threads PROVE ThreadFits(w)'
    <2>1. StateFits(w)'
      BY <1>i, <1>1 DEF ThreadFits, StateFits, OneActive, Active, At, Outside, ResumesAt,
         TargetsAt, FlagsAt, RunsAt
    <2>2. PlaceFits(w)'
      BY <1>i, <1>1 DEF ThreadFits, PlaceFits, At, Outside, ResumesAt, TargetsAt, FlagsAt,
         RunsAt
    <2>3. ParkFits(w)'
      BY <1>i, <1>1 DEF ThreadFits, ParkFits, PlaceFits, At, Outside, ResumesAt, TargetsAt,
         FlagsAt, RunsAt
    <2>4. NativeFits(w)'
      BY <1>i, <1>1 DEF ThreadFits, NativeFits, StateFits
    <2>5. TargetFits(w)'
      BY <1>i, <1>1 DEF ThreadFits, TargetFits, isNotification, StateFits, OneActive, Active,
         At, Outside, ResumesAt, TargetsAt, FlagsAt, RunsAt
    <2>6. CauseFits(w)'
      BY <1>i, <1>1 DEF ThreadFits, CauseFits, PlaceFits, BeingFlagged, At, Outside, ResumesAt,
         TargetsAt, FlagsAt, RunsAt
    <2>7. JoinFits(w)'
      BY <1>i, <1>1 DEF ThreadFits, JoinFits, PlaceFits, TypeOK, At, Outside, ResumesAt,
         TargetsAt, FlagsAt, RunsAt
    <2> QED BY <2>1, <2>2, <2>3, <2>4, <2>5, <2>6, <2>7 DEF ThreadFits
  <1>6. RegistryIsAccurate'
    <2>1. \A w \in Threads, o \in Objects : InWait(w, o) => InWait(w, o)'
      BY <1>i, <1>1 DEF InWait, ThreadFits, StateFits, At, Outside, ResumesAt, TargetsAt,
         FlagsAt, RunsAt
    <2> QED BY <2>1, <1>i, <1>1, RegistryKept
  <1>7. SpawnCountIsAccurate'
    BY <1>i, <1>1, SpawnsKept DEF At, Outside, ResumesAt, TargetsAt, FlagsAt, RunsAt
  <1> QED BY <1>3, <1>4, <1>5, <1>6, <1>7 DEF EventsInv

LEMMA stillNativeWaiting_Step ==
  ASSUME EventsInv, NEW t \in Threads,
         stillNativeWaiting(t)
  PROVE  EventsInv'
  <1>i. /\ TypeOK /\ OneActive /\ RegistryIsAccurate /\ SpawnCountIsAccurate
        /\ \A w \in Threads : ThreadFits(w)
    BY DEF EventsInv
  <1>1. /\ polled' = polled \ {t}
        /\ UNCHANGED << pc, back, obj, peer, state, timeout, timedOut, waitObj, parked, unparked,
                    afterParking, cause, waiting, monitor, runnables, holder, inHand, index,
                    parents, spawning, joiner, awakening, nativeQueue>>
    BY <1>i DEF stillNativeWaiting, Set, Goto, Sleep, Event, waitVars, schedVars, spawnVars,
       joinVars, nativeVars
  <1>3. TypeOK'
    BY <1>i, <1>1 DEF TypeOK, Labels, States, ResumesAt
  <1>4. OneActive'
    BY <1>i, <1>1 DEF OneActive, Active
  <1>5. ASSUME NEW w \in Threads PROVE ThreadFits(w)'
    <2>1. StateFits(w)'
      BY <1>i, <1>1 DEF ThreadFits, StateFits, OneActive, Active, At, Outside, ResumesAt,
         TargetsAt, FlagsAt, RunsAt
    <2>2. PlaceFits(w)'
      BY <1>i, <1>1 DEF ThreadFits, PlaceFits, At, Outside, ResumesAt, TargetsAt, FlagsAt,
         RunsAt
    <2>3. ParkFits(w)'
      BY <1>i, <1>1 DEF ThreadFits, ParkFits, PlaceFits, At, Outside, ResumesAt, TargetsAt,
         FlagsAt, RunsAt
    <2>4. NativeFits(w)'
      BY <1>i, <1>1 DEF ThreadFits, NativeFits, StateFits
    <2>5. TargetFits(w)'
      BY <1>i, <1>1 DEF ThreadFits, TargetFits, isNotification, StateFits, OneActive, Active,
         At, Outside, ResumesAt, TargetsAt, FlagsAt, RunsAt
    <2>6. CauseFits(w)'
      BY <1>i, <1>1 DEF ThreadFits, CauseFits, PlaceFits, BeingFlagged, At, Outside, ResumesAt,
         TargetsAt, FlagsAt, RunsAt
    <2>7. JoinFits(w)'
      BY <1>i, <1>1 DEF ThreadFits, JoinFits, PlaceFits, TypeOK, At, Outside, ResumesAt,
         TargetsAt, FlagsAt, RunsAt
    <2> QED BY <2>1, <2>2, <2>3, <2>4, <2>5, <2>6, <2>7 DEF ThreadFits
  <1>6. RegistryIsAccurate'
    <2>1. \A w \in Threads, o \in Objects : InWait(w, o) => InWait(w, o)'
      BY <1>i, <1>1 DEF InWait, ThreadFits, StateFits, At, Outside, ResumesAt, TargetsAt,
         FlagsAt, RunsAt
    <2> QED BY <2>1, <1>i, <1>1, RegistryKept
  <1>7. SpawnCountIsAccurate'
    BY <1>i, <1>1, SpawnsKept DEF At, Outside, ResumesAt, TargetsAt, FlagsAt, RunsAt
  <1> QED BY <1>3, <1>4, <1>5, <1>6, <1>7 DEF EventsInv

LEMMA suspendLooseCurrentThread_Step ==
  ASSUME EventsInv, NEW t \in Threads,
         suspendLooseCurrentThread(t)
  PROVE  EventsInv'
  <1>i. /\ TypeOK /\ OneActive /\ RegistryIsAccurate /\ SpawnCountIsAccurate
        /\ \A w \in Threads : ThreadFits(w)
    BY DEF EventsInv
  <1>1. /\ state' = [state EXCEPT ![t] = "SUSPENDED"]
        /\ timedOut' = [timedOut EXCEPT ![t] = TRUE]
        /\ timeout' = [timeout EXCEPT ![t] = -1]
        /\ runnables' = runnables \cup {t}
        /\ nativeQueue' = nativeQueue \ {t}
        /\ pc' = [pc EXCEPT ![t] = "asleep"]
        /\ back' = [back EXCEPT ![t] = "user"]
        /\ UNCHANGED << obj, peer, waitObj, parked, unparked, afterParking, cause, waiting,
                    monitor, holder, inHand, index, parents, spawning, joiner, awakening,
                    polled>>
        /\ pc[t] = "user"
        /\ state[t] # "RUNNING"
    BY <1>i DEF suspendLooseCurrentThread, unsetNativeWaiting, setSuspendedAndPush, ThreadFits,
       StateFits, RunsAt, ResumesAt, Set, Goto, Sleep, Event, waitVars, schedVars, spawnVars,
       joinVars, nativeVars
  <1>2. /\ \A w \in Threads : state'[w] = IF w = t THEN "SUSPENDED" ELSE state[w]
        /\ \A w \in Threads : timedOut'[w] = IF w = t THEN TRUE ELSE timedOut[w]
        /\ \A w \in Threads : timeout'[w] = IF w = t THEN -1 ELSE timeout[w]
        /\ \A w \in Threads : pc'[w] = IF w = t THEN "asleep" ELSE pc[w]
        /\ \A w \in Threads : back'[w] = IF w = t THEN "user" ELSE back[w]
    BY <1>i, <1>1, Domains
  <1>3. TypeOK'
    BY <1>i, <1>1 DEF TypeOK, Labels, States, ResumesAt
  <1>4. OneActive'
    BY <1>i, <1>1, <1>2 DEF OneActive, Active
  <1>5. ASSUME NEW w \in Threads PROVE ThreadFits(w)'
    <2>1. StateFits(w)'
      BY <1>i, <1>1, <1>2 DEF ThreadFits, StateFits, OneActive, Active, At, Outside, ResumesAt,
         TargetsAt, FlagsAt, RunsAt
    <2>2. PlaceFits(w)'
      BY <1>i, <1>1, <1>2 DEF ThreadFits, PlaceFits, At, Outside, ResumesAt, TargetsAt, FlagsAt,
         RunsAt
    <2>3. ParkFits(w)'
      BY <1>i, <1>1, <1>2 DEF ThreadFits, ParkFits, PlaceFits, At, Outside, ResumesAt,
         TargetsAt, FlagsAt, RunsAt
    <2>4. NativeFits(w)'
      BY <1>i, <1>1, <1>2 DEF ThreadFits, NativeFits, StateFits
    <2>5. TargetFits(w)'
      BY <1>i, <1>1, <1>2 DEF ThreadFits, TargetFits, isNotification, StateFits, OneActive,
         Active, At, Outside, ResumesAt, TargetsAt, FlagsAt, RunsAt
    <2>6. CauseFits(w)'
      BY <1>i, <1>1, <1>2 DEF ThreadFits, CauseFits, PlaceFits, BeingFlagged, At, Outside,
         ResumesAt, TargetsAt, FlagsAt, RunsAt
    <2>7. JoinFits(w)'
      BY <1>i, <1>1, <1>2 DEF ThreadFits, JoinFits, PlaceFits, TypeOK, At, Outside, ResumesAt,
         TargetsAt, FlagsAt, RunsAt
    <2> QED BY <2>1, <2>2, <2>3, <2>4, <2>5, <2>6, <2>7 DEF ThreadFits
  <1>6. RegistryIsAccurate'
    <2>1. \A w \in Threads, o \in Objects : InWait(w, o) => InWait(w, o)'
      BY <1>i, <1>1, <1>2 DEF InWait, ThreadFits, StateFits, At, Outside, ResumesAt, TargetsAt,
         FlagsAt, RunsAt
    <2> QED BY <2>1, <1>i, <1>1, RegistryKept
  <1>7. SpawnCountIsAccurate'
    BY <1>i, <1>1, <1>2, SpawnsKept DEF At, Outside, ResumesAt, TargetsAt, FlagsAt, RunsAt
  <1> QED BY <1>3, <1>4, <1>5, <1>6, <1>7 DEF EventsInv

LEMMA Interrupt_Step ==
  ASSUME EventsInv, NEW t \in Threads, NEW u \in Threads, NEW reg, NEW why, NEW next, NEW otherwise,
         interruptThread(t, u, reg, why, next, otherwise),
         u # NoThread /\ isWaiting(u),
         u \in index,
         state[t] = "RUNNING",
         pc[t] \in {"user", "broadcasting"},
         why \in {"notify", "interrupt"},
         next \in FlagsAt,
         next = "flagInterrupt" <=> why = "interrupt",
         reg \in [Objects -> Seq(Threads)],
         \A o \in Objects : IsInjective(reg[o]),
         \A o \in Objects : \A i \in DOMAIN reg[o] : InWait(reg[o][i], o),
         obj' \in [Threads -> Objects \cup {0}],
         \A w \in Threads \ {t} : obj'[w] = obj[w],
         next = "flagBroadcast" => obj'[t] \in Objects,
         monitor' \in [Objects -> Threads \cup {NoThread}]
  PROVE  EventsInv'
  <1>i. /\ TypeOK /\ OneActive /\ RegistryIsAccurate /\ SpawnCountIsAccurate
        /\ \A w \in Threads : ThreadFits(w)
    BY DEF EventsInv
  <1>1. /\ timedOut' = [timedOut EXCEPT ![u] = FALSE]
        /\ state' = [state EXCEPT ![u] = "SUSPENDED"]
        /\ cause' = [cause EXCEPT ![u] = why]
        /\ parked' = [parked EXCEPT ![u] = FALSE]
        /\ afterParking' = [afterParking EXCEPT ![u] = afterParking[u] \/ (parked[u] /\ timeout[u] > 0)]
        /\ timeout' = [timeout EXCEPT ![u] = IF timeout[u] < 0 THEN 0 ELSE timeout[u]]
        /\ waiting' = erase(reg, waitObj[u], u)
        /\ runnables' = IF timeout[u] \in {0, -2} THEN runnables \cup {u} ELSE runnables
        /\ peer' = [peer EXCEPT ![t] = u]
        /\ pc' = [pc EXCEPT ![t] = next]
        /\ UNCHANGED << back, waitObj, unparked, holder, inHand, index, parents, spawning,
                    joiner, awakening, nativeQueue, polled>>
        /\ state[u] = "WAITING"
        /\ u # t
    BY <1>i DEF interruptThread, onAnyReplacedWaitingInterrupt, beforeThreadInterruptAt,
       isWaiting, Set, Goto, Sleep, Event, waitVars, schedVars, spawnVars, joinVars, nativeVars
  <1>2. /\ \A w \in Threads : timedOut'[w] = IF w = u THEN FALSE ELSE timedOut[w]
        /\ \A w \in Threads : state'[w] = IF w = u THEN "SUSPENDED" ELSE state[w]
        /\ \A w \in Threads : cause'[w] = IF w = u THEN why ELSE cause[w]
        /\ \A w \in Threads : parked'[w] = IF w = u THEN FALSE ELSE parked[w]
        /\ \A w \in Threads : afterParking'[w] = IF w = u THEN afterParking[u] \/ (parked[u] /\ timeout[u] > 0) ELSE afterParking[w]
        /\ \A w \in Threads : timeout'[w] = IF w = u THEN IF timeout[u] < 0 THEN 0 ELSE timeout[u] ELSE timeout[w]
        /\ \A w \in Threads : peer'[w] = IF w = t THEN u ELSE peer[w]
        /\ \A w \in Threads : pc'[w] = IF w = t THEN next ELSE pc[w]
    BY <1>i, <1>1, Domains
  <1>a. At(t)' = next /\ \A w \in Threads \ {t} : At(w)' = At(w)
    BY <1>1, <1>2 DEF At, FlagsAt
  <1>3. TypeOK'
    <2>1. waiting' \in [Objects -> Seq(Threads)]
      BY <1>i, <1>1, WaiterErased
    <2>2. timeout' \in [Threads -> -2 .. 1]
      BY <1>i, <1>1 DEF TypeOK
    <2>3. (afterParking[u] \/ (parked[u] /\ timeout[u] > 0)) \in BOOLEAN
      OBVIOUS
    <2>4. next \in Labels /\ why \in {"none", "notify", "interrupt", "timeout"}
      BY DEF Labels, FlagsAt
    <2> QED BY <2>1, <2>2, <2>3, <2>4, <1>i, <1>1 DEF TypeOK, Labels, States
  <1>4. OneActive'
    BY <1>i, <1>1, <1>2, <1>a DEF OneActive, Active
  <1>5. ASSUME NEW w \in Threads PROVE ThreadFits(w)'
    <2>1. StateFits(w)'
      BY <1>i, <1>1, <1>2, <1>a DEF ThreadFits, StateFits, OneActive, Active, At, Outside,
         ResumesAt, TargetsAt, FlagsAt, RunsAt
    <2>2. PlaceFits(w)'
      <3>1. CASE w = t
        BY <3>1, <1>i, <1>1, <1>2 DEF ThreadFits, PlaceFits, Outside, FlagsAt, ResumesAt
      <3>2. CASE w # t
        BY <3>2, <1>i, <1>1, <1>2 DEF ThreadFits, PlaceFits
      <3> QED BY <3>1, <3>2
    <2>3. ParkFits(w)'
      <3>0. At(w)' # "reenter" \/ At(w)' = At(w)
        BY <1>a DEF FlagsAt
      <3>1. CASE w = u
        <4>1. ~parked'[u] /\ pc'[u] = pc[u] /\ (timeout[u] <= 0 => timeout'[u] <= 0)
          BY <1>i, <1>1, <1>2 DEF TypeOK
        <4> QED BY <3>1, <4>1, <1>i DEF ThreadFits, ParkFits
      <3>2. CASE w = t
        <4>1. parked'[t] = parked[t] /\ unparked'[t] = unparked[t]
          BY <1>1, <1>2
        <4>2. pc'[t] = next /\ At(t)' = next
          BY <1>2, <1>a
        <4>3. At(t) \in {"user", "broadcasting"}
          BY DEF At
        <4> QED BY <3>2, <4>1, <4>2, <4>3, <1>i DEF ThreadFits, ParkFits, FlagsAt
      <3>3. CASE w \notin {t, u}
        BY <3>3, <1>i, <1>1, <1>2, <1>a DEF ThreadFits, ParkFits
      <3> QED BY <3>1, <3>2, <3>3
    <2>4. NativeFits(w)'
      BY <1>i, <1>1, <1>2, <1>a DEF ThreadFits, NativeFits, StateFits
    <2>5. TargetFits(w)'
      BY <1>i, <1>1, <1>2, <1>a DEF ThreadFits, TargetFits, isNotification, StateFits,
         OneActive, Active, At, Outside, ResumesAt, TargetsAt, FlagsAt, RunsAt, PlaceFits
    <2>6. CauseFits(w)'
      <3>1. CASE w = u
        BY <3>1, <1>1, <1>2 DEF CauseFits, BeingFlagged
      <3>2. CASE w = t
        BY <3>2, <1>a DEF CauseFits, FlagsAt
      <3>3. CASE w \notin {t, u}
        <4>1. ~BeingFlagged(w)
          BY <1>i, <1>1 DEF BeingFlagged, ThreadFits, StateFits, OneActive, Active, RunsAt, TargetsAt,
             FlagsAt
        <4> QED BY <3>3, <4>1, <1>i, <1>1, <1>2, <1>a DEF ThreadFits, CauseFits
      <3> QED BY <3>1, <3>2, <3>3
    <2>7. JoinFits(w)'
      <3>1. CASE joiner[w] = NoThread
        BY <3>1, <1>1 DEF JoinFits
      <3>2. CASE joiner[w] # NoThread
        <4>1. PICK j \in Threads : j = joiner[w] /\ j = joiner'[w]
          BY <3>2, <1>i, <1>1 DEF TypeOK
        <4>2. /\ pc[w] \notin {"unborn", "ignored"}
              /\ pc[w] # "deleted" => peer[j] = w /\ At(j) \in {"joining", "joinWait"}
          BY <3>2, <4>1, <1>i DEF ThreadFits, JoinFits
        <4>3. /\ pc'[w] \in {"unborn", "ignored"} => pc[w] = pc'[w]
              /\ pc[w] = "deleted" => pc'[w] = "deleted"
          BY <1>1, <1>2 DEF FlagsAt
        <4>4. j = t => At(j) \notin {"joining", "joinWait"}
          BY DEF At
        <4>5. j # t => peer'[j] = peer[j] /\ At(j)' = At(j)
          BY <1>2, <1>a
        <4> QED BY <4>1, <4>2, <4>3, <4>4, <4>5 DEF JoinFits
      <3> QED BY <3>1, <3>2
    <2> QED BY <2>1, <2>2, <2>3, <2>4, <2>5, <2>6, <2>7 DEF ThreadFits
  <1>6. RegistryIsAccurate'
    <2>0. waitObj[u] \in Objects \cup {0} /\ waiting' = erase(reg, waitObj[u], u)
      BY <1>i, <1>1 DEF TypeOK
    <2>1. /\ waiting' \in [Objects -> Seq(Threads)]
          /\ \A o \in Objects :
               /\ IsInjective(waiting'[o])
               /\ \A i \in DOMAIN waiting'[o] :
                    /\ \E j \in DOMAIN reg[o] : reg[o][j] = waiting'[o][i]
                    /\ o = waitObj[u] => waiting'[o][i] # u
      BY <2>0, <1>i, WaiterErased, Zenon
    <2>2. ASSUME NEW o \in Objects, NEW i \in DOMAIN waiting'[o]
          PROVE  InWait(waiting[o][i], o)'
      <3>1. PICK w \in Threads : w = waiting'[o][i]
        BY <2>1, <2>2
      <3>2. InWait(w, o) /\ (o = waitObj[u] => w # u)
        BY <2>1, <2>2, <3>1
      <3>3. pc[w] \notin {"user", "broadcasting"}
        BY <3>2 DEF InWait
      <3>4. w = u => pc[w] \notin {"listed", "listedTimed"}
        BY <1>i, <1>1 DEF ThreadFits, StateFits, RunsAt, ResumesAt
      <3> QED BY <3>1, <3>2, <3>3, <3>4, <1>1, <1>2 DEF InWait
    <2> QED BY <2>1, <2>2 DEF RegistryIsAccurate
  <1>7. SpawnCountIsAccurate'
    BY <1>i, <1>1, <1>2, <1>a, SpawnsKept DEF At, Outside, ResumesAt, TargetsAt, FlagsAt, RunsAt
  <1> QED BY <1>3, <1>4, <1>5, <1>6, <1>7 DEF EventsInv

LEMMA Passes_Step ==
  ASSUME EventsInv, NEW t \in Threads, NEW v, NEW reg, NEW why, NEW next, NEW otherwise,
         interruptThread(t, v, reg, why, next, otherwise),
         ~(v # NoThread /\ isWaiting(v)),
         otherwise = pc[t],
         reg \in [Objects -> Seq(Threads)],
         \A o \in Objects : IsInjective(reg[o]),
         \A o \in Objects : \A i \in DOMAIN reg[o] : InWait(reg[o][i], o),
         UNCHANGED <<obj, monitor>>
  PROVE  EventsInv'
  <1>i. /\ TypeOK /\ OneActive /\ RegistryIsAccurate /\ SpawnCountIsAccurate
        /\ \A w \in Threads : ThreadFits(w)
    BY DEF EventsInv
  <1>a. pc' = [pc EXCEPT ![t] = pc[t]]
    BY DEF interruptThread, Set, Goto
  <1>b. pc' = pc
    BY <1>a, <1>i DEF TypeOK
  <1>1. /\ waiting' = reg
        /\ UNCHANGED << pc, back, obj, peer, state, timeout, timedOut, waitObj, parked, unparked,
                    afterParking, cause, monitor, runnables, holder, inHand, index, parents,
                    spawning, joiner, awakening, nativeQueue, polled>>
    BY <1>b DEF interruptThread, Set, Goto, Sleep, Event, waitVars, schedVars, spawnVars,
       joinVars, nativeVars
  <1>3. TypeOK'
    BY <1>i, <1>1 DEF TypeOK, Labels, States, ResumesAt
  <1>4. OneActive'
    BY <1>i, <1>1 DEF OneActive, Active
  <1>5. ASSUME NEW w \in Threads PROVE ThreadFits(w)'
    <2>1. StateFits(w)'
      BY <1>i, <1>1 DEF ThreadFits, StateFits, OneActive, Active, At, Outside, ResumesAt,
         TargetsAt, FlagsAt, RunsAt
    <2>2. PlaceFits(w)'
      BY <1>i, <1>1 DEF ThreadFits, PlaceFits, At, Outside, ResumesAt, TargetsAt, FlagsAt,
         RunsAt
    <2>3. ParkFits(w)'
      BY <1>i, <1>1 DEF ThreadFits, ParkFits, PlaceFits, At, Outside, ResumesAt, TargetsAt,
         FlagsAt, RunsAt
    <2>4. NativeFits(w)'
      BY <1>i, <1>1 DEF ThreadFits, NativeFits, StateFits
    <2>5. TargetFits(w)'
      BY <1>i, <1>1 DEF ThreadFits, TargetFits, isNotification, StateFits, OneActive, Active,
         At, Outside, ResumesAt, TargetsAt, FlagsAt, RunsAt
    <2>6. CauseFits(w)'
      BY <1>i, <1>1 DEF ThreadFits, CauseFits, PlaceFits, BeingFlagged, At, Outside, ResumesAt,
         TargetsAt, FlagsAt, RunsAt
    <2>7. JoinFits(w)'
      BY <1>i, <1>1 DEF ThreadFits, JoinFits, PlaceFits, TypeOK, At, Outside, ResumesAt,
         TargetsAt, FlagsAt, RunsAt
    <2> QED BY <2>1, <2>2, <2>3, <2>4, <2>5, <2>6, <2>7 DEF ThreadFits
  <1>6. RegistryIsAccurate'
    <2>1. \A w \in Threads, o \in Objects : InWait(w, o) => InWait(w, o)'
      BY <1>1 DEF InWait
    <2> QED BY <2>1, <1>1 DEF RegistryIsAccurate
  <1>7. SpawnCountIsAccurate'
    BY <1>i, <1>1, SpawnsKept DEF At, Outside, ResumesAt, TargetsAt, FlagsAt, RunsAt
  <1> QED BY <1>3, <1>4, <1>5, <1>6, <1>7 DEF EventsInv

LEMMA interruptTimedWaiting_Step ==
  ASSUME EventsInv, NEW t \in Threads,
         Cores = 1, interruptTimedWaitingThread(t)
  PROVE  EventsInv'
  <1>i. /\ TypeOK /\ OneActive /\ RegistryIsAccurate /\ SpawnCountIsAccurate
        /\ \A w \in Threads : ThreadFits(w)
    BY DEF EventsInv
  <1>1. /\ timedOut' = [timedOut EXCEPT ![t] = TRUE]
        /\ state' = [state EXCEPT ![t] = "SUSPENDED"]
        /\ cause' = [cause EXCEPT ![t] = "timeout"]
        /\ parked' = [parked EXCEPT ![t] = FALSE]
        /\ afterParking' = [afterParking EXCEPT ![t] = afterParking[t] \/ (parked[t] /\ timeout[t] > 0)]
        /\ timeout' = [timeout EXCEPT ![t] = IF timeout[t] < 0 THEN 0 ELSE timeout[t]]
        /\ waiting' = erase(waiting, waitObj[t], t)
        /\ runnables' = runnables \ {t}
        /\ inHand' = inHand \cup {t}
        /\ UNCHANGED << pc, back, obj, peer, waitObj, unparked, monitor, holder, index, parents,
                    spawning, joiner, awakening, nativeQueue, polled>>
        /\ state[t] = "WAITING"
        /\ \A w \in Threads : ~Active(w)
    BY <1>i, FreeMeansNobody DEF interruptTimedWaitingThread, beforeThreadInterruptAt, Set,
       Goto, Sleep, Event, waitVars, schedVars, spawnVars, joinVars, nativeVars
  <1>2. /\ \A w \in Threads : timedOut'[w] = IF w = t THEN TRUE ELSE timedOut[w]
        /\ \A w \in Threads : state'[w] = IF w = t THEN "SUSPENDED" ELSE state[w]
        /\ \A w \in Threads : cause'[w] = IF w = t THEN "timeout" ELSE cause[w]
        /\ \A w \in Threads : parked'[w] = IF w = t THEN FALSE ELSE parked[w]
        /\ \A w \in Threads : afterParking'[w] = IF w = t THEN afterParking[t] \/ (parked[t] /\ timeout[t] > 0) ELSE afterParking[w]
        /\ \A w \in Threads : timeout'[w] = IF w = t THEN IF timeout[t] < 0 THEN 0 ELSE timeout[t] ELSE timeout[w]
    BY <1>i, <1>1, Domains
  <1>a. \A w \in Threads : At(w)' = At(w)
    BY <1>1 DEF At
  <1>3. TypeOK'
    <2>1. waiting' \in [Objects -> Seq(Threads)]
      BY <1>i, <1>1, Erased DEF TypeOK, RegistryIsAccurate
    <2>2. timeout' \in [Threads -> -2 .. 1]
      BY <1>i, <1>1 DEF TypeOK
    <2>3. (afterParking[t] \/ (parked[t] /\ timeout[t] > 0)) \in BOOLEAN
      OBVIOUS
    <2> QED BY <2>1, <2>2, <2>3, <1>i, <1>1 DEF TypeOK, Labels, States
  <1>4. OneActive'
    BY <1>i, <1>1, <1>2, <1>a DEF OneActive, Active
  <1>5. ASSUME NEW w \in Threads PROVE ThreadFits(w)'
    <2>1. StateFits(w)'
      BY <1>i, <1>1, <1>2, <1>a DEF ThreadFits, StateFits, OneActive, Active, At, Outside,
         ResumesAt, TargetsAt, FlagsAt, RunsAt
    <2>2. PlaceFits(w)'
      BY <1>i, <1>1, <1>2, <1>a DEF ThreadFits, PlaceFits, At, Outside, ResumesAt, TargetsAt,
         FlagsAt, RunsAt
    <2>3. ParkFits(w)'
      <3>1. CASE w = t
        <4>1. ~parked'[t] /\ pc'[t] = pc[t] /\ (timeout[t] <= 0 => timeout'[t] <= 0)
          BY <1>i, <1>1, <1>2 DEF TypeOK
        <4> QED BY <3>1, <4>1, <1>i DEF ThreadFits, ParkFits
      <3>2. CASE w # t
        BY <3>2, <1>i, <1>1, <1>2, <1>a DEF ThreadFits, ParkFits
      <3> QED BY <3>1, <3>2
    <2>4. NativeFits(w)'
      BY <1>i, <1>1, <1>2, <1>a DEF ThreadFits, NativeFits, StateFits
    <2>5. TargetFits(w)'
      BY <1>i, <1>1, <1>2, <1>a DEF ThreadFits, TargetFits, isNotification, StateFits,
         OneActive, Active, At, Outside, ResumesAt, TargetsAt, FlagsAt, RunsAt
    <2>6. CauseFits(w)'
      <3>1. CASE w = t
        BY <3>1, <1>2 DEF CauseFits
      <3>2. CASE w # t
        BY <3>2, <1>i, <1>1, <1>2, <1>a DEF ThreadFits, CauseFits, BeingFlagged
      <3> QED BY <3>1, <3>2
    <2>7. JoinFits(w)'
      BY <1>i, <1>1, <1>2, <1>a DEF ThreadFits, JoinFits, PlaceFits, TypeOK, At, Outside,
         ResumesAt, TargetsAt, FlagsAt, RunsAt
    <2> QED BY <2>1, <2>2, <2>3, <2>4, <2>5, <2>6, <2>7 DEF ThreadFits
  <1>6. RegistryIsAccurate'
    <2>0. waitObj[t] \in Objects \cup {0} /\ waiting' = erase(waiting, waitObj[t], t)
      BY <1>i, <1>1 DEF TypeOK
    <2>00. waiting \in [Objects -> Seq(Threads)] /\ \A o \in Objects : IsInjective(waiting[o])
      BY <1>i DEF TypeOK, RegistryIsAccurate
    <2>1. /\ waiting' \in [Objects -> Seq(Threads)]
          /\ \A o \in Objects :
               /\ IsInjective(waiting'[o])
               /\ \A i \in DOMAIN waiting'[o] :
                    /\ \E j \in DOMAIN waiting[o] : waiting[o][j] = waiting'[o][i]
                    /\ o = waitObj[t] => waiting'[o][i] # t
      BY <2>0, <2>00, <1>i, WaiterErased
    <2>2. ASSUME NEW o \in Objects, NEW i \in DOMAIN waiting'[o]
          PROVE  InWait(waiting[o][i], o)'
      <3>1. PICK w \in Threads : w = waiting'[o][i]
        BY <2>1, <2>2
      <3>2. InWait(w, o) /\ (o = waitObj[t] => w # t)
        BY <2>1, <2>2, <3>1, <1>i DEF RegistryIsAccurate
      <3>4. w = t => pc[w] \notin {"listed", "listedTimed"}
        BY <1>i, <1>1 DEF ThreadFits, StateFits, RunsAt, ResumesAt
      <3> QED BY <3>1, <3>2, <3>4, <1>1, <1>2 DEF InWait
    <2> QED BY <2>1, <2>2 DEF RegistryIsAccurate
  <1>7. SpawnCountIsAccurate'
    BY <1>i, <1>1, <1>2, <1>a, SpawnsKept DEF At, Outside, ResumesAt, TargetsAt, FlagsAt, RunsAt
  <1> QED BY <1>3, <1>4, <1>5, <1>6, <1>7 DEF EventsInv
-----------------------------------------------------------------------------
\* The registry as it is, which a notification or an interrupt finds.
LEMMA RegistryIsGiven ==
  ASSUME TypeOK, RegistryIsAccurate
  PROVE  /\ waiting \in [Objects -> Seq(Threads)]
         /\ \A o \in Objects : IsInjective(waiting[o])
         /\ \A o \in Objects : \A i \in DOMAIN waiting[o] : InWait(waiting[o][i], o)
  BY DEF TypeOK, RegistryIsAccurate

\* The registry without the last waiter of an object.
LEMMA LastIsPopped ==
  ASSUME TypeOK, RegistryIsAccurate, NEW p \in Objects, waiting[p] # <<>>,
         NEW reg, reg = [waiting EXCEPT ![p] = Front(waiting[p])]
  PROVE  /\ reg \in [Objects -> Seq(Threads)]
         /\ \A o \in Objects : IsInjective(reg[o])
         /\ \A o \in Objects : \A i \in DOMAIN reg[o] : InWait(reg[o][i], o)
  <1>1. PICK s \in Seq(Threads) : s = waiting[p]
    BY DEF TypeOK
  <1>2. PICK f : f = Front(s)
    OBVIOUS
  <1>3. /\ f \in Seq(Threads) /\ DOMAIN f = 1 .. Len(s) - 1 /\ DOMAIN s = 1 .. Len(s)
        /\ Len(s) \in Nat \ {0}
        /\ \A i \in 1 .. Len(s) - 1 : f[i] = s[i]
    BY <1>1, <1>2 DEF Front
  <1>4. \A o \in Objects : reg[o] = IF o = p THEN f ELSE waiting[o]
    BY <1>1, <1>2 DEF TypeOK
  <1>5. \A i, j \in 1 .. Len(s) : s[i] = s[j] => i = j
    BY <1>1, <1>3 DEF RegistryIsAccurate, IsInjective
  <1>6. \A i \in 1 .. Len(s) : InWait(s[i], p)
    BY <1>1, <1>3 DEF RegistryIsAccurate
  <1>7. IsInjective(f) /\ \A i \in DOMAIN f : InWait(f[i], p)
    BY <1>3, <1>5, <1>6 DEF IsInjective
  <1>8. reg \in [Objects -> Seq(Threads)]
    BY <1>1, <1>2, <1>3 DEF TypeOK
  <1>9. ASSUME NEW o \in Objects
        PROVE  IsInjective(reg[o]) /\ \A i \in DOMAIN reg[o] : InWait(reg[o][i], o)
    BY <1>4, <1>7 DEF RegistryIsAccurate
  <1> QED BY <1>8, <1>9

LEMMA FoundInIndex ==
  ASSUME TypeOK, NEW v
  PROVE  Lookup(v) # NoThread => Lookup(v) \in index /\ Lookup(v) \in Threads
  BY DEF TypeOK, Lookup

LEMMA onInterrupt_Step ==
  ASSUME EventsInv, NEW t \in Threads, NEW v \in Threads, onInterrupt(t, v)
  PROVE  EventsInv'
  <1>1. TypeOK /\ RegistryIsAccurate
    BY DEF EventsInv
  <1>2. PICK u : u = Lookup(v)
    OBVIOUS
  <1>3. /\ interruptThread(t, u, waiting, "interrupt", "flagInterrupt", "user")
        /\ state[t] = "RUNNING" /\ pc[t] = "user" /\ UNCHANGED <<obj, monitor>>
    BY <1>2 DEF onInterrupt, Event
  <1>4. CASE u # NoThread /\ isWaiting(u)
    <2>1. u \in index /\ u \in Threads
      BY <1>1, <1>2, <1>4, FoundInIndex
    <2>2. /\ obj' \in [Threads -> Objects \cup {0}] /\ \A w \in Threads \ {t} : obj'[w] = obj[w]
          /\ monitor' \in [Objects -> Threads \cup {NoThread}]
      BY <1>1, <1>3 DEF TypeOK
    <2> QED BY <2>1, <2>2, <1>1, <1>3, <1>4, RegistryIsGiven, Interrupt_Step DEF FlagsAt
  <1>5. CASE ~(u # NoThread /\ isWaiting(u))
    BY <1>1, <1>3, <1>5, RegistryIsGiven, Passes_Step
  <1> QED BY <1>4, <1>5

LEMMA onSignallingOnObject_Step ==
  ASSUME EventsInv, NEW t \in Threads, NEW o \in Objects, onSignallingOnObject(t, o)
  PROVE  EventsInv'
  <1>1. TypeOK /\ RegistryIsAccurate
    BY DEF EventsInv
  <1>2. PICK u : u = Lookup(findNext(o))
    OBVIOUS
  <1>3. /\ interruptThread(t, u, waiting, "notify", "flagNotify", "user")
        /\ state[t] = "RUNNING" /\ pc[t] = "user"
        /\ obj' = IF pc'[t] = "flagNotify" THEN [obj EXCEPT ![t] = o] ELSE obj
        /\ monitor' = IF pc'[t] = "flagNotify" THEN [monitor EXCEPT ![o] = t] ELSE monitor
    BY <1>2 DEF onSignallingOnObject, Event, Set
  <1>4. CASE u # NoThread /\ isWaiting(u)
    <2>1. u \in index /\ u \in Threads
      BY <1>1, <1>2, <1>4, FoundInIndex
    <2>2. /\ obj' \in [Threads -> Objects \cup {0}] /\ \A w \in Threads \ {t} : obj'[w] = obj[w]
          /\ monitor' \in [Objects -> Threads \cup {NoThread}]
      BY <1>1, <1>3 DEF TypeOK
    <2> QED BY <2>1, <2>2, <1>1, <1>3, <1>4, RegistryIsGiven, Interrupt_Step DEF FlagsAt
  <1>5. CASE ~(u # NoThread /\ isWaiting(u))
    <2>1. pc'[t] = "user"
      BY <1>1, <1>3, <1>5 DEF interruptThread, Goto, Set, TypeOK
    <2>2. UNCHANGED <<obj, monitor>>
      BY <2>1, <1>3
    <2> QED BY <2>2, <1>1, <1>3, <1>5, RegistryIsGiven, Passes_Step
  <1> QED BY <1>4, <1>5

LEMMA getNext_Step ==
  ASSUME EventsInv, NEW t \in Threads, getNext(t)
  PROVE  EventsInv'
  <1>1. TypeOK /\ RegistryIsAccurate /\ pc[t] = "broadcasting" /\ ThreadFits(t)
    BY DEF EventsInv, getNext
  <1>2. obj[t] \in Objects /\ state[t] = "RUNNING" /\ waiting[obj[t]] # <<>>
    BY <1>1 DEF ThreadFits, PlaceFits, StateFits, RunsAt, getNext
  <1>3. PICK u, reg : u = Lookup(findNext(obj[t]))
                      /\ reg = [waiting EXCEPT ![obj[t]] = Front(waiting[obj[t]])]
    OBVIOUS
  <1>4. /\ interruptThread(t, u, reg, "notify", "flagBroadcast", "broadcasting")
        /\ UNCHANGED <<obj, monitor>>
    BY <1>3 DEF getNext
  <1>5. /\ reg \in [Objects -> Seq(Threads)]
        /\ \A o \in Objects : IsInjective(reg[o])
        /\ \A o \in Objects : \A i \in DOMAIN reg[o] : InWait(reg[o][i], o)
    BY <1>1, <1>2, <1>3, LastIsPopped
  <1>6. CASE u # NoThread /\ isWaiting(u)
    <2>1. u \in index /\ u \in Threads
      BY <1>1, <1>3, <1>6, FoundInIndex
    <2>2. /\ obj' \in [Threads -> Objects \cup {0}] /\ \A w \in Threads \ {t} : obj'[w] = obj[w]
          /\ monitor' \in [Objects -> Threads \cup {NoThread}] /\ obj'[t] \in Objects
      BY <1>1, <1>2, <1>4 DEF TypeOK
    <2> QED BY <2>1, <2>2, <1>1, <1>2, <1>4, <1>5, <1>6, Interrupt_Step DEF FlagsAt
  <1>7. CASE ~(u # NoThread /\ isWaiting(u))
    BY <1>1, <1>4, <1>5, <1>7, Passes_Step
  <1> QED BY <1>6, <1>7
-----------------------------------------------------------------------------
LEMMA InitEstablishes ==
  ASSUME Init
  PROVE  EventsInv
  <1>1. TypeOK
    <2>1. 0 \in 0 .. Cardinality(Threads)
      BY ThreadsAreCounted
    <2>2. /\ pc \in [Threads -> Labels] /\ back \in [Threads -> Labels]
          /\ state \in [Threads -> States] /\ timeout \in [Threads -> -2 .. 1]
          /\ cause \in [Threads -> {"none", "notify", "interrupt", "timeout"}]
      BY DEF Init, Labels, States
    <2>3. waiting \in [Objects -> Seq(Threads)]
      BY DEF Init
    <2> QED BY <2>1, <2>2, <2>3, MainAssumption DEF Init, TypeOK
  <1>2. OneActive
    BY DEF Init, OneActive, Active
  <1>3. ASSUME NEW t \in Threads PROVE ThreadFits(t)
    <2>1. /\ pc[t] = (IF t = main THEN "user" ELSE "unborn") /\ back[t] = "user"
          /\ state[t] = (IF t = main THEN "RUNNING" ELSE "REGISTERING")
          /\ ~parked[t] /\ ~unparked[t] /\ joiner[t] = NoThread
          /\ index = {main} /\ inHand = {} /\ nativeQueue = {}
      BY DEF Init
    <2> QED BY <2>1 DEF ThreadFits, StateFits, PlaceFits, ParkFits, NativeFits, TargetFits, CauseFits,
               JoinFits, At, Outside, ResumesAt, TargetsAt, FlagsAt, RunsAt
  <1>4. RegistryIsAccurate
    BY DEF Init, RegistryIsAccurate, IsInjective
  <1>5. SpawnCountIsAccurate
    <2>1. {t \in parents : pc[t] = "unborn"} = {}
      BY DEF Init
    <2> QED BY <2>1, FS_EmptySet DEF Init, SpawnCountIsAccurate
  <1> QED BY <1>1, <1>2, <1>3, <1>4, <1>5 DEF EventsInv

LEMMA LifecycleKeeps ==
  ASSUME EventsInv, Excluded \cap Foreign = {}, NEW t \in Threads, Lifecycle(t)
  PROVE  EventsInv'
  <1>1. CASE onStart(t)
    BY <1>1, onStart_Ignores, onStart_Excluded, onStart_Registers
  <1>2. ASSUME NEW u \in Threads, onJoin(t, u) PROVE EventsInv'
    <2>1. spawning \in Nat
      BY ThreadsAreCounted DEF EventsInv, TypeOK
    <2> QED BY <2>1, <1>2, onJoin_Suspends, onJoin_Registers, onJoin_Ended
  <1> QED BY <1>1, <1>2, onEnd_Step, joinWaitingStart_Step, joinWaitingEnd_Step, joinReturns_Step,
             beforeCreatingThread_Step DEF Lifecycle

LEMMA WaitsKeep ==
  ASSUME EventsInv, NEW t \in Threads, Waits(t)
  PROVE  EventsInv'
  BY MonitorExit_Step, onReplacedTimedWaiting_Step, onSleep_Step, onReplacedWaiting_Step,
     MonitorEnter_Step, beforeReleasingLock_Step DEF Waits

LEMMA SignalsKeep ==
  ASSUME EventsInv, NEW t \in Threads, Signals(t)
  PROVE  EventsInv'
  BY setTimedOut_Step, getNext_Step, broadcastEnds_Step, onSignallingOnObject_Step,
     onBroadcastingOnObject_Step, onInterrupt_Step DEF Signals

LEMMA ParkingKeeps ==
  ASSUME EventsInv, NEW t \in Threads, Parking(t)
  PROVE  EventsInv'
  <1>1. ASSUME NEW kind, onPark(t, kind) PROVE EventsInv'
    <2>1. kind \in {"park", "timedPark"}
      BY <1>1 DEF onPark
    <2> QED BY <2>1, <1>1, onPark_Permitted, onPark_Timed, onPark_Untimed
  <1>2. CASE unpark(t)
    <2>1. peer[t] \in Threads
      BY <1>2 DEF EventsInv, ThreadFits, TargetFits, TargetsAt, unpark
    <2> QED BY <2>1, <1>2, unpark_Permits, unpark_Timed, unpark_Untimed
  <1>3. ASSUME NEW u \in Threads, onUnpark(t, u) PROVE EventsInv'
    BY <1>3, onUnpark_Finds, onUnpark_Misses
  <1>4. CASE onParked(t)
    BY <1>4, onParked_Timed, onParked_Untimed
  <1> QED BY <1>1, <1>2, <1>3, <1>4, parkWaitingStart_Step, unlockAgain_Step, lockPeer_Step DEF Parking

LEMMA SchedulingKeeps ==
  ASSUME EventsInv, Cores = 1, NEW t \in Threads, Scheduling(t)
  PROVE  EventsInv'
  BY preempt_Step, continueThread_Step, interruptTimedWaiting_Step, resumeThread_Step,
     setNativeWaiting_Step, pollNativeWaitingThreads_Step, stillNativeWaiting_Step,
     suspendLooseCurrentThread_Step DEF Scheduling

LEMMA StutterKeeps ==
  ASSUME EventsInv, UNCHANGED vars
  PROVE  EventsInv'
  BY DEF EventsInv, TypeOK, OneActive, Active, ThreadFits, StateFits, PlaceFits, ParkFits, NativeFits,
     TargetFits, CauseFits, JoinFits, At, BeingFlagged, isNotification, RegistryIsAccurate, InWait,
     SpawnCountIsAccurate, vars, waitVars, schedVars, spawnVars, joinVars, nativeVars

\* The inductive invariant, for one core and threads of which none is both
\* excluded by name and unannounced.
LEMMA EventsInvHolds ==
  ASSUME Cores = 1, Excluded \cap Foreign = {}
  PROVE  Spec => []EventsInv
  <1>1. Init => EventsInv
    BY InitEstablishes
  <1>2. EventsInv /\ [Next]_vars => EventsInv'
    <2> SUFFICES ASSUME EventsInv, [Next]_vars PROVE EventsInv'
      OBVIOUS
    <2>1. CASE Next
      BY <2>1, LifecycleKeeps, WaitsKeep, SignalsKeep, ParkingKeeps, SchedulingKeeps DEF Next
    <2>2. CASE UNCHANGED vars
      BY <2>2, StutterKeeps
    <2> QED BY <2>1, <2>2
  <1> QED BY <1>1, <1>2, PTL DEF Spec
-----------------------------------------------------------------------------
\* On one core the object registry, the counter of spawning threads and the
\* native waiting queue say what the threads do, and nobody works on the state of
\* a deleted thread (ThreadRegistry, ObjectRegistry, ThreadEventsBehaviour), for
\* any threads and operations: but that nobody is both excluded and unannounced,
\* and that who parks with a timeout is not taken for native waiting.
THEOREM RegistriesFollowThreads ==
  ASSUME Cores = 1, Excluded \cap Foreign = {}, ParksApart
  PROVE  Spec => []RegistriesAreAccurate
  <1>1. EventsInv => RegistriesAreAccurate
    <2> SUFFICES ASSUME EventsInv PROVE RegistriesAreAccurate
      OBVIOUS
    <2>1. TypeOK /\ RegistryIsAccurate /\ SpawnCountIsAccurate
      BY DEF EventsInv
    <2>2. TargetIsSafe
      BY DEF EventsInv, TargetIsSafe, ThreadFits, TargetFits, StateFits, OneActive, Active, TargetsAt,
         FlagsAt, RunsAt, Outside
    <2>3. NativeQueueIsAccurate
      BY <2>1 DEF EventsInv, NativeQueueIsAccurate, ThreadFits, NativeFits, TypeOK
    <2> QED BY <2>1, <2>2, <2>3 DEF RegistriesAreAccurate
  <1> QED BY <1>1, EventsInvHolds, PTL

\* On one core a permit of unpark is used once, and a thread back from its wait
\* knows whether it was notified, interrupted or timed out, whatever the threads do
\* (interruptThread sets timedOut in a second step, with the target suspended).
THEOREM WakersAreKnown ==
  ASSUME Cores = 1, Excluded \cap Foreign = {}
  PROVE  Spec => []WakeUpsAreUnderstood
  <1>1. EventsInv => WakeUpsAreUnderstood
    <2> SUFFICES ASSUME EventsInv PROVE WakeUpsAreUnderstood
      OBVIOUS
    <2>1. OnePermit
      BY DEF EventsInv, OnePermit, ThreadFits, ParkFits
    <2>2. ASSUME NEW t \in Threads, pc[t] = "reenter", state[t] = "RUNNING"
          PROVE  timedOut[t] <=> cause[t] # "interrupt"
      <3>1. ~BeingFlagged(t)
        BY <2>2 DEF EventsInv, BeingFlagged, ThreadFits, StateFits, OneActive, Active, FlagsAt, TargetsAt,
           RunsAt
      <3> QED BY <2>2, <3>1 DEF EventsInv, ThreadFits, CauseFits, At
    <2> QED BY <2>1, <2>2 DEF WakeUpsAreUnderstood, WaiterKnowsItsCause
  <1> QED BY <1>1, EventsInvHolds, PTL

\* Only an end and a join tell a thread that the one it joins is over.
LEMMA NobodyElseTells ==
  ASSUME NEW t \in Threads, Lifecycle(t) \/ Waits(t) \/ Signals(t) \/ Parking(t) \/ Scheduling(t),
         ~onEnd(t), \A u \in Threads : ~onJoin(t, u)
  PROVE  awakening' = awakening \/ awakening' = [awakening EXCEPT ![t] = FALSE]
  <1>1. CASE Lifecycle(t)
    BY <1>1 DEF Lifecycle, onStart, joinWaitingStart, joinWaitingEnd, joinReturns, beforeCreatingThread,
       onWrappedWaitingStart, onWrappedWaitingEnd, Set, joinVars
  <1>2. CASE Waits(t)
    BY <1>2 DEF Waits, MonitorExit, onReplacedTimedWaiting, onSleep, onReplacedWaiting, MonitorEnter,
       beforeReleasingLockOfAnyReplacedWaiting, BlocksFor, joinVars
  <1>3. CASE Signals(t)
    BY <1>3 DEF Signals, setTimedOut, getNext, broadcastEnds, onSignallingOnObject,
       onBroadcastingOnObject, onInterrupt, interruptThread, joinVars
  <1>4. CASE Parking(t)
    BY <1>4 DEF Parking, parkWaitingStart, unlockAgain, onParked, lockPeer, unpark, onPark, onUnpark,
       onWrappedWaitingStart, onWrappedWaitingEnd, onWrappedTimedWaitingEnd, Set, joinVars
  <1>5. CASE Scheduling(t)
    BY <1>5 DEF Scheduling, preempt, continueThread, interruptTimedWaitingThread, resumeThread,
       setNativeWaiting, pollNativeWaitingThreads, stillNativeWaiting, suspendLooseCurrentThread, joinVars
  <1> QED BY <1>1, <1>2, <1>3, <1>4, <1>5

\* A thread joins one that has ended: nobody is being spawned, so a missing
\* thread is not an unborn one.
LEMMA MissingHasEnded ==
  ASSUME EventsInv, spawning = 0, NEW u \in Threads, u \in Simulated,
         u \in parents \/ pc[u] # "unborn", ~(u \in index /\ state[u] # "VEX_ZOMBIE")
  PROVE  pc[u] = "deleted"
  <1>1. TypeOK /\ SpawnCountIsAccurate /\ ThreadFits(u)
    BY DEF EventsInv
  <1>2. IsFiniteSet({t \in parents : pc[t] = "unborn"})
    BY <1>1, FiniteAssumption, FS_Subset DEF TypeOK
  <1>3. {t \in parents : pc[t] = "unborn"} = {}
    BY <1>1, <1>2, FS_EmptySet DEF SpawnCountIsAccurate
  <1>4. pc[u] # "unborn"
    BY <1>3
  <1>5. pc[u] # "ignored" /\ pc[u] \in Labels
    BY <1>1 DEF ThreadFits, PlaceFits, Simulated, TypeOK
  <1> QED BY <1>1, <1>4, <1>5 DEF ThreadFits, PlaceFits, StateFits, Outside, RunsAt, ResumesAt, TargetsAt, Labels

\* On one core a thread is told that the one it joins is over only when that one
\* has ended (coordinateJoiningThreads, notifyParentWaitingForYouToJoin).
THEOREM JoinersAreToldTheTruth ==
  ASSUME Cores = 1, Excluded \cap Foreign = {}
  PROVE  Spec => JoinedThreadHasEnded
  <1>1. EventsInv /\ [Next]_vars =>
          [\A t \in Threads : awakening'[t] /\ ~awakening[t] => pc'[peer'[t]] = "deleted"]_vars
    <2> SUFFICES ASSUME EventsInv, Next, NEW w \in Threads, awakening'[w], ~awakening[w]
                 PROVE  pc'[peer'[w]] = "deleted"
      OBVIOUS
    <2>1. TypeOK /\ \A t \in Threads : ThreadFits(t)
      BY DEF EventsInv
    <2>2. PICK t \in Threads : Lifecycle(t) \/ Waits(t) \/ Signals(t) \/ Parking(t) \/ Scheduling(t)
      BY DEF Next
    <2>3. CASE onEnd(t)
      <3>1. /\ pc' = [pc EXCEPT ![t] = "deleted"] /\ peer' = peer /\ pc[t] = "user"
            /\ joiner[t] = w
        BY <2>1, <2>3 DEF onEnd, remove, notifyParentWaitingForYouToJoin, Event, Goto, Set, TypeOK
      <3>2. peer[w] = t
        BY <2>1, <3>1, MainAssumption DEF ThreadFits, JoinFits
      <3> QED BY <2>1, <3>1, <3>2 DEF TypeOK
    <2>4. ASSUME NEW u \in Threads, onJoin(t, u) PROVE pc'[peer'[w]] = "deleted"
      <3>1. coordinateJoiningThreads(t, u)
        BY <2>4 DEF onJoin, joinVars
      <3>2. /\ w = t /\ ~(u \in index /\ state[u] # "VEX_ZOMBIE") /\ spawning = 0
            /\ peer' = [peer EXCEPT ![t] = u] /\ pc' = [pc EXCEPT ![t] = "joining"]
        BY <2>1, <2>4, <3>1 DEF onJoin, coordinateJoiningThreads, Goto, Set, TypeOK, joinVars
      <3>3. pc[u] = "deleted"
        BY <2>4, <3>2, MissingHasEnded DEF onJoin
      <3> QED BY <2>1, <2>4, <3>2, <3>3 DEF TypeOK, onJoin
    <2>5. CASE ~onEnd(t) /\ \A u \in Threads : ~onJoin(t, u)
      BY <2>1, <2>2, <2>5, NobodyElseTells DEF TypeOK
    <2> QED BY <2>3, <2>4, <2>5
  <1> QED BY <1>1, EventsInvHolds, PTL DEF JoinedThreadHasEnded, Spec
=============================================================================
