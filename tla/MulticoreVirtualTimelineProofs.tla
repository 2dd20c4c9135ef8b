------------------- MODULE MulticoreVirtualTimelineProofs -------------------
(***************************************************************************)
(* The clocks of any number of cores and threads, whatever the durations,  *)
(* the time slot and the bound on time: what the runs of                   *)
(* MulticoreVirtualTimeline check on two cores.  Then the clock of a       *)
(* passive run, which stays within twice the CPU time, and the statistics  *)
(* of the states that threads pass through, which balance, for every set   *)
(* of threads.                                                             *)
(***************************************************************************)
EXTENDS MulticoreVirtualTimeline, PassiveProfiling, StateStatistics, FiniteSums, SequenceTheorems,
        WellFoundedInduction, TLAPS

\* A scheduler at one of these points has a popped thread in its hands.
InHandAt == {"resume", "disable", "leap", "activate", "activated"}

\* The thread in a scheduler's hands is held by it alone, and in no other place.
HeldByOne ==
  \A c \in Cores : cpc[c] \in InHandAt =>
    /\ carg[c] \in Threads
    /\ where[carg[c]] = "held"
    /\ \A e \in Cores : cpc[e] \in InHandAt /\ carg[e] = carg[c] => e = c

\* A core's running thread runs, and was resumed by this core.
RunningThreadRuns ==
  \A c \in Cores : runningThread[c] # NoThread =>
    where[runningThread[c]] = "running" /\ core[runningThread[c]] = c

\* A thread that has been resumed, or that is native waiting, has not charged
\* more time than its clock shows.
ResumedWithinClock ==
  \A t \in Threads : where[t] \in {"signalled", "running", "native"} =>
    resumedLastAt[t] + localTime[t] <= ert[t]

\* The parts of TypeOK that are not about the timeline.
ControlTypes ==
  /\ mutex \in Cores \cup {NoCore}
  /\ cpc \in [Cores -> {"wait", "suspend", "signal", "next", "top", "relock", "resume",
                        "disable", "leap", "activate", "activated"}]
  /\ carg \in [Cores -> Threads \cup {NoThread}]
  /\ runningThread \in [Cores -> Threads \cup {NoThread}]
  /\ where \in [Threads -> {"runnable", "timed", "held", "signalled", "running",
                            "waiting", "native", "wrapped", "unblocked"}]
  /\ core \in [Threads -> Cores]
  /\ waitedOn \in [Threads -> Cores \cup {NoCore}]

TimerTypes ==
  /\ ert \in [Threads -> Nat]
  /\ resumedLastAt \in [Threads -> Nat]
  /\ localTime \in [Threads -> Nat]

\* Who holds, runs and resumes which thread.
Control ==
  /\ ControlTypes
  /\ HeldByOne
  /\ RunningThreadRuns
  /\ OneThreadPerCore

IndInv ==
  /\ TypeOK
  /\ HeldByOne
  /\ RunningThreadRuns
  /\ OneThreadPerCore
  /\ ResumedWithinClock
  /\ CommitNeverExceedsClock

\* What every step does to the timeline.
TimelineAdvances ==
  /\ globalVirtualTime' \in Nat
  /\ localCoreVirtualTimes' \in [Cores -> Nat]
  /\ localCoreActive' \in [Cores -> BOOLEAN]
  /\ \A c \in Cores : localCoreVirtualTimes[c] <= localCoreVirtualTimes'[c]
  /\ GlobalTimeIsLatest => GlobalTimeIsLatest'
  /\ GlobalTimeBehindActiveCores => GlobalTimeBehindActiveCores'

\* What every step does to the threads' timers.
TimersAdvance ==
  /\ TimerTypes'
  /\ \A t \in Threads : ert'[t] < ert[t] => where[t] \in {"waiting", "timed"}
  /\ ResumedWithinClock'

\* Only setRunningThread makes a thread run; one that runs on keeps the core
\* and the time it was resumed at.
RunsOn ==
  \A t \in Threads : where'[t] = "running" =>
    where[t] = "running" /\ resumedLastAt'[t] = resumedLastAt[t] /\ core'[t] = core[t]
-----------------------------------------------------------------------------
\* Later is the larger of two times.
LEMMA LaterIsLater ==
  ASSUME NEW a \in Nat, NEW b \in Nat
  PROVE  Later(a, b) \in Nat /\ a <= Later(a, b) /\ b <= Later(a, b)
         /\ (Later(a, b) = a \/ Later(a, b) = b)
  BY DEF Later

\* Every non-empty set of times has an oldest one.
LEMMA OldestIsOldest ==
  ASSUME NEW S, S \subseteq Nat, S # {}
  PROVE  Oldest(S) \in S /\ \A n \in S : Oldest(S) <= n
  <1>1. \E m \in S : \A n \in S : ~(<<n, m>> \in OpToRel(<, Nat))
    BY WFMin, NatLessThanWellFounded
  <1>2. PICK m \in S : \A n \in S : ~(<<n, m>> \in OpToRel(<, Nat))
    BY <1>1
  <1>3. ASSUME NEW n \in S
        PROVE  m <= n
    <2>1. n \in Nat /\ m \in Nat
      OBVIOUS
    <2>2. /\ <<n, m>> \in Nat \X Nat
          /\ <<n, m>>[1] < <<n, m>>[2] <=> n < m
      BY <2>1
    <2>3. n < m => <<n, m>> \in OpToRel(<, Nat)
      BY <2>2, Zenon DEF OpToRel
    <2>4. ~(n < m)
      BY <1>2, <2>3, Zenon
    <2> QED BY <2>1, <2>4
  <1> QED BY <1>3 DEF Oldest

\* The recomputed global time is a time; with strict synchronisation no
\* enabled core is behind it.
LEMMA UpdatedGlobalTime ==
  ASSUME TypeOK,
         NEW local \in [Cores -> Nat], NEW active \in [Cores -> BOOLEAN],
         NEW time \in Nat
  PROVE  /\ updateGlobalTimeTo(local, active, time) \in Nat
         /\ strict => \A c \in Cores : active[c] =>
              updateGlobalTimeTo(local, active, time) <= local[c]
         /\ ~strict => updateGlobalTimeTo(local, active, time)
                         = Later(globalVirtualTime, time)
  <1> DEFINE times == {local[c] : c \in {d \in Cores : active[d]}}
  <1>1. times \subseteq Nat
    OBVIOUS
  <1>2. CASE ~strict
    BY <1>2, LaterIsLater DEF updateGlobalTimeTo, TypeOK
  <1>3. CASE strict /\ times = {}
    BY ZenonT(30), <1>3 DEF updateGlobalTimeTo, TypeOK
  <1>4. CASE strict /\ times # {}
    <2>1. Oldest(times) \in times /\ \A n \in times : Oldest(times) <= n
      BY <1>1, <1>4, OldestIsOldest
    <2>2. updateGlobalTimeTo(local, active, time) = Oldest(times)
      BY <1>4 DEF updateGlobalTimeTo
    <2> HIDE DEF times
    <2>3. Oldest(times) \in Nat
      BY <1>1, <2>1
    <2>4. \A c \in Cores : active[c] => local[c] \in times
      BY DEF times
    <2> QED BY <1>4, <2>1, <2>2, <2>3, <2>4
  <1> QED BY <1>2, <1>3, <1>4

\* The local times after a leap.
LEMMA LeaptAdvances ==
  ASSUME TypeOK, NEW c \in Cores, NEW time \in Nat
  PROVE  /\ Leapt(c, time) \in [Cores -> Nat]
         /\ Leapt(c, time)[c] = Later(localCoreVirtualTimes[c], time)
         /\ Leapt(c, time)[c] \in Nat
         /\ time <= Leapt(c, time)[c]
         /\ localCoreVirtualTimes[c] <= Leapt(c, time)[c]
         /\ \A e \in Cores \ {c} : Leapt(c, time)[e] = localCoreVirtualTimes[e]
         /\ \A e \in Cores : localCoreVirtualTimes[e] <= Leapt(c, time)[e]
  <1> DEFINE new == Later(localCoreVirtualTimes[c], time)
  <1>1. localCoreVirtualTimes \in [Cores -> Nat]
    BY DEF TypeOK
  <1>2. new \in Nat /\ time <= new /\ localCoreVirtualTimes[c] <= new
    BY <1>1, LaterIsLater
  <1>3. Leapt(c, time) = [localCoreVirtualTimes EXCEPT ![c] = new]
    BY DEF Leapt
  <1> HIDE DEF new
  <1>4. /\ Leapt(c, time) \in [Cores -> Nat]
        /\ Leapt(c, time)[c] = new
        /\ \A e \in Cores \ {c} : Leapt(c, time)[e] = localCoreVirtualTimes[e]
    BY <1>1, <1>2, <1>3
  <1>5. \A e \in Cores : localCoreVirtualTimes[e] <= Leapt(c, time)[e]
    <2>1. \A e \in Cores \ {c} : localCoreVirtualTimes[e] <= Leapt(c, time)[e]
      BY <1>1, <1>4
    <2> QED BY <1>2, <1>4, <2>1
  <1> QED BY <1>2, <1>4, <1>5 DEF new

\* What leapForwardTo does to the timeline.
LEMMA LeapAdvances ==
  ASSUME TypeOK, NEW c \in Cores, NEW time \in Nat, leapForwardTo(c, time)
  PROVE  TimelineAdvances /\ time <= localCoreVirtualTimes'[c]
  <1> DEFINE local == Leapt(c, time)
  <1>1. /\ local \in [Cores -> Nat]
        /\ local[c] \in Nat /\ time <= local[c] /\ localCoreVirtualTimes[c] <= local[c]
        /\ \A e \in Cores \ {c} : local[e] = localCoreVirtualTimes[e]
        /\ \A e \in Cores : localCoreVirtualTimes[e] <= local[e]
    BY LeaptAdvances
  <1>2. /\ localCoreVirtualTimes' = local
        /\ localCoreActive' = localCoreActive
        /\ globalVirtualTime' = updateGlobalTimeTo(local, localCoreActive, local[c])
    BY DEF leapForwardTo
  <1>3. localCoreActive \in [Cores -> BOOLEAN] /\ globalVirtualTime \in Nat
        /\ localCoreVirtualTimes \in [Cores -> Nat]
    BY DEF TypeOK
  <1> HIDE DEF local
  <1>4. /\ globalVirtualTime' \in Nat
        /\ strict => \A e \in Cores : localCoreActive[e] => globalVirtualTime' <= local[e]
        /\ ~strict => globalVirtualTime' = Later(globalVirtualTime, local[c])
    BY <1>1, <1>2, <1>3, UpdatedGlobalTime
  <1>5. GlobalTimeBehindActiveCores'
    BY <1>2, <1>4 DEF GlobalTimeBehindActiveCores
  <1>6. ASSUME GlobalTimeIsLatest, ~strict
        PROVE  GlobalTimeIsLatest'
    <2>1. \A e \in Cores : localCoreVirtualTimes[e] <= globalVirtualTime
      BY <1>6 DEF GlobalTimeIsLatest
    <2>2. PICK e \in Cores : localCoreVirtualTimes[e] = globalVirtualTime
      BY <1>6 DEF GlobalTimeIsLatest
    <2>3. /\ globalVirtualTime <= globalVirtualTime' /\ local[c] <= globalVirtualTime'
          /\ globalVirtualTime' = globalVirtualTime \/ globalVirtualTime' = local[c]
      BY <1>1, <1>3, <1>4, <1>6, LaterIsLater
    <2>4. \A d \in Cores : local[d] <= globalVirtualTime'
      BY <1>1, <1>3, <1>4, <2>1, <2>3
    <2>5. \E d \in Cores : local[d] = globalVirtualTime'
      BY <1>1, <1>3, <1>4, <2>1, <2>2, <2>3
    <2> QED BY <1>2, <2>4, <2>5 DEF GlobalTimeIsLatest
  <1> QED BY <1>1, <1>2, <1>3, <1>4, <1>5, <1>6 DEF TimelineAdvances, GlobalTimeIsLatest

\* A thread back from a wait does not lose time.
LEMMA WaitMovesForward ==
  ASSUME TypeOK, NEW t \in Threads
  PROVE  TimeAfterWait(t) \in Nat /\ ert[t] <= TimeAfterWait(t)
  <1>1. ert[t] \in Nat
    BY DEF TypeOK
  <1>2. CASE waitedOn[t] = NoCore
    BY <1>1, <1>2 DEF TimeAfterWait
  <1>3. CASE waitedOn[t] # NoCore
    <2>1. localCoreVirtualTimes[waitedOn[t]] \in Nat
      BY <1>3 DEF TypeOK
    <2> QED BY <1>1, <1>3, <2>1, LaterIsLater DEF TimeAfterWait
  <1> QED BY <1>2, <1>3

\* addLocalTime moves both of a thread's timers by the same time.
LEMMA LocalTimeGrows ==
  ASSUME TypeOK, NEW t \in Threads, NEW d \in Durations, addLocalTime(t, d)
  PROVE  /\ ert' \in [Threads -> Nat] /\ localTime' \in [Threads -> Nat]
         /\ localTime'[t] \in Nat
         /\ ert'[t] = ert[t] + d /\ localTime'[t] = localTime[t] + d
         /\ \A u \in Threads \ {t} : ert'[u] = ert[u] /\ localTime'[u] = localTime[u]
         /\ d \in Nat
  <1>1. d \in Nat
    BY TimeAssumption
  <1> QED BY <1>1 DEF addLocalTime, TypeOK

\* The end of a wait outside VEX recomputes the global time.
LEMMA RecomputedAdvances ==
  ASSUME TypeOK,
         globalVirtualTime' = updateGlobalTimeTo(localCoreVirtualTimes, localCoreActive,
                                                 globalVirtualTime),
         UNCHANGED <<localCoreVirtualTimes, localCoreActive>>
  PROVE  TimelineAdvances
  <1>1. /\ localCoreActive \in [Cores -> BOOLEAN] /\ globalVirtualTime \in Nat
        /\ localCoreVirtualTimes \in [Cores -> Nat]
    BY DEF TypeOK
  <1>2. /\ globalVirtualTime' \in Nat
        /\ strict => \A c \in Cores : localCoreActive[c] =>
             globalVirtualTime' <= localCoreVirtualTimes[c]
        /\ ~strict => globalVirtualTime' = Later(globalVirtualTime, globalVirtualTime)
    BY <1>1, UpdatedGlobalTime
  <1>3. ~strict => globalVirtualTime' = globalVirtualTime
    BY <1>1, <1>2, LaterIsLater
  <1>4. \A c \in Cores : localCoreVirtualTimes[c] <= localCoreVirtualTimes'[c]
    BY <1>1
  <1> QED BY <1>1, <1>2, <1>3, <1>4
             DEF TimelineAdvances, GlobalTimeIsLatest, GlobalTimeBehindActiveCores

\* What getLocalTimelineActivationTime does to the timeline.
LEMMA ActivationAdvances ==
  ASSUME TypeOK, NEW c \in Cores, NEW time \in Nat,
         getLocalTimelineActivationTime(c, time)
  PROVE  TimelineAdvances /\ time <= localCoreVirtualTimes'[c]
  <1> DEFINE local == Leapt(c, time)
  <1>1. /\ local \in [Cores -> Nat]
        /\ local[c] = Later(localCoreVirtualTimes[c], time)
        /\ local[c] \in Nat /\ time <= local[c] /\ localCoreVirtualTimes[c] <= local[c]
        /\ \A e \in Cores \ {c} : local[e] = localCoreVirtualTimes[e]
        /\ \A e \in Cores : localCoreVirtualTimes[e] <= local[e]
    BY LeaptAdvances
  <1>2. /\ localCoreVirtualTimes' = local
        /\ localCoreActive' = [localCoreActive EXCEPT ![c] = strict]
        /\ globalVirtualTime' = updateGlobalTimeTo(local, localCoreActive', time)
    BY DEF getLocalTimelineActivationTime
  <1>3. localCoreActive \in [Cores -> BOOLEAN] /\ globalVirtualTime \in Nat
        /\ localCoreVirtualTimes \in [Cores -> Nat]
    BY DEF TypeOK
  <1>4. localCoreActive' \in [Cores -> BOOLEAN]
    BY <1>2, <1>3, TimeAssumption
  <1> HIDE DEF local
  <1>5. /\ globalVirtualTime' \in Nat
        /\ strict => \A e \in Cores : localCoreActive'[e] => globalVirtualTime' <= local[e]
        /\ ~strict => globalVirtualTime' = Later(globalVirtualTime, time)
    BY <1>1, <1>2, <1>4, UpdatedGlobalTime
  <1>6. GlobalTimeBehindActiveCores'
    BY <1>2, <1>5 DEF GlobalTimeBehindActiveCores
  <1>7. ASSUME GlobalTimeIsLatest, ~strict
        PROVE  GlobalTimeIsLatest'
    <2>1. \A e \in Cores : localCoreVirtualTimes[e] <= globalVirtualTime
      BY <1>7 DEF GlobalTimeIsLatest
    <2>2. PICK e \in Cores : localCoreVirtualTimes[e] = globalVirtualTime
      BY <1>7 DEF GlobalTimeIsLatest
    <2>3. /\ globalVirtualTime <= globalVirtualTime' /\ time <= globalVirtualTime'
          /\ globalVirtualTime' = globalVirtualTime \/ globalVirtualTime' = time
      BY <1>3, <1>5, <1>7, LaterIsLater
    <2>4. local[c] = localCoreVirtualTimes[c] \/ local[c] = time
      BY <1>1, <1>3, LaterIsLater
    <2>5. \A d \in Cores : local[d] <= globalVirtualTime'
      BY <1>1, <1>3, <1>5, <2>1, <2>3, <2>4
    <2>6. \E d \in Cores : local[d] = globalVirtualTime'
      BY <1>1, <1>3, <1>5, <2>1, <2>2, <2>3, <2>4, <2>5
    <2> QED BY <1>2, <2>5, <2>6 DEF GlobalTimeIsLatest
  <1> QED BY <1>1, <1>2, <1>4, <1>5, <1>6, <1>7 DEF TimelineAdvances, GlobalTimeIsLatest

\* Time without a known core goes to one of the cores.
LEMMA UnknownTimeAdvances ==
  ASSUME TypeOK, NEW d \in Nat, addTimeOfThreadExecutingAtUnknownTime(d)
  PROVE  TimelineAdvances
  <1>1. PICK c \in Cores : leapForwardTo(c, localCoreVirtualTimes[c] + d)
    BY DEF addTimeOfThreadExecutingAtUnknownTime
  <1>2. localCoreVirtualTimes[c] + d \in Nat
    BY DEF TypeOK
  <1> QED BY <1>1, <1>2, LeapAdvances

\* Disabling cores moves no clock, and leaves fewer cores to be ahead of.
LEMMA DisablingAdvances ==
  ASSUME TypeOK,
         UNCHANGED <<globalVirtualTime, localCoreVirtualTimes>>,
         localCoreActive' \in [Cores -> BOOLEAN],
         \A e \in Cores : localCoreActive'[e] => localCoreActive[e]
  PROVE  TimelineAdvances
  <1>1. \A c \in Cores : localCoreVirtualTimes[c] <= localCoreVirtualTimes'[c]
    BY DEF TypeOK
  <1> QED BY <1>1
             DEF TypeOK, TimelineAdvances, GlobalTimeIsLatest, GlobalTimeBehindActiveCores

\* The same of disableLocalTimeline.
LEMMA DisabledCoreAdvances ==
  ASSUME TypeOK, NEW c \in Cores, disableLocalTimeline(c),
         UNCHANGED <<globalVirtualTime, localCoreVirtualTimes>>
  PROVE  TimelineAdvances
  <1>1. /\ localCoreActive' \in [Cores -> BOOLEAN]
        /\ \A e \in Cores : localCoreActive'[e] => localCoreActive[e]
    BY DEF TypeOK, disableLocalTimeline
  <1> QED BY <1>1, DisablingAdvances

\* The steps that leave the timeline alone.
LEMMA IdleAdvances ==
  ASSUME TypeOK, UNCHANGED timeline
  PROVE  TimelineAdvances
  <1>1. UNCHANGED <<globalVirtualTime, localCoreVirtualTimes, localCoreActive>>
    BY DEF timeline
  <1>2. /\ localCoreActive' \in [Cores -> BOOLEAN]
        /\ \A e \in Cores : localCoreActive'[e] => localCoreActive[e]
    BY <1>1 DEF TypeOK
  <1> QED BY <1>1, <1>2, DisablingAdvances

\* No step turns a clock of the timeline back, and each keeps both relations
\* between the global and the local times: this is where the two orders of
\* updating a core (leap, then recompute; enable, leap, then recompute) count.
LEMMA StepAdvances ==
  ASSUME TypeOK, HeldByOne, Next
  PROVE  TimelineAdvances
  <1> USE DEF InHandAt
  <1>1. ASSUME NEW c \in Cores, doControllerWait(c) PROVE TimelineAdvances
    BY <1>1, IdleAdvances DEF doControllerWait
  <1>2. ASSUME NEW c \in Cores, disableIdleCore(c) PROVE TimelineAdvances
    BY <1>2, DisabledCoreAdvances DEF disableIdleCore
  <1>3. ASSUME NEW c \in Cores, shouldBlockCoreProgress(c) PROVE TimelineAdvances
    BY <1>3, IdleAdvances DEF shouldBlockCoreProgress
  <1>4. ASSUME NEW c \in Cores, suspendThread(c) PROVE TimelineAdvances
    BY <1>4, IdleAdvances DEF suspendThread
  <1>5. ASSUME NEW c \in Cores, nobodyToSuspend(c) PROVE TimelineAdvances
    BY <1>5, IdleAdvances DEF nobodyToSuspend
  <1>6. ASSUME NEW c \in Cores, nobodyToResume(c) PROVE TimelineAdvances
    <2>1. CASE strict
      BY <1>6, <2>1, DisabledCoreAdvances DEF nobodyToResume
    <2>2. CASE ~strict
      BY <1>6, <2>2, IdleAdvances DEF nobodyToResume, timeline
    <2> QED BY <2>1, <2>2
  <1>7. ASSUME NEW c \in Cores, popSuspended(c) PROVE TimelineAdvances
    BY <1>7, IdleAdvances DEF popSuspended
  <1>8. ASSUME NEW c \in Cores, commitTimedWaitingProgress(c) PROVE TimelineAdvances
    <2>1. PICK t \in Tops : leapForwardTo(c, ert[t])
      BY <1>8 DEF commitTimedWaitingProgress
    <2>2. ert[t] \in Nat
      BY <2>1 DEF Tops, queue, TypeOK
    <2> QED BY <2>1, <2>2, LeapAdvances
  <1>9. ASSUME NEW c \in Cores, leapNotValid(c) PROVE TimelineAdvances
    BY <1>9, IdleAdvances DEF leapNotValid
  <1>10. ASSUME NEW c \in Cores, tooFarAhead(c) PROVE TimelineAdvances
    BY <1>10, IdleAdvances DEF tooFarAhead
  <1>11. ASSUME NEW c \in Cores, disableCore(c) PROVE TimelineAdvances
    BY <1>11, DisabledCoreAdvances DEF disableCore
  <1>12. ASSUME NEW c \in Cores, leapWhenAllDisabled(c) PROVE TimelineAdvances
    <2>1. carg[c] \in Threads
      BY <1>12 DEF leapWhenAllDisabled, HeldByOne
    <2>2. Later(ert[carg[c]], localCoreVirtualTimes[c]) \in Nat
      BY <2>1, LaterIsLater DEF TypeOK
    <2>3. UNCHANGED timeline
          \/ leapForwardTo(c, Later(ert[carg[c]], localCoreVirtualTimes[c]))
      BY <1>12 DEF leapWhenAllDisabled, updateResumingSuspendedThreadTimestamp
    <2> QED BY <2>2, <2>3, IdleAdvances, LeapAdvances
  <1>13. ASSUME NEW c \in Cores, activate(c) PROVE TimelineAdvances
    <2>1. carg[c] \in Threads
      BY <1>13 DEF activate, HeldByOne
    <2>2. ert[carg[c]] \in Nat /\ getLocalTimelineActivationTime(c, ert[carg[c]])
      BY <1>13, <2>1 DEF activate, TypeOK
    <2> QED BY <2>2, ActivationAdvances
  <1>14. ASSUME NEW c \in Cores, updateResumingSuspendedThreadResumedLastTimestamp(c)
         PROVE  TimelineAdvances
    BY <1>14, IdleAdvances DEF updateResumingSuspendedThreadResumedLastTimestamp
  <1>15. ASSUME NEW t \in Threads, setRunningThread(t) PROVE TimelineAdvances
    <2> DEFINE time == Later(TimeAfterWait(t), localCoreVirtualTimes[core[t]])
    <2>1. core[t] \in Cores /\ localCoreVirtualTimes[core[t]] \in Nat
      BY DEF TypeOK
    <2>2. TimeAfterWait(t) \in Nat
      BY WaitMovesForward
    <2>3. time \in Nat
      BY <2>1, <2>2, LaterIsLater
    <2>4. UNCHANGED timeline \/ leapForwardTo(core[t], time)
      BY <1>15 DEF setRunningThread
    <2> QED BY <2>1, <2>3, <2>4, IdleAdvances, LeapAdvances
  <1>16. ASSUME NEW t \in Threads, suspendCurrentThread(t) PROVE TimelineAdvances
    BY <1>16, IdleAdvances DEF suspendCurrentThread
  <1>17. ASSUME NEW t \in Threads, onReplacedWaiting(t) PROVE TimelineAdvances
    BY <1>17, IdleAdvances DEF onReplacedWaiting
  <1>18. ASSUME NEW t \in Threads, NEW u \in Threads,
                updateInterruptedWaitingThreadTimestamp(t, u)
         PROVE  TimelineAdvances
    BY <1>18, IdleAdvances DEF updateInterruptedWaitingThreadTimestamp
  <1>19. ASSUME NEW t \in Threads, setNativeWaiting(t) PROVE TimelineAdvances
    BY <1>19, IdleAdvances DEF setNativeWaiting
  <1>20. ASSUME NEW t \in Threads, onWrappedWaitingStart(t) PROVE TimelineAdvances
    BY <1>20, IdleAdvances DEF onWrappedWaitingStart
  <1>21. ASSUME NEW t \in Threads, updateBlockedThreadTimestamp(t) PROVE TimelineAdvances
    BY <1>21, RecomputedAdvances
       DEF updateBlockedThreadTimestamp
  <1>22. ASSUME NEW t \in Threads, NEW d \in Durations,
                updateThreadLocalTimeSinceLastResumeTo(t, d)
         PROVE  TimelineAdvances
    BY <1>22, IdleAdvances DEF updateThreadLocalTimeSinceLastResumeTo
  <1>23. ASSUME NEW t \in Threads, NEW d \in Durations, commitCpuTimeProgress(t, d)
         PROVE  TimelineAdvances
    <2>1. addLocalTime(t, d) /\ leapForwardTo(core[t], resumedLastAt[t] + localTime'[t])
      BY <1>23 DEF commitCpuTimeProgress
    <2>2. core[t] \in Cores /\ resumedLastAt[t] + localTime'[t] \in Nat
      BY <2>1, LocalTimeGrows DEF TypeOK
    <2> QED BY <2>1, <2>2, LeapAdvances
  <1>24. ASSUME NEW t \in Threads, NEW d \in Durations, onReplacedTimedWaiting(t, d)
         PROVE  TimelineAdvances
    BY <1>24, IdleAdvances DEF onReplacedTimedWaiting
  <1>25. ASSUME NEW t \in Threads, NEW d \in Durations, suspendLooseCurrentThread(t, d)
         PROVE  TimelineAdvances
    <2>1. addLocalTime(t, d) /\ addTimeOfThreadExecutingAtUnknownTime(localTime'[t])
      BY <1>25 DEF suspendLooseCurrentThread
    <2>2. localTime'[t] \in Nat
      BY <2>1, LocalTimeGrows
    <2> QED BY <2>1, <2>2, UnknownTimeAdvances
  <1>26. ASSUME NEW t \in Threads, NEW d \in Durations, onWrappedWaitingEnd(t, d)
         PROVE  TimelineAdvances
    <2>1. addLocalTime(t, d) /\ leapForwardTo(core[t], resumedLastAt[t] + localTime'[t])
      BY <1>26 DEF onWrappedWaitingEnd
    <2>2. core[t] \in Cores /\ resumedLastAt[t] + localTime'[t] \in Nat
      BY <2>1, LocalTimeGrows DEF TypeOK
    <2> QED BY <2>1, <2>2, LeapAdvances
  <1>27. ASSUME NEW d \in Durations, commitBackgroundLoadExecutionTime(d)
         PROVE  TimelineAdvances
    <2>1. d \in Nat
      BY TimeAssumption
    <2> QED BY <1>27, <2>1, UnknownTimeAdvances DEF commitBackgroundLoadExecutionTime
  <1> QED BY <1>1, <1>2, <1>3, <1>4, <1>5, <1>6, <1>7, <1>8, <1>9, <1>10, <1>11,
             <1>12, <1>13, <1>14, <1>15, <1>16, <1>17, <1>18, <1>19, <1>20, <1>21,
             <1>22, <1>23, <1>24, <1>25, <1>26, <1>27
          DEF Next, SchedulerStep, ThreadStep

\* Schedulers and threads hand threads over without losing or sharing them:
\* a popped thread is in one scheduler's hands, a resumed one suspends again
\* if its core is taken.
LEMMA StepKeepsControl ==
  ASSUME IndInv, Next
  PROVE  Control'
  <1> USE NoThreadAssumption
          DEF IndInv, TypeOK, Control, ControlTypes, HeldByOne, RunningThreadRuns,
              OneThreadPerCore, InHandAt, schedulers
  <1>1. ASSUME NEW c \in Cores, doControllerWait(c) PROVE Control'
    BY <1>1 DEF doControllerWait, Goto
  <1>2. ASSUME NEW c \in Cores, disableIdleCore(c) PROVE Control'
    BY <1>2 DEF disableIdleCore, disableLocalTimeline
  <1>3. ASSUME NEW c \in Cores, shouldBlockCoreProgress(c) PROVE Control'
    BY <1>3 DEF shouldBlockCoreProgress, Goto
  <1>4. ASSUME NEW c \in Cores, suspendThread(c) PROVE Control'
    BY <1>4 DEF suspendThread, Goto, Becomes, FreesCore
  <1>5. ASSUME NEW c \in Cores, nobodyToSuspend(c) PROVE Control'
    BY <1>5 DEF nobodyToSuspend, Goto
  <1>6. ASSUME NEW c \in Cores, nobodyToResume(c) PROVE Control'
    BY <1>6 DEF nobodyToResume, Goto
  <1>7. ASSUME NEW c \in Cores, popSuspended(c) PROVE Control'
    BY <1>7 DEF popSuspended, Becomes, Tops, queue
  <1>8. ASSUME NEW c \in Cores, commitTimedWaitingProgress(c) PROVE Control'
    BY <1>8 DEF commitTimedWaitingProgress, Becomes, Tops, queue
  <1>9. ASSUME NEW c \in Cores, leapNotValid(c) PROVE Control'
    BY <1>9 DEF leapNotValid, Goto
  <1>10. ASSUME NEW c \in Cores, tooFarAhead(c) PROVE Control'
    BY <1>10 DEF tooFarAhead, Goto
  <1>11. ASSUME NEW c \in Cores, disableCore(c) PROVE Control'
    BY SMTT(30), <1>11 DEF disableCore, Goto, Becomes, BackToWait
  <1>12. ASSUME NEW c \in Cores, leapWhenAllDisabled(c) PROVE Control'
    BY <1>12 DEF leapWhenAllDisabled, Goto, updateResumingSuspendedThreadTimestamp
  <1>13. ASSUME NEW c \in Cores, activate(c) PROVE Control'
    BY <1>13 DEF activate, Goto
  <1>14. ASSUME NEW c \in Cores, updateResumingSuspendedThreadResumedLastTimestamp(c)
         PROVE  Control'
    BY <1>14 DEF updateResumingSuspendedThreadResumedLastTimestamp, Becomes, BackToWait
  <1>15. ASSUME NEW t \in Threads, setRunningThread(t) PROVE Control'
    BY <1>15 DEF setRunningThread, Becomes
  <1>16. ASSUME NEW t \in Threads, suspendCurrentThread(t) PROVE Control'
    BY <1>16 DEF suspendCurrentThread, Becomes, FreesCore, Runs
  <1>17. ASSUME NEW t \in Threads, onReplacedWaiting(t) PROVE Control'
    BY <1>17 DEF onReplacedWaiting, Becomes, FreesCore, Runs
  <1>18. ASSUME NEW t \in Threads, NEW u \in Threads,
                updateInterruptedWaitingThreadTimestamp(t, u)
         PROVE  Control'
    BY <1>18 DEF updateInterruptedWaitingThreadTimestamp, Becomes, Runs
  <1>19. ASSUME NEW t \in Threads, setNativeWaiting(t) PROVE Control'
    BY <1>19 DEF setNativeWaiting, Becomes, FreesCore, Runs
  <1>20. ASSUME NEW t \in Threads, onWrappedWaitingStart(t) PROVE Control'
    BY <1>20 DEF onWrappedWaitingStart, Becomes, FreesCore, Runs
  <1>21. ASSUME NEW t \in Threads, updateBlockedThreadTimestamp(t) PROVE Control'
    BY <1>21 DEF updateBlockedThreadTimestamp, Becomes
  <1>22. ASSUME NEW t \in Threads, NEW d \in Durations,
                updateThreadLocalTimeSinceLastResumeTo(t, d)
         PROVE  Control'
    BY <1>22 DEF updateThreadLocalTimeSinceLastResumeTo, Runs
  <1>23. ASSUME NEW t \in Threads, NEW d \in Durations, commitCpuTimeProgress(t, d)
         PROVE  Control'
    BY <1>23 DEF commitCpuTimeProgress, Runs
  <1>24. ASSUME NEW t \in Threads, NEW d \in Durations, onReplacedTimedWaiting(t, d)
         PROVE  Control'
    BY <1>24 DEF onReplacedTimedWaiting, Becomes, FreesCore, Runs
  <1>25. ASSUME NEW t \in Threads, NEW d \in Durations, suspendLooseCurrentThread(t, d)
         PROVE  Control'
    BY <1>25 DEF suspendLooseCurrentThread, Becomes
  <1>26. ASSUME NEW t \in Threads, NEW d \in Durations, onWrappedWaitingEnd(t, d)
         PROVE  Control'
    BY <1>26 DEF onWrappedWaitingEnd, Becomes
  <1>27. ASSUME NEW d \in Durations, commitBackgroundLoadExecutionTime(d) PROVE Control'
    BY <1>27 DEF commitBackgroundLoadExecutionTime
  <1> QED BY <1>1, <1>2, <1>3, <1>4, <1>5, <1>6, <1>7, <1>8, <1>9, <1>10, <1>11, <1>12,
             <1>13, <1>14, <1>15, <1>16, <1>17, <1>18, <1>19, <1>20, <1>21, <1>22,
             <1>23, <1>24, <1>25, <1>26, <1>27
          DEF Next, SchedulerStep, ThreadStep

\* No step charges a thread more than its clock shows, and only a notified
\* waiter's clock may be set back.
LEMMA StepMovesTimers ==
  ASSUME IndInv, Next
  PROVE  TimersAdvance
  <1>0. TimelineAdvances
    BY StepAdvances DEF IndInv
  <1> USE DEF IndInv, TypeOK, TimersAdvance, TimerTypes, ResumedWithinClock, timers
  <1>1. ASSUME NEW c \in Cores, doControllerWait(c) PROVE TimersAdvance
    BY <1>1 DEF doControllerWait
  <1>2. ASSUME NEW c \in Cores, disableIdleCore(c) PROVE TimersAdvance
    BY <1>2 DEF disableIdleCore
  <1>3. ASSUME NEW c \in Cores, shouldBlockCoreProgress(c) PROVE TimersAdvance
    BY <1>3 DEF shouldBlockCoreProgress
  <1>4. ASSUME NEW c \in Cores, suspendThread(c) PROVE TimersAdvance
    BY <1>4 DEF suspendThread, Becomes
  <1>5. ASSUME NEW c \in Cores, nobodyToSuspend(c) PROVE TimersAdvance
    BY <1>5 DEF nobodyToSuspend
  <1>6. ASSUME NEW c \in Cores, nobodyToResume(c) PROVE TimersAdvance
    BY <1>6 DEF nobodyToResume
  <1>7. ASSUME NEW c \in Cores, popSuspended(c) PROVE TimersAdvance
    BY <1>7 DEF popSuspended, Becomes, Tops, queue
  <1>8. ASSUME NEW c \in Cores, commitTimedWaitingProgress(c) PROVE TimersAdvance
    <2>1. PICK t \in Tops : /\ leapForwardTo(c, ert[t])
                           /\ ert' = [ert EXCEPT ![t] = localCoreVirtualTimes'[c]]
                           /\ where[t] = "timed" /\ Becomes(t, "held")
      BY <1>8 DEF commitTimedWaitingProgress
    <2>2. t \in Threads /\ ert[t] \in Nat
      BY <2>1 DEF Tops, queue
    <2>3. ert[t] <= localCoreVirtualTimes'[c] /\ localCoreVirtualTimes'[c] \in Nat
      BY <2>1, <2>2, LeapAdvances DEF TimelineAdvances
    <2> QED BY <1>8, <2>1, <2>2, <2>3 DEF commitTimedWaitingProgress, Becomes
  <1>9. ASSUME NEW c \in Cores, leapNotValid(c) PROVE TimersAdvance
    BY <1>9 DEF leapNotValid
  <1>10. ASSUME NEW c \in Cores, tooFarAhead(c) PROVE TimersAdvance
    BY <1>10 DEF tooFarAhead
  <1>11. ASSUME NEW c \in Cores, disableCore(c) PROVE TimersAdvance
    BY <1>11 DEF disableCore, Becomes
  <1>12. ASSUME NEW c \in Cores, leapWhenAllDisabled(c) PROVE TimersAdvance
    <2> DEFINE time == Later(ert[carg[c]], localCoreVirtualTimes[c])
    <2>1. carg[c] \in Threads /\ where[carg[c]] = "held"
      BY <1>12 DEF leapWhenAllDisabled, HeldByOne, InHandAt
    <2>2. time \in Nat /\ ert[carg[c]] <= time
      BY <2>1, LaterIsLater
    <2>3. /\ ert' = [ert EXCEPT ![carg[c]] = time]
          /\ UNCHANGED <<where, resumedLastAt, localTime>>
      BY <1>12 DEF leapWhenAllDisabled, updateResumingSuspendedThreadTimestamp
    <2> HIDE DEF time
    <2> QED BY <2>1, <2>2, <2>3
  <1>13. ASSUME NEW c \in Cores, activate(c) PROVE TimersAdvance
    BY <1>13 DEF activate
  <1>14. ASSUME NEW c \in Cores, updateResumingSuspendedThreadResumedLastTimestamp(c)
         PROVE  TimersAdvance
    <2> DEFINE time == Later(ert[carg[c]], localCoreVirtualTimes[c])
    <2>1. carg[c] \in Threads /\ where[carg[c]] = "held"
      BY <1>14 DEF updateResumingSuspendedThreadResumedLastTimestamp, HeldByOne, InHandAt
    <2>2. /\ time \in Nat /\ ert[carg[c]] <= time
          /\ localCoreVirtualTimes[c] \in Nat /\ localCoreVirtualTimes[c] <= time
      BY <2>1, LaterIsLater
    <2>3. /\ ert' = [ert EXCEPT ![carg[c]] = time]
          /\ resumedLastAt' = [resumedLastAt EXCEPT ![carg[c]] = localCoreVirtualTimes[c]]
          /\ localTime' = [localTime EXCEPT ![carg[c]] = 0]
          /\ where' = [where EXCEPT ![carg[c]] = "signalled"]
      BY <1>14 DEF updateResumingSuspendedThreadResumedLastTimestamp, Becomes
    <2> HIDE DEF time
    <2> QED BY <2>1, <2>2, <2>3
  <1>15. ASSUME NEW t \in Threads, setRunningThread(t) PROVE TimersAdvance
    <2> DEFINE time == Later(TimeAfterWait(t), localCoreVirtualTimes[core[t]])
    <2>1. TimeAfterWait(t) \in Nat /\ ert[t] <= TimeAfterWait(t)
      BY WaitMovesForward DEF TypeOK
    <2>2. time \in Nat /\ TimeAfterWait(t) <= time
      BY <2>1, LaterIsLater
    <2>3. PICK new \in {time, TimeAfterWait(t)} : ert' = [ert EXCEPT ![t] = new]
      BY <1>15 DEF setRunningThread
    <2>4. \A u \in Threads \ {t} : where'[u] = where[u]
      BY <1>15 DEF setRunningThread, Becomes
    <2>5. where[t] = "signalled" /\ UNCHANGED <<resumedLastAt, localTime>>
      BY <1>15 DEF setRunningThread
    <2>6. new \in Nat /\ ert[t] <= new
      BY <2>1, <2>2, <2>3
    <2> HIDE DEF time
    <2> QED BY <2>3, <2>4, <2>5, <2>6
  <1>16. ASSUME NEW t \in Threads, suspendCurrentThread(t) PROVE TimersAdvance
    BY <1>16 DEF suspendCurrentThread, Becomes, Runs
  <1>17. ASSUME NEW t \in Threads, onReplacedWaiting(t) PROVE TimersAdvance
    BY <1>17 DEF onReplacedWaiting, Becomes, Runs
  <1>18. ASSUME NEW t \in Threads, NEW u \in Threads,
                updateInterruptedWaitingThreadTimestamp(t, u)
         PROVE  TimersAdvance
    BY <1>18 DEF updateInterruptedWaitingThreadTimestamp, Becomes, Runs
  <1>19. ASSUME NEW t \in Threads, setNativeWaiting(t) PROVE TimersAdvance
    BY <1>19 DEF setNativeWaiting, Becomes, Runs
  <1>20. ASSUME NEW t \in Threads, onWrappedWaitingStart(t) PROVE TimersAdvance
    BY <1>20 DEF onWrappedWaitingStart, Becomes, Runs
  <1>21. ASSUME NEW t \in Threads, updateBlockedThreadTimestamp(t) PROVE TimersAdvance
    <2> DEFINE now == globalVirtualTime'
    <2>1. now \in Nat
      BY <1>0 DEF TimelineAdvances
    <2>2. Later(ert[t], now) \in Nat /\ ert[t] <= Later(ert[t], now)
      BY <2>1, LaterIsLater
    <2>3. /\ ert' = [ert EXCEPT ![t] = Later(ert[t], now)]
          /\ resumedLastAt' = [resumedLastAt EXCEPT ![t] = now]
          /\ localTime' = [localTime EXCEPT ![t] = 0]
          /\ where' = [where EXCEPT ![t] = "unblocked"]
      BY <1>21 DEF updateBlockedThreadTimestamp, Becomes
    <2> HIDE DEF now
    <2> QED BY <2>1, <2>2, <2>3
  <1>22. ASSUME NEW t \in Threads, NEW d \in Durations,
                updateThreadLocalTimeSinceLastResumeTo(t, d)
         PROVE  TimersAdvance
    <2>1. addLocalTime(t, d) /\ UNCHANGED <<where, resumedLastAt>>
      BY <1>22 DEF updateThreadLocalTimeSinceLastResumeTo
    <2>2. TimerTypes' /\ ert'[t] = ert[t] + d /\ localTime'[t] = localTime[t] + d
          /\ \A u \in Threads \ {t} : ert'[u] = ert[u] /\ localTime'[u] = localTime[u]
      BY <2>1, LocalTimeGrows
    <2>3. d \in Nat /\ resumedLastAt[t] + localTime[t] <= ert[t]
      BY <1>22, TimeAssumption DEF updateThreadLocalTimeSinceLastResumeTo, Runs
    <2>4. resumedLastAt'[t] + localTime'[t] <= ert'[t] /\ ert[t] <= ert'[t]
      BY <2>1, <2>2, <2>3
    <2> QED BY <2>1, <2>2, <2>4
  <1>23. ASSUME NEW t \in Threads, NEW d \in Durations, commitCpuTimeProgress(t, d)
         PROVE  TimersAdvance
    <2>1. addLocalTime(t, d) /\ UNCHANGED <<where, resumedLastAt>>
      BY <1>23 DEF commitCpuTimeProgress
    <2>2. TimerTypes' /\ ert'[t] = ert[t] + d /\ localTime'[t] = localTime[t] + d
          /\ \A u \in Threads \ {t} : ert'[u] = ert[u] /\ localTime'[u] = localTime[u]
      BY <2>1, LocalTimeGrows
    <2>3. d \in Nat /\ resumedLastAt[t] + localTime[t] <= ert[t]
      BY <1>23, TimeAssumption DEF commitCpuTimeProgress, Runs
    <2>4. resumedLastAt'[t] + localTime'[t] <= ert'[t] /\ ert[t] <= ert'[t]
      BY <2>1, <2>2, <2>3
    <2> QED BY <2>1, <2>2, <2>4
  <1>24. ASSUME NEW t \in Threads, NEW d \in Durations, onReplacedTimedWaiting(t, d)
         PROVE  TimersAdvance
    <2>1. d \in Nat
      BY TimeAssumption
    <2> QED BY <1>24, <2>1 DEF onReplacedTimedWaiting, Becomes
  <1>25. ASSUME NEW t \in Threads, NEW d \in Durations, suspendLooseCurrentThread(t, d)
         PROVE  TimersAdvance
    <2>1. addLocalTime(t, d) /\ UNCHANGED resumedLastAt /\ where[t] = "native"
          /\ \A u \in Threads \ {t} : where'[u] = where[u]
      BY <1>25 DEF suspendLooseCurrentThread, Becomes
    <2>2. TimerTypes' /\ ert'[t] = ert[t] + d /\ localTime'[t] = localTime[t] + d
          /\ \A u \in Threads \ {t} : ert'[u] = ert[u] /\ localTime'[u] = localTime[u]
      BY <2>1, LocalTimeGrows
    <2>3. d \in Nat /\ resumedLastAt[t] + localTime[t] <= ert[t]
      BY <1>25, TimeAssumption DEF suspendLooseCurrentThread, Runs
    <2>4. resumedLastAt'[t] + localTime'[t] <= ert'[t] /\ ert[t] <= ert'[t]
      BY <2>1, <2>2, <2>3
    <2> QED BY <2>1, <2>2, <2>4
  <1>26. ASSUME NEW t \in Threads, NEW d \in Durations, onWrappedWaitingEnd(t, d)
         PROVE  TimersAdvance
    <2>1. addLocalTime(t, d) /\ UNCHANGED resumedLastAt
          /\ where' = [where EXCEPT ![t] = "runnable"]
      BY <1>26 DEF onWrappedWaitingEnd, Becomes
    <2> QED BY <2>1, LocalTimeGrows
  <1>27. ASSUME NEW d \in Durations, commitBackgroundLoadExecutionTime(d)
         PROVE  TimersAdvance
    BY <1>27 DEF commitBackgroundLoadExecutionTime
  <1> QED BY <1>1, <1>2, <1>3, <1>4, <1>5, <1>6, <1>7, <1>8, <1>9, <1>10, <1>11, <1>12,
             <1>13, <1>14, <1>15, <1>16, <1>17, <1>18, <1>19, <1>20, <1>21, <1>22,
             <1>23, <1>24, <1>25, <1>26, <1>27
          DEF Next, SchedulerStep, ThreadStep

\* A thread that runs on is charged from where it was resumed.
LEMMA StepRunsOn ==
  ASSUME IndInv, Next, \A t \in Threads : ~setRunningThread(t)
  PROVE  RunsOn
  <1> USE DEF IndInv, TypeOK, RunsOn, timers
  <1>1. ASSUME NEW c \in Cores, doControllerWait(c) PROVE RunsOn
    BY <1>1 DEF doControllerWait
  <1>2. ASSUME NEW c \in Cores, disableIdleCore(c) PROVE RunsOn
    BY <1>2 DEF disableIdleCore
  <1>3. ASSUME NEW c \in Cores, shouldBlockCoreProgress(c) PROVE RunsOn
    BY <1>3 DEF shouldBlockCoreProgress
  <1>4. ASSUME NEW c \in Cores, suspendThread(c) PROVE RunsOn
    BY <1>4 DEF suspendThread, Becomes, RunningThreadRuns
  <1>5. ASSUME NEW c \in Cores, nobodyToSuspend(c) PROVE RunsOn
    BY <1>5 DEF nobodyToSuspend
  <1>6. ASSUME NEW c \in Cores, nobodyToResume(c) PROVE RunsOn
    BY <1>6 DEF nobodyToResume
  <1>7. ASSUME NEW c \in Cores, popSuspended(c) PROVE RunsOn
    BY <1>7 DEF popSuspended, Becomes, Tops, queue
  <1>8. ASSUME NEW c \in Cores, commitTimedWaitingProgress(c) PROVE RunsOn
    BY <1>8 DEF commitTimedWaitingProgress, Becomes, Tops, queue
  <1>9. ASSUME NEW c \in Cores, leapNotValid(c) PROVE RunsOn
    BY <1>9 DEF leapNotValid
  <1>10. ASSUME NEW c \in Cores, tooFarAhead(c) PROVE RunsOn
    BY <1>10 DEF tooFarAhead
  <1>11. ASSUME NEW c \in Cores, disableCore(c) PROVE RunsOn
    BY <1>11 DEF disableCore, Becomes, HeldByOne, InHandAt
  <1>12. ASSUME NEW c \in Cores, leapWhenAllDisabled(c) PROVE RunsOn
    BY <1>12 DEF leapWhenAllDisabled
  <1>13. ASSUME NEW c \in Cores, activate(c) PROVE RunsOn
    BY <1>13 DEF activate
  <1>14. ASSUME NEW c \in Cores, updateResumingSuspendedThreadResumedLastTimestamp(c)
         PROVE  RunsOn
    BY <1>14 DEF updateResumingSuspendedThreadResumedLastTimestamp, Becomes, HeldByOne,
         InHandAt
  <1>15. ASSUME NEW t \in Threads, suspendCurrentThread(t) PROVE RunsOn
    BY <1>15 DEF suspendCurrentThread, Becomes, Runs
  <1>16. ASSUME NEW t \in Threads, onReplacedWaiting(t) PROVE RunsOn
    BY <1>16 DEF onReplacedWaiting, Becomes, Runs
  <1>17. ASSUME NEW t \in Threads, NEW u \in Threads,
                updateInterruptedWaitingThreadTimestamp(t, u)
         PROVE  RunsOn
    BY <1>17 DEF updateInterruptedWaitingThreadTimestamp, Becomes, Runs
  <1>18. ASSUME NEW t \in Threads, setNativeWaiting(t) PROVE RunsOn
    BY <1>18 DEF setNativeWaiting, Becomes, Runs
  <1>19. ASSUME NEW t \in Threads, onWrappedWaitingStart(t) PROVE RunsOn
    BY <1>19 DEF onWrappedWaitingStart, Becomes, Runs
  <1>20. ASSUME NEW t \in Threads, updateBlockedThreadTimestamp(t) PROVE RunsOn
    BY <1>20 DEF updateBlockedThreadTimestamp, Becomes
  <1>21. ASSUME NEW t \in Threads, NEW d \in Durations,
                updateThreadLocalTimeSinceLastResumeTo(t, d)
         PROVE  RunsOn
    BY <1>21 DEF updateThreadLocalTimeSinceLastResumeTo, Runs
  <1>22. ASSUME NEW t \in Threads, NEW d \in Durations, commitCpuTimeProgress(t, d)
         PROVE  RunsOn
    BY <1>22 DEF commitCpuTimeProgress, Runs
  <1>23. ASSUME NEW t \in Threads, NEW d \in Durations, onReplacedTimedWaiting(t, d)
         PROVE  RunsOn
    BY <1>23 DEF onReplacedTimedWaiting, Becomes, Runs
  <1>24. ASSUME NEW t \in Threads, NEW d \in Durations, suspendLooseCurrentThread(t, d)
         PROVE  RunsOn
    BY <1>24 DEF suspendLooseCurrentThread, Becomes
  <1>25. ASSUME NEW t \in Threads, NEW d \in Durations, onWrappedWaitingEnd(t, d)
         PROVE  RunsOn
    BY <1>25 DEF onWrappedWaitingEnd, Becomes
  <1>26. ASSUME NEW d \in Durations, commitBackgroundLoadExecutionTime(d) PROVE RunsOn
    BY <1>26 DEF commitBackgroundLoadExecutionTime
  <1> QED BY <1>1, <1>2, <1>3, <1>4, <1>5, <1>6, <1>7, <1>8, <1>9, <1>10, <1>11, <1>12,
             <1>13, <1>14, <1>15, <1>16, <1>17, <1>18, <1>19, <1>20, <1>21, <1>22,
             <1>23, <1>24, <1>25, <1>26
          DEF Next, SchedulerStep, ThreadStep

\* What a running thread commits is on its core's clock from its resumption on:
\* a thread resumed long ago by one core, and moved on by a wait on another,
\* takes its core along when it starts to run.
LEMMA StepKeepsCharges ==
  ASSUME IndInv, Next
  PROVE  CommitNeverExceedsClock'
  <1>1. TimelineAdvances /\ TimersAdvance /\ Control'
    BY StepAdvances, StepMovesTimers, StepKeepsControl DEF IndInv
  <1>2. ASSUME NEW t \in Threads, where'[t] = "running"
        PROVE  resumedLastAt'[t] + localTime'[t] <= ert'[t]
    BY <1>1, <1>2 DEF TimersAdvance, ResumedWithinClock
  <1>3. ASSUME RunsOn, NEW t \in Threads, where'[t] = "running"
        PROVE  resumedLastAt'[t] <= localCoreVirtualTimes'[core'[t]]
    <2>1. /\ resumedLastAt[t] <= localCoreVirtualTimes[core[t]] /\ core[t] \in Cores
          /\ resumedLastAt'[t] = resumedLastAt[t] /\ core'[t] = core[t]
      BY <1>3 DEF RunsOn, IndInv, TypeOK, CommitNeverExceedsClock
    <2>2. /\ localCoreVirtualTimes[core[t]] <= localCoreVirtualTimes'[core[t]]
          /\ localCoreVirtualTimes[core[t]] \in Nat /\ localCoreVirtualTimes'[core[t]] \in Nat
          /\ resumedLastAt[t] \in Nat
      BY <1>1, <2>1 DEF TimelineAdvances, IndInv, TypeOK
    <2> QED BY <2>1, <2>2
  <1>4. ASSUME NEW s \in Threads, setRunningThread(s),
               NEW t \in Threads, where'[t] = "running"
        PROVE  resumedLastAt'[t] <= localCoreVirtualTimes'[core'[t]]
    <2>1. UNCHANGED <<core, resumedLastAt>> /\ core[t] \in Cores /\ core[s] \in Cores
      BY <1>4 DEF setRunningThread, IndInv, TypeOK
    <2>2. CASE t # s
      <3>1. where[t] = "running"
        BY <1>4, <2>2 DEF setRunningThread, Becomes, IndInv, TypeOK
      <3>2. /\ resumedLastAt[t] <= localCoreVirtualTimes[core[t]]
            /\ localCoreVirtualTimes[core[t]] <= localCoreVirtualTimes'[core[t]]
            /\ localCoreVirtualTimes[core[t]] \in Nat
            /\ localCoreVirtualTimes'[core[t]] \in Nat /\ resumedLastAt[t] \in Nat
        BY <1>1, <2>1, <3>1 DEF IndInv, TypeOK, CommitNeverExceedsClock, TimelineAdvances
      <3> QED BY <2>1, <3>2
    <2>3. CASE t = s
      <3> DEFINE time == Later(TimeAfterWait(s), localCoreVirtualTimes[core[s]])
      <3>1. /\ ert' = [ert EXCEPT ![s] = time]
            /\ \/ UNCHANGED timeline /\ time = localCoreVirtualTimes[core[s]]
               \/ leapForwardTo(core[s], time)
        BY <1>4, <2>3 DEF setRunningThread, Becomes, IndInv, TypeOK
      <3>2. time \in Nat
        BY <2>1, WaitMovesForward, LaterIsLater DEF IndInv, TypeOK
      <3> HIDE DEF time
      <3>3. time <= localCoreVirtualTimes'[core[s]]
        <4>1. CASE leapForwardTo(core[s], time)
          BY <2>1, <3>2, <4>1, LeapAdvances DEF IndInv
        <4>2. CASE UNCHANGED timeline /\ time = localCoreVirtualTimes[core[s]]
          BY <3>2, <4>2 DEF timeline
        <4> QED BY <3>1, <4>1, <4>2
      <3>4. resumedLastAt'[s] + localTime'[s] <= time
        BY <1>2, <1>4, <2>3, <3>1 DEF IndInv, TypeOK
      <3>5. /\ resumedLastAt'[s] \in Nat /\ localTime'[s] \in Nat
            /\ localCoreVirtualTimes'[core[s]] \in Nat
        BY <1>1, <2>1 DEF TimersAdvance, TimerTypes, TimelineAdvances
      <3> QED BY <2>1, <2>3, <3>2, <3>3, <3>4, <3>5
    <2> QED BY <2>2, <2>3
  <1>5. ASSUME NEW t \in Threads, where'[t] = "running"
        PROVE  resumedLastAt'[t] <= localCoreVirtualTimes'[core'[t]]
    <2>1. CASE \A s \in Threads : ~setRunningThread(s)
      BY <1>3, <1>5, <2>1, StepRunsOn
    <2>2. CASE \E s \in Threads : setRunningThread(s)
      BY <1>4, <1>5, <2>2
    <2> QED BY <2>1, <2>2
  <1> QED BY <1>2, <1>5 DEF CommitNeverExceedsClock

\* A step of any scheduler or thread, or of the garbage collector, keeps the
\* inductive invariant.
LEMMA StepKeepsInvariant ==
  ASSUME IndInv, [Next]_vars
  PROVE  IndInv'
  <1>1. CASE Next
    <2>1. TimelineAdvances
      BY <1>1, StepAdvances DEF IndInv
    <2>2. Control'
      BY <1>1, StepKeepsControl
    <2>3. TimersAdvance
      BY <1>1, StepMovesTimers
    <2>4. TypeOK'
      BY <2>1, <2>2, <2>3
         DEF TypeOK, TimelineAdvances, Control, ControlTypes, TimersAdvance, TimerTypes
    <2>5. CommitNeverExceedsClock'
      BY <1>1, StepKeepsCharges
    <2> QED BY <2>2, <2>3, <2>4, <2>5 DEF IndInv, Control, TimersAdvance
  <1>2. CASE UNCHANGED vars
    BY <1>2 DEF vars, IndInv, TypeOK, HeldByOne, RunningThreadRuns, OneThreadPerCore,
                ResumedWithinClock, CommitNeverExceedsClock
  <1> QED BY <1>1, <1>2

\* All clocks start at 0, and no core has a thread.
LEMMA InitEstablishes == Init => IndInv /\ GlobalTimeIsLatest /\ GlobalTimeBehindActiveCores
  <1> SUFFICES ASSUME Init PROVE IndInv /\ GlobalTimeIsLatest /\ GlobalTimeBehindActiveCores
    OBVIOUS
  <1>1. 0 \in Cores
    BY ProcessorsAssumption DEF Cores
  <1> QED BY <1>1, NoThreadAssumption
     DEF Init, IndInv, TypeOK, HeldByOne, RunningThreadRuns, OneThreadPerCore, InHandAt,
         ResumedWithinClock, CommitNeverExceedsClock, GlobalTimeIsLatest,
         GlobalTimeBehindActiveCores
-----------------------------------------------------------------------------
\* Every variable keeps its type, one thread charges each core, and no thread
\* commits time it has not used (ThreadManager.cpp setRunningThread, Timers.h,
\* commitCpuTimeProgress), for any number of cores, threads and durations.
THEOREM TimelineIsSound == Spec => [](TypeOK /\ OneThreadPerCore /\ CommitNeverExceedsClock)
  <1>1. Init => IndInv
    BY InitEstablishes
  <1>2. IndInv /\ [Next]_vars => IndInv'
    BY StepKeepsInvariant
  <1>3. IndInv => TypeOK /\ OneThreadPerCore /\ CommitNeverExceedsClock
    BY DEF IndInv
  <1> QED BY <1>1, <1>2, <1>3, PTL DEF Spec

\* Loose synchronisation: the global time is the latest local time; strict: it
\* overtakes no enabled core (updateGlobalTimeTo and its override).
THEOREM GlobalTimeFollowsCores ==
  Spec => [](GlobalTimeIsLatest /\ GlobalTimeBehindActiveCores)
  <1> DEFINE Inv == IndInv /\ GlobalTimeIsLatest /\ GlobalTimeBehindActiveCores
  <1>1. Init => Inv
    BY InitEstablishes
  <1>2. Inv /\ [Next]_vars => Inv'
    <2> SUFFICES ASSUME Inv, [Next]_vars PROVE Inv'
      OBVIOUS
    <2>1. IndInv'
      BY StepKeepsInvariant
    <2>2. CASE Next
      BY <2>1, <2>2, StepAdvances DEF TimelineAdvances, IndInv
    <2>3. CASE UNCHANGED vars
      BY <2>1, <2>3 DEF vars, GlobalTimeIsLatest, GlobalTimeBehindActiveCores
    <2> QED BY <2>2, <2>3
  <1>3. Inv => GlobalTimeIsLatest /\ GlobalTimeBehindActiveCores
    OBVIOUS
  <1> QED BY <1>1, <1>2, <1>3, PTL DEF Spec

\* Whatever order commits, leaps, activations and disablings of the cores come
\* in, the timeline is consistent: the two theorems above together.
THEOREM TimelineStaysConsistent == Spec => []TimelineIsConsistent
  <1>1. TypeOK /\ OneThreadPerCore /\ CommitNeverExceedsClock
        /\ GlobalTimeIsLatest /\ GlobalTimeBehindActiveCores => TimelineIsConsistent
    BY DEF TimelineIsConsistent
  <1> QED BY <1>1, TimelineIsSound, GlobalTimeFollowsCores, PTL

\* No commit, leap, activation or background load on any core turns a core's
\* clock back, and a thread's clock only goes back when it is notified.
THEOREM TimeNeverRunsBackwards == Spec => ClocksAdvance
  <1> DEFINE Advance ==
        /\ \A c \in Cores : localCoreVirtualTimes[c] <= localCoreVirtualTimes'[c]
        /\ \A t \in Threads : ert'[t] < ert[t] => where[t] \in {"waiting", "timed"}
  <1>1. Init => IndInv
    BY InitEstablishes
  <1>2. IndInv /\ [Next]_vars => IndInv'
    BY StepKeepsInvariant
  <1>3. IndInv /\ [Next]_vars => [Advance]_vars
    BY StepAdvances, StepMovesTimers DEF TimelineAdvances, TimersAdvance, IndInv
  <1> QED BY <1>1, <1>2, <1>3, PTL DEF Spec, ClocksAdvance

-----------------------------------------------------------------------------
(***************************************************************************)
(* The clock of a passive run.                                             *)
(***************************************************************************)
PassiveClock == [ert : Nat, local : Nat, lastCpu : Nat]
Locals == [t \in PassiveThreads |-> clockOf[t].local]
LastCpus == [t \in PassiveThreads |-> clockOf[t].lastCpu]

\* A thread's CPU time up to lastCpu was charged, at most twice, and is committed
\* or still local; what it has used since is not charged.
PassiveInv ==
  /\ globalTime \in Nat
  /\ clockOf \in [PassiveThreads -> PassiveClock]
  /\ cpuOf \in [PassiveThreads -> Nat]
  /\ \A t \in PassiveThreads : clockOf[t].lastCpu <= cpuOf[t]
  /\ globalTime + SumOver(Locals, PassiveThreads) <= 2 * SumOver(LastCpus, PassiveThreads)

LEMMA PassiveSummable ==
  ASSUME PassiveInv
  PROVE  /\ Summable(Locals, PassiveThreads) /\ Summable(LastCpus, PassiveThreads)
         /\ Summable(cpuOf, PassiveThreads)
         /\ \A t \in PassiveThreads : /\ Locals[t] = clockOf[t].local
                                      /\ LastCpus[t] = clockOf[t].lastCpu
                                      /\ clockOf[t].local \in Nat /\ clockOf[t].lastCpu \in Nat
                                      /\ clockOf[t].ert \in Nat /\ cpuOf[t] \in Nat
<1>1. \A t \in PassiveThreads : clockOf[t].local \in Nat /\ clockOf[t].lastCpu \in Nat
                                /\ clockOf[t].ert \in Nat
  BY DEF PassiveInv, PassiveClock
<1>2. \A t \in PassiveThreads : cpuOf[t] \in Nat
  BY DEF PassiveInv
<1> QED BY <1>1, <1>2, PassiveAssumption DEF Locals, LastCpus, Summable

LEMMA PassiveInitFits == PassiveInit => PassiveInv
<1> SUFFICES ASSUME PassiveInit PROVE PassiveInv
  OBVIOUS
<1>1. SumOver(Locals, PassiveThreads) = 0 /\ SumOver(LastCpus, PassiveThreads) = 0
  <2>1. \A t \in PassiveThreads : Locals[t] = 0 /\ LastCpus[t] = 0
    BY DEF PassiveInit, Locals, LastCpus
  <2> QED BY <2>1, SumOfZeros, PassiveAssumption
<1> QED BY <1>1 DEF PassiveInit, PassiveInv, PassiveClock

\* A hook may charge what its thread used since lastCpu twice, if it moves lastCpu.
LEMMA HookCharges ==
  ASSUME PassiveInv, NEW t \in PassiveThreads, NEW r \in PassiveClock,
         clockOf' = [clockOf EXCEPT ![t] = r], UNCHANGED cpuOf, globalTime' \in Nat,
         r.lastCpu = cpuOf[t],
         globalTime' + r.local <= globalTime + clockOf[t].local
                                    + 2 * (cpuOf[t] - clockOf[t].lastCpu)
  PROVE  PassiveInv'
<1> DEFINE locals == SumOver(Locals, PassiveThreads)
           cpus == SumOver(LastCpus, PassiveThreads)
<1>0. ASSUME NEW f, NEW g, Summable(f, PassiveThreads), g[t] \in Int,
             \A u \in PassiveThreads : u # t => g[u] = f[u]
      PROVE  SumOver(g, PassiveThreads) = SumOver(f, PassiveThreads) - f[t] + g[t]
  BY <1>0, SumChanges
<1>1. clockOf' \in [PassiveThreads -> PassiveClock]
      /\ clockOf'[t] = r /\ \A u \in PassiveThreads : u # t => clockOf'[u] = clockOf[u]
  BY DEF PassiveInv
<1>2. /\ r.local \in Nat /\ r.lastCpu \in Nat /\ clockOf[t].local \in Nat /\ cpuOf[t] \in Nat
      /\ clockOf[t].lastCpu \in Nat
  BY PassiveSummable DEF PassiveClock
<1>3. SumOver(Locals', PassiveThreads) = locals - clockOf[t].local + r.local
  <2>1. Locals'[t] = r.local /\ \A u \in PassiveThreads : u # t => Locals'[u] = Locals[u]
    BY <1>1 DEF Locals
  <2>2. Locals'[t] \in Int /\ Locals[t] = clockOf[t].local /\ Summable(Locals, PassiveThreads)
    BY <1>2, <2>1, PassiveSummable
  <2> QED BY <1>0, <2>1, <2>2
<1>4. SumOver(LastCpus', PassiveThreads) = cpus - clockOf[t].lastCpu + r.lastCpu
  <2>1. LastCpus'[t] = r.lastCpu /\ \A u \in PassiveThreads : u # t => LastCpus'[u] = LastCpus[u]
    BY <1>1 DEF LastCpus
  <2>2. LastCpus'[t] \in Int /\ LastCpus[t] = clockOf[t].lastCpu /\ Summable(LastCpus, PassiveThreads)
    BY <1>2, <2>1, PassiveSummable
  <2> QED BY <1>0, <2>1, <2>2
<1>5. locals \in Int /\ cpus \in Int /\ globalTime \in Nat /\ globalTime + locals <= 2 * cpus
  BY PassiveSummable, SumIsInt DEF PassiveInv
<1>6. \A u \in PassiveThreads : clockOf'[u].lastCpu <= cpuOf'[u]
  BY <1>1, <1>2 DEF PassiveInv
<1> HIDE DEF locals, cpus
<1>7. globalTime' + (locals - clockOf[t].local + r.local)
        <= 2 * (cpus - clockOf[t].lastCpu + r.lastCpu)
  BY <1>2, <1>5
<1> QED BY <1>1, <1>3, <1>4, <1>6, <1>7 DEF PassiveInv

\* What the hooks do to the clock of their thread.
LEMMA ClocksOfHooks ==
  ASSUME PassiveInv, NEW t \in PassiveThreads, NEW r \in PassiveClock,
         r.lastCpu = clockOf[t].lastCpu
  PROVE  LET e == cpuOf[t] - clockOf[t].lastCpu
             x == Committed(t, r)
         IN  /\ e \in Nat /\ addLocal(t, r) \in PassiveClock
             /\ addLocal(t, r).local = r.local + e /\ addLocal(t, r).lastCpu = r.lastCpu
             /\ x[1] \in Nat /\ x[2] \in PassiveClock /\ x[2].lastCpu = r.lastCpu
             /\ x[1] + x[2].local = globalTime + r.local + e
             /\ readCpuClock(t, r) \in PassiveClock /\ readCpuClock(t, r).local = r.local
             /\ readCpuClock(t, r).lastCpu = cpuOf[t]
<1> DEFINE e == cpuOf[t] - clockOf[t].lastCpu
<1>1. e \in Nat /\ Elapsed(t, r) = e
  BY PassiveSummable DEF PassiveInv, Elapsed
<1>2. r.ert \in Nat /\ r.local \in Nat /\ r.lastCpu \in Nat /\ globalTime \in Nat
      /\ cpuOf[t] \in Nat
  BY PassiveSummable DEF PassiveClock, PassiveInv
<1> HIDE DEF e
<1>4. /\ addLocal(t, r) \in PassiveClock
      /\ addLocal(t, r).local = r.local + e /\ addLocal(t, r).lastCpu = r.lastCpu
  <2>1. addLocal(t, r) = [r EXCEPT !.ert = r.ert + e, !.local = r.local + e]
    BY <1>1 DEF addLocal
  <2>2. r.ert + e \in Nat /\ r.local + e \in Nat
    BY <1>1, <1>2
  <2> QED BY <2>1, <2>2 DEF PassiveClock
<1>5. /\ readCpuClock(t, r) \in PassiveClock /\ readCpuClock(t, r).local = r.local
      /\ readCpuClock(t, r).lastCpu = cpuOf[t]
  BY <1>2 DEF readCpuClock, PassiveClock
<1>6. /\ Committed(t, r)[1] \in Nat /\ Committed(t, r)[2] \in PassiveClock
      /\ Committed(t, r)[2].lastCpu = r.lastCpu
      /\ Committed(t, r)[1] + Committed(t, r)[2].local = globalTime + r.local + e
  <2>1. CASE e > 0
    <3> DEFINE total == globalTime + (r.local + e)
           c == [r EXCEPT !.ert = total, !.local = 0]
    <3>1. Committed(t, r) = <<total, c>>
      BY <1>1, <1>4, <2>1 DEF Committed
    <3>2. total \in Nat
      BY <1>1, <1>2
    <3> HIDE DEF total
    <3>3. c \in PassiveClock /\ c.local = 0 /\ c.lastCpu = r.lastCpu
      BY <3>2 DEF PassiveClock
    <3> HIDE DEF c
    <3>4. total + c.local = globalTime + r.local + e
      BY <1>1, <1>2, <3>3 DEF total
    <3> QED BY <3>1, <3>2, <3>3, <3>4
  <2>2. CASE ~(e > 0)
    <3>1. Committed(t, r) = <<globalTime, r>> /\ e = 0
      BY <1>1, <2>2 DEF Committed
    <3> QED BY <1>2, <3>1
  <2> QED BY <2>1, <2>2
<1> QED BY <1>1, <1>4, <1>5, <1>6 DEF e

LEMMA EnteredClock ==
  ASSUME PassiveInv, NEW t \in PassiveThreads
  PROVE  LET e == cpuOf[t] - clockOf[t].lastCpu
             r == Entered(t)
         IN  /\ e \in Nat /\ r \in PassiveClock /\ r.lastCpu = clockOf[t].lastCpu
             /\ r.local <= clockOf[t].local + e
<1>1. clockOf[t] \in PassiveClock
  BY DEF PassiveInv
<1>2. clockOf[t].local \in Nat
  BY PassiveSummable
<1> QED BY <1>1, <1>2, ClocksOfHooks DEF Entered

LEMMA PassiveStepFits == PassiveInv /\ [PassiveNext]_passiveVars => PassiveInv'
<1> SUFFICES ASSUME PassiveInv, [PassiveNext]_passiveVars PROVE PassiveInv'
  OBVIOUS
<1> USE PassiveSummable
<1>1. CASE UNCHANGED passiveVars
  BY <1>1 DEF passiveVars, PassiveInv, Locals, LastCpus
<1>2. ASSUME NEW t \in PassiveThreads, Burn(t)
      PROVE  PassiveInv'
  <2>1. UNCHANGED <<globalTime, clockOf>> /\ Locals' = Locals /\ LastCpus' = LastCpus
    BY <1>2 DEF Burn, Locals, LastCpus
  <2>2. cpuOf' \in [PassiveThreads -> Nat] /\ \A u \in PassiveThreads : cpuOf'[u] >= cpuOf[u]
    BY <1>2 DEF Burn, PassiveInv
  <2>3. \A u \in PassiveThreads : clockOf'[u].lastCpu <= cpuOf'[u]
    BY <2>1, <2>2 DEF PassiveInv
  <2> QED BY <2>1, <2>2, <2>3 DEF PassiveInv
<1>3. ASSUME NEW t \in PassiveThreads, passiveSpawn(t)
      PROVE  PassiveInv'
  <2> DEFINE r == readCpuClock(t, clockOf[t])
  <2>1. clockOf[t] \in PassiveClock
    BY DEF PassiveInv
  <2>2. clockOf' = [clockOf EXCEPT ![t] = r] /\ UNCHANGED <<cpuOf, globalTime>>
    BY <1>3 DEF passiveSpawn
  <2>3. r \in PassiveClock /\ r.local = clockOf[t].local /\ r.lastCpu = cpuOf[t]
        /\ cpuOf[t] - clockOf[t].lastCpu \in Nat
    BY <2>1, ClocksOfHooks
  <2> HIDE DEF r
  <2>4. globalTime \in Nat /\ globalTime' + r.local <= globalTime + clockOf[t].local
                                                  + 2 * (cpuOf[t] - clockOf[t].lastCpu)
    BY <2>2, <2>3 DEF PassiveInv
  <2> QED BY <2>2, <2>3, <2>4, HookCharges
<1>4. ASSUME NEW t \in PassiveThreads, passiveGetTime(t)
      PROVE  PassiveInv'
  <2> DEFINE e == cpuOf[t] - clockOf[t].lastCpu
             x == Committed(t, clockOf[t])
             y == addLocal(t, x[2])
             r == readCpuClock(t, y)
  <2>1. clockOf[t] \in PassiveClock
    BY DEF PassiveInv
  <2>2. globalTime' = x[1] /\ clockOf' = [clockOf EXCEPT ![t] = r] /\ UNCHANGED cpuOf
    BY <1>4 DEF passiveGetTime, SetClock
  <2>3. /\ e \in Nat /\ x[1] \in Nat /\ x[2] \in PassiveClock
        /\ x[2].lastCpu = clockOf[t].lastCpu /\ x[1] + x[2].local = globalTime + clockOf[t].local + e
    BY <2>1, ClocksOfHooks
  <2> HIDE DEF x
  <2>4. y \in PassiveClock /\ y.local = x[2].local + e /\ y.lastCpu = clockOf[t].lastCpu
    BY <2>3, ClocksOfHooks
  <2> HIDE DEF y
  <2>5. r \in PassiveClock /\ r.local = y.local /\ r.lastCpu = cpuOf[t]
    BY <2>4, ClocksOfHooks
  <2> HIDE DEF r
  <2>6. globalTime' + r.local <= globalTime + clockOf[t].local + 2 * e
    <3>1. x[2].local \in Nat /\ globalTime \in Nat /\ clockOf[t].local \in Nat
      BY <2>3 DEF PassiveClock, PassiveInv
    <3> HIDE DEF e
    <3> QED BY <2>2, <2>3, <2>4, <2>5, <3>1
  <2> QED BY <2>2, <2>3, <2>5, <2>6, HookCharges
<1>5. ASSUME NEW t \in PassiveThreads, passiveWaitingStart(t) \/ passiveEnd(t)
      PROVE  PassiveInv'
  <2> DEFINE e == cpuOf[t] - clockOf[t].lastCpu
             x == Committed(t, Entered(t))
             r == readCpuClock(t, x[2])
  <2>1. /\ e \in Nat /\ Entered(t) \in PassiveClock /\ Entered(t).lastCpu = clockOf[t].lastCpu
        /\ Entered(t).local <= clockOf[t].local + e
    BY EnteredClock
  <2>2. globalTime' = x[1] /\ clockOf' = [clockOf EXCEPT ![t] = r] /\ UNCHANGED cpuOf
    BY <1>5 DEF passiveWaitingStart, passiveEnd, SetClock
  <2>3. /\ x[1] \in Nat /\ x[2] \in PassiveClock
        /\ x[2].lastCpu = clockOf[t].lastCpu /\ x[1] + x[2].local = globalTime + Entered(t).local + e
    BY <2>1, ClocksOfHooks
  <2> HIDE DEF x
  <2>4. r \in PassiveClock /\ r.local = x[2].local /\ r.lastCpu = cpuOf[t]
    BY <2>3, ClocksOfHooks
  <2> HIDE DEF r
  <2>5. globalTime' + r.local <= globalTime + clockOf[t].local + 2 * e
    <3>1. x[2].local \in Nat /\ globalTime \in Nat /\ clockOf[t].local \in Nat
          /\ Entered(t).local \in Nat
      BY <2>1, <2>3 DEF PassiveClock, PassiveInv
    <3> HIDE DEF e
    <3> QED BY <2>1, <2>2, <2>3, <2>4, <3>1
  <2> QED BY <2>2, <2>3, <2>4, <2>5, HookCharges
<1>6. ASSUME NEW t \in PassiveThreads, passiveWaitingEnd(t)
      PROVE  PassiveInv'
  <2> DEFINE reached == IF clockOf[t].ert < globalTime THEN globalTime ELSE clockOf[t].ert
             c == [clockOf[t] EXCEPT !.ert = reached, !.local = 0]
             r == readCpuClock(t, c)
  <2>1. clockOf[t] \in PassiveClock /\ globalTime \in Nat
    BY DEF PassiveInv
  <2>2. c \in PassiveClock /\ c.local = 0 /\ c.lastCpu = clockOf[t].lastCpu
    BY <2>1 DEF PassiveClock
  <2>3. clockOf' = [clockOf EXCEPT ![t] = r] /\ UNCHANGED <<cpuOf, globalTime>>
    BY <1>6 DEF passiveWaitingEnd
  <2> HIDE DEF c
  <2>4. r \in PassiveClock /\ r.local = 0 /\ r.lastCpu = cpuOf[t]
        /\ cpuOf[t] - clockOf[t].lastCpu \in Nat
    BY <2>2, ClocksOfHooks
  <2> HIDE DEF r
  <2>5. globalTime' + r.local <= globalTime + clockOf[t].local
                                   + 2 * (cpuOf[t] - clockOf[t].lastCpu)
    BY <2>1, <2>3, <2>4
  <2> QED BY <2>1, <2>3, <2>4, <2>5, HookCharges
<1>7. ASSUME NEW t \in PassiveThreads, passiveSleep(t)
      PROVE  PassiveInv'
  <2> DEFINE c == [Entered(t) EXCEPT !.ert = @ + Timeout]
             r == readCpuClock(t, c)
             e == cpuOf[t] - clockOf[t].lastCpu
  <2>1. /\ e \in Nat /\ Entered(t) \in PassiveClock /\ Entered(t).lastCpu = clockOf[t].lastCpu
        /\ Entered(t).local <= clockOf[t].local + e
    BY EnteredClock
  <2>2. c \in PassiveClock /\ c.local = Entered(t).local /\ c.lastCpu = clockOf[t].lastCpu
    BY <2>1, PassiveAssumption DEF PassiveClock
  <2>3. clockOf' = [clockOf EXCEPT ![t] = r] /\ UNCHANGED <<cpuOf, globalTime>>
    BY <1>7 DEF passiveSleep
  <2> HIDE DEF c
  <2>4. r \in PassiveClock /\ r.local = c.local /\ r.lastCpu = cpuOf[t]
    BY <2>2, ClocksOfHooks
  <2> HIDE DEF r
  <2>5. globalTime' \in Nat /\ globalTime' + r.local <= globalTime + clockOf[t].local + 2 * e
    <3>1. globalTime \in Nat /\ clockOf[t].local \in Nat /\ Entered(t).local \in Nat
      BY <2>1 DEF PassiveClock, PassiveInv
    <3> HIDE DEF e
    <3> QED BY <2>1, <2>2, <2>3, <2>4, <3>1
  <2> QED BY <2>3, <2>4, <2>5, HookCharges
<1> QED BY <1>1, <1>2, <1>3, <1>4, <1>5, <1>6, <1>7 DEF PassiveNext

\* The sums of the property are those of the invariant.
LEMMA PassiveTotals ==
  ASSUME PassiveInv
  PROVE  /\ PassiveTotal(LAMBDA t : clockOf[t].local) = SumOver(Locals, PassiveThreads)
         /\ PassiveTotal(LAMBDA t : cpuOf[t]) = SumOver(cpuOf, PassiveThreads)
<1>1. PassiveTotal(LAMBDA t : cpuOf[t]) = SumOver(cpuOf, PassiveThreads)
  BY DEF PassiveTotal, SumOver
<1>2. PICK g : IsSum(g, Locals, PassiveThreads)
  BY SumsExist, PassiveAssumption
<1> DEFINE Adds(h) == h = [s \in SUBSET PassiveThreads |->
                             IF s = {} THEN 0 ELSE clockOf[Taken(s)].local + h[s \ {Taken(s)}]]
           G == CHOOSE h : Adds(h)
<1>3. \A h : IsSum(h, Locals, PassiveThreads) <=> Adds(h)
  <2>1. \A s \in SUBSET PassiveThreads : s # {} => Locals[Taken(s)] = clockOf[Taken(s)].local
    BY DEF Taken, Locals
  <2> QED BY <2>1 DEF IsSum, NextSum
<1>4. IsSum(G, Locals, PassiveThreads)
  <2> HIDE DEF Adds
  <2> QED BY <1>2, <1>3
<1>5. PassiveTotal(LAMBDA t : clockOf[t].local) = G[PassiveThreads]
  BY DEF PassiveTotal, MapThenSumSet, MapThenFoldSet, Taken
<1>6. SumOver(Locals, PassiveThreads) = G[PassiveThreads]
  <2> HIDE DEF G
  <2> QED BY <1>4, SumOverIs, PassiveAssumption
<1> QED BY <1>1, <1>5, <1>6

LEMMA PassiveInvSuffices == PassiveInv => PassiveTimeIsChargedAtMostTwice
<1> SUFFICES ASSUME PassiveInv PROVE PassiveTimeIsChargedAtMostTwice
  OBVIOUS
<1>1. \A t \in PassiveThreads : LastCpus[t] <= cpuOf[t]
  BY PassiveSummable DEF PassiveInv
<1>2. SumOver(LastCpus, PassiveThreads) <= SumOver(cpuOf, PassiveThreads)
  BY <1>1, PassiveSummable, SumsCompare
<1>3. /\ SumOver(LastCpus, PassiveThreads) \in Int /\ SumOver(cpuOf, PassiveThreads) \in Int
      /\ SumOver(Locals, PassiveThreads) \in Int
  BY PassiveSummable, SumIsInt
<1>4. globalTime + SumOver(Locals, PassiveThreads) <= 2 * SumOver(cpuOf, PassiveThreads)
  BY <1>2, <1>3 DEF PassiveInv
<1> QED BY <1>4, PassiveTotals DEF PassiveTimeIsChargedAtMostTwice

\* The clock of a passive run counts the CPU time of the threads at most twice,
\* for any number of threads and whatever hooks follow one another
\* (PassiveVirtualTimelineController, ThreadEventsBehaviour::getTime).
THEOREM PassiveTimeStaysBounded == PassiveSpec => []PassiveTimeIsChargedAtMostTwice
<1> QED BY PassiveInitFits, PassiveStepFits, PassiveInvSuffices, PTL DEF PassiveSpec

-----------------------------------------------------------------------------
(***************************************************************************)
(* The tables of transitions.                                              *)
(***************************************************************************)
Pairs == Codes \X Codes
IsTable(b, S) == DOMAIN b \subseteq S /\ \A p \in DOMAIN b : b[p] \in Nat

\* How often a state is entered from each state, and left for each that is entered.
Entries(b, s) == [c \in Codes |-> Copies(<<c, s>>, b)]
Exits(b, s) == [c \in Enterable |-> Copies(<<s, c>>, b)]
Surplus(b, s) == SumOver(Entries(b, s), Codes) - SumOver(Exits(b, s), Enterable)

LEMMA FiniteCodes ==
  /\ IsFiniteSet(Codes) /\ IsFiniteSet(Enterable) /\ Enterable \subseteq Codes
  /\ StateCodes \subseteq Enterable /\ "VEX_ZOMBIE" \in Enterable /\ "MARK" \in Codes
  /\ "REGISTERING" \in StateCodes /\ "MARK" \notin Enterable /\ "VEX_ZOMBIE" \notin StateCodes
  /\ "unborn" \notin Enterable /\ "gone" \notin Enterable
<1>1. IsFiniteSet(StateCodes)
  BY StateStatisticsAssumption
<1>2. IsFiniteSet(StateCodes \cup {"VEX_ZOMBIE"})
  BY <1>1, FS_AddElement
<1>3. IsFiniteSet(Enterable \cup {"MARK"})
  BY <1>2, FS_AddElement DEF Enterable
<1> QED BY <1>2, <1>3, StateStatisticsAssumption DEF Codes, Enterable

LEMMA CopiesAreCounted ==
  ASSUME NEW S, NEW b, IsTable(b, S)
  PROVE  \A p : Copies(p, b) \in Nat /\ (p \notin S => Copies(p, b) = 0)
BY DEF IsTable, Copies, BagIn, BagToSet

LEMMA CopiesAdd ==
  \A S, b, d, p : IsTable(b, S) /\ IsTable(d, S) =>
    /\ Copies(p, b (+) d) = Copies(p, b) + Copies(p, d)
    /\ Copies(p, b) \in Nat /\ Copies(p, d) \in Nat
BY DEF IsTable, Copies, BagIn, BagToSet, (+)

LEMMA TablesJoin ==
  \A S, b, d : IsTable(b, S) /\ IsTable(d, S) => IsTable(b (+) d, S)
<1> TAKE S, b, d
<1> HAVE IsTable(b, S) /\ IsTable(d, S)
<1>1. DOMAIN (b (+) d) = DOMAIN b \cup DOMAIN d
  BY DEF (+)
<1>2. ASSUME NEW p \in DOMAIN (b (+) d) PROVE (b (+) d)[p] \in Nat
  BY DEF IsTable, (+)
<1> QED BY <1>1, <1>2 DEF IsTable

LEMMA OneElement ==
  ASSUME NEW S, NEW q \in S
  PROVE  /\ IsTable(SetToBag({q}), S)
         /\ \A p : Copies(p, SetToBag({q})) = One(p = q)
BY DEF IsTable, Copies, SetToBag, BagIn, BagToSet, One

LEMMA NoElement ==
  ASSUME NEW S
  PROVE  IsTable(EmptyBag, S) /\ \A p : Copies(p, EmptyBag) = 0
BY DEF IsTable, Copies, EmptyBag, SetToBag, BagIn, BagToSet

LEMMA Summands ==
  ASSUME NEW b, NEW s \in Codes, IsTable(b, Pairs)
  PROVE  /\ Summable(Entries(b, s), Codes) /\ Summable(Exits(b, s), Enterable)
         /\ SumOver(Entries(b, s), Codes) \in Int /\ SumOver(Exits(b, s), Enterable) \in Int
         /\ Surplus(b, s) \in Int
<1>1. \A p : Copies(p, b) \in Int
  BY CopiesAreCounted
<1>2. Summable(Entries(b, s), Codes) /\ Summable(Exits(b, s), Enterable)
  BY <1>1, FiniteCodes DEF Summable, Entries, Exits
<1>3. SumOver(Entries(b, s), Codes) \in Int /\ SumOver(Exits(b, s), Enterable) \in Int
  BY <1>2, SumIsInt
<1> QED BY <1>2, <1>3 DEF Surplus

LEMMA SurplusAdds ==
  ASSUME NEW b, NEW d, NEW s \in Codes, IsTable(b, Pairs), IsTable(d, Pairs)
  PROVE  Surplus(b (+) d, s) = Surplus(b, s) + Surplus(d, s)
<1> DEFINE j == b (+) d
<1>1. IsTable(j, Pairs) /\ \A p : Copies(p, j) = Copies(p, b) + Copies(p, d)
  BY CopiesAdd, TablesJoin
<1>2. /\ Summable(Entries(b, s), Codes) /\ Summable(Exits(b, s), Enterable)
      /\ Summable(Entries(d, s), Codes) /\ Summable(Exits(d, s), Enterable)
  BY Summands
<1> HIDE DEF j
<1>3. SumOver(Entries(j, s), Codes) = SumOver(Entries(b, s), Codes) + SumOver(Entries(d, s), Codes)
  <2>1. \A c \in Codes : Entries(j, s)[c] = Entries(b, s)[c] + Entries(d, s)[c]
    BY <1>1 DEF Entries
  <2> QED BY <1>2, <2>1, SumsAdd
<1>4. SumOver(Exits(j, s), Enterable)
         = SumOver(Exits(b, s), Enterable) + SumOver(Exits(d, s), Enterable)
  <2>1. \A c \in Enterable : Exits(j, s)[c] = Exits(b, s)[c] + Exits(d, s)[c]
    BY <1>1 DEF Exits
  <2> QED BY <1>2, <2>1, SumsAdd
<1>5. Surplus(j, s) = Surplus(b, s) + Surplus(d, s)
  BY <1>3, <1>4, Summands DEF Surplus
<1> QED BY <1>5 DEF j

\* A transition enters one state and leaves another, unless only a mark is logged.
LEMMA SurplusOfOne ==
  ASSUME NEW from \in Enterable, NEW to \in Codes, NEW s \in Enterable
  PROVE  Surplus(SetToBag({<<from, to>>}), s)
           = IF to = "MARK" THEN 0 ELSE One(to = s) - One(from = s)
<1> DEFINE b == SetToBag({<<from, to>>})
<1>1. \A p : Copies(p, b) = One(p = <<from, to>>)
  BY OneElement
<1> HIDE DEF b
<1>2. from \in Codes /\ s \in Codes /\ s # "MARK"
  BY FiniteCodes
<1>3. SumOver(Entries(b, s), Codes) = One(to = s)
  <2>1. Entries(b, s)[from] = One(to = s) /\ \A c \in Codes : c # from => Entries(b, s)[c] = 0
    BY <1>1, <1>2 DEF Entries, One
  <2>2. Entries(b, s)[from] \in Int
    BY <2>1 DEF One
  <2> QED BY <1>2, <2>1, <2>2, FiniteCodes, SumOfOne
<1>4. CASE to = "MARK"
  <2>1. \A c \in Enterable : Exits(b, s)[c] = 0
    BY <1>1, <1>4, FiniteCodes DEF Exits, One
  <2>2. SumOver(Exits(b, s), Enterable) = 0
    BY <2>1, FiniteCodes, SumOfZeros
  <2> QED BY <1>2, <1>3, <1>4, <2>2 DEF Surplus, One, b
<1>5. CASE to # "MARK"
  <2>1. to \in Enterable
    BY <1>5 DEF Codes
  <2>2. Exits(b, s)[to] = One(from = s) /\ \A c \in Enterable : c # to => Exits(b, s)[c] = 0
    BY <1>1, <2>1 DEF Exits, One
  <2>3. Exits(b, s)[to] \in Int
    BY <2>2 DEF One
  <2>4. SumOver(Exits(b, s), Enterable) = One(from = s)
    BY <2>1, <2>2, <2>3, FiniteCodes, SumOfOne
  <2> QED BY <1>3, <1>5, <2>4 DEF Surplus, b
<1> QED BY <1>4, <1>5

LEMMA SurplusOfNothing ==
  ASSUME NEW s \in Codes
  PROVE  Surplus(EmptyBag, s) = 0
<1>1. \A p : Copies(p, EmptyBag) = 0
  BY NoElement
<1>2. SumOver(Entries(EmptyBag, s), Codes) = 0
  <2>1. \A c \in Codes : Entries(EmptyBag, s)[c] = 0
    BY <1>1 DEF Entries
  <2> QED BY <2>1, FiniteCodes, SumOfZeros
<1>3. SumOver(Exits(EmptyBag, s), Enterable) = 0
  <2>1. \A c \in Enterable : Exits(EmptyBag, s)[c] = 0
    BY <1>1 DEF Exits
  <2> QED BY <2>1, FiniteCodes, SumOfZeros
<1> QED BY <1>2, <1>3 DEF Surplus

(***************************************************************************)
(* What is kept of a thread in state c, whose clock shows e, was charged   *)
(* until l, and whose counters b and tt start at f; and of the table b and *)
(* the times tt of the ended threads, which started at o and lived m.      *)
(***************************************************************************)
CountsFit(c, e, l, b, tt, f) ==
  /\ c \in StateCodes \cup {"unborn", "VEX_ZOMBIE", "gone"}
  /\ e \in Int /\ l \in Int /\ IsTable(b, Pairs) /\ tt \in [Codes -> Int]
  /\ f.state \in StateCodes /\ f.time \in Int
  /\ c = "unborn" => b = EmptyBag /\ tt = NoTimes /\ e = 0 /\ f.state = "REGISTERING" /\ f.time = 0
  /\ c \in Enterable => \A s \in Enterable : Surplus(b, s) = One(c = s) - One(f.state = s)
  /\ c # "unborn" => SumOver(tt, Codes) = l - f.time

Origins(o) == [s \in Enterable |-> Copies(s, o)]
Ended(o) == SumOver(Origins(o), Enterable)

AggregateFits(b, tt, o, m) ==
  /\ IsTable(b, Pairs) /\ tt \in [Codes -> Int] /\ IsTable(o, StateCodes) /\ m \in Int
  /\ \A s \in Enterable :
       Surplus(b, s) = (IF s = "VEX_ZOMBIE" THEN Ended(o) ELSE 0) - Copies(s, o)
  /\ SumOver(tt, Codes) = m

CountersAreFunctions ==
  /\ currentState = [t \in CountedThreads |-> currentState[t]]
  /\ estimatedRealTime = [t \in CountedThreads |-> estimatedRealTime[t]]
  /\ lastTimePerStateERT = [t \in CountedThreads |-> lastTimePerStateERT[t]]
  /\ stateTransitions = [t \in CountedThreads |-> stateTransitions[t]]
  /\ totalTimePerState = [t \in CountedThreads |-> totalTimePerState[t]]
  /\ countedFrom = [t \in CountedThreads |-> countedFrom[t]]

AggregateInv ==
  AggregateFits(aggregateTransitions, aggregateTimePerState, merged.origins, merged.time)

BalanceInv ==
  /\ CountersAreFunctions /\ AggregateInv
  /\ \A t \in CountedThreads :
       CountsFit(currentState[t], estimatedRealTime[t], lastTimePerStateERT[t],
                 stateTransitions[t], totalTimePerState[t], countedFrom[t])

\* A step of thread t.
LEMMA CountsOfOne ==
  ASSUME BalanceInv, NEW t \in CountedThreads, NEW c, NEW e, NEW l, NEW b, NEW tt, NEW f,
         currentState' = [currentState EXCEPT ![t] = c],
         estimatedRealTime' = [estimatedRealTime EXCEPT ![t] = e],
         lastTimePerStateERT' = [lastTimePerStateERT EXCEPT ![t] = l],
         stateTransitions' = [stateTransitions EXCEPT ![t] = b],
         totalTimePerState' = [totalTimePerState EXCEPT ![t] = tt],
         countedFrom' = [countedFrom EXCEPT ![t] = f],
         CountsFit(c, e, l, b, tt, f), AggregateInv'
  PROVE  BalanceInv'
<1>1. CountersAreFunctions
  BY DEF BalanceInv
<1>2. CountersAreFunctions'
  BY <1>1 DEF CountersAreFunctions
<1>3. \A u \in CountedThreads :
        /\ currentState'[u] = IF u = t THEN c ELSE currentState[u]
        /\ estimatedRealTime'[u] = IF u = t THEN e ELSE estimatedRealTime[u]
        /\ lastTimePerStateERT'[u] = IF u = t THEN l ELSE lastTimePerStateERT[u]
        /\ stateTransitions'[u] = IF u = t THEN b ELSE stateTransitions[u]
        /\ totalTimePerState'[u] = IF u = t THEN tt ELSE totalTimePerState[u]
        /\ countedFrom'[u] = IF u = t THEN f ELSE countedFrom[u]
  BY <1>1 DEF CountersAreFunctions
<1>4. \A u \in CountedThreads :
        CountsFit(currentState'[u], estimatedRealTime'[u], lastTimePerStateERT'[u],
                  stateTransitions'[u], totalTimePerState'[u], countedFrom'[u])
  BY <1>3 DEF BalanceInv
<1> QED BY <1>2, <1>4 DEF BalanceInv

LEMMA Counters ==
  ASSUME BalanceInv, NEW t \in CountedThreads
  PROVE  /\ CountsFit(currentState[t], estimatedRealTime[t], lastTimePerStateERT[t],
                      stateTransitions[t], totalTimePerState[t], countedFrom[t])
         /\ currentState = [currentState EXCEPT ![t] = currentState[t]]
         /\ estimatedRealTime = [estimatedRealTime EXCEPT ![t] = estimatedRealTime[t]]
         /\ lastTimePerStateERT = [lastTimePerStateERT EXCEPT ![t] = lastTimePerStateERT[t]]
         /\ stateTransitions = [stateTransitions EXCEPT ![t] = stateTransitions[t]]
         /\ totalTimePerState = [totalTimePerState EXCEPT ![t] = totalTimePerState[t]]
         /\ countedFrom = [countedFrom EXCEPT ![t] = countedFrom[t]]
<1>1. CountersAreFunctions
  BY DEF BalanceInv
<1>2. /\ currentState = [currentState EXCEPT ![t] = currentState[t]]
      /\ estimatedRealTime = [estimatedRealTime EXCEPT ![t] = estimatedRealTime[t]]
      /\ lastTimePerStateERT = [lastTimePerStateERT EXCEPT ![t] = lastTimePerStateERT[t]]
  BY <1>1 DEF CountersAreFunctions
<1>3. /\ stateTransitions = [stateTransitions EXCEPT ![t] = stateTransitions[t]]
      /\ totalTimePerState = [totalTimePerState EXCEPT ![t] = totalTimePerState[t]]
      /\ countedFrom = [countedFrom EXCEPT ![t] = countedFrom[t]]
  BY <1>1 DEF CountersAreFunctions
<1> QED BY <1>2, <1>3 DEF BalanceInv

LEMMA NoTimesSum == NoTimes \in [Codes -> Int] /\ SumOver(NoTimes, Codes) = 0
<1>1. \A s \in Codes : NoTimes[s] = 0
  BY DEF NoTimes
<1>2. SumOver(NoTimes, Codes) = 0
  BY <1>1, FiniteCodes, SumOfZeros
<1> QED BY <1>2 DEF NoTimes

LEMMA TimesSummable ==
  ASSUME NEW tt \in [Codes -> Int]
  PROVE  Summable(tt, Codes) /\ SumOver(tt, Codes) \in Int
<1>1. Summable(tt, Codes)
  BY FiniteCodes DEF Summable
<1> QED BY <1>1, SumIsInt

LEMMA NothingEnded ==
  Ended(EmptyBag) = 0 /\ IsTable(EmptyBag, StateCodes) /\ \A s : Copies(s, EmptyBag) = 0
<1>1. IsTable(EmptyBag, StateCodes) /\ \A s : Copies(s, EmptyBag) = 0
  BY NoElement
<1>2. \A s \in Enterable : Origins(EmptyBag)[s] = 0
  BY <1>1 DEF Origins
<1>3. Ended(EmptyBag) = 0
  BY <1>2, FiniteCodes, SumOfZeros DEF Ended
<1> QED BY <1>1, <1>3

\* Empty counters balance.
LEMMA EmptyAggregate == AggregateFits(EmptyBag, NoTimes, EmptyBag, 0)
<1>1. IsTable(EmptyBag, Pairs)
  BY NoElement
<1>2. \A s \in Enterable : Surplus(EmptyBag, s) = 0
  BY FiniteCodes, SurplusOfNothing
<1> QED BY <1>1, <1>2, NothingEnded, NoTimesSum DEF AggregateFits

LEMMA BalanceInitially == StatisticsInit => BalanceInv
<1> SUFFICES ASSUME StatisticsInit PROVE BalanceInv
  OBVIOUS
<1>1. CountersAreFunctions
  BY DEF StatisticsInit, CountersAreFunctions
<1>2. AggregateInv
  BY EmptyAggregate DEF StatisticsInit, AggregateInv
<1>3. ASSUME NEW t \in CountedThreads
      PROVE  CountsFit(currentState[t], estimatedRealTime[t], lastTimePerStateERT[t],
                       stateTransitions[t], totalTimePerState[t], countedFrom[t])
  <2>1. /\ currentState[t] = "unborn" /\ estimatedRealTime[t] = 0 /\ lastTimePerStateERT[t] = 0
        /\ stateTransitions[t] = EmptyBag /\ totalTimePerState[t] = NoTimes
        /\ countedFrom[t].state = "REGISTERING" /\ countedFrom[t].time = 0
    BY DEF StatisticsInit
  <2>2. IsTable(EmptyBag, Pairs)
    BY NoElement
  <2> QED BY <2>1, <2>2, NoTimesSum, FiniteCodes DEF CountsFit
<1> QED BY <1>1, <1>2, <1>3 DEF BalanceInv

LEMMA AggregateStays ==
  ASSUME BalanceInv, UNCHANGED <<aggregateCounters, merged>>
  PROVE  AggregateInv'
BY DEF BalanceInv, AggregateInv, aggregateCounters

LEMMA setRegistering_Balances ==
  ASSUME BalanceInv, NEW t \in CountedThreads, setRegistering(t)
  PROVE  BalanceInv'
<1>1. /\ currentState[t] = "unborn"
      /\ currentState' = [currentState EXCEPT ![t] = "REGISTERING"]
      /\ lastTimePerStateERT' = [lastTimePerStateERT EXCEPT ![t] = estimatedRealTime[t]]
      /\ UNCHANGED <<estimatedRealTime, stateTransitions, totalTimePerState, countedFrom>>
      /\ UNCHANGED <<aggregateCounters, merged>>
  BY DEF setRegistering, threadCounters
<1>2. CountsFit("REGISTERING", estimatedRealTime[t], estimatedRealTime[t],
                stateTransitions[t], totalTimePerState[t], countedFrom[t])
  <2>1. /\ CountsFit(currentState[t], estimatedRealTime[t], lastTimePerStateERT[t],
                     stateTransitions[t], totalTimePerState[t], countedFrom[t])
        /\ stateTransitions[t] = EmptyBag /\ totalTimePerState[t] = NoTimes
        /\ estimatedRealTime[t] = 0 /\ countedFrom[t].state = "REGISTERING"
        /\ countedFrom[t].time = 0
    BY <1>1, Counters DEF CountsFit
  <2>2. \A s \in Enterable : Surplus(EmptyBag, s) = One("REGISTERING" = s) - One("REGISTERING" = s)
    BY FiniteCodes, SurplusOfNothing DEF One
  <2> QED BY <2>1, <2>2, NoTimesSum, FiniteCodes DEF CountsFit
<1>3. /\ currentState' = [currentState EXCEPT ![t] = "REGISTERING"]
      /\ lastTimePerStateERT' = [lastTimePerStateERT EXCEPT ![t] = estimatedRealTime[t]]
      /\ estimatedRealTime' = [estimatedRealTime EXCEPT ![t] = estimatedRealTime[t]]
      /\ stateTransitions' = [stateTransitions EXCEPT ![t] = stateTransitions[t]]
      /\ totalTimePerState' = [totalTimePerState EXCEPT ![t] = totalTimePerState[t]]
      /\ countedFrom' = [countedFrom EXCEPT ![t] = countedFrom[t]]
  BY <1>1, Counters
<1>4. AggregateInv'
  BY <1>1, AggregateStays
<1> QED BY <1>2, <1>3, <1>4, CountsOfOne

LEMMA Elapse_Balances ==
  ASSUME BalanceInv, NEW t \in CountedThreads, Elapse(t)
  PROVE  BalanceInv'
<1>1. PICK e \in 0..MaxStateTime : estimatedRealTime' = [estimatedRealTime EXCEPT ![t] = e]
  BY DEF Elapse
<1>2. /\ currentState[t] \in StateCodes
      /\ UNCHANGED <<currentState, lastTimePerStateERT, stateTransitions, totalTimePerState>>
      /\ UNCHANGED <<aggregateCounters, merged, countedFrom>>
  BY DEF Elapse, Alive, threadCounters
<1>3. CountsFit(currentState[t], e, lastTimePerStateERT[t], stateTransitions[t],
                totalTimePerState[t], countedFrom[t])
  <2>1. e \in Int /\ currentState[t] # "unborn"
    BY <1>2, FiniteCodes
  <2> QED BY <2>1, Counters DEF CountsFit
<1>4. /\ currentState' = [currentState EXCEPT ![t] = currentState[t]]
      /\ lastTimePerStateERT' = [lastTimePerStateERT EXCEPT ![t] = lastTimePerStateERT[t]]
      /\ stateTransitions' = [stateTransitions EXCEPT ![t] = stateTransitions[t]]
      /\ totalTimePerState' = [totalTimePerState EXCEPT ![t] = totalTimePerState[t]]
      /\ countedFrom' = [countedFrom EXCEPT ![t] = countedFrom[t]]
  BY <1>2, Counters
<1>5. AggregateInv'
  BY <1>2, AggregateStays
<1> QED BY <1>1, <1>3, <1>4, <1>5, CountsOfOne

\* A sum of times follows the change of one state.
LEMMA OneTimeChanges ==
  ASSUME NEW k \in Codes
  PROVE  \A g, h : Summable(g, Codes) /\ h[k] \in Int
                   /\ (\A y \in Codes : y # k => h[y] = g[y]) =>
           SumOver(h, Codes) = SumOver(g, Codes) - g[k] + h[k]
BY SumChanges

\* What logTransition does to the counters of a thread.
LEMMA Logs ==
  ASSUME BalanceInv, NEW t \in CountedThreads, Alive(t), NEW to \in Codes, NEW d \in Int,
         logTransition(t, currentState[t], to, d)
  PROVE  LET c == currentState[t]
             f == countedFrom[t]
             b2 == stateTransitions'[t]
             tt2 == totalTimePerState'[t]
         IN  /\ stateTransitions' = [stateTransitions EXCEPT ![t] = b2]
             /\ totalTimePerState' = [totalTimePerState EXCEPT ![t] = tt2]
             /\ IsTable(b2, Pairs) /\ tt2 \in [Codes -> Int]
             /\ \A s \in Enterable :
                  Surplus(b2, s) = IF to = "MARK" THEN One(c = s) - One(f.state = s)
                                                  ELSE One(to = s) - One(f.state = s)
             /\ SumOver(tt2, Codes) = lastTimePerStateERT[t] - f.time + d
<1> DEFINE c == currentState[t]
           f == countedFrom[t]
           l == lastTimePerStateERT[t]
           b == stateTransitions[t]
           tt == totalTimePerState[t]
           x == SetToBag({<<c, to>>})
           b2 == stateTransitions'[t]
           tt2 == totalTimePerState'[t]
<1>1. CountersAreFunctions /\ c \in StateCodes
  BY DEF BalanceInv, Alive
<1>2. /\ c \in Enterable /\ c \in Codes /\ c # "unborn" /\ Enterable \subseteq Codes
      /\ <<c, to>> \in Pairs
  BY <1>1, FiniteCodes DEF Pairs
<1>3. /\ IsTable(b, Pairs) /\ tt \in [Codes -> Int] /\ l \in Int /\ f.time \in Int
      /\ \A s \in Enterable : Surplus(b, s) = One(c = s) - One(f.state = s)
      /\ SumOver(tt, Codes) = l - f.time
  BY <1>2, Counters DEF CountsFit
<1>4. /\ b2 = b (+) x /\ stateTransitions' = [stateTransitions EXCEPT ![t] = b2]
      /\ tt2 = [tt EXCEPT ![c] = @ + d]
      /\ totalTimePerState' = [totalTimePerState EXCEPT ![t] = tt2]
  BY <1>1 DEF logTransition, CountersAreFunctions
<1>5. IsTable(x, Pairs)
  BY <1>2, OneElement
<1>6. IsTable(b2, Pairs)
  BY <1>3, <1>4, <1>5, TablesJoin
<1>7. ASSUME NEW s \in Enterable
      PROVE  Surplus(b2, s) = IF to = "MARK" THEN One(c = s) - One(f.state = s)
                                             ELSE One(to = s) - One(f.state = s)
  <2>1. Surplus(x, s) = IF to = "MARK" THEN 0 ELSE One(to = s) - One(c = s)
    BY <1>2, SurplusOfOne
  <2>2. Surplus(b, s) = One(c = s) - One(f.state = s)
    BY <1>3
  <2>3. \A p : One(p) \in Int
    BY DEF One
  <2> HIDE DEF x, b, b2, c, f
  <2>4. Surplus(b (+) x, s) = Surplus(b, s) + Surplus(x, s)
    BY <1>2, <1>3, <1>5, SurplusAdds
  <2> QED BY <1>4, <2>1, <2>2, <2>3, <2>4
<1>8. tt2 \in [Codes -> Int] /\ tt2[c] = tt[c] + d /\ \A k \in Codes : k # c => tt2[k] = tt[k]
  BY <1>2, <1>3, <1>4
<1>9. SumOver(tt2, Codes) = l - f.time + d
  <2> HIDE DEF tt, tt2, c, l, f
  <2>1. Summable(tt, Codes) /\ tt[c] \in Int /\ SumOver(tt, Codes) \in Int
    BY <1>2, <1>3, TimesSummable
  <2> PICK k \in Codes : k = c
    BY <1>2
  <2>2. Summable(tt, Codes) /\ tt2[k] \in Int /\ \A y \in Codes : y # k => tt2[y] = tt[y]
    BY <1>8, <2>1
  <2>3. SumOver(tt2, Codes) = SumOver(tt, Codes) - tt[k] + tt2[k]
    BY <2>2, OneTimeChanges
  <2> QED BY <1>3, <1>8, <2>1, <2>3
<1> QED BY <1>4, <1>6, <1>7, <1>8, <1>9

LEMMA setNewState_Balances ==
  ASSUME BalanceInv, NEW t \in CountedThreads, Alive(t), NEW s \in Enterable, setNewState(t, s)
  PROVE  BalanceInv'
<1> DEFINE e == estimatedRealTime[t]
           l == lastTimePerStateERT[t]
           f == countedFrom[t]
           b2 == stateTransitions'[t]
           tt2 == totalTimePerState'[t]
<1>1. /\ currentState' = [currentState EXCEPT ![t] = s]
      /\ lastTimePerStateERT' = [lastTimePerStateERT EXCEPT ![t] = e]
      /\ UNCHANGED <<estimatedRealTime, countedFrom>> /\ UNCHANGED <<aggregateCounters, merged>>
      /\ logTransition(t, currentState[t], s, e - l)
  BY DEF setNewState
<1>2. /\ e \in Int /\ l \in Int /\ f.state \in StateCodes /\ f.time \in Int
      /\ s \in Codes /\ s # "MARK" /\ s # "unborn" /\ e - l \in Int
      /\ s \in StateCodes \cup {"unborn", "VEX_ZOMBIE", "gone"}
  BY Counters, FiniteCodes DEF CountsFit, Enterable
<1>3. /\ stateTransitions' = [stateTransitions EXCEPT ![t] = b2]
      /\ totalTimePerState' = [totalTimePerState EXCEPT ![t] = tt2]
      /\ IsTable(b2, Pairs) /\ tt2 \in [Codes -> Int]
      /\ \A k \in Enterable : Surplus(b2, k) = One(s = k) - One(f.state = k)
      /\ SumOver(tt2, Codes) = l - f.time + (e - l)
  BY <1>1, <1>2, Logs
<1>4. /\ estimatedRealTime' = [estimatedRealTime EXCEPT ![t] = e]
      /\ countedFrom' = [countedFrom EXCEPT ![t] = f]
      /\ currentState' = [currentState EXCEPT ![t] = s]
      /\ lastTimePerStateERT' = [lastTimePerStateERT EXCEPT ![t] = e]
  BY <1>1, Counters
<1>5. AggregateInv'
  BY <1>1, AggregateStays
<1> HIDE DEF e, l, f, b2, tt2
<1>6. SumOver(tt2, Codes) = e - f.time
  BY <1>2, <1>3
<1>7. CountsFit(s, e, e, b2, tt2, f)
  BY <1>2, <1>3, <1>6 DEF CountsFit
<1> QED BY <1>3, <1>4, <1>5, <1>7, CountsOfOne

LEMMA setMark_Balances ==
  ASSUME BalanceInv, NEW t \in CountedThreads, setMark(t)
  PROVE  BalanceInv'
<1> DEFINE c == currentState[t]
           e == estimatedRealTime[t]
           l == lastTimePerStateERT[t]
           f == countedFrom[t]
           b2 == stateTransitions'[t]
           tt2 == totalTimePerState'[t]
<1>1. /\ Alive(t) /\ logTransition(t, currentState[t], "MARK", 0)
      /\ UNCHANGED <<currentState, estimatedRealTime, lastTimePerStateERT, countedFrom>>
      /\ UNCHANGED <<aggregateCounters, merged>>
  BY DEF setMark
<1>2. "MARK" \in Codes /\ c \in StateCodes /\ c # "unborn" /\ 0 \in Int
  BY <1>1, FiniteCodes DEF Alive
<1>3. /\ stateTransitions' = [stateTransitions EXCEPT ![t] = b2]
      /\ totalTimePerState' = [totalTimePerState EXCEPT ![t] = tt2]
      /\ IsTable(b2, Pairs) /\ tt2 \in [Codes -> Int]
      /\ \A k \in Enterable : Surplus(b2, k) = One(c = k) - One(f.state = k)
      /\ SumOver(tt2, Codes) = l - f.time + 0
  <2>1. PICK to \in Codes, d \in Int :
          to = "MARK" /\ d = 0 /\ logTransition(t, currentState[t], to, d)
    BY <1>1, <1>2
  <2>2. Alive(t)
    BY <1>1
  <2>3. /\ stateTransitions' = [stateTransitions EXCEPT ![t] = b2]
        /\ totalTimePerState' = [totalTimePerState EXCEPT ![t] = tt2]
        /\ IsTable(b2, Pairs) /\ tt2 \in [Codes -> Int]
        /\ \A k \in Enterable :
             Surplus(b2, k) = IF to = "MARK" THEN One(c = k) - One(f.state = k)
                                             ELSE One(to = k) - One(f.state = k)
        /\ SumOver(tt2, Codes) = l - f.time + d
    BY <2>1, <2>2, Logs
  <2> HIDE DEF c, l, f, b2, tt2
  <2> QED BY <2>1, <2>3
<1>4. /\ currentState' = [currentState EXCEPT ![t] = c]
      /\ estimatedRealTime' = [estimatedRealTime EXCEPT ![t] = e]
      /\ lastTimePerStateERT' = [lastTimePerStateERT EXCEPT ![t] = l]
      /\ countedFrom' = [countedFrom EXCEPT ![t] = f]
  BY <1>1, Counters
<1>5. AggregateInv'
  BY <1>1, AggregateStays
<1>6. /\ e \in Int /\ l \in Int /\ f.state \in StateCodes /\ f.time \in Int
      /\ c \in StateCodes \cup {"unborn", "VEX_ZOMBIE", "gone"}
  BY Counters DEF CountsFit
<1> HIDE DEF c, e, l, f, b2, tt2
<1>7. SumOver(tt2, Codes) = l - f.time
  BY <1>3, <1>6
<1>8. CountsFit(c, e, l, b2, tt2, f)
  BY <1>2, <1>3, <1>6, <1>7 DEF CountsFit
<1> QED BY <1>3, <1>4, <1>5, <1>8, CountsOfOne

\* How many threads ended follows the change of one state.
LEMMA OneOriginChanges ==
  ASSUME NEW k \in Enterable
  PROVE  \A g, h : Summable(g, Enterable) /\ h[k] \in Int
                   /\ (\A y \in Enterable : y # k => h[y] = g[y]) =>
           SumOver(h, Enterable) = SumOver(g, Enterable) - g[k] + h[k]
BY SumChanges

\* The counters of an ended thread are added to the others.
LEMMA addTransitionsOf_Balances ==
  ASSUME BalanceInv, NEW t \in CountedThreads, addTransitionsOf(t)
  PROVE  BalanceInv'
<1> DEFINE e == estimatedRealTime[t]
           l == lastTimePerStateERT[t]
           b == stateTransitions[t]
           tt == totalTimePerState[t]
           f == countedFrom[t]
           g == aggregateTransitions
           gt == aggregateTimePerState
           o == merged.origins
           m == merged.time
           x == SetToBag({f.state})
           m2 == m + l - f.time
           gt2 == [s \in Codes |-> gt[s] + tt[s]]
<1>1. /\ currentState[t] = "VEX_ZOMBIE"
      /\ aggregateTransitions' = g (+) b /\ aggregateTimePerState' = gt2
      /\ merged'.origins = o (+) x /\ merged'.time = m2
      /\ currentState' = [currentState EXCEPT ![t] = "gone"]
      /\ UNCHANGED <<estimatedRealTime, lastTimePerStateERT, stateTransitions, totalTimePerState,
                     countedFrom>>
  BY DEF addTransitionsOf, threadCounters
<1>2. CountsFit("VEX_ZOMBIE", e, l, b, tt, f) /\ AggregateFits(g, gt, o, m)
  BY <1>1, Counters DEF BalanceInv, AggregateInv
<1> HIDE DEF e, l, b, tt, f, g, gt, o, m
<1>3. /\ e \in Int /\ l \in Int /\ IsTable(b, Pairs) /\ tt \in [Codes -> Int]
      /\ f.state \in StateCodes /\ f.time \in Int
      /\ \A s \in Enterable : Surplus(b, s) = One("VEX_ZOMBIE" = s) - One(f.state = s)
      /\ SumOver(tt, Codes) = l - f.time
  BY <1>2, FiniteCodes DEF CountsFit
<1>4. /\ IsTable(g, Pairs) /\ gt \in [Codes -> Int] /\ IsTable(o, StateCodes) /\ m \in Int
      /\ \A s \in Enterable :
           Surplus(g, s) = (IF s = "VEX_ZOMBIE" THEN Ended(o) ELSE 0) - Copies(s, o)
      /\ SumOver(gt, Codes) = m
  BY <1>2 DEF AggregateFits
<1>5. IsTable(x, StateCodes) /\ \A s : Copies(s, x) = One(s = f.state)
  BY <1>3, OneElement
<1> HIDE DEF x
<1>6. /\ IsTable(o (+) x, StateCodes)
      /\ \A s : Copies(s, o (+) x) = Copies(s, o) + One(s = f.state) /\ Copies(s, o) \in Int
  <2>1. IsTable(o (+) x, StateCodes)
    BY <1>4, <1>5, TablesJoin
  <2>2. \A s : Copies(s, o (+) x) = Copies(s, o) + Copies(s, x) /\ Copies(s, o) \in Nat
    BY <1>4, <1>5, CopiesAdd
  <2> QED BY <1>5, <2>1, <2>2
<1>7. Ended(o) \in Int /\ Ended(o (+) x) = Ended(o) + 1
  <2>1. Summable(Origins(o), Enterable)
    BY <1>6, FiniteCodes DEF Summable, Origins
  <2>2. /\ Origins(o (+) x)[f.state] = Origins(o)[f.state] + 1
        /\ Origins(o)[f.state] \in Int /\ f.state \in Enterable
        /\ \A s \in Enterable : s # f.state => Origins(o (+) x)[s] = Origins(o)[s]
    BY <1>3, <1>6, FiniteCodes DEF Origins, One
  <2>3. Ended(o) \in Int
    BY <2>1, SumIsInt DEF Ended
  <2> PICK k \in Enterable : k = f.state
    BY <2>2
  <2>4. Ended(o (+) x) = Ended(o) - Origins(o)[k] + Origins(o (+) x)[k]
    <3>1. /\ Summable(Origins(o), Enterable) /\ Origins(o (+) x)[k] \in Int
          /\ \A s \in Enterable : s # k => Origins(o (+) x)[s] = Origins(o)[s]
      BY <2>1, <2>2
    <3> QED BY <3>1, OneOriginChanges DEF Ended
  <2> QED BY <2>2, <2>3, <2>4
<1>8. SumOver(gt2, Codes) = m2 /\ gt2 \in [Codes -> Int] /\ m2 \in Int
  <2>1. Summable(gt, Codes) /\ Summable(tt, Codes)
    BY <1>3, <1>4, TimesSummable
  <2>2. gt2 \in [Codes -> Int] /\ \A s \in Codes : gt2[s] = gt[s] + tt[s]
    BY <1>3, <1>4
  <2> HIDE DEF gt2
  <2>3. SumOver(gt2, Codes) = SumOver(gt, Codes) + SumOver(tt, Codes)
    BY <2>1, <2>2, SumsAdd
  <2> QED BY <1>3, <1>4, <2>2, <2>3
<1>9. ASSUME NEW s \in Enterable
      PROVE  Surplus(g (+) b, s)
               = (IF s = "VEX_ZOMBIE" THEN Ended(o (+) x) ELSE 0) - Copies(s, o (+) x)
  <2>1. Surplus(g (+) b, s) = Surplus(g, s) + Surplus(b, s)
    BY <1>3, <1>4, FiniteCodes, SurplusAdds
  <2>2. /\ Surplus(g, s) = (IF s = "VEX_ZOMBIE" THEN Ended(o) ELSE 0) - Copies(s, o)
        /\ Surplus(b, s) = One("VEX_ZOMBIE" = s) - One(f.state = s)
    BY <1>3, <1>4
  <2> QED BY <1>6, <1>7, <2>1, <2>2 DEF One
<1>10. IsTable(g (+) b, Pairs)
  BY <1>3, <1>4, TablesJoin
<1>11. AggregateInv'
  <2>1. AggregateFits(g (+) b, gt2, o (+) x, m2)
    BY <1>6, <1>8, <1>9, <1>10 DEF AggregateFits
  <2> QED BY <1>1, <2>1 DEF AggregateInv
<1>12. CountsFit("gone", e, l, b, tt, f)
  BY <1>3, FiniteCodes DEF CountsFit
<1>13. /\ currentState' = [currentState EXCEPT ![t] = "gone"]
       /\ estimatedRealTime' = [estimatedRealTime EXCEPT ![t] = e]
       /\ lastTimePerStateERT' = [lastTimePerStateERT EXCEPT ![t] = l]
       /\ stateTransitions' = [stateTransitions EXCEPT ![t] = b]
       /\ totalTimePerState' = [totalTimePerState EXCEPT ![t] = tt]
       /\ countedFrom' = [countedFrom EXCEPT ![t] = f]
  BY <1>1, Counters DEF e, l, b, tt, f
<1> QED BY <1>11, <1>12, <1>13, CountsOfOne

LEMMA clearTransitionCounters_Balances ==
  ASSUME BalanceInv, NEW t \in CountedThreads, clearTransitionCounters(t)
  PROVE  BalanceInv'
<1> DEFINE c == currentState[t]
           e == estimatedRealTime[t]
           l == lastTimePerStateERT[t]
           f == [state |-> c, time |-> l]
<1>1. /\ c \in StateCodes
      /\ stateTransitions' = [stateTransitions EXCEPT ![t] = EmptyBag]
      /\ totalTimePerState' = [totalTimePerState EXCEPT ![t] = NoTimes]
      /\ countedFrom' = [countedFrom EXCEPT ![t] = f]
      /\ UNCHANGED <<currentState, estimatedRealTime, lastTimePerStateERT>>
      /\ UNCHANGED <<aggregateCounters, merged>>
  BY DEF clearTransitionCounters, Alive
<1>2. /\ currentState' = [currentState EXCEPT ![t] = c]
      /\ estimatedRealTime' = [estimatedRealTime EXCEPT ![t] = e]
      /\ lastTimePerStateERT' = [lastTimePerStateERT EXCEPT ![t] = l]
  BY <1>1, Counters
<1>3. e \in Int /\ l \in Int
  BY Counters DEF CountsFit
<1>4. AggregateInv'
  BY <1>1, AggregateStays
<1>5. f.state = c /\ f.time = l
  OBVIOUS
<1> HIDE DEF c, e, l, f
<1>6. IsTable(EmptyBag, Pairs) /\ \A s \in Enterable : Surplus(EmptyBag, s) = One(c = s) - One(c = s)
  <2>1. \A s \in Enterable : Surplus(EmptyBag, s) = 0
    BY FiniteCodes, SurplusOfNothing
  <2> QED BY <2>1, NoElement DEF One
<1>7. CountsFit(c, e, l, EmptyBag, NoTimes, f)
  BY <1>1, <1>3, <1>5, <1>6, NoTimesSum, FiniteCodes DEF CountsFit
<1> QED BY <1>1, <1>2, <1>4, <1>7, CountsOfOne

LEMMA clear_Balances ==
  ASSUME BalanceInv, clear
  PROVE  BalanceInv'
<1>1. /\ aggregateTransitions' = EmptyBag /\ aggregateTimePerState' = NoTimes
      /\ merged'.origins = EmptyBag /\ merged'.time = 0
      /\ UNCHANGED <<currentState, estimatedRealTime, lastTimePerStateERT, stateTransitions,
                     totalTimePerState, countedFrom>>
  BY DEF clear, threadCounters
<1>2. AggregateInv'
  BY <1>1, EmptyAggregate DEF AggregateInv
<1> QED BY <1>1, <1>2 DEF BalanceInv, CountersAreFunctions

LEMMA BalanceStep == BalanceInv /\ [StatisticsNext]_statisticsVars => BalanceInv'
<1> SUFFICES ASSUME BalanceInv, [StatisticsNext]_statisticsVars PROVE BalanceInv'
  OBVIOUS
<1>1. CASE clear
  BY <1>1, clear_Balances
<1>2. ASSUME NEW t \in CountedThreads, setRegistering(t) \/ Elapse(t) \/ setMark(t) PROVE BalanceInv'
  BY <1>2, setRegistering_Balances, Elapse_Balances, setMark_Balances
<1>3. ASSUME NEW t \in CountedThreads, setState(t) PROVE BalanceInv'
  BY <1>3, FiniteCodes, setNewState_Balances DEF setState
<1>4. ASSUME NEW t \in CountedThreads, setDead(t) PROVE BalanceInv'
  BY <1>4, FiniteCodes, setNewState_Balances DEF setDead
<1>5. ASSUME NEW t \in CountedThreads, addTransitionsOf(t) \/ clearTransitionCounters(t)
      PROVE  BalanceInv'
  BY <1>5, addTransitionsOf_Balances, clearTransitionCounters_Balances
<1>6. CASE UNCHANGED statisticsVars
  BY <1>6 DEF BalanceInv, CountersAreFunctions, AggregateInv, statisticsVars, threadCounters,
              aggregateCounters
<1> QED BY <1>1, <1>2, <1>3, <1>4, <1>5, <1>6 DEF StatisticsNext

\* The sums that are printed are those of the invariant.
LEMMA OccurencesAreEntries ==
  ASSUME NEW b, NEW s
  PROVE  Occurences(b, s) = SumOver(Entries(b, s), Codes)
<1> DEFINE Adds(h) == h = [r \in SUBSET Codes |->
                            IF r = {} THEN 0 ELSE Copies(<<Taken(r), s>>, b) + h[r \ {Taken(r)}]]
           G == CHOOSE h : Adds(h)
<1>1. PICK g : IsSum(g, Entries(b, s), Codes)
  BY SumsExist, FiniteCodes
<1>2. \A h : IsSum(h, Entries(b, s), Codes) <=> Adds(h)
  <2>1. \A r \in SUBSET Codes : r # {} => Entries(b, s)[Taken(r)] = Copies(<<Taken(r), s>>, b)
    BY DEF Taken, Entries
  <2> QED BY <2>1 DEF IsSum, NextSum
<1>3. IsSum(G, Entries(b, s), Codes)
  <2> HIDE DEF Adds
  <2> QED BY <1>1, <1>2
<1>4. Occurences(b, s) = G[Codes]
  BY DEF Occurences, MapThenSumSet, MapThenFoldSet, Taken
<1>5. SumOver(Entries(b, s), Codes) = G[Codes]
  <2> HIDE DEF G
  <2> QED BY <1>3, SumOverIs, FiniteCodes
<1> QED BY <1>4, <1>5

\* So are the departures ...
LEMMA DeparturesAreExits ==
  ASSUME NEW b, NEW s
  PROVE  Departures(b, s) = SumOver(Exits(b, s), Enterable)
<1> DEFINE Adds(h) == h = [r \in SUBSET Enterable |->
                            IF r = {} THEN 0 ELSE Copies(<<s, Taken(r)>>, b) + h[r \ {Taken(r)}]]
           G == CHOOSE h : Adds(h)
<1>1. PICK g : IsSum(g, Exits(b, s), Enterable)
  BY SumsExist, FiniteCodes
<1>2. \A h : IsSum(h, Exits(b, s), Enterable) <=> Adds(h)
  <2>1. \A r \in SUBSET Enterable : r # {} => Exits(b, s)[Taken(r)] = Copies(<<s, Taken(r)>>, b)
    BY DEF Taken, Exits
  <2> QED BY <2>1 DEF IsSum, NextSum
<1>3. IsSum(G, Exits(b, s), Enterable)
  <2> HIDE DEF Adds
  <2> QED BY <1>1, <1>2
<1>4. Departures(b, s) = G[Enterable]
  BY DEF Departures, MapThenSumSet, MapThenFoldSet, Taken
<1>5. SumOver(Exits(b, s), Enterable) = G[Enterable]
  <2> HIDE DEF G
  <2> QED BY <1>3, SumOverIs, FiniteCodes
<1> QED BY <1>4, <1>5

\* ... and the number of ended threads.
LEMMA PopulationHasEnded ==
  ASSUME NEW o
  PROVE  Population(o) = SumOver(Origins(o), Enterable)
<1> DEFINE Adds(h) == h = [r \in SUBSET Enterable |->
                            IF r = {} THEN 0 ELSE Copies(Taken(r), o) + h[r \ {Taken(r)}]]
           G == CHOOSE h : Adds(h)
<1>1. PICK g : IsSum(g, Origins(o), Enterable)
  BY SumsExist, FiniteCodes
<1>2. \A h : IsSum(h, Origins(o), Enterable) <=> Adds(h)
  <2>1. \A r \in SUBSET Enterable : r # {} => Origins(o)[Taken(r)] = Copies(Taken(r), o)
    BY DEF Taken, Origins
  <2> QED BY <2>1 DEF IsSum, NextSum
<1>3. IsSum(G, Origins(o), Enterable)
  <2> HIDE DEF Adds
  <2> QED BY <1>1, <1>2
<1>4. Population(o) = G[Enterable]
  BY DEF Population, MapThenSumSet, MapThenFoldSet, Taken
<1>5. SumOver(Origins(o), Enterable) = G[Enterable]
  <2> HIDE DEF G
  <2> QED BY <1>3, SumOverIs, FiniteCodes
<1> QED BY <1>4, <1>5

LEMMA BalanceSuffices == BalanceInv => StatisticsBalance
<1> SUFFICES ASSUME BalanceInv PROVE StatisticsBalance
  OBVIOUS
<1>1. ASSUME NEW b, NEW s PROVE Occurences(b, s) - Departures(b, s) = Surplus(b, s)
  BY OccurencesAreEntries, DeparturesAreExits DEF Surplus
<1>2. ASSUME NEW tt PROVE TotalTime(tt) = SumOver(tt, Codes)
  BY DEF TotalTime, SumOver
<1>3. ThreadTransitionsBalance
  <2> SUFFICES ASSUME NEW t \in CountedThreads, Alive(t), NEW s \in Enterable
               PROVE  Occurences(stateTransitions[t], s) - Departures(stateTransitions[t], s)
                        = One(currentState[t] = s) - One(countedFrom[t].state = s)
    BY DEF ThreadTransitionsBalance
  <2>1. Surplus(stateTransitions[t], s) = One(currentState[t] = s) - One(countedFrom[t].state = s)
    BY Counters, FiniteCodes DEF CountsFit, Alive
  <2> QED BY <1>1, <2>1
<1>4. StateTimesAddUp
  <2> SUFFICES ASSUME NEW t \in CountedThreads, currentState[t] # "unborn"
               PROVE  TotalTime(totalTimePerState[t])
                        = lastTimePerStateERT[t] - countedFrom[t].time
    BY DEF StateTimesAddUp
  <2> QED BY <1>2, Counters DEF CountsFit
<1>5. AggregateFits(aggregateTransitions, aggregateTimePerState, merged.origins, merged.time)
  BY DEF BalanceInv, AggregateInv
<1>6. PrintedMapBalances
  <2> SUFFICES ASSUME NEW s \in Enterable
               PROVE  Occurences(aggregateTransitions, s) - Departures(aggregateTransitions, s)
                        = One(s = "VEX_ZOMBIE") * Population(merged.origins)
                            - Copies(s, merged.origins)
    BY DEF PrintedMapBalances
  <2> DEFINE o == merged.origins
  <2>1. Surplus(aggregateTransitions, s)
          = (IF s = "VEX_ZOMBIE" THEN Ended(o) ELSE 0) - Copies(s, o)
    BY <1>5 DEF AggregateFits
  <2>2. Population(o) = Ended(o)
    BY PopulationHasEnded DEF Ended
  <2>3. Ended(o) \in Int
    <3>1. \A k : Copies(k, o) \in Int
      <4>1. IsTable(o, StateCodes)
        BY <1>5 DEF AggregateFits
      <4> HIDE DEF o
      <4> QED BY <4>1, CopiesAreCounted
    <3>2. Summable(Origins(o), Enterable)
      BY <3>1, FiniteCodes DEF Summable, Origins
    <3> QED BY <3>2, SumIsInt DEF Ended
  <2> HIDE DEF o
  <2>4. One(s = "VEX_ZOMBIE") * Ended(o) = IF s = "VEX_ZOMBIE" THEN Ended(o) ELSE 0
    BY <2>3 DEF One
  <2> QED BY <1>1, <2>1, <2>2, <2>4 DEF o
<1>7. PrintedTimesAddUp
  BY <1>2, <1>5 DEF PrintedTimesAddUp, AggregateFits
<1> QED BY <1>3, <1>4, <1>6, <1>7 DEF StatisticsBalance

\* Every state is left as often as it is entered, but for the first and the last,
\* and the times in states add up to the life of a thread, for one thread and for
\* the printed map of all that ended, however transitions, marks, roll-backs of the
\* clock and resets of the counters follow one another (VexThreadState::setNewState,
\* Statistics, AggregateStateCounters).
THEOREM StatisticsStayBalanced == StatisticsSpec => []StatisticsBalance
<1> QED BY BalanceInitially, BalanceStep, BalanceSuffices, PTL DEF StatisticsSpec
=============================================================================
