---------------------- MODULE MulticoreVirtualTimeline ----------------------
(***************************************************************************)
(* The virtual clocks of a simulation with several virtual cores: one      *)
(* local timeline per core, the global virtual time, and each thread's own *)
(* timers, as the core schedulers, the running threads, native waiting     *)
(* threads and background load move them.                                  *)
(*                                                                         *)
(* Sources: timer/VirtualTimeline.{h,cpp} (MulticoreVirtualTimeline,       *)
(* DisablingMulticoreVirtualTimeline, MultipleVirtualTimelinesController), *)
(* threads/Timers.{h,cpp}, scheduler/StrictParallelThreadManager.cpp and   *)
(* the time updates of scheduler/ThreadManager.cpp.                        *)
(*                                                                         *)
(* VTF.cpp pairs StrictParallelThreadManager with the disabling timeline,  *)
(* and LooseParallelThreadManager with the plain one: constant strict.     *)
(* A call that holds the timeline's mutex is one step, but for the call    *)
(* that asks for the mutex again.  Whether a forward leap is valid, and    *)
(* when a thread gives up its core, are left open.                         *)
(***************************************************************************)
EXTENDS Integers, FiniteSets

CONSTANTS
  processors,         \* the number of virtual cores
  Threads,
  NoThread,           \* a NULL VexThreadState pointer
  strict,             \* strictParallelScheduling
  schedulerTimeslot,
  Durations,          \* how much a thread computes, sleeps, or a GC takes
  MaxTime             \* bound on every clock

ASSUME ProcessorsAssumption == processors \in Nat \ {0}
ASSUME NoThreadAssumption == NoThread \notin Threads
ASSUME TimeAssumption ==
  /\ strict \in BOOLEAN
  /\ schedulerTimeslot \in Nat
  /\ Durations \subseteq Nat \ {0}
  /\ MaxTime \in Nat

Cores == 0 .. processors - 1
NoCore == -1

VARIABLES
  globalVirtualTime,
  localCoreVirtualTimes,
  localCoreActive,
  mutex,              \* the core inside a call that still holds the mutex
  cpc,                \* core -> where its scheduler is
  carg,               \* core -> the thread its scheduler is resuming
  runningThread,      \* core -> ThreadManager::runningThread
  where,              \* thread -> what it is doing
  core,               \* thread -> the core that resumed it last
  waitedOn,           \* thread -> the core it began its wait on, or NoCore
  ert,                \* thread -> Timers::estimatedRealTime
  resumedLastAt,      \* thread -> Timers::resumedLastAt
  localTime           \* thread -> Timers::localTimeSinceLastResume

timeline == <<globalVirtualTime, localCoreVirtualTimes, localCoreActive>>
timers == <<ert, resumedLastAt, localTime>>
schedulers == <<cpc, carg>>
vars == <<globalVirtualTime, localCoreVirtualTimes, localCoreActive, mutex, cpc, carg,
          runningThread, where, core, waitedOn, ert, resumedLastAt, localTime>>

Later(a, b) == IF a < b THEN b ELSE a

\* The runnable queue holds suspended threads and threads in a timed wait.
queue == {t \in Threads : where[t] \in {"runnable", "timed"}}

\* The threads on top of the queue, which is ordered by estimated real time.
Tops == {t \in queue : \A u \in queue : ert[t] <= ert[u]}

\* Local times of which none is older.
Oldest(S) == CHOOSE m \in S : \A n \in S : m <= n

\* Mutant of updateGlobalTimeTo: the disabling timeline does not override it.
updateGlobalTimeTo_NotOverridden(local, active, time) == Later(globalVirtualTime, time)

\* The global time: the latest local time, or the oldest of the enabled cores.
updateGlobalTimeTo(local, active, time) ==
  LET times == {local[c] : c \in {d \in Cores : active[d]}} IN
  IF ~strict THEN Later(globalVirtualTime, time)
  ELSE IF times = {} THEN globalVirtualTime ELSE Oldest(times)

\* The local times after core c is moved forward to a time.
Leapt(c, time) == [localCoreVirtualTimes EXCEPT ![c] = Later(@, time)]

\* MulticoreVirtualTimeline::leapForwardTo.
leapForwardTo(c, time) ==
  LET local == Leapt(c, time) IN
  /\ mutex = NoCore
  /\ localCoreVirtualTimes' = local
  /\ globalVirtualTime' = updateGlobalTimeTo(local, localCoreActive, local[c])
  /\ UNCHANGED localCoreActive

\* addTimeOfThreadExecutingAtUnknownTime: the first of the oldest cores gets
\* the time.
addTimeOfThreadExecutingAtUnknownTime(d) ==
  LET oldest == {c \in Cores : \A e \in Cores :
                   localCoreVirtualTimes[c] <= localCoreVirtualTimes[e]} IN
  \E c \in oldest :
    /\ \A e \in oldest : c <= e
    /\ localCoreVirtualTimes[c] + d <= MaxTime
    /\ leapForwardTo(c, localCoreVirtualTimes[c] + d)

\* disableLocalTimeline of a core that does not hold the mutex.
disableLocalTimeline(c) ==
  /\ mutex = NoCore
  /\ localCoreActive' = [localCoreActive EXCEPT ![c] = FALSE]

everyoneDisabled(c) == \A e \in Cores \ {c} : ~localCoreActive[e]

Goto(c, l) == cpc' = [cpc EXCEPT ![c] = l] /\ UNCHANGED carg
BackToWait(c) ==
  /\ cpc' = [cpc EXCEPT ![c] = "wait"]
  /\ carg' = [carg EXCEPT ![c] = NoThread]
Becomes(t, w) == where' = [where EXCEPT ![t] = w]

\* unsetCurrentThreadFromRunningThread.
FreesCore(t) ==
  runningThread' = [c \in Cores |-> IF runningThread[c] = t THEN NoThread
                                    ELSE runningThread[c]]

Runs(t) == where[t] = "running"
-----------------------------------------------------------------------------
Init ==
  /\ globalVirtualTime = 0
  /\ localCoreVirtualTimes = [c \in Cores |-> 0]
  /\ localCoreActive = [c \in Cores |-> FALSE]
  /\ mutex = NoCore
  /\ cpc = [c \in Cores |-> "wait"]
  /\ carg = [c \in Cores |-> NoThread]
  /\ runningThread = [c \in Cores |-> NoThread]
  /\ where = [t \in Threads |-> "runnable"]
  /\ core = [t \in Threads |-> 0]
  /\ waitedOn = [t \in Threads |-> NoCore]
  /\ ert = [t \in Threads |-> 0]
  /\ resumedLastAt = [t \in Threads |-> 0]
  /\ localTime = [t \in Threads |-> 0]

noThreadsToSchedule(c) == queue = {} /\ runningThread[c] = NoThread

\* doControllerWait ends only if there is something to schedule.
doControllerWait(c) ==
  /\ cpc[c] = "wait"
  /\ ~noThreadsToSchedule(c)
  /\ Goto(c, IF runningThread[c] = NoThread THEN "next" ELSE "suspend")
  /\ UNCHANGED <<timeline, mutex, runningThread, where, core, waitedOn, timers>>

\* StrictParallelThreadManager::noThreadsToSchedule disables an idle core.
disableIdleCore(c) ==
  /\ strict /\ cpc[c] = "wait"
  /\ noThreadsToSchedule(c)
  /\ disableLocalTimeline(c)
  /\ UNCHANGED <<globalVirtualTime, localCoreVirtualTimes, mutex, schedulers,
                 runningThread, where, core, waitedOn, timers>>

\* StrictParallelThreadManager asks twice whether the core is too far ahead.
\* If it is, disableLocalTimeline asks for the mutex that is still held, and
\* a default pthread mutex is never granted to its owner again.
shouldBlockCoreProgress(c) ==
  /\ strict /\ mutex = NoCore
  /\ cpc[c] = "next" \/ (cpc[c] = "suspend" /\ runningThread[c] # NoThread)
  /\ IF localCoreVirtualTimes[c] - globalVirtualTime > schedulerTimeslot
     THEN mutex' = c /\ Goto(c, "relock")
     ELSE /\ Goto(c, IF cpc[c] = "next" THEN "top" ELSE "signal")
          /\ UNCHANGED mutex
  /\ UNCHANGED <<timeline, runningThread, where, core, waitedOn, timers>>

\* The signalled thread suspends or keeps on running.
suspendThread(c) ==
  /\ cpc[c] = "signal" \/ (cpc[c] = "suspend" /\ ~strict)
  /\ IF runningThread[c] = NoThread
     THEN Goto(c, "next") /\ UNCHANGED <<runningThread, where>>
     ELSE \/ /\ Goto(c, "next")
             /\ Becomes(runningThread[c], "runnable")
             /\ FreesCore(runningThread[c])
          \/ Goto(c, "wait") /\ UNCHANGED <<runningThread, where>>
  /\ UNCHANGED <<timeline, mutex, core, waitedOn, timers>>

\* The running thread is gone before the scheduler asks anything.
nobodyToSuspend(c) ==
  /\ cpc[c] = "suspend" /\ runningThread[c] = NoThread
  /\ Goto(c, "next")
  /\ UNCHANGED <<timeline, mutex, runningThread, where, core, waitedOn, timers>>

AtTop(c) == cpc[c] = "top" \/ (cpc[c] = "next" /\ ~strict)

\* Nobody to resume: a strict scheduler disables its core.
nobodyToResume(c) ==
  /\ AtTop(c) /\ queue = {}
  /\ IF strict THEN disableLocalTimeline(c) ELSE UNCHANGED localCoreActive
  /\ Goto(c, "wait")
  /\ UNCHANGED <<globalVirtualTime, localCoreVirtualTimes, mutex, runningThread,
                 where, core, waitedOn, timers>>

\* continueThread of a suspended thread.
popSuspended(c) ==
  /\ AtTop(c)
  /\ \E t \in Tops :
       /\ where[t] = "runnable"
       /\ Becomes(t, "held")
       /\ carg' = [carg EXCEPT ![c] = t]
  /\ cpc' = [cpc EXCEPT ![c] = "resume"]
  /\ UNCHANGED <<timeline, mutex, runningThread, core, waitedOn, timers>>

\* continueThread of a timed waiting thread: leap to the end of its wait ...
commitTimedWaitingProgress(c) ==
  /\ AtTop(c)
  /\ \E t \in Tops :
       /\ where[t] = "timed"
       /\ leapForwardTo(c, ert[t])
       /\ ert' = [ert EXCEPT ![t] = localCoreVirtualTimes'[c]]
       /\ Becomes(t, "held")
       /\ carg' = [carg EXCEPT ![c] = t]
  /\ cpc' = [cpc EXCEPT ![c] = "resume"]
  /\ UNCHANGED <<mutex, runningThread, core, waitedOn, resumedLastAt, localTime>>

\* ... unless that is not valid, which takes a thread ahead of the global time.
leapNotValid(c) ==
  /\ AtTop(c)
  /\ \E t \in Tops : where[t] = "timed" /\ ert[t] >= globalVirtualTime
  /\ Goto(c, "wait")
  /\ UNCHANGED <<timeline, mutex, runningThread, where, core, waitedOn, timers>>

isThreadTooFarAheadInVirtualTime(t) == ert[t] - globalVirtualTime > schedulerTimeslot

\* StrictParallelThreadManager::resumeThread of a thread too far ahead ...
tooFarAhead(c) ==
  /\ strict /\ cpc[c] = "resume"
  /\ isThreadTooFarAheadInVirtualTime(carg[c])
  /\ Goto(c, "disable")
  /\ UNCHANGED <<timeline, mutex, runningThread, where, core, waitedOn, timers>>

\* ... disables the core, and pushes the thread back unless everyone is ...
disableCore(c) ==
  /\ cpc[c] = "disable"
  /\ disableLocalTimeline(c)
  /\ IF everyoneDisabled(c)
     THEN Goto(c, "leap") /\ UNCHANGED where
     ELSE Becomes(carg[c], "runnable") /\ BackToWait(c)
  /\ UNCHANGED <<globalVirtualTime, localCoreVirtualTimes, mutex, runningThread, core,
                 waitedOn, timers>>

\* ... in which case the later of the thread and its core takes the other
\* along; the timeline is asked only if the thread is.
updateResumingSuspendedThreadTimestamp(c, t) ==
  LET time == Later(ert[t], localCoreVirtualTimes[c]) IN
  /\ ert' = [ert EXCEPT ![t] = time]
  /\ IF time = localCoreVirtualTimes[c] THEN UNCHANGED timeline
     ELSE leapForwardTo(c, time)

leapWhenAllDisabled(c) ==
  /\ cpc[c] = "leap"
  /\ updateResumingSuspendedThreadTimestamp(c, carg[c])
  /\ Goto(c, "activate")
  /\ UNCHANGED <<mutex, runningThread, where, core, waitedOn, resumedLastAt, localTime>>

\* Mutant of getLocalTimelineActivationTime: the core is not moved.
getLocalTimelineActivationTime_Stays(c, time) ==
  /\ mutex = NoCore
  /\ localCoreActive' = [localCoreActive EXCEPT ![c] = strict]
  /\ globalVirtualTime' = updateGlobalTimeTo(localCoreVirtualTimes, localCoreActive', time)
  /\ UNCHANGED localCoreVirtualTimes

\* Only the disabling timeline enables the core.
getLocalTimelineActivationTime(c, time) ==
  /\ mutex = NoCore
  /\ localCoreActive' = [localCoreActive EXCEPT ![c] = strict]
  /\ localCoreVirtualTimes' = Leapt(c, time)
  /\ globalVirtualTime' = updateGlobalTimeTo(localCoreVirtualTimes', localCoreActive', time)

\* resumeThread: the core is moved to the thread's time ...
activate(c) ==
  /\ cpc[c] \in {"resume", "activate"}
  /\ getLocalTimelineActivationTime(c, ert[carg[c]])
  /\ Goto(c, "activated")
  /\ UNCHANGED <<mutex, runningThread, where, core, waitedOn, timers>>

\* ... and the thread to the core's, read once the mutex is free again.
updateResumingSuspendedThreadResumedLastTimestamp(c) ==
  LET t == carg[c]
      activationTime == localCoreVirtualTimes[c] IN
  /\ cpc[c] = "activated"
  /\ ert' = [ert EXCEPT ![t] = Later(@, activationTime)]
  /\ resumedLastAt' = [resumedLastAt EXCEPT ![t] = activationTime]
  /\ localTime' = [localTime EXCEPT ![t] = 0]
  /\ Becomes(t, "signalled")
  /\ core' = [core EXCEPT ![t] = c]
  /\ BackToWait(c)
  /\ UNCHANGED <<timeline, mutex, runningThread, waitedOn>>
-----------------------------------------------------------------------------
(* The threads. *)

\* Mutant of TimeAfterWait: the time is set, not leapt to.
TimeAfterWait_Overwrites(t) ==
  IF waitedOn[t] = NoCore THEN ert[t] ELSE localCoreVirtualTimes[waitedOn[t]]

\* updateTimedOutWaitingThreadTimestamp: a thread back from a wait moves to
\* the time of the core it began to wait on, whichever core resumed it.
TimeAfterWait(t) ==
  IF waitedOn[t] = NoCore THEN ert[t]
  ELSE Later(ert[t], localCoreVirtualTimes[waitedOn[t]])

\* setRunningThread, with updateResumingSuspendedThreadTimestamp; the thread
\* suspends again if another one runs on the core.
setRunningThread(t) ==
  LET c == core[t]
      time == Later(TimeAfterWait(t), localCoreVirtualTimes[c]) IN
  /\ where[t] = "signalled"
  /\ waitedOn' = [waitedOn EXCEPT ![t] = NoCore]
  /\ IF runningThread[c] = NoThread
     THEN /\ runningThread' = [runningThread EXCEPT ![c] = t]
          /\ Becomes(t, "running")
          /\ ert' = [ert EXCEPT ![t] = time]
          /\ IF time = localCoreVirtualTimes[c] THEN UNCHANGED timeline
             ELSE leapForwardTo(c, time)
     ELSE /\ Becomes(t, "runnable")
          /\ ert' = [ert EXCEPT ![t] = TimeAfterWait(t)]
          /\ UNCHANGED <<timeline, runningThread>>
  /\ UNCHANGED <<mutex, schedulers, core, resumedLastAt, localTime>>

addLocalTime(t, d) ==
  /\ ert[t] + d <= MaxTime
  /\ ert' = [ert EXCEPT ![t] = @ + d]
  /\ localTime' = [localTime EXCEPT ![t] = @ + d]

\* VEX entry: the thread's time passes, the core is not told.
updateThreadLocalTimeSinceLastResumeTo(t, d) ==
  /\ Runs(t)
  /\ addLocalTime(t, d)
  /\ UNCHANGED <<timeline, mutex, schedulers, runningThread, where, core, waitedOn,
                 resumedLastAt>>

\* locklessUpdateTimeBy of a running thread, with commitCpuTimeProgress.
commitCpuTimeProgress(t, d) ==
  /\ Runs(t)
  /\ addLocalTime(t, d)
  /\ leapForwardTo(core[t], resumedLastAt[t] + localTime'[t])
  /\ UNCHANGED <<mutex, schedulers, runningThread, where, core, waitedOn, resumedLastAt>>

suspendCurrentThread(t) ==
  /\ Runs(t)
  /\ Becomes(t, "runnable")
  /\ FreesCore(t)
  /\ UNCHANGED <<timeline, mutex, schedulers, core, waitedOn, timers>>

\* A wait inside VEX, without a timeout.
onReplacedWaiting(t) ==
  /\ Runs(t)
  /\ Becomes(t, "waiting")
  /\ FreesCore(t)
  /\ waitedOn' = [waitedOn EXCEPT ![t] = core[t]]
  /\ UNCHANGED <<timeline, mutex, schedulers, core, timers>>

\* With one, the thread's time is the end of its wait.
onReplacedTimedWaiting(t, d) ==
  /\ Runs(t)
  /\ ert[t] + d <= MaxTime
  /\ Becomes(t, "timed")
  /\ FreesCore(t)
  /\ waitedOn' = [waitedOn EXCEPT ![t] = core[t]]
  /\ ert' = [ert EXCEPT ![t] = @ + d]
  /\ UNCHANGED <<timeline, mutex, schedulers, core, resumedLastAt, localTime>>

\* updateInterruptedWaitingThreadTimestamp: the notified thread takes the
\* notifier's time; a time of 0 stands for "now" on the notifier's core.
updateInterruptedWaitingThreadTimestamp(t, u) ==
  /\ Runs(t) /\ where[u] \in {"waiting", "timed"}
  /\ ert' = [ert EXCEPT ![u] = IF ert[t] = 0 THEN localCoreVirtualTimes[core[t]]
                               ELSE ert[t]]
  /\ Becomes(u, "runnable")
  /\ UNCHANGED <<timeline, mutex, schedulers, runningThread, core, waitedOn,
                 resumedLastAt, localTime>>

\* The signalled thread finds itself native waiting and leaves its core.
setNativeWaiting(t) ==
  /\ Runs(t)
  /\ Becomes(t, "native")
  /\ FreesCore(t)
  /\ resumedLastAt' = [resumedLastAt EXCEPT ![t] = ert[t]]
  /\ localTime' = [localTime EXCEPT ![t] = 0]
  /\ UNCHANGED <<timeline, mutex, schedulers, core, waitedOn, ert>>

\* It is back: its time goes to the oldest core, and it runs by itself on its
\* previous core if nobody is runnable.
suspendLooseCurrentThread(t, d) ==
  /\ where[t] = "native"
  /\ addLocalTime(t, d)
  /\ addTimeOfThreadExecutingAtUnknownTime(localTime'[t])
  /\ Becomes(t, IF queue # {} THEN "runnable" ELSE "signalled")
  /\ UNCHANGED <<mutex, schedulers, runningThread, core, waitedOn, resumedLastAt>>

\* A wait outside VEX ...
onWrappedWaitingStart(t) ==
  /\ Runs(t)
  /\ Becomes(t, "wrapped")
  /\ FreesCore(t)
  /\ UNCHANGED <<timeline, mutex, schedulers, core, waitedOn, timers>>

\* ... ends at the global time of that moment, computed anew ...
updateBlockedThreadTimestamp(t) ==
  LET now == updateGlobalTimeTo(localCoreVirtualTimes, localCoreActive, globalVirtualTime) IN
  /\ where[t] = "wrapped"
  /\ mutex = NoCore
  /\ globalVirtualTime' = now
  /\ ert' = [ert EXCEPT ![t] = Later(@, now)]
  /\ resumedLastAt' = [resumedLastAt EXCEPT ![t] = now]
  /\ localTime' = [localTime EXCEPT ![t] = 0]
  /\ Becomes(t, "unblocked")
  /\ UNCHANGED <<localCoreVirtualTimes, localCoreActive, mutex, schedulers,
                 runningThread, core, waitedOn>>

\* ... and the thread commits its time and suspends.
onWrappedWaitingEnd(t, d) ==
  /\ where[t] = "unblocked"
  /\ addLocalTime(t, d)
  /\ leapForwardTo(core[t], resumedLastAt[t] + localTime'[t])
  /\ Becomes(t, "runnable")
  /\ UNCHANGED <<mutex, schedulers, runningThread, core, waitedOn, resumedLastAt>>

\* The garbage collector ran for d.
commitBackgroundLoadExecutionTime(d) ==
  /\ addTimeOfThreadExecutingAtUnknownTime(d)
  /\ UNCHANGED <<mutex, schedulers, runningThread, where, core, waitedOn, timers>>

SchedulerStep(c) ==
  \/ doControllerWait(c)
  \/ disableIdleCore(c)
  \/ shouldBlockCoreProgress(c)
  \/ suspendThread(c)
  \/ nobodyToSuspend(c)
  \/ nobodyToResume(c)
  \/ popSuspended(c)
  \/ commitTimedWaitingProgress(c)
  \/ leapNotValid(c)
  \/ tooFarAhead(c)
  \/ disableCore(c)
  \/ leapWhenAllDisabled(c)
  \/ activate(c)
  \/ updateResumingSuspendedThreadResumedLastTimestamp(c)

ThreadStep(t) ==
  \/ setRunningThread(t)
  \/ suspendCurrentThread(t)
  \/ onReplacedWaiting(t)
  \/ \E u \in Threads : updateInterruptedWaitingThreadTimestamp(t, u)
  \/ setNativeWaiting(t)
  \/ onWrappedWaitingStart(t)
  \/ updateBlockedThreadTimestamp(t)
  \/ \E d \in Durations :
       \/ updateThreadLocalTimeSinceLastResumeTo(t, d)
       \/ commitCpuTimeProgress(t, d)
       \/ onReplacedTimedWaiting(t, d)
       \/ suspendLooseCurrentThread(t, d)
       \/ onWrappedWaitingEnd(t, d)

Next ==
  \/ \E c \in Cores : SchedulerStep(c)
  \/ \E t \in Threads : ThreadStep(t)
  \/ \E d \in Durations : commitBackgroundLoadExecutionTime(d)

Spec == Init /\ [][Next]_vars

\* The operating system runs the schedulers, which are threads of their own.
Fairness == \A c \in Cores : WF_vars(SchedulerStep(c))

FairSpec == Spec /\ Fairness
-----------------------------------------------------------------------------
\* Type invariant: clocks are natural numbers, and every variable keeps the
\* shape the classes declare.
TypeOK ==
  /\ globalVirtualTime \in Nat
  /\ localCoreVirtualTimes \in [Cores -> Nat]
  /\ localCoreActive \in [Cores -> BOOLEAN]
  /\ mutex \in Cores \cup {NoCore}
  /\ cpc \in [Cores -> {"wait", "suspend", "signal", "next", "top", "relock", "resume",
                        "disable", "leap", "activate", "activated"}]
  /\ carg \in [Cores -> Threads \cup {NoThread}]
  /\ runningThread \in [Cores -> Threads \cup {NoThread}]
  /\ where \in [Threads -> {"runnable", "timed", "held", "signalled", "running",
                            "waiting", "native", "wrapped", "unblocked"}]
  /\ core \in [Threads -> Cores]
  /\ waitedOn \in [Threads -> Cores \cup {NoCore}]
  /\ ert \in [Threads -> Nat]
  /\ resumedLastAt \in [Threads -> Nat]
  /\ localTime \in [Threads -> Nat]

\* Under loose synchronisation the global virtual time is the latest local
\* time, whoever moves the cores: the plain timeline can never find a core
\* ahead of it (VirtualTimeline.cpp:74-148).
GlobalTimeIsLatest ==
  ~strict =>
    /\ \A c \in Cores : localCoreVirtualTimes[c] <= globalVirtualTime
    /\ \E c \in Cores : localCoreVirtualTimes[c] = globalVirtualTime

\* Under strict synchronisation no enabled core is behind the global time,
\* although disabling a core and idle updates leave it stale
\* (VirtualTimeline.cpp:175-233).
GlobalTimeBehindActiveCores ==
  strict => \A c \in Cores :
    localCoreActive[c] => globalVirtualTime <= localCoreVirtualTimes[c]

\* What a running thread commits to its core, resumedLastAt plus the time
\* since, never exceeds its own clock, and it was resumed at a time its core
\* has reached: work is not charged to a core before it is done
\* (Timers.h:451, VirtualTimeline.cpp:389-392).
CommitNeverExceedsClock ==
  \A t \in Threads : where[t] = "running" =>
    /\ resumedLastAt[t] + localTime[t] <= ert[t]
    /\ resumedLastAt[t] <= localCoreVirtualTimes[core[t]]

\* A core has at most one thread that charges its time to it, the one it
\* calls its running thread (ThreadManager.cpp:687-708).
OneThreadPerCore ==
  \A t \in Threads :
    where[t] = "running" <=> \E c \in Cores : c = core[t] /\ runningThread[c] = t

\* The global time is the latest local time of loose cores and overtakes no
\* enabled core of strict ones; a core is charged by one thread at a time, and
\* never for more than the clock of that thread shows.
TimelineIsConsistent ==
  /\ TypeOK
  /\ GlobalTimeIsLatest
  /\ GlobalTimeBehindActiveCores
  /\ CommitNeverExceedsClock
  /\ OneThreadPerCore

\* No local clock runs backwards, and only a notification may set the clock
\* of a thread back, one that waits: whatever order commits, leaps and
\* resumptions on several cores come in.
ClocksAdvance ==
  [][/\ \A c \in Cores : localCoreVirtualTimes[c] <= localCoreVirtualTimes'[c]
     /\ \A t \in Threads : ert'[t] < ert[t] => where[t] \in {"waiting", "timed"}]_vars

=============================================================================
