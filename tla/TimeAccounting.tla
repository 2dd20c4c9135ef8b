--------------------------- MODULE TimeAccounting ---------------------------
(* How CPU time becomes virtual time on one core: the timers of a thread    *)
(* (Timers), the points at which a thread charges itself for the time it    *)
(* ran (the entries and exits of VexThreadState), the single timeline with  *)
(* the parallel time of native waiting threads (VirtualTimeline), the       *)
(* controller that commits to it and the statistics wrapped around every    *)
(* commit (StatisticsEnabledVirtualTimelineController, TimeLogger).         *)
(* The choice of the next thread is left open; ThreadManager.tla models it. *)
EXTENDS Integers, FiniteSets, FiniteSetsExt

CONSTANTS TimedThreads,  \* the simulated threads
          Scaling,       \* virtualTimeSpeedup * globalScalingFactor of each
          MaxCpu,        \* bound: CPU time the threads use together
          SleepTime,     \* the timeout of a Thread.sleep
          GcTime,        \* the duration of the background load
          MaxGc,         \* bound: collections
          CoreScheduler, Collector, Nobody

ASSUME TimeAssumption == /\ IsFiniteSet(TimedThreads)
                         /\ Scaling \in [TimedThreads -> Nat \ {0}]
                         /\ {SleepTime, GcTime} \subseteq Nat \ {0}
                         /\ {CoreScheduler, Collector} \cap TimedThreads = {}
                         /\ CoreScheduler # Collector

VARIABLES globalTime,         \* globalVirtualTime
          unknown,     \* unknownParallelTime
          timers,      \* the Timers of every thread
          cpu,         \* the CPU clock of every thread, as getVirtualTime reads it
          doing,       \* what every thread does
          core,        \* runningThread
          commit,          \* where the commit of every actor stands
          totals,      \* TotalTime: virtual time per category
          rows,        \* PerThreadTime: the same per thread
          collections, \* how often the collector ran
          used,        \* ghost: scaled CPU time of application code
          overlapped   \* ghost: two commits have overlapped

clock == <<globalTime, unknown>>
statistics == <<totals, rows>>
taVars == <<clock, timers, cpu, doing, core, commit, statistics, collections, used, overlapped>>

Actors == TimedThreads \cup {CoreScheduler, Collector}
Categories == {"cpu", "native", "timed wait", "background"}
Out == [at |-> "out"]
SumOf(f) == MapThenSumSet(LAMBDA k : f[k], DOMAIN f)

\* A new thread: every counter is zero.
resetCounters == [vt |-> 0, ert |-> 0, lastCpu |-> 0, local |-> 0, resumedAt |-> 0,
                  waited |-> 0, since |-> -1]

TaInit ==
  /\ globalTime = 0 /\ unknown = 0 /\ core = Nobody /\ collections = 0
  /\ timers = [t \in TimedThreads |-> resetCounters]
  /\ cpu = [t \in TimedThreads |-> 0]
  /\ doing = [t \in TimedThreads |-> "suspended"]
  /\ commit = [a \in Actors |-> Out]
  /\ totals = [k \in Categories |-> 0]
  /\ rows = [o \in TimedThreads \cup {Collector} |-> [k \in Categories |-> 0]]
  /\ used = [t \in TimedThreads |-> 0]
  /\ overlapped = FALSE

(***************************************************************************)
(* Timers                                                                  *)
(***************************************************************************)
addElapsedTime(r, d) == [r EXCEPT !.vt = @ + d, !.ert = @ + d]

\* d units of (already scaled) time are added to a thread's clocks.
addLocalTime(r, d) == [addElapsedTime(r, d) EXCEPT !.local = @ + d]

CpuSince(t) == cpu[t] - timers[t].lastCpu

\* Charge thread t for the time since lastCPUTime, which stays where it is.
\* (t's record is r: it may have been charged already in the same entry.)
updateThreadLocalTimeSinceLastResumeTo(t, r) ==
  IF CpuSince(t) > 0 THEN addLocalTime(r, CpuSince(t) * Scaling[t]) ELSE r

updateCpuTimeClock(t, r) == [r EXCEPT !.lastCpu = cpu[t]]

\* Timers::leapForwardTo: the estimated real time never goes back.
leapTimerTo(r, time) == [r EXCEPT !.ert = IF @ < time THEN time ELSE @]

updateTimesAfterResuming(r, time) == [r EXCEPT !.resumedAt = time, !.local = 0]

updateTimesBeforeWaitingWithTimeout(t, r) == [r EXCEPT !.ert = @ + SleepTime * Scaling[t]]

updateWaitingTimeFrom(r, start) ==
  [r EXCEPT !.waited = IF r.ert > start THEN @ + (r.ert - start) ELSE @]

\* A resumed thread goes back to application code; one that returns from a
\* wait is charged the waiting time first.
ExitVex(t, r) ==
  LET w == IF r.since >= 0 THEN updateWaitingTimeFrom(r, r.since) ELSE r
  IN  updateCpuTimeClock(t, [w EXCEPT !.since = -1])

(***************************************************************************)
(* The timeline                                                            *)
(***************************************************************************)
leapForwardTo(time) ==
  /\ globalTime' = IF time + unknown > globalTime THEN time + unknown ELSE globalTime
  /\ unknown' = 0

addTimeOfUnknownRealTimeDurationAndSynchronize(d) == globalTime' = globalTime + d /\ UNCHANGED unknown

addTimeOfThreadExecutingAtUnknownTime(d) == globalTime' = globalTime + d /\ unknown' = unknown + d

commitCpuTimeProgress(t) ==
  /\ leapForwardTo(timers[t].resumedAt + timers[t].local)
  /\ UNCHANGED timers

commitNativeWaitingProgress(t) ==
  /\ addTimeOfThreadExecutingAtUnknownTime(timers[t].local)
  /\ UNCHANGED timers

commitTimedWaitingProgress(t) ==
  /\ timers' = [timers EXCEPT ![t] = updateWaitingTimeFrom(@, globalTime)]
  /\ leapForwardTo(timers[t].ert)

commitBackgroundLoadExecutionTime ==
  /\ addTimeOfUnknownRealTimeDurationAndSynchronize(GcTime)
  /\ UNCHANGED timers

(***************************************************************************)
(* The statistics around a commit: snapshot, commit, snapshot, log.        *)
(***************************************************************************)
\* Actor a takes the first snapshot of a commit about `whose` time; `then`
\* says how its handler goes on.
Begin(a, whose, category, then) ==
  /\ commit' = [commit EXCEPT ![a] = [at |-> "commit", whose |-> whose, category |-> category,
                              before |-> globalTime, after |-> globalTime, sum |-> 0, row |-> 0,
                              then |-> then]]
  /\ overlapped' = (overlapped \/ \E b \in Actors \ {a} : commit[b].at \in {"commit", "look", "log"})

\* The commit itself, under the mutex of the timeline.
Commit(a) ==
  LET c == commit[a] IN
  /\ c.at = "commit"
  /\ CASE c.category = "cpu" -> commitCpuTimeProgress(c.whose)
       [] c.category = "native" -> commitNativeWaitingProgress(c.whose)
       [] c.category = "timed wait" -> commitTimedWaitingProgress(c.whose)
       [] c.category = "background" -> commitBackgroundLoadExecutionTime
  /\ commit' = [commit EXCEPT ![a].at = "look"]
  /\ UNCHANGED <<cpu, doing, core, statistics, collections, used, overlapped>>

\* The second snapshot, and the reading half of the logger's unlocked "+=".
Look(a) ==
  /\ commit[a].at = "look"
  /\ commit' = [commit EXCEPT ![a].at = "log", ![a].after = globalTime,
                      ![a].sum = totals[commit[a].category],
                      ![a].row = rows[commit[a].whose][commit[a].category]]
  /\ UNCHANGED <<clock, timers, cpu, doing, core, statistics, collections,
                 used, overlapped>>

\* TotalTime::increaseTimeCounter.
increaseTimeCounter(c) == c.sum + (c.after - c.before)

\* Mutant: the thread's own row is not updated.
logPerThread_Forgotten(c) == rows

\* PerThreadTime::log: the row of the thread is increased by the same amount.
logPerThread(c) ==
  [rows EXCEPT ![c.whose][c.category] = c.row + (c.after - c.before)]

\* The writing half of the log.
Log(a) ==
  LET c == commit[a] IN
  /\ c.at = "log"
  /\ totals' = [totals EXCEPT ![c.category] = increaseTimeCounter(c)]
  /\ rows' = logPerThread(c)
  /\ commit' = [commit EXCEPT ![a] = [at |-> "then", then |-> c.then, whose |-> c.whose]]
  /\ UNCHANGED <<clock, timers, cpu, doing, core, collections, used, overlapped>>

(***************************************************************************)
(* What threads do                                                         *)
(***************************************************************************)
\* Application code runs: on the core, or natively where Vex lost sight of it.
Execute(t) ==
  /\ doing[t] \in {"running", "native"} /\ commit[t] = Out
  /\ SumOf(cpu) < MaxCpu
  /\ cpu' = [cpu EXCEPT ![t] = @ + 1]
  /\ used' = [used EXCEPT ![t] = @ + Scaling[t]]
  /\ UNCHANGED <<clock, timers, doing, core, commit, statistics, collections,
                 overlapped>>

\* ThreadManager::setCurrentThreadVT and locklessUpdateTimeBy: charge and commit,
\* as native waiting time for a thread that runs natively.
setCurrentThreadVT(t, r, then) ==
  \/ /\ CpuSince(t) > 0
     /\ timers' = [timers EXCEPT ![t] = updateThreadLocalTimeSinceLastResumeTo(t, r)]
     /\ Begin(t, t, IF doing[t] = "native" THEN "native" ELSE "cpu", then)
  \/ /\ CpuSince(t) <= 0
     /\ timers' = [timers EXCEPT ![t] = r]
     /\ commit' = [commit EXCEPT ![t] = [at |-> "then", then |-> then, whose |-> t]]
     /\ UNCHANGED overlapped

InApplication(t, where) == doing[t] = where /\ commit[t] = Out

Unmoved == UNCHANGED <<clock, cpu, statistics, collections, used>>

\* A method entry or exit: the thread is charged, nothing is committed.
onVexMethodEntry(t) ==
  /\ InApplication(t, "running") /\ CpuSince(t) > 0
  /\ timers' = [timers EXCEPT ![t] =
                  updateCpuTimeClock(t, updateThreadLocalTimeSinceLastResumeTo(t, @))]
  /\ UNCHANGED <<doing, core, commit, overlapped>> /\ Unmoved

\* An interaction point: charge and commit once, then suspend or go on.
onInteractionPoint(t) ==
  /\ InApplication(t, "running") /\ CpuSince(t) > 0
  /\ setCurrentThreadVT(t, timers[t], "go on")
  /\ UNCHANGED <<doing, core>> /\ Unmoved

\* The suspend signal: the same charge, made by the handler, which may also
\* find the thread to be waiting natively.
signalHandler(t) ==
  /\ InApplication(t, "running") /\ CpuSince(t) > 0
  /\ \E then \in {"go on", "turn native"} : setCurrentThreadVT(t, timers[t], then)
  /\ UNCHANGED <<doing, core>> /\ Unmoved

\* The first charge is made by getTimeOnVexEntry, the second by setCurrentThreadVT
\* with the same starting time: lastCPUTime has not moved in between.
beforeCreatingThread(t) ==
  /\ InApplication(t, "running") /\ CpuSince(t) > 0
  /\ setCurrentThreadVT(t, updateThreadLocalTimeSinceLastResumeTo(t, timers[t]), "go on")
  /\ UNCHANGED <<doing, core>> /\ Unmoved

\* Object.wait and monitor contention: charged on the entry and again by the manager.
onWrappedWaitingStart(t) ==
  /\ InApplication(t, "running") /\ CpuSince(t) > 0
  /\ setCurrentThreadVT(t, updateThreadLocalTimeSinceLastResumeTo(t, timers[t]), "wait")
  /\ UNCHANGED <<doing, core>> /\ Unmoved

\* The wait is over: the thread takes the global time, and is charged the time
\* it has waited when it has the core again.
onWrappedWaitingEnd(t) ==
  /\ InApplication(t, "waiting")
  /\ timers' = [timers EXCEPT ![t] =
        [leapTimerTo(@, globalTime) EXCEPT !.resumedAt = globalTime, !.local = 0, !.since = timers[t].ert]]
  /\ commit' = [commit EXCEPT ![t] = [at |-> "then", then |-> "go on", whose |-> t]]
  /\ UNCHANGED <<doing, core, overlapped>> /\ Unmoved

\* Thread.sleep: charged, not committed, and put to sleep until its own timeout.
onReplacedTimedWaiting(t) ==
  /\ InApplication(t, "running") /\ CpuSince(t) > 0
  /\ timers' = [timers EXCEPT ![t] = updateTimesBeforeWaitingWithTimeout(t,
                                        updateThreadLocalTimeSinceLastResumeTo(t, @))]
  /\ doing' = [doing EXCEPT ![t] = "asleep"]
  /\ core' = Nobody
  /\ UNCHANGED <<commit, overlapped>> /\ Unmoved

\* A thread that ran natively enters Vex again (or is polled and found running).
suspendLooseCurrentThread(t) ==
  /\ InApplication(t, "native")
  /\ setCurrentThreadVT(t, timers[t], "go on")
  /\ UNCHANGED <<doing, core>> /\ Unmoved

\* suspendCurrentThread after the charge: the thread keeps the core or takes a
\* free one, or queues up.
GoesOn(t) ==
  /\ commit[t].at = "then" /\ commit[t].then = "go on"
  /\ commit' = [commit EXCEPT ![t] = Out]
  /\ \/ /\ core \in {Nobody, t}
        /\ core' = t
        /\ doing' = [doing EXCEPT ![t] = "running"]
        /\ timers' = [timers EXCEPT ![t] = ExitVex(t, IF core = t THEN @ ELSE leapTimerTo(@, globalTime))]
     \/ /\ core' = IF core = t THEN Nobody ELSE core
        /\ doing' = [doing EXCEPT ![t] = "suspended"]
        /\ UNCHANGED timers
  /\ UNCHANGED overlapped /\ Unmoved

\* The rest of onWrappedWaitingStart: the core is free, the clocks restart.
Waits(t) ==
  /\ commit[t].at = "then" /\ commit[t].then = "wait"
  /\ commit' = [commit EXCEPT ![t] = Out]
  /\ doing' = [doing EXCEPT ![t] = "waiting"]
  /\ core' = Nobody
  /\ timers' = [timers EXCEPT ![t] = updateCpuTimeClock(t, @)]
  /\ UNCHANGED overlapped /\ Unmoved

\* The handler lets the thread go its own way: its local time starts anew.
TurnsNative(t) ==
  /\ commit[t].at = "then" /\ commit[t].then = "turn native"
  /\ commit' = [commit EXCEPT ![t] = Out]
  /\ doing' = [doing EXCEPT ![t] = "native"]
  /\ core' = Nobody
  /\ timers' = [timers EXCEPT ![t] = updateCpuTimeClock(t,
                                       [@ EXCEPT !.resumedAt = timers[t].ert, !.local = 0])]
  /\ UNCHANGED overlapped /\ Unmoved

\* A resumed thread wakes up: it takes the core if that is still free.
setRunningThread(t) ==
  /\ doing[t] = "resumed"
  /\ \/ /\ core = Nobody
        /\ core' = t
        /\ doing' = [doing EXCEPT ![t] = "running"]
        /\ timers' = [timers EXCEPT ![t] = ExitVex(t, leapTimerTo(@, globalTime))]
     \/ /\ core # Nobody
        /\ doing' = [doing EXCEPT ![t] = "suspended"]
        /\ UNCHANGED <<core, timers>>
  /\ UNCHANGED <<commit, overlapped>> /\ Unmoved

(***************************************************************************)
(* The scheduler and the collector                                         *)
(***************************************************************************)
SchedulerIsFree ==
  /\ core = Nobody /\ commit[CoreScheduler] = Out
  /\ \A t \in TimedThreads : doing[t] # "resumed"

\* resumeTimedThread of a suspended thread.
resumeTimedThread(t) ==
  /\ SchedulerIsFree /\ doing[t] = "suspended"
  /\ timers' = [timers EXCEPT ![t] = updateTimesAfterResuming(@, globalTime)]
  /\ doing' = [doing EXCEPT ![t] = "resumed"]
  /\ UNCHANGED <<clock, cpu, core, commit, statistics, collections, used, overlapped>>

\* interruptTimedWaitingThread: the scheduler commits the sleeper's time ...
interruptTimedWaitingThread(t) ==
  /\ SchedulerIsFree /\ doing[t] = "asleep"
  /\ Begin(CoreScheduler, t, "timed wait", "interrupt")
  /\ UNCHANGED <<timers, doing, core>> /\ Unmoved

\* ... and then sets it to the global time and resumes it.
Interrupts(t) ==
  /\ commit[CoreScheduler].at = "then" /\ commit[CoreScheduler].whose = t
  /\ commit' = [commit EXCEPT ![CoreScheduler] = Out]
  /\ timers' = [timers EXCEPT ![t] = updateTimesAfterResuming([@ EXCEPT !.ert = globalTime], globalTime)]
  /\ doing' = [doing EXCEPT ![t] = "resumed"]
  /\ UNCHANGED <<clock, cpu, core, statistics, collections, used, overlapped>>

\* A garbage collection ends: its time is added for everybody.
onWrappedBackgroundLoadExecutionEnd ==
  /\ commit[Collector] = Out /\ collections < MaxGc
  /\ collections' = collections + 1
  /\ Begin(Collector, Collector, "background", "done")
  /\ UNCHANGED <<clock, timers, cpu, doing, core, statistics, used>>

CollectorDone ==
  /\ commit[Collector].at = "then"
  /\ commit' = [commit EXCEPT ![Collector] = Out]
  /\ UNCHANGED <<timers, doing, core, overlapped>> /\ Unmoved

TaNext ==
  \/ \E a \in Actors : Commit(a) \/ Look(a) \/ Log(a)
  \/ \E t \in TimedThreads :
       \/ Execute(t) \/ onVexMethodEntry(t) \/ onInteractionPoint(t) \/ signalHandler(t)
       \/ beforeCreatingThread(t) \/ onWrappedWaitingStart(t) \/ onWrappedWaitingEnd(t)
       \/ onReplacedTimedWaiting(t) \/ suspendLooseCurrentThread(t)
       \/ GoesOn(t) \/ Waits(t) \/ TurnsNative(t) \/ setRunningThread(t)
       \/ resumeTimedThread(t) \/ interruptTimedWaitingThread(t) \/ Interrupts(t)
  \/ onWrappedBackgroundLoadExecutionEnd \/ CollectorDone

TaSpec == TaInit /\ [][TaNext]_taVars

(***************************************************************************)
(* Properties                                                              *)
(***************************************************************************)
AllCommitsDone == \A a \in Actors : commit[a].at \notin {"commit", "look", "log"}

\* No CPU time of application code is lost: what a thread was charged, and what
\* it will be charged for the CPU time since its last clock update, covers the
\* time it used, and a charge counts a piece of it at most twice.
UserTimeIsCharged ==
  \A t \in TimedThreads :
    /\ timers[t].vt + CpuSince(t) * Scaling[t] >= used[t]
    /\ timers[t].vt <= 2 * used[t]

\* Every advance of the global clock appears in the statistics, in one category
\* and for one thread, as long as no two commits overlapped.
StatisticsExplainTheClock ==
  ~overlapped /\ AllCommitsDone =>
    /\ SumOf(totals) = globalTime
    /\ \A k \in Categories :
         totals[k] = MapThenSumSet(LAMBDA o : rows[o][k], TimedThreads \cup {Collector})

\* The estimated real time of a thread that executes is never behind the time
\* it would commit: its last resume and what it ran since.
EstimateCoversLocalTime ==
  \A t \in TimedThreads : doing[t] \in {"running", "native"} =>
    timers[t].ert >= timers[t].resumedAt + timers[t].local

\* The CPU time of a thread is charged, whoever commits it; the statistics
\* explain the global time whenever no commit is under way; and an estimate is
\* never behind the local time it includes.
TimeIsAccounted ==
  /\ UserTimeIsCharged
  /\ StatisticsExplainTheClock
  /\ EstimateCoversLocalTime

=============================================================================
