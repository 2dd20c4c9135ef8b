--------------------------- MODULE SchedulerLoop ---------------------------
(* The main loop of the schedulers and its end: the wait for the end of a   *)
(* time slice, the notifications that cut it short, the round robin in      *)
(* which new threads are handed to managers, and the shutdown, which waits  *)
(* on the condition variable the scheduler itself sleeps on.                *)
(* Critical sections under a manager's mutex are single steps; what a       *)
(* scheduler does with the threads it finds is in ThreadManager.tla.        *)
EXTENDS Naturals, FiniteSets

CONSTANTS LoopThreads,  \* application threads
          Rescalers,    \* those that execute time-scaled methods
          Cores         \* maximumCpus

ASSUME CoresAssumption == Cores \in Nat \ {0} /\ Rescalers \subseteq LoopThreads

Ids == 0..Cores - 1

VARIABLES sched,        \* where every scheduler thread is
          running,      \* ThreadManager::running
          flag,         \* schedulerWaitingForTimeslotExpiry
          factor,       \* timeWaitingFactorChanged
          spent,        \* nsecAlreadyWaited covers the whole time slot
          waited,       \* alreadyWaited
          occupied,     \* the runningThread of every manager, or none
          runnables,        \* runnableThreads
          life,         \* where every application thread is
          nextCpu,      \* nextCpuToStartThread
          spawned,      \* ghost: threads handed to every manager
          stop,         \* where endSimulator is: a manager, and whether its end() waits
          shuttingDown, \* set by the death of the VM
          news,         \* ghost: a notification since the scheduler last looked
          rescaled,     \* ghost: the scaling changed since then
          late,         \* ghost: end() came before the scheduler's loop
          disturbed     \* ghost: a notification took the signal meant for end()

loopVars == <<sched, running, flag, factor, spent, waited, occupied, runnables, life, nextCpu,
              spawned, stop, shuttingDown, news, rescaled, late, disturbed>>

None == "none"

LoopInit ==
  /\ sched = [m \in Ids |-> "created"]
  /\ running = [m \in Ids |-> FALSE]
  /\ flag = [m \in Ids |-> FALSE]
  /\ factor = [m \in Ids |-> FALSE]
  /\ spent = [m \in Ids |-> FALSE]
  /\ waited = [m \in Ids |-> FALSE]
  /\ occupied = [m \in Ids |-> None]
  /\ runnables = {}
  /\ life = [t \in LoopThreads |-> "unborn"]
  /\ nextCpu = 0
  /\ spawned = [m \in Ids |-> 0]
  /\ stop = [at |-> "no", of |-> 0]
  /\ shuttingDown = FALSE
  /\ news = [m \in Ids |-> FALSE]
  /\ rescaled = [m \in Ids |-> FALSE]
  /\ late = FALSE /\ disturbed = FALSE

EndWaits(m) == stop.at = "waits" /\ stop.of = m

(***************************************************************************)
(* Notifications                                                           *)
(***************************************************************************)
\* pthread_cond_signal: one of those who wait on the condition variable.
Signal(m, byNotifier) ==
  \/ /\ sched[m] = "asleep"
     /\ sched' = [sched EXCEPT ![m] = "signalled"]
     /\ UNCHANGED <<stop, disturbed>>
  \/ /\ EndWaits(m)
     /\ stop' = [stop EXCEPT !.at = "woken"]
     /\ disturbed' = (disturbed \/ byNotifier)
     /\ UNCHANGED sched
  \/ /\ sched[m] # "asleep" /\ ~EndWaits(m)
     /\ UNCHANGED <<sched, stop, disturbed>>

\* Mutant: a scheduler that does not wait is not told.
unconditionalWakeup_OnlyAsleep(m) == Signal(m, TRUE) /\ UNCHANGED flag

\* The flag is set while the scheduler waits; set while it does not, it makes
\* the scheduler skip its next wait.
unconditionalWakeup(m) ==
  \/ /\ flag[m]
     /\ Signal(m, TRUE)
     /\ UNCHANGED flag
  \/ /\ ~flag[m]
     /\ flag' = [flag EXCEPT ![m] = TRUE]
     /\ UNCHANGED <<sched, stop, disturbed>>

Notify(m) == unconditionalWakeup(m) /\ news' = [news EXCEPT ![m] = TRUE]

(***************************************************************************)
(* Application threads                                                     *)
(***************************************************************************)
Successor(n) == IF n + 1 = Cores THEN 0 ELSE n + 1

\* callbackThreadStart and onThreadSpawn: the thread queues up and its manager is told.
onThreadSpawn(t) ==
  /\ life[t] = "unborn" /\ ~shuttingDown
  /\ nextCpu' = Successor(nextCpu)
  /\ spawned' = [spawned EXCEPT ![nextCpu] = @ + 1]
  /\ life' = [life EXCEPT ![t] = "queued"]
  /\ runnables' = runnables \cup {t}
  /\ Notify(nextCpu)
  /\ UNCHANGED <<running, factor, spent, waited, occupied, shuttingDown, rescaled, late>>

\* A running thread gives up its core (waits, ends): its manager is told.
Leave(t, m, where) ==
  /\ occupied[m] = t
  /\ occupied' = [occupied EXCEPT ![m] = None]
  /\ life' = [life EXCEPT ![t] = where]
  /\ Notify(m)
  /\ UNCHANGED <<running, factor, spent, waited, runnables, nextCpu, spawned, shuttingDown,
                 rescaled, late>>

onThreadEnd(t, m) == Leave(t, m, "dead")

\* _notifySchedulerForVirtualizedTime, in two steps: flag, then wake-up.
notifySchedulerForVirtualizedTime(t, m) ==
  /\ t \in Rescalers /\ occupied[m] = t /\ life[t] = "running"
  /\ factor' = [factor EXCEPT ![m] = TRUE]
  /\ rescaled' = [rescaled EXCEPT ![m] = TRUE]
  /\ life' = [life EXCEPT ![t] = "rescaling"]
  /\ UNCHANGED <<sched, running, flag, spent, waited, occupied, runnables, nextCpu, spawned, stop,
                 shuttingDown, news, late, disturbed>>

FinishRescaling(t, m) ==
  /\ occupied[m] = t /\ life[t] = "rescaling"
  /\ life' = [life EXCEPT ![t] = "running"]
  /\ Notify(m)
  /\ UNCHANGED <<running, factor, spent, waited, occupied, runnables, nextCpu, spawned,
                 shuttingDown, rescaled, late>>

(***************************************************************************)
(* The scheduler                                                           *)
(***************************************************************************)
Untouched == UNCHANGED <<runnables, nextCpu, spawned, shuttingDown, late>>

\* start: the loop begins.
start(m) ==
  /\ sched[m] = "created"
  /\ sched' = [sched EXCEPT ![m] = "loop"]
  /\ running' = [running EXCEPT ![m] = TRUE]
  /\ UNCHANGED <<flag, factor, spent, waited, occupied, life, stop, news, rescaled, disturbed>>
  /\ Untouched

\* while (running): enter doControllerWait, whose locals start anew, and plan to
\* wait for the whole slice.
EnterWait(m) ==
  /\ sched[m] = "loop" /\ running[m]
  /\ sched' = [sched EXCEPT ![m] = "wait"]
  /\ factor' = [factor EXCEPT ![m] = FALSE]
  /\ spent' = [spent EXCEPT ![m] = FALSE]
  /\ waited' = [waited EXCEPT ![m] = TRUE]
  /\ UNCHANGED <<running, flag, occupied, life, stop, news, rescaled, disturbed>> /\ Untouched

\* A further round of the inner loop: how much is left of the slice? After an earlier
\* wait in the same slice any part of it may be over.
ComputeSlice(m) ==
  /\ sched[m] = "slice"
  /\ factor' = [factor EXCEPT ![m] = FALSE]
  /\ \E over \in IF waited[m] THEN BOOLEAN ELSE {spent[m]} :
       /\ spent' = [spent EXCEPT ![m] = over]
       /\ sched' = [sched EXCEPT ![m] = IF over THEN "check" ELSE "wait"]
  /\ waited' = [waited EXCEPT ![m] = TRUE]
  /\ UNCHANGED <<running, flag, occupied, life, stop, news, rescaled, disturbed>> /\ Untouched

\* Under the mutex: sleep, unless the manager stops or was notified meanwhile.
timedWait(m) ==
  /\ sched[m] = "wait"
  /\ \/ /\ running[m] /\ ~flag[m]
        /\ flag' = [flag EXCEPT ![m] = TRUE]
        /\ sched' = [sched EXCEPT ![m] = "asleep"]
     \/ /\ ~running[m] \/ flag[m]
        /\ flag' = [flag EXCEPT ![m] = FALSE]
        /\ sched' = [sched EXCEPT ![m] = "scan"]
  /\ UNCHANGED <<running, factor, spent, waited, occupied, life, stop, news, rescaled, disturbed>>
  /\ Untouched

\* The wait is over, by a signal or because the slice is.
WakeUp(m) ==
  /\ sched[m] \in {"asleep", "signalled"}
  /\ flag' = [flag EXCEPT ![m] = FALSE]
  /\ sched' = [sched EXCEPT ![m] = "check"]
  /\ UNCHANGED <<running, factor, spent, waited, occupied, life, stop, news, rescaled, disturbed>>
  /\ Untouched

noThreadsToSchedule(m) == runnables = {} /\ occupied[m] = None

\* The conditions of the two loops: the rest of this slice, or, while there is
\* nothing to schedule, another one; nsecAlreadyWaited survives into that.
CheckLoops(m) ==
  /\ sched[m] = "check"
  /\ \/ /\ factor[m]
        /\ sched' = [sched EXCEPT ![m] = "slice"]
        /\ UNCHANGED <<news, waited>>
     \/ /\ ~factor[m] /\ noThreadsToSchedule(m)
        /\ sched' = [sched EXCEPT ![m] = "slice"]
        /\ waited' = [waited EXCEPT ![m] = FALSE]
        /\ news' = [news EXCEPT ![m] = FALSE]
     \/ /\ ~factor[m] /\ ~noThreadsToSchedule(m)
        /\ sched' = [sched EXCEPT ![m] = "scan"]
        /\ UNCHANGED <<news, waited>>
  /\ UNCHANGED <<running, flag, factor, spent, occupied, life, stop, rescaled, disturbed>>
  /\ Untouched

\* suspendRunningResumeNext: the running thread gives way to a queued one, or not.
suspendRunningResumeNext(m) ==
  /\ sched[m] = "scan"
  /\ sched' = [sched EXCEPT ![m] = "loop"]
  /\ spent' = [spent EXCEPT ![m] = FALSE]
  /\ waited' = [waited EXCEPT ![m] = FALSE]
  /\ news' = [news EXCEPT ![m] = FALSE]
  /\ rescaled' = [rescaled EXCEPT ![m] = FALSE]
  /\ \/ UNCHANGED <<runnables, occupied, life>>
     \/ \E t \in runnables :
          /\ occupied[m] = None
          /\ occupied' = [occupied EXCEPT ![m] = t]
          /\ runnables' = runnables \ {t}
          /\ life' = [life EXCEPT ![t] = "running"]
     \/ \E t \in runnables, old \in LoopThreads :
          /\ occupied[m] = old /\ life[old] = "running"
          /\ occupied' = [occupied EXCEPT ![m] = t]
          /\ runnables' = (runnables \ {t}) \cup {old}
          /\ life' = [life EXCEPT ![t] = "running", ![old] = "queued"]
  /\ UNCHANGED <<running, flag, factor, nextCpu, spawned, stop, shuttingDown, late, disturbed>>

\* Mutant: the thread leaves without telling the one that waits for it.
exitLoop_Silent(m) ==
  /\ sched[m] = "loop" /\ ~running[m]
  /\ sched' = [sched EXCEPT ![m] = "gone"]
  /\ UNCHANGED <<running, flag, factor, spent, waited, occupied, life, stop, news, rescaled,
                 disturbed>>
  /\ Untouched

\* The loop is over: tell the terminator.
exitLoop(m) ==
  /\ sched[m] = "loop" /\ ~running[m]
  /\ sched' = [sched EXCEPT ![m] = "gone"]
  /\ stop' = IF EndWaits(m) THEN [stop EXCEPT !.at = "woken"] ELSE stop
  /\ UNCHANGED <<running, flag, factor, spent, waited, occupied, life, news, rescaled,
                 disturbed>>
  /\ Untouched

(***************************************************************************)
(* Shutdown                                                                *)
(***************************************************************************)
\* callbackVMDeath.
callbackVMDeath ==
  /\ stop.at = "no"
  /\ shuttingDown' = TRUE
  /\ stop' = [at |-> "end", of |-> 0]
  /\ UNCHANGED <<sched, running, flag, factor, spent, waited, occupied, runnables, life, nextCpu,
                 spawned, news, rescaled, late, disturbed>>

\* ThreadManager::end: stop, signal the scheduler and wait, under the mutex.
end(m) ==
  /\ stop = [at |-> "end", of |-> m]
  /\ running' = [running EXCEPT ![m] = FALSE]
  /\ sched' = [sched EXCEPT ![m] = IF @ = "asleep" THEN "signalled" ELSE @]
  /\ stop' = [stop EXCEPT !.at = "waits"]
  /\ late' = (late \/ sched[m] = "created")
  /\ UNCHANGED <<flag, factor, spent, waited, occupied, runnables, life, nextCpu, spawned,
                 shuttingDown, news, rescaled, disturbed>>

\* ThreadManagerRegistry::end goes on with the next manager; after the last one
\* the results are printed and everything is deleted.
EndReturned ==
  /\ stop.at = "woken"
  /\ stop' = IF stop.of + 1 = Cores THEN [at |-> "deleted", of |-> stop.of]
             ELSE [at |-> "end", of |-> stop.of + 1]
  /\ UNCHANGED <<sched, running, flag, factor, spent, waited, occupied, runnables, life, nextCpu,
                 spawned, shuttingDown, news, rescaled, late, disturbed>>

\* After that nothing of the simulator may be used.
LoopNext ==
  /\ stop.at # "deleted"
  /\ \/ \E m \in Ids :
          \/ start(m) \/ EnterWait(m) \/ ComputeSlice(m) \/ timedWait(m) \/ WakeUp(m)
          \/ CheckLoops(m) \/ suspendRunningResumeNext(m) \/ exitLoop(m)
          \/ end(m)
          \/ \E t \in LoopThreads :
               \/ onThreadEnd(t, m) \/ notifySchedulerForVirtualizedTime(t, m)
               \/ FinishRescaling(t, m)
     \/ \E t \in LoopThreads : onThreadSpawn(t)
     \/ callbackVMDeath \/ EndReturned

SchedulerStep(m) ==
  /\ stop.at # "deleted"
  /\ \/ start(m) \/ EnterWait(m) \/ ComputeSlice(m) \/ timedWait(m) \/ WakeUp(m)
     \/ CheckLoops(m) \/ suspendRunningResumeNext(m) \/ exitLoop(m)

ShutdownStep == EndReturned \/ \E m \in Ids : end(m)

\* Scheduler threads and the thread that shuts down are scheduled fairly by the host.
LoopFairness ==
  /\ \A m \in Ids : WF_loopVars(SchedulerStep(m))
  /\ WF_loopVars(ShutdownStep)

LoopSpec == LoopInit /\ [][LoopNext]_loopVars /\ LoopFairness

(***************************************************************************)
(* Properties                                                              *)
(***************************************************************************)
\* New threads are handed out in turn to managers that exist.
SpawnsAreBalanced ==
  /\ nextCpu \in Ids
  /\ \A m, n \in Ids : spawned[m] <= spawned[n] + 1

\* A scheduler does not sleep through a notification: unless the scaling of its
\* thread changed too, it looks at the threads (or sees that there are none) before
\* it sleeps again. (An end() that came too early leaves two sleepers.)
NotificationIsNotSleptThrough ==
  \A m \in Ids : sched[m] = "asleep" /\ ~late => (news[m] => rescaled[m])

\* The simulator is deleted only when every scheduler has left its loop, if no
\* notification of an application thread took the signal that end() waits for.
DeletedAfterTheSchedulers ==
  stop.at = "deleted" /\ ~disturbed /\ ~late => \A m \in Ids : sched[m] = "gone"

\* A scheduler loop sleeps through no notification, concurrent spawns are
\* spread over the managers, and the simulator is deleted only after its
\* schedulers have ended.
LoopIsSound ==
  /\ SpawnsAreBalanced
  /\ NotificationIsNotSleptThrough
  /\ DeletedAfterTheSchedulers

\* The shutdown comes to an end, if the schedulers had begun and none spins on a
\* time slice that is already over.
EndReturns ==
  (stop.at # "no") ~> (stop.at = "deleted" \/ late \/ \E m \in Ids : spent[m])
=============================================================================
