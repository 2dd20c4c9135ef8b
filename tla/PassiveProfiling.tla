-------------------------- MODULE PassiveProfiling --------------------------
(* VEX without its scheduler (PassiveManager): the operating system runs     *)
(* the threads, and the hooks only account for their CPU time.  The handlers *)
(* of a scheduler are overridden to do nothing; a commit adds the thread's   *)
(* local time to the one global clock and moves the thread to that clock     *)
(* (PassiveVirtualTimelineController).                                       *)
EXTENDS Integers, FiniteSets, FiniteSetsExt

CONSTANTS PassiveThreads,
          Timeout,       \* what a replaced timed wait adds to a thread's clock
          MaxPassiveCpu, \* bound: CPU time of a thread
          MaxPassiveErt  \* bound: where a thread may still go to sleep

ASSUME PassiveAssumption ==
  /\ IsFiniteSet(PassiveThreads)
  /\ Timeout \in Nat \ {0} /\ {MaxPassiveCpu, MaxPassiveErt} \subseteq Nat

VARIABLES
  globalTime,    \* globalVirtualTime
  clockOf,       \* thread -> estimatedRealTime, localTimeSinceLastResume, lastCPUTime
  cpuOf,         \* thread -> its CPU clock
  life,          \* thread -> "unborn", "RUNNING", "WAITING" or "DEAD"
  inWait         \* thread -> is it blocked in the operating system?

passiveVars == <<globalTime, clockOf, cpuOf, life, inWait>>

PassiveInit ==
  /\ globalTime = 0
  /\ clockOf = [t \in PassiveThreads |-> [ert |-> 0, local |-> 0, lastCpu |-> 0]]
  /\ cpuOf = [t \in PassiveThreads |-> 0]
  /\ life = [t \in PassiveThreads |-> "unborn"]
  /\ inWait = [t \in PassiveThreads |-> FALSE]

Hooked(t) == life[t] \in {"RUNNING", "WAITING"} /\ ~inWait[t]

\* Application code uses the processor.
Burn(t) ==
  /\ Hooked(t) /\ cpuOf[t] < MaxPassiveCpu
  /\ cpuOf' = [cpuOf EXCEPT ![t] = @ + 1]
  /\ UNCHANGED <<globalTime, clockOf, life, inWait>>

Elapsed(t, r) == cpuOf[t] - r.lastCpu

\* Timers::updateThreadLocalTimeSinceLastResumeTo.
addLocal(t, r) == [r EXCEPT !.ert = @ + Elapsed(t, r), !.local = @ + Elapsed(t, r)]

readCpuClock(t, r) == [r EXCEPT !.lastCpu = cpuOf[t]]

\* A bug for the mutants: the local time is committed and kept.
Committed_Kept(t, r) ==
  IF Elapsed(t, r) > 0
    THEN LET total == globalTime + addLocal(t, r).local
         IN <<total, [addLocal(t, r) EXCEPT !.ert = total]>>
    ELSE <<globalTime, r>>

\* PassiveManager::setCurrentThreadVT, updateCurrentThreadVT, with the commit of
\* PassiveVirtualTimelineController; under the manager's mutex.  lastCPUTime stays.
Committed(t, r) ==
  IF Elapsed(t, r) > 0
    THEN LET total == globalTime + addLocal(t, r).local
         IN <<total, [r EXCEPT !.ert = total, !.local = 0]>>
    ELSE <<globalTime, r>>

\* ensureThreadIsNotInNativeWaitingStateWhenEnteringVex: a thread that is not
\* RUNNING is passed to suspendLooseCurrentThread, which only makes it RUNNING,
\* and its CPU time is not added here.
Entered(t) == IF life[t] = "RUNNING" THEN addLocal(t, clockOf[t]) ELSE clockOf[t]

SetClock(t, x) == globalTime' = x[1] /\ clockOf' = [clockOf EXCEPT ![t] = readCpuClock(t, x[2])]

\* PassiveManager::onThreadSpawn.
passiveSpawn(t) ==
  /\ life[t] = "unborn"
  /\ life' = [life EXCEPT ![t] = "RUNNING"]
  /\ clockOf' = [clockOf EXCEPT ![t] = readCpuClock(t, @)]
  /\ UNCHANGED <<globalTime, cpuOf, inWait>>

\* ThreadEventsBehaviour::getTime: the time since the last hook is committed and,
\* as lastCPUTime was not moved, added once more to the local time.
passiveGetTime(t) ==
  /\ Hooked(t)
  /\ LET x == Committed(t, clockOf[t])
     IN SetClock(t, <<x[1], addLocal(t, x[2])>>)
  /\ UNCHANGED <<cpuOf, life, inWait>>

\* VexThreadState::onWrappedWaitingStart.
passiveWaitingStart(t) ==
  /\ Hooked(t)
  /\ SetClock(t, Committed(t, Entered(t)))
  /\ life' = [life EXCEPT ![t] = "WAITING"]
  /\ inWait' = [inWait EXCEPT ![t] = TRUE]
  /\ UNCHANGED cpuOf

\* VexThreadState::onWrappedWaitingEnd: the clock catches up, what is left of the
\* local time is dropped, and the thread stays WAITING until its next hook.
passiveWaitingEnd(t) ==
  /\ inWait[t]
  /\ inWait' = [inWait EXCEPT ![t] = FALSE]
  /\ LET ert == IF clockOf[t].ert < globalTime THEN globalTime ELSE clockOf[t].ert
     IN  clockOf' = [clockOf EXCEPT ![t] =
                       readCpuClock(t, [clockOf[t] EXCEPT !.ert = ert, !.local = 0])]
  /\ UNCHANGED <<globalTime, cpuOf, life>>

\* VexThreadState::onReplacedTimedWaiting: nothing blocks, the timeout is added to
\* the clock of the thread.  CPU time since a wait is lost: Entered has not added it.
passiveSleep(t) ==
  /\ Hooked(t) /\ clockOf[t].ert <= MaxPassiveErt
  /\ clockOf' = [clockOf EXCEPT ![t] =
       readCpuClock(t, [Entered(t) EXCEPT !.ert = @ + Timeout])]
  /\ life' = [life EXCEPT ![t] = "RUNNING"]
  /\ UNCHANGED <<globalTime, cpuOf, inWait>>

\* PassiveManager::onThreadEnd.
passiveEnd(t) ==
  /\ Hooked(t)
  /\ SetClock(t, Committed(t, Entered(t)))
  /\ life' = [life EXCEPT ![t] = "DEAD"]
  /\ UNCHANGED <<cpuOf, inWait>>

PassiveNext ==
  \E t \in PassiveThreads :
    \/ Burn(t) \/ passiveSpawn(t) \/ passiveGetTime(t) \/ passiveWaitingStart(t)
    \/ passiveWaitingEnd(t) \/ passiveSleep(t) \/ passiveEnd(t)

PassiveSpec == PassiveInit /\ [][PassiveNext]_passiveVars

----------------------------------------------------------------------------
PassiveTotal(Of(_)) == MapThenSumSet(Of, PassiveThreads)

(***************************************************************************)
(* The clock of a passive run may count a hook's CPU time twice (entry and *)
(* commit both add it, lastCPUTime moves only at the exit), and never more *)
(* often, whatever hooks follow one another: what is committed is no       *)
(* longer local time.                                                      *)
(***************************************************************************)
PassiveTimeIsChargedAtMostTwice ==
  globalTime + PassiveTotal(LAMBDA t : clockOf[t].local) <= 2 * PassiveTotal(LAMBDA t : cpuOf[t])
=============================================================================
