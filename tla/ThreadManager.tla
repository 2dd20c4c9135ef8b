---------------------------- MODULE ThreadManager ----------------------------
(***************************************************************************)
(* The scheduler of one virtual core (ThreadManager) and the threads it    *)
(* controls: how a thread enters and leaves VEX, suspends itself, sleeps,  *)
(* waits, is notified, is suspended by the scheduler's signal or set       *)
(* native waiting, and is resumed.                                         *)
(*                                                                         *)
(* Sources: scheduler/ThreadManager.cpp, threads/ThreadState.{h,cpp},      *)
(* threads/Scheduling.{h,cpp}, events/ThreadEventsBehaviour.cpp.           *)
(*                                                                         *)
(* Virtual time is abstracted to the choices it decides: which thread is   *)
(* on top of the runnable queue, whether the running thread is past its    *)
(* timeslice, whether a thread looks native waiting, whether a leap is     *)
(* valid.  A thread's suspendLock is free exactly while the thread is in   *)
(* the condition wait of blockHereUntilSignaled, pc = "asleep".            *)
(***************************************************************************)
EXTENDS Integers, FiniteSets

CONSTANTS
  Threads,       \* the simulated threads
  NoThread,      \* a NULL VexThreadState pointer
  Scheduler,     \* the scheduler thread, as the holder of a key
  Ops,           \* the operations threads call
  NotifyTimed,   \* may a timed waiting thread be notified or interrupted?
  KeyTimeouts    \* may a thread hold its key for seconds?

ASSUME DistinctAssumption ==
  NoThread \notin Threads /\ Scheduler \notin Threads /\ NoThread # Scheduler
ASSUME OpsAssumption ==
  Ops \subseteq {"point", "yield", "sleep", "wait", "wrapped", "notify", "interrupt", "end"}
ASSUME SwitchesAssumption == NotifyTimed \in BOOLEAN /\ KeyTimeouts \in BOOLEAN

VARIABLES
  pc,        \* thread -> where it is
  saved,     \* thread -> where to go once it is running again, or "none"
  op,        \* thread -> the operation it called
  target,    \* thread -> the thread it is notifying
  state,     \* thread -> VexThreadState::currentState
  key,       \* thread -> holder of its sharedAccessKey
  awaken,    \* thread -> Scheduling::awaken
  managed,   \* thread -> is threadCurrentlyControllingManager set?
  flag,      \* thread -> Scheduling::suspendFlag
  hup,       \* the threads with a pending SIGHUP
  timedOut,  \* thread -> VexThreadState::timedOut
  timeout,   \* thread -> Timers::timeout: -2, -1, 0 or 1 for any positive one
  runningThread,
  queue,     \* runnableThreads, as a set
  spc,       \* where the scheduler is
  sarg,      \* the thread the scheduler is handling
  failed     \* has an assertion of the code failed?

threadVars == <<pc, saved, op, target>>
stateVars == <<state, awaken, managed, timedOut, timeout>>
schedVars == <<spc, sarg>>
vars == <<pc, saved, op, target, state, key, awaken, managed, flag, hup,
          timedOut, timeout, runningThread, queue, spc, sarg, failed>>

Set(f, t, v) == [f EXCEPT ![t] = v]
Goto(t, l) == pc' = Set(pc, t, l)
SGoto(l) == spc' = l /\ UNCHANGED sarg
SWait == spc' = "wait" /\ sarg' = NoThread

\* Mutant of anotherThreadAlreadySetRunning: the slot is not looked at.
anotherThreadAlreadySetRunning_Never(t) == FALSE

anotherThreadAlreadySetRunning(t) == runningThread \notin {NoThread, t}

\* The running thread slot once thread t gave it up.
Unset(t) == IF runningThread = t THEN NoThread ELSE runningThread

\* ThreadQueue::push, with its assertion.
push(t) ==
  /\ queue' = queue \cup {t}
  /\ failed' = (failed \/ t \in queue)

pop(t) == queue' = queue \ {t}

\* Mutant of setAwaken: never reset.
setAwaken_Sticky(t, value) == awaken' = Set(awaken, t, awaken[t] \/ value)

setAwaken(t, value) == awaken' = Set(awaken, t, value)

\* Mutant of notifySchedulerForIntention: one intention is not sent.
notifySchedulerForIntention_Partly(t, intention) ==
  flag' = IF intention = "TO_KEEP_ON_RUNNING" THEN flag ELSE Set(flag, t, intention)

notifySchedulerForIntention(t, intention) == flag' = Set(flag, t, intention)

setSuspended(t) ==
  /\ state' = Set(state, t, "SUSPENDED")
  /\ setAwaken(t, FALSE)

setSuspendedAndPushToRunnables(t) ==
  /\ runningThread' = Unset(t)
  /\ setSuspended(t)
  /\ timedOut' = Set(timedOut, t, TRUE)
  /\ timeout' = Set(timeout, t, -1)
  /\ push(t)
-----------------------------------------------------------------------------
Init ==
  /\ pc = [t \in Threads |-> "unborn"]
  /\ saved = [t \in Threads |-> "none"]
  /\ op = [t \in Threads |-> "spawn"]
  /\ target = [t \in Threads |-> NoThread]
  /\ state = [t \in Threads |-> "REGISTERING"]
  /\ key = [t \in Threads |-> NoThread]
  /\ awaken = [t \in Threads |-> FALSE]
  /\ managed = [t \in Threads |-> FALSE]
  /\ flag = [t \in Threads |-> "CLEAR"]
  /\ hup = {}
  /\ timedOut = [t \in Threads |-> TRUE]
  /\ timeout = [t \in Threads |-> -1]
  /\ runningThread = NoThread
  /\ queue = {}
  /\ spc = "wait"
  /\ sarg = NoThread
  /\ failed = FALSE

\* A thread's steps inside VEX never touch the scheduler's program counter.
ThreadStep(t, at) == pc[t] = at /\ UNCHANGED schedVars

\* onThreadSpawn up to suspendCurrentThread: a new thread takes its suspend
\* lock and its key, and is under the control of this manager.
onThreadSpawn(t) ==
  /\ ThreadStep(t, "unborn")
  /\ key[t] = NoThread
  /\ key' = Set(key, t, t)
  /\ managed' = Set(managed, t, TRUE)
  /\ Goto(t, "suspend")
  /\ UNCHANGED <<saved, op, target, state, awaken, flag, hup, timedOut,
                 timeout, runningThread, queue, failed>>

\* ensureThreadIsNotInNativeWaitingStateWhenEnteringVex, called without the
\* key: a thread that is not under control suspends as a loose thread before
\* its operation.
onVexEntry(t, o) ==
  /\ ThreadStep(t, "user")
  /\ IF state[t] = "RUNNING" /\ managed[t]
     THEN /\ Goto(t, "entered")
          /\ op' = Set(op, t, o)
     ELSE /\ Goto(t, "loose")
          /\ op' = Set(op, t, IF o = "point" THEN "exit" ELSE o)
  /\ UNCHANGED <<saved, target, stateVars, key, flag, hup, runningThread,
                 queue, failed>>

lockShareResourceAccessKey(t, from, to) ==
  /\ ThreadStep(t, from)
  /\ key[t] = NoThread
  /\ key' = Set(key, t, t)
  /\ Goto(t, to)
  /\ UNCHANGED <<saved, op, target, stateVars, flag, hup, runningThread,
                 queue, failed>>

\* suspendLooseCurrentThread: suspend if anybody is runnable, without waking
\* the scheduler; otherwise run.
suspendLooseCurrentThread(t) ==
  /\ ThreadStep(t, "looseLocked")
  /\ saved' = Set(saved, t, "entered")
  /\ \/ /\ queue # {}
        /\ setSuspendedAndPushToRunnables(t)
        /\ Goto(t, "unlock")
     \/ /\ queue = {}
        /\ Goto(t, "setRunning")
        /\ UNCHANGED <<state, awaken, timedOut, timeout, runningThread, queue, failed>>
  /\ UNCHANGED <<op, target, key, managed, flag, hup>>

\* shouldCurrentThreadSuspend: it must answer true when the thread has no
\* manager or another thread is running, and may when somebody is runnable.
MustSuspend(t) == ~managed[t] \/ anotherThreadAlreadySetRunning(t)
MaySuspend(t) == MustSuspend(t) \/ queue # {}

\* SUSPEND_OPT_FORCE_SUSPEND applies if a thread is runnable or being spawned.
ForcedSuspend == queue # {} \/ \E u \in Threads : pc[u] = "unborn"

\* suspendCurrentThread with the key held, called by an operation.  A thread
\* is born with its forced suspend flag set; only a yield forces later ones.
suspendCurrentThread(t) ==
  /\ \/ ThreadStep(t, "suspend")
     \/ ThreadStep(t, "locked") /\ op[t] \in {"point", "yield"}
  /\ \/ /\ MaySuspend(t) \/ op[t] = "spawn" \/ (op[t] = "yield" /\ ForcedSuspend)
        /\ setSuspendedAndPushToRunnables(t)
        /\ Goto(t, "unlock")
     \/ /\ ~MustSuspend(t) /\ op[t] # "spawn"
        /\ op[t] = "yield" => queue = {}
        /\ Goto(t, IF runningThread = t THEN "exit" ELSE "setRunning")
        /\ UNCHANGED <<state, awaken, timedOut, timeout, runningThread, queue, failed>>
  /\ UNCHANGED <<saved, op, target, key, managed, flag, hup>>

\* onBlockedWaitingInVex: unlock the key ...
unlockBeforeBlocking(t) ==
  /\ ThreadStep(t, "unlock")
  /\ key' = Set(key, t, NoThread)
  /\ Goto(t, "block")
  /\ UNCHANGED <<saved, op, target, stateVars, flag, hup, runningThread, queue, failed>>

\* ... blockHereUntilSignaled: clear awaken and release the suspend lock in
\* the condition wait ...
blockHereUntilSignaled(t) ==
  /\ ThreadStep(t, "block")
  /\ setAwaken(t, FALSE)
  /\ Goto(t, "asleep")
  /\ UNCHANGED <<saved, op, target, state, key, managed, flag, hup, timedOut,
                 timeout, runningThread, queue, failed>>

\* ... until awaken is set; then the key is locked again.
wakeUp(t) ==
  /\ ThreadStep(t, "asleep")
  /\ awaken[t]
  /\ Goto(t, "woken")
  /\ UNCHANGED <<saved, op, target, stateVars, key, flag, hup, runningThread,
                 queue, failed>>

\* setRunningThread: the thread becomes the running thread, or suspends again
\* if another one won the race.
setRunningThread(t) ==
  /\ ThreadStep(t, "setRunning")
  /\ setAwaken(t, FALSE)
  /\ \/ /\ ~anotherThreadAlreadySetRunning(t)
        /\ state' = Set(state, t, "RUNNING")
        /\ runningThread' = t
        /\ managed' = Set(managed, t, TRUE)
        /\ Goto(t, "isRunning")
     \/ /\ anotherThreadAlreadySetRunning(t)
        /\ Goto(t, "resuspend")
        /\ UNCHANGED <<state, runningThread, managed>>
  /\ UNCHANGED <<saved, op, target, key, flag, hup, timedOut, timeout, queue, failed>>

\* suspendCurrentThread with SUSPEND_OPT_FORCE_SUSPEND from setRunningThread.
resuspend(t) ==
  /\ ThreadStep(t, "resuspend")
  /\ \/ /\ ForcedSuspend \/ MustSuspend(t)
        /\ IF t \in queue
           THEN /\ setSuspended(t)
                /\ runningThread' = Unset(t)
                /\ UNCHANGED <<timedOut, timeout, queue, failed>>
           ELSE setSuspendedAndPushToRunnables(t)
        /\ Goto(t, "unlock")
     \/ /\ ~MustSuspend(t) /\ queue = {}
        /\ Goto(t, "setRunning")
        /\ UNCHANGED <<state, awaken, timedOut, timeout, runningThread, queue, failed>>
  /\ UNCHANGED <<saved, op, target, key, managed, flag, hup>>

\* What follows the resumption: a signal handler and a loose entry release
\* the key and go on where they were; an operation ends.
afterResume(t) ==
  /\ ThreadStep(t, "isRunning")
  /\ failed' = (failed \/ (saved[t] = "none" /\ op[t] \in {"sleep", "wait"}
                            /\ state[t] # "RUNNING"))
  /\ IF saved[t] = "none"
     THEN Goto(t, "exit") /\ UNCHANGED <<saved, key>>
     ELSE /\ Goto(t, saved[t])
          /\ saved' = Set(saved, t, "none")
          /\ key' = Set(key, t, NoThread)
  /\ UNCHANGED <<op, target, stateVars, flag, hup, runningThread, queue>>

\* onVexExit: unlock the key and return to the application.
onVexExit(t) ==
  /\ ThreadStep(t, "exit")
  /\ key' = Set(key, t, NoThread)
  /\ timeout' = IF op[t] = "wait" THEN Set(timeout, t, -1) ELSE timeout
  /\ Goto(t, "user")
  /\ op' = Set(op, t, "none")
  /\ UNCHANGED <<saved, target, state, awaken, managed, flag, hup, timedOut,
                 runningThread, queue, failed>>
-----------------------------------------------------------------------------
(* The operations, with the key held. *)

Calls(t, o) == ThreadStep(t, "locked") /\ op[t] = o

\* An interaction point of a thread that has just suspended as a loose one.
afterLooseEntry(t) ==
  /\ Calls(t, "exit")
  /\ Goto(t, "exit")
  /\ UNCHANGED <<saved, op, target, stateVars, key, flag, hup, runningThread,
                 queue, failed>>

\* Thread.sleep: WAITING with a timeout, and no longer the running thread ...
onReplacedTimedWaiting(t) ==
  /\ Calls(t, "sleep")
  /\ state' = Set(state, t, "WAITING")
  /\ timedOut' = Set(timedOut, t, TRUE)
  /\ setAwaken(t, FALSE)
  /\ timeout' = Set(timeout, t, 1)
  /\ runningThread' = Unset(t)
  /\ Goto(t, "pushWaiting")
  /\ UNCHANGED <<saved, op, target, key, managed, flag, hup, queue, failed>>

\* ... then WAITING again, and pushed into the queue until it times out.
setTimedWaitingThread(t) ==
  /\ ThreadStep(t, "pushWaiting")
  /\ state' = Set(state, t, "WAITING")
  /\ timedOut' = Set(timedOut, t, TRUE)
  /\ push(t)
  /\ Goto(t, "unlock")
  /\ UNCHANGED <<saved, op, target, key, awaken, managed, flag, hup, timeout,
                 runningThread>>

\* Object.wait without a timeout, resumed by VEX: not in the queue.
onReplacedWaiting(t) ==
  /\ Calls(t, "wait")
  /\ state' = Set(state, t, "WAITING")
  /\ timedOut' = Set(timedOut, t, TRUE)
  /\ timeout' = Set(timeout, t, -2)
  /\ runningThread' = Unset(t)
  /\ Goto(t, "unlock")
  /\ UNCHANGED <<saved, op, target, key, awaken, managed, flag, hup, queue, failed>>

\* onWrappedWaitingStart: the thread leaves VEX and blocks by itself.
onWrappedWaitingStart(t) ==
  /\ Calls(t, "wrapped")
  /\ state' = Set(state, t, "WAITING")
  /\ timedOut' = Set(timedOut, t, TRUE)
  /\ timeout' = Set(timeout, t, -1)
  /\ runningThread' = Unset(t)
  /\ key' = Set(key, t, NoThread)
  /\ Goto(t, "wrapped")
  /\ UNCHANGED <<saved, op, target, awaken, managed, flag, hup, queue, failed>>

\* onWrappedWaitingEnd, once the real wait is over.
onWrappedWaitingEnd(t) ==
  /\ ThreadStep(t, "wrapped")
  /\ key[t] = NoThread
  /\ key' = Set(key, t, t)
  /\ timedOut' = Set(timedOut, t, TRUE)
  /\ timeout' = Set(timeout, t, -1)
  /\ Goto(t, "suspend")
  /\ UNCHANGED <<saved, op, target, state, awaken, managed, flag, hup,
                 runningThread, queue, failed>>

\* A thread waiting inside VEX, which the object registry can name.
Notifiable(u) == op[u] = "wait" \/ (NotifyTimed /\ op[u] = "sleep")

\* interruptThread: the other thread is found WAITING, without its key ...
findWaiting(t, u) ==
  /\ ThreadStep(t, "locked")
  /\ op[t] \in {"notify", "interrupt"}
  /\ u # t /\ Notifiable(u)
  /\ IF state[u] = "WAITING"
     THEN Goto(t, "notify") /\ target' = Set(target, t, u)
     ELSE Goto(t, "exit") /\ UNCHANGED target
  /\ UNCHANGED <<saved, op, stateVars, key, flag, hup, runningThread, queue, failed>>

nobodyWaiting(t) ==
  /\ ThreadStep(t, "locked")
  /\ op[t] \in {"notify", "interrupt"}
  /\ Goto(t, "exit")
  /\ UNCHANGED <<saved, op, target, stateVars, key, flag, hup, runningThread,
                 queue, failed>>

\* beforeThreadInterruptAt: "timeout from -1 => to 0", a positive one remains.
ResumingTimeout(v) == IF v < 0 THEN 0 ELSE v

\* ... onAnyReplacedWaitingInterrupt: SUSPENDED, and pushed only if it had no
\* timeout ...
onAnyReplacedWaitingInterrupt(u) ==
  /\ setSuspended(u)
  /\ timeout' = Set(timeout, u, ResumingTimeout(timeout[u]))
  /\ IF timeout[u] \in {0, -2} THEN push(u) ELSE UNCHANGED <<queue, failed>>

interruptThread(t) ==
  /\ ThreadStep(t, "notify")
  /\ onAnyReplacedWaitingInterrupt(target[t])
  /\ timedOut' = Set(timedOut, target[t], FALSE)
  /\ Goto(t, "notified")
  /\ UNCHANGED <<saved, op, target, key, managed, flag, hup, runningThread>>

isNotification(t) == op[t] = "notify"

\* ... and it is told whether it was notified or interrupted.
setTimedOut(t) ==
  /\ ThreadStep(t, "notified")
  /\ timedOut' = Set(timedOut, target[t], isNotification(t))
  /\ target' = Set(target, t, NoThread)
  /\ Goto(t, "exit")
  /\ UNCHANGED <<saved, op, state, key, awaken, managed, flag, hup, timeout,
                 runningThread, queue, failed>>

onThreadEnd(t) ==
  /\ Calls(t, "end")
  /\ state' = Set(state, t, "DEAD")
  /\ runningThread' = Unset(t)
  /\ key' = Set(key, t, NoThread)
  /\ Goto(t, "dead")
  /\ UNCHANGED <<saved, op, target, awaken, managed, flag, hup, timedOut,
                 timeout, queue, failed>>
-----------------------------------------------------------------------------
(* onSignalledFromScheduler, the SIGHUP handler. *)

HandlerRuns(t) ==
  /\ t \in hup
  /\ pc[t] \in {"user", "entered", "loose"}
  /\ hup' = hup \ {t}
  /\ UNCHANGED schedVars

\* The thread looks native waiting: it replies, then becomes NATIVE_WAITING.
replyDisregarded(t) ==
  /\ HandlerRuns(t)
  /\ state[t] # "NATIVE_WAITING" /\ managed[t]
  /\ pc[t] = "user"                    \* not inVex
  /\ notifySchedulerForIntention(t, "TO_BE_DISREGARDED")
  /\ Goto(t, "becomeNative")
  /\ UNCHANGED <<saved, op, target, stateVars, key, runningThread, queue, failed>>

setNativeWaiting(t) ==
  /\ ThreadStep(t, "becomeNative")
  /\ state' = Set(state, t, "NATIVE_WAITING")
  /\ managed' = Set(managed, t, FALSE)
  /\ Goto(t, "user")
  /\ UNCHANGED <<saved, op, target, key, awaken, flag, hup, timedOut, timeout,
                 runningThread, queue, failed>>

\* The thread should suspend: it replies and blocks in the handler.
replySuspended(t) ==
  /\ HandlerRuns(t)
  /\ state[t] # "NATIVE_WAITING" /\ managed[t]
  /\ MaySuspend(t)
  /\ setSuspended(t)
  /\ notifySchedulerForIntention(t, "TO_BE_SUSPENDED")
  /\ saved' = Set(saved, t, pc[t])
  /\ Goto(t, "block")
  /\ UNCHANGED <<op, target, key, managed, timedOut, timeout, runningThread,
                 queue, failed>>

replyKeepOnRunning(t) ==
  /\ HandlerRuns(t)
  /\ state[t] # "NATIVE_WAITING" /\ managed[t]
  /\ ~MustSuspend(t)
  /\ notifySchedulerForIntention(t, "TO_KEEP_ON_RUNNING")
  /\ UNCHANGED <<pc, saved, op, target, stateVars, key, runningThread, queue, failed>>
-----------------------------------------------------------------------------
(* The scheduler: start, suspendRunningResumeNext. *)

\* The wait is over, by a wakeup or by the end of the timeslice, and there is
\* something to schedule.
doControllerWait ==
  /\ spc = "wait"
  /\ ~(queue = {} /\ runningThread = NoThread)
  /\ sarg' = runningThread
  /\ spc' = IF runningThread = NoThread THEN "top" ELSE "lockRunning"
  /\ UNCHANGED <<threadVars, stateVars, key, flag, hup, runningThread, queue, failed>>

\* Mutant of StillRunning: the check under the key is dropped.
StillRunning_Unchecked(t) == TRUE

StillRunning(t) == t = runningThread

\* suspendThread: lock the key of the thread that was running; signal it if
\* it still is.
suspendThread ==
  /\ spc = "lockRunning"
  /\ key[sarg] = NoThread
  /\ IF StillRunning(sarg)
     THEN /\ key' = Set(key, sarg, Scheduler)
          /\ hup' = hup \cup {sarg}
          /\ SGoto("reply")
     ELSE UNCHANGED <<key, hup>> /\ SGoto("top")
  /\ UNCHANGED <<threadVars, stateVars, flag, runningThread, queue, failed>>

\* suspendThread: the key could not be locked for seconds, and the thread is
\* declared native waiting without it.
suspendThreadTimesOut ==
  /\ spc = "lockRunning"
  /\ KeyTimeouts /\ key[sarg] # NoThread
  /\ runningThread' = Unset(sarg)
  /\ state' = Set(state, sarg, "NATIVE_WAITING")
  /\ managed' = Set(managed, sarg, FALSE)
  /\ SGoto("top")
  /\ UNCHANGED <<threadVars, awaken, key, flag, hup, timedOut, timeout, queue, failed>>

lockRunningThread == spc = "lockRunning" /\ (suspendThread \/ suspendThreadTimesOut)

\* isSignalledThreadGoingToSuspend: wait for the thread's intention.
GetsIntention(intention) ==
  /\ spc = "reply"
  /\ flag[sarg] = intention
  /\ flag' = Set(flag, sarg, "CLEAR")
  /\ key' = Set(key, sarg, NoThread)

suspendRunning ==
  /\ GetsIntention("TO_BE_SUSPENDED")
  /\ runningThread' = Unset(sarg)
  /\ setSuspended(sarg)
  /\ push(sarg)
  /\ SGoto("top")
  /\ UNCHANGED <<threadVars, managed, hup, timedOut, timeout>>

onIntentionToBeDisregarded ==
  /\ GetsIntention("TO_BE_DISREGARDED")
  /\ runningThread' = Unset(sarg)
  /\ SGoto("top")
  /\ UNCHANGED <<threadVars, stateVars, hup, queue, failed>>

onIntentionToKeepOnRunning ==
  /\ GetsIntention("TO_KEEP_ON_RUNNING")
  /\ runningThread' = sarg
  /\ managed' = Set(managed, sarg, TRUE)
  /\ SWait
  /\ UNCHANGED <<threadVars, state, awaken, hup, timedOut, timeout, queue, failed>>

\* continueThread(runnableThreads->top()).
top ==
  /\ spc = "top"
  /\ \/ /\ queue = {}
        /\ SWait
     \/ \E t \in queue : sarg' = t /\ spc' = "lockTop"
  /\ UNCHANGED <<threadVars, stateVars, key, flag, hup, runningThread, queue, failed>>

lockTop ==
  /\ spc = "lockTop"
  /\ key[sarg] = NoThread
  /\ key' = Set(key, sarg, Scheduler)
  /\ SGoto("pop")
  /\ UNCHANGED <<threadVars, stateVars, flag, hup, runningThread, queue, failed>>

\* getNextIfEqualsElseReturnTop: pop the locked thread if it is still on top,
\* unless it is RUNNING; otherwise start again with the new top.
popTop ==
  /\ spc = "pop"
  /\ \/ /\ sarg \in queue
        /\ IF state[sarg] = "RUNNING"
           THEN SWait /\ key' = Set(key, sarg, NoThread) /\ UNCHANGED queue
           ELSE SGoto("isSuspended") /\ pop(sarg) /\ UNCHANGED key
     \/ /\ \E t \in queue \ {sarg} : sarg' = t /\ spc' = "lockTop"
        /\ key' = Set(key, sarg, NoThread)
        /\ UNCHANGED queue
     \/ /\ queue = {}
        /\ SWait
        /\ key' = Set(key, sarg, NoThread)
        /\ UNCHANGED queue
  /\ UNCHANGED <<threadVars, stateVars, flag, hup, runningThread, failed>>

\* Put the popped thread back and wait for the next timeslice.
pushBack ==
  /\ push(sarg)
  /\ key' = Set(key, sarg, NoThread)
  /\ SWait

\* The popped thread is tested for SUSPENDED first ...
handleSuspended ==
  /\ spc = "isSuspended"
  /\ IF state[sarg] # "SUSPENDED"
     THEN SGoto("isTimedWaiting") /\ UNCHANGED <<key, queue, failed>>
     ELSE IF timedOut[sarg] \/ timeout[sarg] # 0
     THEN SGoto("resume") /\ UNCHANGED <<key, queue, failed>>
     ELSE pushBack
  /\ UNCHANGED <<threadVars, stateVars, flag, hup, runningThread>>

\* ... then for a timed wait, which ends if the leap is valid.  A thread in
\* any other state is dropped.
handleTimedWaiting ==
  /\ spc = "isTimedWaiting"
  /\ IF state[sarg] = "WAITING" /\ timeout[sarg] > 0
     THEN \/ /\ setSuspended(sarg)
             /\ timedOut' = Set(timedOut, sarg, TRUE)
             /\ SGoto("resume")
             /\ UNCHANGED <<key, queue, failed>>
          \/ /\ pushBack
             /\ UNCHANGED <<state, awaken, timedOut>>
     ELSE /\ key' = Set(key, sarg, NoThread)
          /\ SWait
          /\ UNCHANGED <<state, awaken, timedOut, queue, failed>>
  /\ UNCHANGED <<threadVars, managed, timeout, flag, hup, runningThread>>

\* Mutant of waitForThreadToBlock: does not wait.
waitForThreadToBlock_Skipped(t) == TRUE

waitForThreadToBlock(t) == awaken[t] \/ pc[t] = "asleep"

\* resumeThread: wait for the thread to block, unless it was awakened
\* already; set awaken, signal it, and release its two locks.
resumeThread ==
  /\ spc = "resume"
  /\ waitForThreadToBlock(sarg)
  /\ setAwaken(sarg, TRUE)
  /\ managed' = Set(managed, sarg, TRUE)
  /\ key' = Set(key, sarg, NoThread)
  /\ SWait
  /\ UNCHANGED <<threadVars, state, flag, hup, timedOut, timeout,
                 runningThread, queue, failed>>
-----------------------------------------------------------------------------
\* What a thread does inside VEX or in the signal handler once it started.
VexStep(t) ==
  \/ lockShareResourceAccessKey(t, "entered", "locked")
  \/ lockShareResourceAccessKey(t, "loose", "looseLocked")
  \/ lockShareResourceAccessKey(t, "woken", "setRunning")
  \/ suspendLooseCurrentThread(t)
  \/ suspendCurrentThread(t)
  \/ unlockBeforeBlocking(t)
  \/ blockHereUntilSignaled(t)
  \/ wakeUp(t)
  \/ setRunningThread(t)
  \/ resuspend(t)
  \/ afterResume(t)
  \/ onVexExit(t)
  \/ afterLooseEntry(t)
  \/ onReplacedTimedWaiting(t)
  \/ setTimedWaitingThread(t)
  \/ onReplacedWaiting(t)
  \/ onWrappedWaitingStart(t)
  \/ \E u \in Threads : findWaiting(t, u)
  \/ nobodyWaiting(t)
  \/ interruptThread(t)
  \/ setTimedOut(t)
  \/ onThreadEnd(t)
  \/ replyDisregarded(t)
  \/ setNativeWaiting(t)
  \/ replySuspended(t)
  \/ replyKeepOnRunning(t)

SchedulerStep ==
  \/ doControllerWait
  \/ lockRunningThread
  \/ suspendRunning
  \/ onIntentionToBeDisregarded
  \/ onIntentionToKeepOnRunning
  \/ top
  \/ lockTop
  \/ popTop
  \/ handleSuspended
  \/ handleTimedWaiting
  \/ resumeThread

Next ==
  \/ SchedulerStep
  \/ \E t \in Threads :
       \/ onThreadSpawn(t)
       \/ \E o \in Ops : onVexEntry(t, o)
       \/ onWrappedWaitingEnd(t)
       \/ VexStep(t)

Spec == Init /\ [][Next]_vars

\* The operating system runs every thread that is inside VEX or signalled,
\* and the scheduler; an application thread need not call VEX again.
Fairness ==
  /\ WF_vars(SchedulerStep)
  /\ \A t \in Threads : WF_vars(VexStep(t))

FairSpec == Spec /\ Fairness
-----------------------------------------------------------------------------
States == {"REGISTERING", "RUNNING", "SUSPENDED", "WAITING", "NATIVE_WAITING",
           "DEAD"}
KeyHeldAt == {"locked", "looseLocked", "suspend", "unlock", "setRunning", "resuspend",
              "isRunning", "exit", "pushWaiting", "notify", "notified"}
Labels == KeyHeldAt \cup {"unborn", "user", "entered", "loose", "block", "asleep",
                         "woken", "wrapped", "becomeNative", "dead"}
Intentions == {"TO_BE_SUSPENDED", "TO_BE_DISREGARDED", "TO_KEEP_ON_RUNNING"}

\* Type invariant: every variable keeps the shape the classes declare.
TypeOK ==
  /\ pc \in [Threads -> Labels]
  /\ saved \in [Threads -> {"none", "user", "entered", "loose"}]
  /\ op \in [Threads -> Ops \cup {"spawn", "none", "exit"}]
  /\ target \in [Threads -> Threads \cup {NoThread}]
  /\ state \in [Threads -> States]
  /\ key \in [Threads -> Threads \cup {NoThread, Scheduler}]
  /\ awaken \in [Threads -> BOOLEAN]
  /\ managed \in [Threads -> BOOLEAN]
  /\ flag \in [Threads -> Intentions \cup {"CLEAR"}]
  /\ hup \subseteq Threads
  /\ timedOut \in [Threads -> BOOLEAN]
  /\ timeout \in [Threads -> -2 .. 1]
  /\ runningThread \in Threads \cup {NoThread}
  /\ queue \subseteq Threads
  /\ spc \in {"wait", "lockRunning", "reply", "top", "lockTop", "pop",
             "isSuspended", "isTimedWaiting", "resume"}
  /\ sarg \in Threads \cup {NoThread}
  /\ failed \in BOOLEAN

\* The assertions of the code hold: no thread is pushed into the runnable
\* queue twice (ThreadQueue.cpp:32), and a thread that comes back from a
\* replaced wait is RUNNING (ThreadState.cpp:303, 328).
AssertionsHold == ~failed

\* Only the running thread is in state RUNNING, except one that has told the
\* scheduler to disregard it and is about to set its own state: one virtual
\* core executes one controlled thread (ThreadManager.cpp:687-700).
OneRunningThread ==
  \A t \in Threads :
    state[t] = "RUNNING" /\ pc[t] # "becomeNative" => runningThread = t

\* A thread in the runnable queue is blocked in VEX or about to be, and no
\* earlier signal is on its way to it: it runs only after resumeThread.
QueuedThreadsAreBlocked ==
  \A t \in queue : pc[t] \in {"unlock", "block", "asleep"} /\ ~awaken[t]

\* The scheduler is about to resume thread t, or to push it.
InHand(t) ==
  /\ sarg = t
  /\ \/ spc \in {"isSuspended", "isTimedWaiting", "resume"}
     \/ spc = "reply" /\ flag[t] = "TO_BE_SUSPENDED"

\* A thread that sleeps in VEX is awake already, or in the queue, or in the
\* scheduler's hands, or in an untimed wait that a notification ends: no
\* sequence of steps leaves it asleep with nobody to resume it.
NoThreadIsLost ==
  \A t \in Threads : pc[t] \in {"block", "asleep"} /\ ~awaken[t] =>
    \/ t \in queue
    \/ InHand(t)
    \/ state[t] = "WAITING" /\ timeout[t] = -2

\* awaken is set only between the scheduler's signal and setRunningThread, so
\* waitForThreadToBlock skips the suspend lock only for a thread that is
\* already on its way (Scheduling.h:97), and "assert(!state->wasAwaken())"
\* holds when a thread suspends itself (ThreadManager.cpp:942).
AwakenedThreadIsResuming ==
  \A t \in Threads : awaken[t] =>
    pc[t] \in {"asleep", "woken", "setRunning"} /\ managed[t]

\* The scheduler never waits in vain for the reply to its signal: the thread
\* has replied, or it is about to run a handler that does.
SignalIsAnswered ==
  spc = "reply" =>
    \/ flag[sarg] # "CLEAR"
    \/ sarg \in hup /\ pc[sarg] \in {"user", "entered", "loose"}
       /\ managed[sarg] /\ state[sarg] # "NATIVE_WAITING"

\* A suspended thread in the queue will be resumed when its turn comes:
\* "the scheduler will schedule the interrupted thread when its time comes"
\* (ThreadManager.cpp:531).  Otherwise continueThread pushes it back forever.
QueuedThreadIsResumable ==
  \A t \in queue :
    state[t] = "SUSPENDED" /\ (\A u \in Threads : target[u] # t)
      => timedOut[t] \/ timeout[t] # 0

\* No assertion of the scheduler fails and no thread is stuck by it: a thread
\* that sleeps in VEX is queued, handled or still to be woken by another, and
\* what continueThread finds in the queue is blocked and can be resumed.
ThreadsCanGoOn ==
  /\ TypeOK
  /\ AssertionsHold
  /\ QueuedThreadsAreBlocked
  /\ NoThreadIsLost
  /\ QueuedThreadIsResumable

\* Nobody waits forever in a handshake: the scheduler gets the reply to its
\* signal (getSuspendingThreadIntention), the thread it resumes does block
\* (waitForThreadToBlock), and an awakened thread runs or suspends again.
HandshakesEnd ==
  /\ spc = "reply" ~> spc # "reply"
  /\ spc = "resume" ~> spc = "wait"
  /\ \A t \in Threads : awaken[t] ~> ~awaken[t]
=============================================================================
