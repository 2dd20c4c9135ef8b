---------------------------- MODULE IoSimulation ----------------------------
(***************************************************************************)
(* Input and output in virtual time.  The real duration of a call is known *)
(* only when it has returned.  Meanwhile the calling thread either is left *)
(* out of the simulation ("learning"), stands in the runnable queue at the *)
(* predicted end of its call and so holds the others back ("prediction"),  *)
(* or keeps the processor ("system call").  A prediction that real time    *)
(* has disproved is extended by the scheduler, and the thread's clock is   *)
(* corrected when the call returns.                                        *)
(*                                                                         *)
(* Sources: vex/io (IoProtocol, IoSimulator, IoPredictor, IoRecognizer),   *)
(* threads/IoHandler.h, threads/ThreadState.cpp,                           *)
(* events/MethodEventsBehaviour.cpp, scheduler/ThreadManager.cpp,          *)
(* scheduler/ThreadQueue.cpp.                                              *)
(*                                                                         *)
(* One manager, a single timeline, time scaling factor 1.  Virtual and     *)
(* real time have the same unit.  A step is a section under a thread's key *)
(* or under the mutex of the queue.                                        *)
(***************************************************************************)
EXTENDS Integers, FiniteSets

CONSTANTS
  Threads,
  NoThread,
  Scheduler,    \* the scheduler thread, as a holder of keys
  Protocols,    \* "none", "strict", "serial", "lax" and "normal"
  Predictions,  \* protocol -> what the predictor used with it may answer;
                \* 0: not enough measurements yet
  Threshold,    \* protocol -> threshold of the EmpiricalRecognizer used with it
  Excluding,    \* the protocols used with an IoExcluder
  Work,         \* CPU times a thread consumes between two updates of its clock
  Slot,         \* defaultSchedulerTimeslot
  MinSlot,      \* the timeslot while predicted calls are pending
  MaxCalls,     \* bound: I/O calls a thread makes
  MaxTime,      \* bound on the virtual time stamps
  MaxReal       \* bound on real time

ASSUME FiniteAssumption == IsFiniteSet(Threads)
ASSUME DistinctAssumption ==
  Scheduler \notin Threads /\ NoThread \notin Threads /\ NoThread # Scheduler
ASSUME ParametersAssumption ==
  /\ Protocols \subseteq {"none", "strict", "serial", "lax", "normal"}
  /\ Predictions \in [Protocols -> SUBSET Nat] /\ \A p \in Protocols : 0 \in Predictions[p]
  /\ Threshold \in [Protocols -> Nat] /\ Excluding \subseteq Protocols
  /\ 0 \in Work /\ Work \subseteq Nat
  /\ MinSlot \in Nat \ {0} /\ Slot \in Nat /\ MinSlot <= Slot
  /\ MaxCalls \in Nat /\ MaxTime \in Nat /\ MaxReal \in Nat

VARIABLES
  protocol,      \* IoSimulator::protocol
  now,           \* real time
  pc,            \* thread -> where its own code is
  calls,         \* thread -> I/O calls made
  state,         \* thread -> VexThreadState::currentState
  awake,         \* thread -> was it told to resume and is not running yet?
  key,           \* thread -> holder of its sharedAccessKey
  ert,           \* thread -> Timers::estimatedRealTime
  resumedAt,     \* thread -> Timers::resumedLastAt
  ran,           \* thread -> Timers::localTimeSinceLastResume
  lastReal,      \* thread -> Timers::lastRealTime
  exitReal,      \* thread -> realTimeValueOnExit of its call
  call,          \* thread -> "io", or flagged "ignored" or "cached"
  prediction,    \* thread -> IoHandler::lastIoPrediction
  times,         \* thread -> IoHandler::timesIoPredictionWasAddedToEstimatedTime
  finishedIo,    \* thread -> IoHandler::ioFinishedBeforeLogging
  started,       \* thread -> its clock when its call started (history)
  pendingIoCalls,
  minimized,     \* is the scheduler's timeslot minimized?
  queue,         \* runnableThreads
  gvt,
  runningThread,
  expired        \* <<t, time>>: the scheduler, with t's key, is about to extend
                 \* the predictions that time has disproved; <<>> otherwise

timers == <<ert, resumedAt, ran>>
io == <<lastReal, exitReal, call, prediction, times, finishedIo, started>>
slots == <<pendingIoCalls, minimized>>
vars == <<protocol, now, pc, calls, state, awake, key, ert, resumedAt, ran, lastReal, exitReal,
          call, prediction, times, finishedIo, started, pendingIoCalls, minimized, queue, gvt,
          runningThread, expired>>

Later(x, y) == IF x < y THEN y ELSE x
Set(f, t, v) == [f EXCEPT ![t] = v]
Top(t) == t \in queue /\ \A u \in queue : ert[t] <= ert[u]

TypeOK ==
  /\ protocol \in Protocols /\ now \in 0..MaxReal
  /\ pc \in [Threads -> {"user", "start", "lax", "clock", "io", "done", "end", "commit", "ended"}]
  /\ calls \in [Threads -> 0..MaxCalls]
  /\ state \in [Threads -> {"RUNNING", "SUSPENDED", "LEARNING_IO", "IN_IO", "IN_SYSTEM_CALL",
                            "ENDED"}]
  /\ awake \in [Threads -> BOOLEAN] /\ finishedIo \in [Threads -> BOOLEAN]
  /\ key \in [Threads -> Threads \cup {Scheduler, NoThread}]
  /\ ert \in [Threads -> Int] /\ resumedAt \in [Threads -> Nat] /\ ran \in [Threads -> Int]
  /\ lastReal \in [Threads -> 0..MaxReal] /\ exitReal \in [Threads -> 0..MaxReal]
  /\ call \in [Threads -> {"io", "ignored", "cached"}]
  /\ prediction \in [Threads -> Predictions[protocol]] /\ times \in [Threads -> Nat]
  /\ started \in [Threads -> Int]
  /\ pendingIoCalls \in 0..Cardinality(Threads) /\ minimized \in BOOLEAN
  /\ queue \subseteq Threads /\ gvt \in Nat /\ runningThread \in Threads \cup {NoThread}
  /\ expired \in {<<>>} \cup (Threads \X (0..MaxReal))

Init ==
  /\ protocol \in Protocols /\ now = 0
  /\ pc = [t \in Threads |-> "user"]
  /\ calls = [t \in Threads |-> 0]
  /\ state = [t \in Threads |-> "SUSPENDED"]
  /\ awake = [t \in Threads |-> FALSE]
  /\ key = [t \in Threads |-> NoThread]
  /\ ert = [t \in Threads |-> 0] /\ resumedAt = ert /\ ran = ert
  /\ lastReal = ert /\ exitReal = ert /\ prediction = ert /\ started = ert
  /\ times = [t \in Threads |-> 1]
  /\ call = [t \in Threads |-> "io"]
  /\ finishedIo = [t \in Threads |-> FALSE]
  /\ pendingIoCalls = 0 /\ minimized = FALSE
  /\ queue = Threads /\ gvt = 0 /\ runningThread = NoThread /\ expired = <<>>
-----------------------------------------------------------------------------
\* Real time passes, as far as a call is there to measure it.
tick ==
  /\ now < MaxReal /\ \E t \in Threads : pc[t] \in {"start", "clock", "io", "done"}
  /\ now' = now + 1
  /\ UNCHANGED <<protocol, pc, calls, state, awake, key, timers, io, slots, queue, gvt,
                 runningThread, expired>>

schedulerTimeslot == IF minimized THEN MinSlot ELSE Slot

\* shouldCurrentThreadSuspend, of a thread whose clock shows time.
shouldCurrentThreadSuspend(t, time) ==
  \/ runningThread \notin {NoThread, t}
  \/ /\ 4 * (time - resumedAt[t]) >= 3 * schedulerTimeslot
     /\ \E u \in queue : ert[u] < time

\* commitCpuTimeProgress after the thread consumed d.
committed(t, d) == Later(gvt, resumedAt[t] + ran[t] + d)

\* CPU time a thread may have consumed since its clock was set.
work(t) == {d \in Work : d = 0 \/ (pc[t] = "user" /\ ert[t] + d <= MaxTime)}

\* The scheduler signals the running thread, and the handler of the thread
\* decides.  In a system call the real time since its start is charged.
onSignalledFromScheduler(t) ==
  /\ runningThread = t /\ key[t] = NoThread /\ pc[t] \in {"user", "start", "clock", "io", "done"}
  /\ \E d \in IF state[t] = "IN_SYSTEM_CALL" THEN {now - lastReal[t]} ELSE work(t) :
         /\ ert' = Set(ert, t, ert[t] + d)
         /\ ran' = Set(ran, t, ran[t] + d)
         /\ gvt' = committed(t, d)
         /\ IF shouldCurrentThreadSuspend(t, ert[t] + d)
            THEN /\ state' = Set(state, t, "SUSPENDED")
                 /\ runningThread' = NoThread
                 /\ queue' = queue \cup {t}
                 /\ UNCHANGED lastReal
            ELSE /\ state[t] = "IN_SYSTEM_CALL"
                 /\ lastReal' = Set(lastReal, t, now)
                 /\ UNCHANGED <<state, runningThread, queue>>
  /\ UNCHANGED <<protocol, now, pc, calls, awake, key, resumedAt, exitReal, call, prediction, times,
                 finishedIo, started, slots, expired>>

\* resumeThread: the scheduler takes the thread from the queue and wakes it.
resumeThread(t) ==
  /\ state[t] = "SUSPENDED"
  /\ queue' = queue \ {t}
  /\ awake' = Set(awake, t, TRUE)
  /\ resumedAt' = Set(resumedAt, t, gvt)
  /\ ran' = Set(ran, t, 0)
  /\ UNCHANGED <<protocol, now, pc, calls, state, key, ert, io, slots, gvt, runningThread, expired>>

\* The protocol that IoProtocolEnforcer picks for the call.
protocolOf(t) ==
  IF call[t] = "ignored" THEN "none" ELSE IF call[t] = "cached" THEN "serial" ELSE protocol

\* A thread suspended during a system call is in the handler of the signal.
inSystemCall(t) == pc[t] \in {"clock", "io", "done"} /\ protocolOf(t) = "serial"

\* Mutant of setRunningThread: a thread behind the global time goes back to the
\* queue instead of leaping to it.
setRunningThread_NoLeap(t) ==
  /\ state[t] = "SUSPENDED" /\ awake[t] /\ key[t] = NoThread
  /\ awake' = Set(awake, t, FALSE)
  /\ \/ /\ runningThread \in {NoThread, t} /\ ert[t] >= gvt
        /\ runningThread' = t
        /\ state' = Set(state, t, IF inSystemCall(t) THEN "IN_SYSTEM_CALL" ELSE "RUNNING")
        /\ lastReal' = IF inSystemCall(t) THEN Set(lastReal, t, now) ELSE lastReal
        /\ UNCHANGED <<queue, ert>>
     \/ /\ runningThread \notin {NoThread, t} \/ ert[t] < gvt
        /\ queue' = queue \cup {t}
        /\ UNCHANGED <<runningThread, ert, state, lastReal>>
  /\ UNCHANGED <<protocol, now, pc, calls, key, resumedAt, ran, exitReal, call, prediction, times,
                 finishedIo, started, slots, gvt, expired>>

\* setRunningThread of a thread that was resumed, unless another one is set:
\* then it goes back to the queue.
setRunningThread(t) ==
  /\ state[t] = "SUSPENDED" /\ awake[t] /\ key[t] = NoThread
  /\ awake' = Set(awake, t, FALSE)
  /\ \/ /\ runningThread \in {NoThread, t}
        /\ runningThread' = t
        /\ ert' = Set(ert, t, Later(ert[t], gvt))
        /\ state' = Set(state, t, IF inSystemCall(t) THEN "IN_SYSTEM_CALL" ELSE "RUNNING")
        /\ lastReal' = IF inSystemCall(t) THEN Set(lastReal, t, now) ELSE lastReal
        /\ UNCHANGED queue
     \/ /\ runningThread \notin {NoThread, t}
        /\ queue' = queue \cup {t}
        /\ UNCHANGED <<runningThread, ert, state, lastReal>>
  /\ UNCHANGED <<protocol, now, pc, calls, key, resumedAt, ran, exitReal, call, prediction, times,
                 finishedIo, started, slots, gvt, expired>>

\* The thread ends, once it has made its calls; its VexThreadState is deleted.
onEnd(t) ==
  /\ state[t] = "RUNNING" /\ pc[t] = "user" /\ calls[t] = MaxCalls
  /\ pc' = Set(pc, t, "ended")
  /\ state' = Set(state, t, "ENDED")
  /\ runningThread' = NoThread
  /\ \E d \in work(t) : gvt' = committed(t, d)
  /\ ert' = Set(ert, t, 0) /\ resumedAt' = Set(resumedAt, t, 0) /\ ran' = Set(ran, t, 0)
  /\ lastReal' = Set(lastReal, t, 0)
  /\ prediction' = Set(prediction, t, 0) /\ times' = Set(times, t, 1)
  /\ UNCHANGED <<protocol, now, calls, awake, key, exitReal, call, finishedIo, started, slots,
                 queue, expired>>
-----------------------------------------------------------------------------
\* EmpiricalRecognizer::isRecognizedAsIoOperation.
isRecognizedAsIoOperation(p) == p = 0 \/ p > Threshold[protocol]

\* IoPredictor::onIoEntryGetIoPrediction for the answer p of the prediction
\* method: a call is flagged as cached, or excluded at random.
onIoEntryGetIoPrediction(t, p) ==
  /\ prediction' = Set(prediction, t, p)
  /\ \E flag \in IF ~isRecognizedAsIoOperation(p) THEN {"cached"}
                 ELSE IF protocol \in Excluding THEN {"io", "ignored"} ELSE {"io"} :
       call' = Set(call, t, flag)

\* afterIoMethodEntry up to the protocol.
afterIoMethodEntry(t) ==
  /\ state[t] = "RUNNING" /\ pc[t] = "user" /\ calls[t] < MaxCalls /\ key[t] = NoThread
  /\ \E p \in Predictions[protocol] : onIoEntryGetIoPrediction(t, p)
  /\ \E d \in work(t) : ert' = Set(ert, t, ert[t] + d) /\ ran' = Set(ran, t, ran[t] + d)
  /\ calls' = Set(calls, t, calls[t] + 1)
  /\ pc' = Set(pc, t, "start")
  /\ UNCHANGED <<protocol, now, state, awake, key, resumedAt, lastReal, exitReal, times, finishedIo,
                 started, slots, queue, gvt, runningThread, expired>>

\* No protocol, the empty strict one, and ignored calls: the thread goes on.
onStart_None(t) ==
  /\ protocolOf(t) \in {"none", "strict"}
  /\ UNCHANGED <<state, timers, times, slots, queue, gvt, runningThread>>

\* IoProtocolSerial::onStart.
onStart_Serial(t) ==
  /\ protocolOf(t) = "serial"
  /\ state' = Set(state, t, "IN_SYSTEM_CALL")
  /\ gvt' = committed(t, 0)
  /\ UNCHANGED <<timers, times, slots, queue, runningThread>>

\* addPredictionToEstimatedRealTime.
addPredictionToEstimatedRealTime(t) ==
  /\ ert' = Set(ert, t, ert[t] + prediction[t])
  /\ times' = Set(times, t, 1)

\* _setIoThread: only a call with a prediction blocks the simulation.
setIoThread(t, learning) ==
  /\ runningThread' = NoThread
  /\ state' = Set(state, t, IF learning THEN "LEARNING_IO" ELSE "IN_IO")
  /\ queue' = IF learning THEN queue ELSE queue \cup {t}

\* IoProtocolNormal::minimizeSchedulerTimeslot.
minimizeSchedulerTimeslot ==
  /\ pendingIoCalls' = pendingIoCalls + 1
  /\ minimized' = (minimized \/ pendingIoCalls = 0)

\* IoProtocolNormal::onStart.
onStart_Normal(t) ==
  /\ protocolOf(t) = "normal"
  /\ gvt' = committed(t, 0)
  /\ \/ /\ prediction[t] # 0
        /\ addPredictionToEstimatedRealTime(t)
        /\ setIoThread(t, FALSE)
     \/ /\ prediction[t] = 0
        /\ setIoThread(t, TRUE)
        /\ UNCHANGED <<ert, times>>
  /\ minimizeSchedulerTimeslot
  /\ UNCHANGED <<resumedAt, ran>>

\* IoProtocolEnforcer::onStart.  The clocks are set after the key is released.
onStart(t) ==
  /\ state[t] = "RUNNING" /\ pc[t] = "start" /\ key[t] = NoThread
  /\ onStart_None(t) \/ onStart_Serial(t) \/ onStart_Normal(t)
  /\ pc' = Set(pc, t, IF protocolOf(t) \in {"none", "strict"} THEN "io" ELSE "clock")
  /\ started' = Set(started, t, ert[t])
  /\ UNCHANGED <<protocol, now, calls, awake, key, lastReal, exitReal, call, prediction, finishedIo,
                 expired>>

\* IoProtocolLax::onStart, first part: suspendCurrentThread may put the thread
\* to sleep before its call.
onStart_Lax(t) ==
  /\ state[t] = "RUNNING" /\ pc[t] = "start" /\ key[t] = NoThread /\ protocolOf(t) = "lax"
  /\ gvt' = committed(t, 0)
  /\ \/ /\ shouldCurrentThreadSuspend(t, ert[t])
        /\ state' = Set(state, t, "SUSPENDED")
        /\ runningThread' = NoThread
        /\ queue' = queue \cup {t}
        /\ UNCHANGED key
     \/ /\ ~shouldCurrentThreadSuspend(t, ert[t])
        /\ key' = Set(key, t, t)
        /\ UNCHANGED <<state, runningThread, queue>>
  /\ pc' = Set(pc, t, "lax")
  /\ UNCHANGED <<protocol, now, calls, awake, timers, io, slots, expired>>

\* Second part: the call is executed outside the simulation.
onStart_LaxIo(t) ==
  /\ state[t] = "RUNNING" /\ pc[t] = "lax"
  /\ setIoThread(t, TRUE)
  /\ key' = Set(key, t, NoThread)
  /\ pc' = Set(pc, t, "clock")
  /\ started' = Set(started, t, ert[t])
  /\ UNCHANGED <<protocol, now, calls, awake, timers, lastReal, exitReal, call, prediction, times,
                 finishedIo, slots, gvt, expired>>

\* Timers::updateClocks of onVexExitWithBothClocksUpdate.
updateClocks(t) ==
  /\ pc[t] = "clock" /\ state[t] # "SUSPENDED"
  /\ lastReal' = Set(lastReal, t, now)
  /\ pc' = Set(pc, t, "io")
  /\ UNCHANGED <<protocol, now, calls, state, awake, key, timers, exitReal, call, prediction, times,
                 finishedIo, started, slots, queue, gvt, runningThread, expired>>
-----------------------------------------------------------------------------
\* The call returns: beforeIoMethodExit reads the real time, and
\* onVexIoMethodExit flags that the call is over.
beforeIoMethodExit(t) ==
  /\ pc[t] = "io" /\ state[t] # "SUSPENDED"
  /\ exitReal' = Set(exitReal, t, now)
  /\ finishedIo' = Set(finishedIo, t, TRUE)
  /\ pc' = Set(pc, t, "done")
  /\ UNCHANGED <<protocol, now, calls, state, awake, key, timers, lastReal, call, prediction, times,
                 started, slots, queue, gvt, runningThread, expired>>

\* actualIoDuration of IoSimulator::endIo.
actualIoDuration(t) == exitReal[t] - lastReal[t]

\* IoHandler::getTotalTimePredicted.
getTotalTimePredicted(t) == (2 * times[t] - 1) * prediction[t]

\* onEnd without a protocol.
onEnd_None(t) ==
  /\ protocolOf(t) \in {"none", "strict"}
  /\ pc' = Set(pc, t, "user")
  /\ UNCHANGED <<state, key, ert, ran, finishedIo, gvt>>

\* IoProtocolSerial::onEnd.
onEnd_Serial(t) ==
  /\ protocolOf(t) = "serial"
  /\ ert' = Set(ert, t, ert[t] + actualIoDuration(t))
  /\ ran' = Set(ran, t, ran[t] + actualIoDuration(t))
  /\ gvt' = committed(t, actualIoDuration(t))
  /\ state' = Set(state, t, "RUNNING")
  /\ finishedIo' = Set(finishedIo, t, FALSE)
  /\ pc' = Set(pc, t, "user")
  /\ UNCHANGED key

\* IoProtocolLax::onEnd and IoProtocolNormal::onEnd up to suspendCurrentThread:
\* the clock is set to the end of the call, the heap is made anew.
onEnd_Parallel(t) ==
  /\ protocolOf(t) \in {"lax", "normal"}
  /\ \/ /\ state[t] = "LEARNING_IO"
        /\ ert' = Set(ert, t, ert[t] + actualIoDuration(t))
        /\ ran' = IF protocol = "normal" THEN Set(ran, t, ran[t] + actualIoDuration(t)) ELSE ran
     \/ /\ state[t] = "IN_IO"
        /\ ert' = Set(ert, t, ert[t] + actualIoDuration(t) - getTotalTimePredicted(t))
        /\ UNCHANGED ran
  /\ finishedIo' = Set(finishedIo, t, FALSE)
  /\ key' = Set(key, t, t)
  /\ pc' = Set(pc, t, "end")
  /\ UNCHANGED <<state, gvt>>

\* IoProtocolEnforcer::onEnd, which resets the flags of the call.
endIo(t) ==
  /\ pc[t] = "done" /\ state[t] # "SUSPENDED" /\ key[t] = NoThread
  /\ onEnd_None(t) \/ onEnd_Serial(t) \/ onEnd_Parallel(t)
  /\ call' = Set(call, t, "io")
  /\ exitReal' = Set(exitReal, t, 0)
  /\ started' = Set(started, t, 0)
  /\ UNCHANGED <<protocol, now, calls, awake, resumedAt, lastReal, prediction, times, slots, queue,
                 runningThread, expired>>

\* Mutant of suspendCurrentThread: a thread that goes on stays in the queue.
suspendCurrentThread_NotErased(t) ==
  /\ pc[t] = "end"
  /\ ~shouldCurrentThreadSuspend(t, ert[t])
  /\ runningThread' = t
  /\ state' = Set(state, t, "RUNNING")
  /\ ert' = Set(ert, t, Later(ert[t], gvt))
  /\ pc' = Set(pc, t, "commit")
  /\ UNCHANGED <<protocol, now, calls, awake, key, resumedAt, ran, io, slots, queue, gvt, expired>>

\* suspendCurrentThread at the end of a call: a thread with a prediction stays
\* in the queue to sleep, or leaves it to run.
suspendCurrentThread(t) ==
  /\ pc[t] = "end"
  /\ \/ /\ shouldCurrentThreadSuspend(t, ert[t])
        /\ state' = Set(state, t, "SUSPENDED")
        /\ queue' = queue \cup {t}
        /\ key' = Set(key, t, NoThread)
        /\ UNCHANGED <<ert, runningThread>>
     \/ /\ ~shouldCurrentThreadSuspend(t, ert[t])
        /\ queue' = queue \ {t}
        /\ runningThread' = t
        /\ state' = Set(state, t, "RUNNING")
        /\ ert' = Set(ert, t, Later(ert[t], gvt))
        /\ UNCHANGED key
  /\ pc' = Set(pc, t, "commit")
  /\ UNCHANGED <<protocol, now, calls, awake, resumedAt, ran, io, slots, gvt, expired>>

\* IoProtocolNormal::resetSchedulerTimeslot.
resetSchedulerTimeslot ==
  /\ pendingIoCalls' = pendingIoCalls - 1
  /\ minimized' = (minimized /\ pendingIoCalls # 1)

\* The rest of onEnd, once the thread runs: commitIoDuration.
commitIoDuration(t) ==
  /\ state[t] = "RUNNING" /\ pc[t] = "commit"
  /\ IF protocol = "normal" THEN resetSchedulerTimeslot ELSE UNCHANGED slots
  /\ gvt' = Later(gvt, ert[t])
  /\ key' = Set(key, t, NoThread)
  /\ pc' = Set(pc, t, "user")
  /\ UNCHANGED <<protocol, now, calls, state, awake, timers, io, queue, runningThread, expired>>
-----------------------------------------------------------------------------
\* getPredictionError and isIoPredictionStillValid at a point in real time.
isIoPredictionStillValid(t, time) == time - lastReal[t] <= getTotalTimePredicted(t)

\* handleIOPerformingThread: the thread on top performs a predicted call that
\* is not over, and its prediction has expired.
handleIOPerformingThread(t) ==
  /\ state[t] = "IN_IO" /\ ~finishedIo[t] /\ ~isIoPredictionStillValid(t, now)
  /\ key' = Set(key, t, Scheduler)
  /\ expired' = <<t, now>>
  /\ UNCHANGED <<protocol, now, pc, calls, state, awake, timers, io, slots, queue, gvt,
                 runningThread>>

\* continueThread of the thread on top, when no thread is set as running.
continueThread(t) ==
  /\ expired = <<>> /\ runningThread = NoThread
  /\ Top(t) /\ key[t] = NoThread
  /\ resumeThread(t) \/ handleIOPerformingThread(t)

\* The other threads whose predictions recursivelyUpdatePendingIoRequests
\* extends with that of s: the expired ones before the first that is not.
pendingIoRequests(s, time) ==
  LET rest == queue \ {s}
      old == {u \in rest : state[u] = "IN_IO" /\ ~isIoPredictionStillValid(u, time)}
  IN  {u \in old : \A w \in rest \ old : ert[u] <= ert[w]}

\* Mutant of extendPredictionPeriod: the clock moves by the old period.
extendPredictionPeriod_Once(t) == times[t] * prediction[t]

\* IoHandler::extendPredictionPeriod: by what the clock moves.
extendPredictionPeriod(t) == 2 * times[t] * prediction[t]

\* ThreadQueue::invalidateExpiredIoPredictions: whichever thread is on top by
\* now, and the expired ones behind it, move back in the queue.
invalidateExpiredIoPredictions ==
  /\ expired # <<>>
  /\ \E s \in queue :
       /\ Top(s)
       /\ LET extended == {s} \cup pendingIoRequests(s, expired[2])
          IN  /\ ert' = [u \in Threads |->
                           IF u \in extended THEN ert[u] + extendPredictionPeriod(u) ELSE ert[u]]
              /\ times' = [u \in Threads |-> IF u \in extended THEN 2 * times[u] ELSE times[u]]
  /\ key' = Set(key, expired[1], NoThread)
  /\ expired' = <<>>
  /\ UNCHANGED <<protocol, now, pc, calls, state, awake, resumedAt, ran, lastReal, exitReal, call,
                 prediction, finishedIo, started, slots, queue, gvt, runningThread>>
-----------------------------------------------------------------------------
Over == \A t \in Threads : pc[t] = "ended"

\* The thread's own code between two visits of the scheduler.
ownStep(t) ==
  \/ onEnd(t)
  \/ afterIoMethodEntry(t)
  \/ onStart(t)
  \/ onStart_Lax(t)
  \/ onStart_LaxIo(t)
  \/ updateClocks(t)
  \/ beforeIoMethodExit(t)
  \/ endIo(t)
  \/ suspendCurrentThread(t)
  \/ commitIoDuration(t)

Next ==
  \/ tick
  \/ \E t \in Threads :
       \/ ownStep(t)
       \/ onSignalledFromScheduler(t)
       \/ setRunningThread(t)
       \/ continueThread(t)
  \/ invalidateExpiredIoPredictions
  \/ Over /\ UNCHANGED vars

\* The scheduler looks at the queue again and again.  A thread's own code goes
\* on and its calls return.  A resumed thread is not for ever so late that
\* another one has been resumed and runs already.
Fairness ==
  /\ WF_vars(invalidateExpiredIoPredictions)
  /\ SF_vars(\E t \in Threads : continueThread(t))
  /\ \A t \in Threads :
       /\ SF_vars(ownStep(t))
       /\ SF_vars(setRunningThread(t) /\ runningThread' = t)

Spec == Init /\ [][Next]_vars /\ Fairness
-----------------------------------------------------------------------------
\* A thread is in the queue, running, about to run, ended, or in a call that
\* the simulation does not wait for.  (push, erase and getNext keep the
\* runnable queue in step with the states.)
NoThreadIsLost ==
  \A t \in Threads :
    \/ t \in queue
    \/ runningThread = t
    \/ awake[t]
    \/ state[t] \in {"LEARNING_IO", "ENDED"}

\* A queued thread sleeps or performs a predicted call; the running thread and
\* those outside the simulation are not in the queue.
QueuedThreadsWait ==
  \A t \in queue : state[t] \in {"SUSPENDED", "IN_IO"} /\ runningThread # t /\ ~awake[t]

\* However often a prediction is extended, and by whomever, the clock of the
\* thread has moved by exactly what the correction at the end takes back.
PredictionIsAccounted ==
  \A t \in Threads : state[t] = "IN_IO" /\ pc[t] # "end" =>
    ert[t] = started[t] + getTotalTimePredicted(t)

\* The timeslot is minimized exactly while calls are pending.
TimeslotIsMinimizedDuringIo ==
  /\ minimized <=> pendingIoCalls > 0
  /\ protocol = "normal" => pendingIoCalls =
       Cardinality({t \in Threads : pc[t] \in {"clock", "io", "done", "end", "commit"}
                                    /\ protocolOf(t) = "normal"})

\* A thread in a system call keeps the processor: nobody else runs.
SystemCallIsSerial == \A t \in Threads : state[t] = "IN_SYSTEM_CALL" => runningThread = t

\* A thread in I/O is neither lost nor queued while it runs, the time slot is
\* the short one exactly while calls are pending, and a serial system call has
\* the core for itself.
IoThreadsAreScheduled ==
  /\ TypeOK
  /\ NoThreadIsLost
  /\ QueuedThreadsWait
  /\ TimeslotIsMinimizedDuringIo
  /\ SystemCallIsSerial

\* A thread whose call has returned runs again.
EveryCallReturns == \A t \in Threads : pc[t] = "done" ~> (state[t] = "RUNNING" /\ pc[t] = "user")

=============================================================================
