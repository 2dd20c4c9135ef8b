----------------------------- MODULE ThreadEvents -----------------------------
(***************************************************************************)
(* The events through which application threads meet in VEX: creating,     *)
(* starting, joining and ending threads, waiting on an object, notifying,  *)
(* interrupting, parking and unparking, and being recognised as native     *)
(* waiting.  The registries behind them: ThreadRegistry (the thread index, *)
(* the threads being spawned, the polled native waiting threads) and       *)
(* ObjectRegistry (who waits on which object).                             *)
(*                                                                         *)
(* Sources: events/ThreadEventsBehaviour.cpp, registries/ThreadRegistry,   *)
(* registries/ObjectRegistry.cpp, the events of threads/ThreadState.cpp,   *)
(* jine/JVMThreadEvents.cpp.                                               *)
(*                                                                         *)
(* The scheduler is reduced to what ThreadManager.tla shows of it: at most *)
(* Cores threads run, only a thread that does not hold its key is          *)
(* preempted, a suspended thread of the runnable queue may be resumed.     *)
(* A thread holds its own key from the entry to the exit of an event, so   *)
(* the key is not a variable: see HoldsKey.  Virtual clocks are left out:  *)
(* which runnable thread is next, and whether another thread is early      *)
(* enough to forbid a leap, are choices.                                   *)
(***************************************************************************)
EXTENDS Integers, Sequences, FiniteSets, SequencesExt

CONSTANTS
  Threads,      \* the application threads
  main,         \* the thread that exists first
  NoThread,     \* a NULL VexThreadState pointer
  Objects,      \* the objects waited on
  Excluded,     \* the threads whose names are excluded from the simulation
  Foreign,      \* the threads no simulated thread creates
  Ops,          \* thread -> the events it causes
  Cores         \* the number of virtual cores

ASSUME MainAssumption ==
  main \in Threads /\ main \notin Excluded \cup Foreign /\ NoThread \notin Threads
ASSUME SubsetsAssumption == Excluded \subseteq Threads /\ Foreign \subseteq Threads
ASSUME OpsAssumption ==
  Ops \in [Threads -> SUBSET {"wait", "timedWait", "sleep", "notify", "broadcast", "interrupt",
                              "park", "timedPark", "unpark", "create", "join", "native", "end"}]
ASSUME CoresAssumption == Cores \in Nat \ {0}
ASSUME FiniteAssumption == IsFiniteSet(Threads)
ASSUME ObjectsAssumption == 0 \notin Objects

VARIABLES
  pc,           \* thread -> where it is in its event
  back,         \* thread -> where it goes on once it is resumed
  obj,          \* thread -> the object it waits on or notifies
  peer,         \* thread -> the thread its event is about
  state,        \* thread -> VexThreadState::currentState
  timeout,      \* thread -> Timers::timeout: -2, -1, 0, or 1 for any positive one
  timedOut,     \* thread -> VexThreadState::timedOut
  waitObj,      \* thread -> timedWaitingObjectId, or 0
  parked,       \* thread -> VexThreadState::parked
  unparked,     \* thread -> VexThreadState::alreadyUnparked
  afterParking, \* thread -> afterInterruptedTimedParking
  cause,        \* thread -> what ended its last wait (history)
  waiting,      \* ObjectRegistry: object -> the threads waiting on it
  monitor,      \* object -> the thread in its Java monitor
  runnables,    \* runnableThreads, as a set
  holder,       \* thread -> the other thread that holds its key
  inHand,       \* the threads a scheduler has popped and is resuming
  index,        \* ThreadRegistry::threadStateIndex
  parents,      \* the keys of parentThreadIdsToTheirERTs
  spawning,     \* threadsBeingSpawned
  joiner,       \* thread -> parentThreadWaitingYouToJoin
  awakening,    \* thread -> isAwakeningAfterJoin
  nativeQueue,  \* nativeWaitingThreadsPQueue, as a set
  polled        \* the threads flagged as polled for native waiting

waitVars == <<timeout, timedOut, waitObj, parked, unparked, afterParking, cause>>
schedVars == <<runnables, inHand, holder>>
spawnVars == <<index, parents, spawning>>
joinVars == <<joiner, awakening>>
nativeVars == <<nativeQueue, polled>>
vars == <<pc, back, obj, peer, state, waitVars, waiting, monitor, schedVars, spawnVars,
          joinVars, nativeVars>>

Set(f, x, v) == [f EXCEPT ![x] = v]
Goto(t, l) == pc' = Set(pc, t, l)

Running == {t \in Threads : state[t] = "RUNNING"}
Simulated == Threads \ (Excluded \cup Foreign)

\* A thread keeps its own sharedAccessKey through the whole of these events.
HoldsKey(t) == pc[t] \in {"flagNotify", "flagInterrupt", "flagBroadcast", "broadcasting",
                           "unparking", "unparkHolds"}
-----------------------------------------------------------------------------
Init ==
  /\ pc = [t \in Threads |-> IF t = main THEN "user" ELSE "unborn"]
  /\ back = [t \in Threads |-> "user"]
  /\ holder = [t \in Threads |-> NoThread]
  /\ obj = [t \in Threads |-> 0]
  /\ peer = [t \in Threads |-> NoThread]
  /\ state = [t \in Threads |-> IF t = main THEN "RUNNING" ELSE "REGISTERING"]
  /\ timeout = [t \in Threads |-> -1]
  /\ timedOut = [t \in Threads |-> TRUE]
  /\ waitObj = [t \in Threads |-> 0]
  /\ parked = [t \in Threads |-> FALSE]
  /\ unparked = [t \in Threads |-> FALSE]
  /\ afterParking = [t \in Threads |-> FALSE]
  /\ cause = [t \in Threads |-> "none"]
  /\ waiting = [o \in Objects |-> <<>>]
  /\ monitor = [o \in Objects |-> NoThread]
  /\ runnables = {}
  /\ inHand = {}
  /\ index = {main}
  /\ parents = {}
  /\ spawning = 0
  /\ joiner = [t \in Threads |-> NoThread]
  /\ awakening = [t \in Threads |-> FALSE]
  /\ nativeQueue = {}
  /\ polled = {}

\* An event of a running thread in application code.  A thread that is not
\* RUNNING when it enters VEX first suspends: see suspendLooseCurrentThread.
Event(t, o) == o \in Ops[t] /\ pc[t] = "user" /\ state[t] = "RUNNING"

\* Suspend inside VEX and go on at l once resumed.
Sleep(t, l) == Goto(t, "asleep") /\ back' = Set(back, t, l)

setWaiting(t) ==
  /\ state' = Set(state, t, "WAITING")
  /\ timedOut' = Set(timedOut, t, TRUE)
  /\ afterParking' = Set(afterParking, t, FALSE)

\* A positive timeout, and a place in the runnable queue (setTimedWaitingThread).
setTimedWaiting(t) ==
  /\ setWaiting(t)
  /\ timeout' = Set(timeout, t, 1)
  /\ runnables' = runnables \cup {t}

setSuspendedAndPush(t) ==
  /\ state' = Set(state, t, "SUSPENDED")
  /\ timedOut' = Set(timedOut, t, TRUE)
  /\ timeout' = Set(timeout, t, -1)
  /\ runnables' = runnables \cup {t}
-----------------------------------------------------------------------------
(* Creating, starting, joining and ending threads.                         *)

\* newThreadBeingSpawned(parent, child)
newThreadBeingSpawned(u) ==
  /\ parents' = parents \cup {u}
  /\ spawning' = spawning + 1

beforeCreatingThread(t, u) ==
  /\ Event(t, "create")
  /\ pc[u] = "unborn" /\ u \notin parents \cup Foreign
  /\ newThreadBeingSpawned(u)
  /\ UNCHANGED <<pc, back, obj, peer, state, waitVars, waiting, monitor, schedVars,
                 index, joinVars, nativeVars>>

\* newThreadStarted, called for an excluded thread whoever created it.
newThreadStarted == spawning' = IF spawning > 0 THEN spawning - 1 ELSE 0

add(t) ==
  /\ parents' = parents \ {t}
  /\ index' = index \cup {t}
  /\ spawning' = IF spawning > 0 THEN spawning - 1 ELSE 0

isThreadInExcludedThreadNamesList(t) == t \in Excluded

hasThreadParentRegisteredThisThread(t) == t \in parents

\* onStart: a thread whose name is excluded is counted as started and left
\* alone; one that no simulated thread announced is left alone; any other is
\* registered and suspends until its first timeslice.
onStart(t) ==
  /\ pc[t] = "unborn"
  /\ t \in parents \cup Foreign
  /\ \/ /\ isThreadInExcludedThreadNamesList(t)
        /\ newThreadStarted
        /\ Goto(t, "ignored")
        /\ UNCHANGED <<state, timedOut, timeout, runnables, index, parents>>
     \/ /\ ~isThreadInExcludedThreadNamesList(t) /\ ~hasThreadParentRegisteredThisThread(t)
        /\ Goto(t, "ignored")
        /\ UNCHANGED <<state, timedOut, timeout, runnables, spawnVars>>
     \/ /\ ~isThreadInExcludedThreadNamesList(t) /\ hasThreadParentRegisteredThisThread(t)
        /\ add(t)
        /\ setSuspendedAndPush(t)
        /\ Goto(t, "asleep")
  /\ UNCHANGED <<back, obj, peer, waitObj, parked, unparked, afterParking, cause, waiting,
                 monitor, inHand, holder, joinVars, nativeVars>>

\* Mutant of coordinateJoiningThreads: a missing thread is always a dead one.
coordinateJoiningThreads_Early(t, u) ==
  IF u \in index /\ state[u] # "VEX_ZOMBIE"
  THEN joiner' = Set(joiner, u, t) /\ UNCHANGED awakening
  ELSE awakening' = Set(awakening, t, TRUE) /\ UNCHANGED joiner

\* coordinateJoiningThreads: nothing is known of the other thread while one is
\* being spawned; a living one is told who waits; any other has died.
coordinateJoiningThreads(t, u) ==
  /\ spawning = 0
  /\ IF u \in index /\ state[u] # "VEX_ZOMBIE"
     THEN joiner' = Set(joiner, u, t) /\ UNCHANGED awakening
     ELSE awakening' = Set(awakening, t, TRUE) /\ UNCHANGED joiner

\* onJoin: suspend and try again, or go on to the real Thread.join.
onJoin(t, u) ==
  /\ Event(t, "join")
  /\ t # u /\ u \in Simulated
  /\ \/ u \in parents \/ pc[u] # "unborn"
  /\ \/ /\ spawning > 0
        /\ setSuspendedAndPush(t)
        /\ Sleep(t, "user")
        /\ UNCHANGED <<peer, joinVars>>
     \/ /\ coordinateJoiningThreads(t, u)
        /\ peer' = Set(peer, t, u)
        /\ Goto(t, "joining")
        /\ UNCHANGED <<back, state, timedOut, timeout, runnables>>
  /\ UNCHANGED <<obj, waitObj, parked, unparked, afterParking, cause, waiting, monitor,
                 inHand, holder, spawnVars, nativeVars>>

onWrappedWaitingStart(t) ==
  /\ setWaiting(t)
  /\ timeout' = Set(timeout, t, -1)
  /\ awakening' = Set(awakening, t, FALSE)

onWrappedWaitingEnd(t) ==
  /\ setSuspendedAndPush(t)
  /\ awakening' = Set(awakening, t, FALSE)

\* The wait inside Thread.join ...
joinWaitingStart(t) ==
  /\ pc[t] = "joining" /\ state[t] = "RUNNING"
  /\ peer[t] \in index
  /\ onWrappedWaitingStart(t)
  /\ Goto(t, "joinWait")
  /\ UNCHANGED <<back, obj, peer, waitObj, parked, unparked, cause, waiting, monitor,
                 schedVars, spawnVars, joiner, nativeVars>>

\* ... and, once the other thread is gone, its end.
joinWaitingEnd(t) ==
  /\ pc[t] = "joinWait" /\ peer[t] \notin index
  /\ onWrappedWaitingEnd(t)
  /\ Sleep(t, "user")
  /\ peer' = Set(peer, t, NoThread)
  /\ UNCHANGED <<obj, waitObj, parked, unparked, afterParking, cause, waiting,
                 monitor, inHand, holder, spawnVars, joiner, nativeVars>>

\* The other thread ended before the wait: Thread.join returns at once.
joinReturns(t) ==
  /\ pc[t] = "joining" /\ state[t] = "RUNNING"
  /\ peer[t] \notin index
  /\ Goto(t, "user")
  /\ peer' = Set(peer, t, NoThread)
  /\ UNCHANGED <<back, obj, state, waitVars, waiting, monitor, schedVars, spawnVars,
                 joinVars, nativeVars>>

notifyParentWaitingForYouToJoin(t) ==
  awakening' = IF joiner[t] = NoThread THEN awakening ELSE Set(awakening, joiner[t], TRUE)

\* NwPollingThreadRegistry::remove.
remove(t) ==
  /\ notifyParentWaitingForYouToJoin(t)
  /\ index' = index \ {t}
  /\ nativeQueue' = nativeQueue \ {t}

\* onEnd: ThreadManager::onThreadEnd, and then cleanup deletes the state.
onEnd(t) ==
  /\ Event(t, "end")
  /\ state' = Set(state, t, "VEX_ZOMBIE")
  /\ remove(t)
  /\ Goto(t, "deleted")
  /\ UNCHANGED <<back, obj, peer, waitVars, waiting, monitor, schedVars, parents, spawning,
                 joiner, polled>>
-----------------------------------------------------------------------------
(* Waiting on an object, sleeping, notifying and interrupting.             *)

insert(o, t) == waiting' = [waiting EXCEPT ![o] = Append(@, t)]

\* Mutant of erase: the last entry is erased, whoever it is.
erase_Last(reg, o, t) ==
  IF o = 0 THEN reg ELSE [reg EXCEPT ![o] = IF @ = <<>> THEN @ ELSE Front(@)]

\* Registry reg once the first entry of t for object o, if any, is erased.
erase(reg, o, t) == IF o = 0 THEN reg ELSE [reg EXCEPT ![o] = RemoveFirst(@, t)]

\* _waitInVirtualTime: a thread in the monitor of o enters itself as a waiter
\* (beforeReleasingLockOfAnyReplacedWaiting), ...
beforeReleasingLockOfAnyReplacedWaiting(t, o, kind) ==
  /\ kind \in {"wait", "timedWait"}
  /\ Event(t, kind)
  /\ monitor[o] = NoThread
  /\ monitor' = Set(monitor, o, t)
  /\ insert(o, t)
  /\ obj' = Set(obj, t, o)
  /\ Goto(t, IF kind = "wait" THEN "listed" ELSE "listedTimed")
  /\ UNCHANGED <<back, peer, state, waitVars, schedVars, spawnVars, joinVars, nativeVars>>

\* ... leaves the monitor in application code, ...
MonitorExit(t) ==
  /\ pc[t] \in {"listed", "listedTimed"} /\ state[t] = "RUNNING"
  /\ monitor[obj[t]] = t
  /\ monitor' = Set(monitor, obj[t], NoThread)
  /\ UNCHANGED <<pc, back, obj, peer, state, waitVars, waiting, schedVars, spawnVars, joinVars,
                 nativeVars>>

\* setWaitingObjectId, which keeps the old identifier when given none.
setWaitingObjectId(t, o) == waitObj' = IF o = 0 THEN waitObj ELSE Set(waitObj, t, o)

\* ... and only then becomes WAITING and blocks in VEX.
BlocksFor(t, l) ==
  /\ setTimedWaiting(t)
  /\ cause' = Set(cause, t, "none")
  /\ Sleep(t, l)
  /\ UNCHANGED <<obj, peer, parked, unparked, waiting, monitor, inHand, holder, spawnVars,
                 joinVars, nativeVars>>

onReplacedTimedWaiting(t) ==
  /\ pc[t] = "listedTimed" /\ state[t] = "RUNNING" /\ monitor[obj[t]] # t
  /\ setWaitingObjectId(t, obj[t])
  /\ BlocksFor(t, "reenter")

\* Thread.sleep: a timed wait on no object, which keeps the last object's
\* identifier.
onSleep(t) ==
  /\ Event(t, "sleep")
  /\ setWaitingObjectId(t, 0)
  /\ BlocksFor(t, "user")

\* The same for a wait without a timeout, whose resumption VEX handles itself.
onReplacedWaiting(t) ==
  /\ pc[t] = "listed" /\ state[t] = "RUNNING" /\ monitor[obj[t]] # t
  /\ setWaitingObjectId(t, obj[t])
  /\ setWaiting(t)
  /\ timeout' = Set(timeout, t, -2)
  /\ cause' = Set(cause, t, "none")
  /\ Sleep(t, "reenter")
  /\ UNCHANGED <<obj, peer, parked, unparked, waiting, monitor, schedVars, spawnVars,
                 joinVars, nativeVars>>

\* A resumed waiter enters the monitor again.
MonitorEnter(t) ==
  /\ pc[t] = "reenter" /\ state[t] = "RUNNING"
  /\ monitor[obj[t]] = NoThread
  /\ Goto(t, "user")
  /\ cause' = Set(cause, t, "none")
  /\ obj' = Set(obj, t, 0)
  /\ UNCHANGED <<back, peer, state, timeout, timedOut, waitObj, parked, unparked, afterParking,
                 waiting, monitor, schedVars, spawnVars, joinVars, nativeVars>>

\* beforeThreadInterruptAt: forget a parking, count a wait without timeout as
\* resuming.
beforeThreadInterruptAt(u) ==
  /\ parked' = Set(parked, u, FALSE)
  /\ afterParking' = Set(afterParking, u, afterParking[u] \/ (parked[u] /\ timeout[u] > 0))
  /\ timeout' = Set(timeout, u, IF timeout[u] < 0 THEN 0 ELSE timeout[u])

\* onAnyReplacedWaitingInterrupt, given the object registry: the thread leaves
\* it and is SUSPENDED.  One with a timeout is already in the queue, one whose
\* timeout is -1 comes back by itself.
onAnyReplacedWaitingInterrupt(u, reg, why) ==
  /\ beforeThreadInterruptAt(u)
  /\ waiting' = erase(reg, waitObj[u], u)
  /\ state' = Set(state, u, "SUSPENDED")
  /\ timedOut' = Set(timedOut, u, why = "timeout")
  /\ cause' = Set(cause, u, why)
  /\ runnables' = IF timeout[u] \in {0, -2} THEN runnables \cup {u} ELSE runnables

isWaiting(u) == state[u] = "WAITING"

\* interruptThread: interrupt u if it waits, and go on to flag it; otherwise
\* do no more than the removal from the registry that came before.
interruptThread(t, u, reg, why, next, otherwise) ==
  /\ IF u # NoThread /\ isWaiting(u)
     THEN /\ onAnyReplacedWaitingInterrupt(u, reg, why)
          /\ peer' = Set(peer, t, u)
          /\ Goto(t, next)
     ELSE /\ Goto(t, otherwise)
          /\ waiting' = reg
          /\ UNCHANGED <<peer, state, timedOut, timeout, parked, afterParking, cause, runnables>>
  /\ UNCHANGED <<back, waitObj, unparked, inHand, holder, spawnVars, joinVars, nativeVars>>

\* Mutant of isNotification: notified threads are told they were interrupted.
isNotification_Swapped(t) == pc[t] = "flagInterrupt"

isNotification(t) == pc[t] \in {"flagNotify", "flagBroadcast"}

\* The second half of interruptThread: tell the thread what woke it.
setTimedOut(t) ==
  /\ pc[t] \in {"flagNotify", "flagBroadcast", "flagInterrupt"}
  /\ timedOut' = Set(timedOut, peer[t], isNotification(t))
  /\ Goto(t, IF pc[t] = "flagBroadcast" THEN "broadcasting" ELSE "user")
  /\ monitor' = IF pc[t] = "flagNotify" THEN Set(monitor, obj[t], NoThread) ELSE monitor
  /\ peer' = Set(peer, t, NoThread)
  /\ obj' = IF pc[t] = "flagNotify" THEN Set(obj, t, 0) ELSE obj
  /\ UNCHANGED <<back, state, timeout, waitObj, parked, unparked, afterParking,
                 cause, waiting, schedVars, spawnVars, joinVars, nativeVars>>

\* A thread pointer found in the index of the thread registry.
Lookup(u) == IF u \in index THEN u ELSE NoThread

\* ObjectRegistry::findNext: the thread that came last, or none.
findNext(o) == IF waiting[o] = <<>> THEN NoThread ELSE Last(waiting[o])

\* onSignallingOnObject, in the monitor of o.
onSignallingOnObject(t, o) ==
  /\ Event(t, "notify")
  /\ monitor[o] = NoThread
  /\ interruptThread(t, Lookup(findNext(o)), waiting, "notify", "flagNotify", "user")
  /\ obj' = IF pc'[t] = "flagNotify" THEN Set(obj, t, o) ELSE obj
  /\ monitor' = IF pc'[t] = "flagNotify" THEN Set(monitor, o, t) ELSE monitor

\* onBroadcastingOnObject: enter the monitor and take the waiters one by one ...
onBroadcastingOnObject(t, o) ==
  /\ Event(t, "broadcast")
  /\ monitor[o] = NoThread
  /\ monitor' = Set(monitor, o, t)
  /\ obj' = Set(obj, t, o)
  /\ Goto(t, "broadcasting")
  /\ UNCHANGED <<back, peer, state, waitVars, waiting, schedVars, spawnVars, joinVars,
                 nativeVars>>

\* ... ObjectRegistry::getNext: the last waiter is out of the registry whether
\* it can be interrupted or not.
getNext(t) ==
  /\ pc[t] = "broadcasting" /\ waiting[obj[t]] # <<>>
  /\ LET popped == [waiting EXCEPT ![obj[t]] = Front(@)]
     IN interruptThread(t, Lookup(findNext(obj[t])), popped, "notify", "flagBroadcast",
                        "broadcasting")
  /\ UNCHANGED <<obj, monitor>>

broadcastEnds(t) ==
  /\ pc[t] = "broadcasting" /\ waiting[obj[t]] = <<>>
  /\ monitor' = Set(monitor, obj[t], NoThread)
  /\ Goto(t, "user")
  /\ obj' = Set(obj, t, 0)
  /\ UNCHANGED <<back, peer, state, waitVars, waiting, schedVars, spawnVars, joinVars,
                 nativeVars>>

\* onInterrupt: Thread.interrupt.
onInterrupt(t, u) ==
  /\ Event(t, "interrupt")
  /\ t # u
  /\ interruptThread(t, Lookup(u), waiting, "interrupt", "flagInterrupt", "user")
  /\ UNCHANGED <<obj, monitor>>
-----------------------------------------------------------------------------
(* Parking.                                                                *)

getAndSetUnparkedState(t) ==
  /\ unparked' = Set(unparked, t, FALSE)
  /\ parked' = Set(parked, t, ~unparked[t])
  /\ waitObj' = IF unparked[t] THEN waitObj ELSE Set(waitObj, t, 0)

\* onPark: a thread that was unparked before goes on.  A timed parking is a
\* wrapped timed wait; an untimed one gives the key back first.
onPark(t, kind) ==
  /\ kind \in {"park", "timedPark"}
  /\ Event(t, kind)
  /\ getAndSetUnparkedState(t)
  /\ \/ /\ unparked[t]
        /\ UNCHANGED <<pc, state, timedOut, timeout, afterParking, cause, runnables>>
     \/ /\ ~unparked[t] /\ kind = "timedPark"
        /\ setTimedWaiting(t)
        /\ cause' = Set(cause, t, "none")
        /\ Goto(t, "parking")
     \/ /\ ~unparked[t] /\ kind = "park"
        /\ Goto(t, "parkGap")
        /\ UNCHANGED <<state, timedOut, timeout, afterParking, cause, runnables>>
  /\ UNCHANGED <<back, obj, peer, waiting, monitor, inHand, holder, spawnVars, joinVars,
                 nativeVars>>

\* onWrappedWaitingStart, called by onPark without the key ...
parkWaitingStart(t) ==
  /\ pc[t] = "parkGap" /\ state[t] = "RUNNING" /\ holder[t] = NoThread
  /\ onWrappedWaitingStart(t)
  /\ cause' = Set(cause, t, "none")
  /\ Goto(t, "parkUnlock")
  /\ UNCHANGED <<back, obj, peer, waitObj, parked, unparked, waiting, monitor, schedVars,
                 spawnVars, joiner, nativeVars>>

\* ... which gave the key back itself: onPark unlocks it once more, whoever
\* holds it by then.
unlockAgain(t) ==
  /\ pc[t] = "parkUnlock"
  /\ holder' = Set(holder, t, NoThread)
  /\ Goto(t, "parking")
  /\ UNCHANGED <<back, obj, peer, state, waitVars, waiting, monitor, runnables, inHand,
                 spawnVars, joinVars, nativeVars>>

\* A thread back from a timed park stays in the queue.
onWrappedTimedWaitingEnd(t) ==
  /\ state' = Set(state, t, "SUSPENDED")
  /\ timedOut' = Set(timedOut, t, TRUE)
  /\ UNCHANGED <<timeout, runnables, awakening>>

\* onParked: the real park returned, because VEX let its unpark through or
\* because its timeout passed in real time.
onParked(t) ==
  /\ pc[t] = "parking" /\ holder[t] = NoThread
  /\ ~parked[t] \/ timeout[t] > 0
  /\ IF timeout[t] > 0 THEN onWrappedTimedWaitingEnd(t) ELSE onWrappedWaitingEnd(t)
  /\ Sleep(t, "user")
  /\ UNCHANGED <<obj, peer, waitObj, parked, unparked, afterParking, cause, waiting, monitor,
                 inHand, holder, spawnVars, joiner, nativeVars>>

\* onUnpark: find the thread in the registry with the own key held, ...
onUnpark(t, u) ==
  /\ Event(t, "unpark")
  /\ t # u
  /\ peer' = Set(peer, t, Lookup(u))
  /\ Goto(t, IF u \in index THEN "unparking" ELSE "user")
  /\ UNCHANGED <<back, obj, state, waitVars, waiting, monitor, schedVars, spawnVars, joinVars,
                 nativeVars>>

\* ... lock its key, ...
lockPeer(t) ==
  /\ pc[t] = "unparking"
  /\ ~HoldsKey(peer[t]) /\ holder[peer[t]] = NoThread
  /\ holder' = Set(holder, peer[t], t)
  /\ Goto(t, "unparkHolds")
  /\ UNCHANGED <<back, obj, peer, state, waitVars, waiting, monitor, runnables, inHand,
                 spawnVars, joinVars, nativeVars>>

getAndSetParkedState(u) ==
  /\ unparked' = Set(unparked, u, ~parked[u])
  /\ parked' = Set(parked, u, FALSE)

\* onWrappedWaitingInterrupt: ready to resume, and WAITING until it is back in
\* VEX.
onWrappedWaitingInterrupt(u) ==
  /\ timeout' = Set(timeout, u, 0)
  /\ afterParking' = Set(afterParking, u, FALSE)
  /\ state' = Set(state, u, "WAITING")
  /\ timedOut' = Set(timedOut, u, FALSE)

\* ... and wake it, or leave it the permit.  A timed parking stays in the
\* queue.
unpark(t) ==
  /\ pc[t] = "unparkHolds"
  /\ LET u == peer[t] IN
     /\ getAndSetParkedState(u)
     /\ holder' = Set(holder, u, IF holder[u] = t THEN NoThread ELSE holder[u])
     /\ \/ /\ ~parked[u]
           /\ UNCHANGED <<state, timedOut, timeout, afterParking>>
        \/ /\ parked[u] /\ timeout[u] > 0
           /\ timedOut' = Set(timedOut, u, FALSE)
           /\ UNCHANGED <<state, timeout, afterParking>>
        \/ parked[u] /\ timeout[u] <= 0 /\ onWrappedWaitingInterrupt(u)
  /\ Goto(t, "user")
  /\ peer' = Set(peer, t, NoThread)
  /\ UNCHANGED <<back, obj, waitObj, cause, waiting, monitor, runnables, inHand,
                 spawnVars, joinVars, nativeVars>>
-----------------------------------------------------------------------------
(* The scheduler, and native waiting.                                      *)

FreeCore == Cardinality(Running \cup inHand) < Cores

\* The scheduler's signal suspends a running thread: it needs the thread's
\* key for it.
MayPreempt(t) ==
  /\ state[t] = "RUNNING" /\ ~HoldsKey(t) /\ holder[t] = NoThread
  /\ pc[t] \in {"user", "listed", "listedTimed", "reenter", "joining", "parkGap"}

preempt(t) ==
  /\ MayPreempt(t)
  /\ state' = Set(state, t, "SUSPENDED")
  /\ runnables' = runnables \cup {t}
  /\ Sleep(t, pc[t])
  /\ UNCHANGED <<obj, peer, waitVars, waiting, monitor, inHand, holder, spawnVars, joinVars,
                 nativeVars>>

\* continueThread on a suspended thread: pop it and resume it.
continueThread(t) ==
  /\ t \in runnables /\ state[t] = "SUSPENDED" /\ holder[t] = NoThread /\ ~HoldsKey(t)
  /\ timedOut[t] \/ (timeout[t] # 0 /\ ~afterParking[t])
  /\ FreeCore
  /\ runnables' = runnables \ {t}
  /\ inHand' = inHand \cup {t}
  /\ UNCHANGED <<pc, back, obj, peer, state, waitVars, waiting, monitor, holder, spawnVars,
                 joinVars, nativeVars>>

\* RULE 1 of leapForbiddingRulesApply.
leapForbiddingRulesApply == spawning > 0

\* continueThread on a thread in a timed wait: interruptTimedWaitingThread.
interruptTimedWaitingThread(t) ==
  /\ t \in runnables /\ state[t] = "WAITING" /\ timeout[t] > 0 /\ holder[t] = NoThread
  /\ ~leapForbiddingRulesApply
  /\ FreeCore
  /\ beforeThreadInterruptAt(t)
  /\ waiting' = erase(waiting, waitObj[t], t)
  /\ state' = Set(state, t, "SUSPENDED")
  /\ timedOut' = Set(timedOut, t, TRUE)
  /\ cause' = Set(cause, t, "timeout")
  /\ runnables' = runnables \ {t}
  /\ inHand' = inHand \cup {t}
  /\ UNCHANGED <<pc, back, obj, peer, waitObj, unparked, monitor, holder, spawnVars, joinVars,
                 nativeVars>>

\* The end of resumeThread: the scheduler waits until the thread blocks in VEX
\* and wakes it; an untimed wait then resets its timeout.
resumeThread(t) ==
  /\ t \in inHand /\ pc[t] = "asleep"
  /\ inHand' = inHand \ {t}
  /\ state' = Set(state, t, "RUNNING")
  /\ timeout' = Set(timeout, t, IF timeout[t] = 0 THEN -1 ELSE timeout[t])
  /\ Goto(t, back[t])
  /\ back' = Set(back, t, "user")
  /\ UNCHANGED <<obj, peer, timedOut, waitObj, parked, unparked, afterParking, cause,
                 waiting, monitor, runnables, holder, spawnVars, joinVars, nativeVars>>

\* A running thread looks blocked outside VEX.
setNativeWaiting(t) ==
  /\ Event(t, "native") /\ holder[t] = NoThread
  /\ state' = Set(state, t, "NATIVE_WAITING")
  /\ nativeQueue' = nativeQueue \cup {t}
  /\ polled' = polled \ {t}
  /\ UNCHANGED <<pc, back, obj, peer, waitVars, waiting, monitor, schedVars, spawnVars, joinVars>>

\* pollNativeWaitingThreads: signal the first one unless it is being polled.
pollNativeWaitingThreads(t) ==
  /\ t \in nativeQueue /\ t \notin polled
  /\ polled' = polled \cup {t}
  /\ UNCHANGED <<pc, back, obj, peer, state, waitVars, waiting, monitor, schedVars, spawnVars,
                 joinVars, nativeQueue>>

\* The signal handler of a polled thread that is still blocked.
stillNativeWaiting(t) ==
  /\ t \in polled /\ state[t] = "NATIVE_WAITING"
  /\ polled' = polled \ {t}
  /\ UNCHANGED <<pc, back, obj, peer, state, waitVars, waiting, monitor, schedVars, spawnVars,
                 joinVars, nativeQueue>>

unsetNativeWaiting(t) == nativeQueue' = nativeQueue \ {t}

\* A thread that enters VEX, or answers a poll, without being RUNNING comes
\* under control again.
suspendLooseCurrentThread(t) ==
  /\ pc[t] \in {"user", "parkGap"}
  /\ state[t] \in {"NATIVE_WAITING", "WAITING"} /\ holder[t] = NoThread
  /\ unsetNativeWaiting(t)
  /\ setSuspendedAndPush(t)
  /\ Sleep(t, pc[t])
  /\ UNCHANGED <<obj, peer, waitObj, parked, unparked, afterParking, cause, waiting, monitor,
                 inHand, holder, spawnVars, joinVars, polled>>
-----------------------------------------------------------------------------
Lifecycle(t) ==
  \/ onStart(t) \/ onEnd(t) \/ joinWaitingStart(t) \/ joinWaitingEnd(t) \/ joinReturns(t)
  \/ \E u \in Threads : beforeCreatingThread(t, u) \/ onJoin(t, u)

Waits(t) ==
  \/ MonitorExit(t) \/ onReplacedTimedWaiting(t) \/ onSleep(t) \/ onReplacedWaiting(t) \/ MonitorEnter(t)
  \/ \E o \in Objects, k \in Ops[t] : beforeReleasingLockOfAnyReplacedWaiting(t, o, k)

Signals(t) ==
  \/ setTimedOut(t) \/ getNext(t) \/ broadcastEnds(t)
  \/ \E o \in Objects : onSignallingOnObject(t, o) \/ onBroadcastingOnObject(t, o)
  \/ \E u \in Threads : onInterrupt(t, u)

Parking(t) ==
  \/ parkWaitingStart(t) \/ unlockAgain(t) \/ onParked(t) \/ lockPeer(t) \/ unpark(t)
  \/ \E k \in Ops[t] : onPark(t, k)
  \/ \E u \in Threads : onUnpark(t, u)

Scheduling(t) ==
  \/ preempt(t) \/ continueThread(t) \/ interruptTimedWaitingThread(t) \/ resumeThread(t)
  \/ setNativeWaiting(t) \/ pollNativeWaitingThreads(t) \/ stillNativeWaiting(t)
  \/ suspendLooseCurrentThread(t)

Next == \E t \in Threads :
  Lifecycle(t) \/ Waits(t) \/ Signals(t) \/ Parking(t) \/ Scheduling(t)

Spec == Init /\ [][Next]_vars
-----------------------------------------------------------------------------
(* Properties.                                                             *)

Labels == {"unborn", "ignored", "user", "asleep", "deleted", "joining", "joinWait", "listed",
           "listedTimed", "reenter", "flagNotify", "flagBroadcast", "flagInterrupt",
           "broadcasting", "parkGap", "parkUnlock", "parking", "unparking", "unparkHolds"}
States == {"REGISTERING", "RUNNING", "SUSPENDED", "WAITING", "NATIVE_WAITING", "VEX_ZOMBIE"}

\* Every variable has its type.
TypeOK ==
  /\ pc \in [Threads -> Labels]
  /\ back \in [Threads -> Labels]
  /\ obj \in [Threads -> Objects \cup {0}]
  /\ peer \in [Threads -> Threads \cup {NoThread}]
  /\ state \in [Threads -> States]
  /\ timeout \in [Threads -> -2 .. 1]
  /\ timedOut \in [Threads -> BOOLEAN]
  /\ waitObj \in [Threads -> Objects \cup {0}]
  /\ parked \in [Threads -> BOOLEAN] /\ unparked \in [Threads -> BOOLEAN]
  /\ afterParking \in [Threads -> BOOLEAN]
  /\ cause \in [Threads -> {"none", "notify", "interrupt", "timeout"}]
  /\ waiting \in [Objects -> Seq(Threads)]
  /\ monitor \in [Objects -> Threads \cup {NoThread}]
  /\ holder \in [Threads -> Threads \cup {NoThread}]
  /\ joiner \in [Threads -> Threads \cup {NoThread}]
  /\ awakening \in [Threads -> BOOLEAN]
  /\ runnables \subseteq Threads /\ inHand \subseteq Threads /\ index \subseteq Threads
  /\ parents \subseteq Threads /\ nativeQueue \subseteq Threads /\ polled \subseteq Threads
  /\ spawning \in 0 .. Cardinality(Threads)

\* Thread t is in Object.wait on object o: entered in the registry and not yet
\* WAITING (running or preempted there), or asleep in its wait.
InWait(t, o) ==
  /\ obj[t] = o
  /\ \/ pc[t] \in {"listed", "listedTimed"}
     \/ pc[t] = "asleep" /\ back[t] \in {"listed", "listedTimed"}
     \/ pc[t] = "asleep" /\ state[t] = "WAITING" /\ waitObj[t] = o

\* Every entry of the object registry is a thread that is in its wait on that
\* object, and no thread is entered twice: a notification, an interrupt and a
\* timeout each take the entry out with the wait (ObjectRegistry::erase and
\* getNext), so no later notify is spent on a thread that has gone on.
RegistryIsAccurate == \A o \in Objects :
  /\ \A i \in DOMAIN waiting[o] : InWait(waiting[o][i], o)
  /\ IsInjective(waiting[o])

\* threadsBeingSpawned counts the threads announced by beforeCreatingThread
\* that have not started: while it is positive no leap is made and onJoin does
\* not take a missing thread for a dead one.
SpawnCountIsAccurate == spawning = Cardinality({t \in parents : pc[t] = "unborn"})

\* A thread told that the one it joins is over (isAwakeningAfterJoin) is told
\* the truth when it is told: that one has ended, and is not unborn.
JoinedThreadHasEnded == [][\A t \in Threads :
  awakening'[t] /\ ~awakening[t] => pc'[peer'[t]] = "deleted"]_vars

\* A thread that has looked another up by its identifier uses its state only
\* while that exists, although remove and cleanup do not ask who else has the
\* pointer; and no two threads wait in onUnpark for each other's key, each
\* holding its own.  One core is what makes it so.
TargetIsSafe == \A t \in Threads :
  /\ pc[t] \in {"unparking", "unparkHolds", "flagNotify", "flagBroadcast", "flagInterrupt"}
       => pc[peer[t]] # "deleted"
  /\ ~(pc[t] = "unparking" /\ pc[peer[t]] = "unparking" /\ peer[peer[t]] = t)

\* A thread is not at once parked and holder of an unpark permit, whatever the
\* order of park, unpark and interrupt: one unpark ends one park.
OnePermit == \A t \in Threads : ~(parked[t] /\ unparked[t])

\* A waiter that leaves its wait knows what woke it: Object.wait returns
\* normally after a notification or a timeout, and throws
\* InterruptedException only after an interrupt (timedOut is false).
WaiterKnowsItsCause == \A t \in Threads :
  pc[t] = "reenter" /\ state[t] = "RUNNING" => (timedOut[t] <=> cause[t] # "interrupt")

\* A permit of unpark is used once, and a thread back from a timed wait knows
\* whether it was notified, interrupted or timed out.
WakeUpsAreUnderstood ==
  /\ OnePermit
  /\ WaiterKnowsItsCause

\* The queue of polled native waiting threads holds the living threads that
\* are NATIVE_WAITING, and no other: a poll would signal a thread that runs, or
\* one that no longer exists.  (For threads that do not park with a
\* timeout: one back from such a park may still be flagged as parked, and an unpark
\* then takes it for a waiting one.)
NativeQueueIsAccurate == nativeQueue = {t \in Threads : state[t] = "NATIVE_WAITING"}

\* The object registry, the counter of threads being spawned and the native
\* waiting queue agree with what the threads do, and nobody works on the state
\* of a thread that was deleted.
RegistriesAreAccurate ==
  /\ TypeOK
  /\ RegistryIsAccurate
  /\ SpawnCountIsAccurate
  /\ TargetIsSafe
  /\ NativeQueueIsAccurate

=============================================================================
