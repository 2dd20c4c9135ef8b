---------------------------- MODULE LockRegistry ----------------------------
(***************************************************************************)
(* The registry of monitors contended inside VEX, and the two event        *)
(* handlers that use it: ThreadEventsBehaviour::onRequestingLock and       *)
(* onReleasingLock, with the hand-off of a released monitor to a thread    *)
(* blocked on it.                                                          *)
(*                                                                         *)
(* Sources: registries/LockRegistry.{h,cpp},                               *)
(* events/ThreadEventsBehaviour.cpp, scheduler/ThreadManager.cpp           *)
(* (onReplacedWaiting, onAnyReplacedWaitingInterrupt, continueThread),     *)
(* threads/ThreadState.cpp (beforeThreadInterruptAt).                      *)
(*                                                                         *)
(* VTF.cpp chooses LockRegistry or ReentrantLockRegistry from the          *)
(* configuration: the constant reentrantLocking does so here.              *)
(***************************************************************************)
EXTENDS Integers, Sequences, FiniteSets

CONSTANTS
  Threads,           \* the simulated threads
  Locks,             \* the lock identifiers
  NoThread,          \* stands for a NULL VexThreadState pointer
  reentrantLocking,  \* which registry class VTF.cpp instantiates
  MaxEntries         \* bound: how often a thread enters a monitor it holds

ASSUME NoThreadAssumption == NoThread \notin Threads
ASSUME ReentrantAssumption == reentrantLocking \in BOOLEAN
ASSUME MaxEntriesAssumption == MaxEntries \in Nat \ {0}

VARIABLES
  registered,     \* the lock ids the registry map holds an entry for
  monitorLocked,  \* lock -> LockRegistryInfo::monitorLocked
  blocked,        \* lock -> threadsContendedOnLock, a vector used as a stack
  owner,          \* lock -> ReentrantLockRegistryInfo::owner
  counter,        \* lock -> ReentrantLockRegistryInfo::counter
  key,            \* thread -> holder of its shareResourceAccessKey
  pc,             \* thread -> where it is inside the two handlers
  arg,            \* thread -> the lock its current handler call is about
  next,           \* thread -> the thread it is handing a monitor to
  timeout,        \* thread -> Timers::timeout, abstracted to -1 or 0
  timedOut,       \* thread -> VexThreadState::timedOut
  runnable,       \* the runnable queue, as a set (its order is irrelevant here)
  owners          \* lock -> the threads that were told they own the monitor

info == <<registered, monitorLocked, blocked, owner, counter>>
vars == <<registered, monitorLocked, blocked, owner, counter,
          key, pc, arg, next, timeout, timedOut, runnable, owners>>

isMonitorFree(l) == ~monitorLocked[l]

isCurrentOwnerThread(t, l) == owner[l] = t

\* Does tryAcquiringLock(t, l) answer true?
Acquires(t, l) ==
  \/ l \notin registered
  \/ isMonitorFree(l)
  \/ reentrantLocking /\ isCurrentOwnerThread(t, l)

\* A new LockRegistryInfo is locked by the thread that first asks for the
\* lock; an existing one is entered.  Only the reentrant class keeps the
\* owner and counts its entries.
enterMonitor(t, l) ==
  /\ monitorLocked' = [monitorLocked EXCEPT ![l] = TRUE]
  /\ IF reentrantLocking
     THEN /\ owner' = [owner EXCEPT ![l] = t]
          /\ counter' = [counter EXCEPT ![l] = IF l \in registered THEN @ + 1 ELSE 1]
     ELSE UNCHANGED <<owner, counter>>

blockOnMonitor(t, l) == blocked' = [blocked EXCEPT ![l] = Append(@, t)]

\* The thread releaseAndGetNext(l) answers: the one that blocked last.
LastBlocked(l) == blocked[l][Len(blocked[l])]

popBlocked(l) == blocked' = [blocked EXCEPT ![l] = SubSeq(@, 1, Len(@) - 1)]

\* Is the monitor free for somebody else once its holder releases it?
\* releaseMonitor() of the reentrant class only answers true for the
\* outermost release.
Relinquishes(l) == reentrantLocking => counter[l] = 1

\* Mutant of handMonitorOver: the flag is cleared on a hand-off too.
handMonitorOver_Unlocks(l) ==
  /\ monitorLocked' = [monitorLocked EXCEPT ![l] = FALSE]
  /\ UNCHANGED <<owner, counter>>

\* releaseAndGetNext with threads blocked.  LockRegistry leaves the monitor
\* locked; ReentrantLockRegistry has released it before it sets the next
\* owner, and setNextOwner does not lock it again.
handMonitorOver(l) ==
  IF reentrantLocking
  THEN /\ monitorLocked' = [monitorLocked EXCEPT ![l] = FALSE]
       /\ owner' = [owner EXCEPT ![l] = LastBlocked(l)]
       /\ counter' = [counter EXCEPT ![l] = 1]
  ELSE UNCHANGED <<monitorLocked, owner, counter>>

\* releaseAndGetNext with nobody to hand the monitor to.
releaseMonitor(l) ==
  IF Relinquishes(l)
  THEN /\ monitorLocked' = [monitorLocked EXCEPT ![l] = FALSE]
       /\ IF reentrantLocking
          THEN /\ owner' = [owner EXCEPT ![l] = NoThread]
               /\ counter' = [counter EXCEPT ![l] = 0]
          ELSE UNCHANGED <<owner, counter>>
  ELSE /\ counter' = [counter EXCEPT ![l] = @ - 1]
       /\ UNCHANGED <<monitorLocked, owner>>
-----------------------------------------------------------------------------
Init ==
  /\ registered = {}
  /\ monitorLocked = [l \in Locks |-> FALSE]
  /\ blocked = [l \in Locks |-> <<>>]
  /\ owner = [l \in Locks |-> NoThread]
  /\ counter = [l \in Locks |-> 0]
  /\ key = [t \in Threads |-> NoThread]
  /\ pc = [t \in Threads |-> "running"]
  /\ arg \in [Threads -> Locks]
  /\ next = [t \in Threads |-> NoThread]
  /\ timeout = [t \in Threads |-> -1]
  /\ timedOut = [t \in Threads |-> TRUE]
  /\ runnable = {}
  /\ owners = [l \in Locks |-> {}]

\* onRequestingLock: VEX entry takes the thread's own key.  A caller asks for
\* a monitor it already holds only when the registry is the reentrant one.
EnterRequest(t, l) ==
  /\ pc[t] = "running"
  /\ key[t] = NoThread
  /\ t \in owners[l] => reentrantLocking /\ counter[l] < MaxEntries
  /\ key' = [key EXCEPT ![t] = t]
  /\ arg' = [arg EXCEPT ![t] = l]
  /\ pc' = [pc EXCEPT ![t] = "requesting"]
  /\ UNCHANGED <<info, next, timeout, timedOut, runnable, owners>>

\* tryAcquiringLock answers true: the thread leaves VEX as an owner.
RequestGranted(t) ==
  LET l == arg[t] IN
  /\ pc[t] = "requesting"
  /\ Acquires(t, l)
  /\ enterMonitor(t, l)
  /\ registered' = registered \cup {l}
  /\ owners' = [owners EXCEPT ![l] = @ \cup {t}]
  /\ key' = [key EXCEPT ![t] = NoThread]
  /\ pc' = [pc EXCEPT ![t] = "running"]
  /\ UNCHANGED <<blocked, arg, next, timeout, timedOut, runnable>>

\* tryAcquiringLock answers false: the thread is in the monitor's list of
\* blocked threads, and the registry mutex is free, before it blocks.
RequestContended(t) ==
  LET l == arg[t] IN
  /\ pc[t] = "requesting"
  /\ ~Acquires(t, l)
  /\ blockOnMonitor(t, l)
  /\ pc' = [pc EXCEPT ![t] = "blocking"]
  /\ UNCHANGED <<registered, monitorLocked, owner, counter, key, arg, next,
                 timeout, timedOut, runnable, owners>>

\* ThreadManager::onReplacedWaiting up to the condition wait: the key is
\* released.  The state is not set to WAITING and the timeout is left alone.
Block(t) ==
  /\ pc[t] = "blocking"
  /\ key' = [key EXCEPT ![t] = NoThread]
  /\ pc' = [pc EXCEPT ![t] = "blocked"]
  /\ UNCHANGED <<info, arg, next, timeout, timedOut, runnable, owners>>

\* May the scheduler resume the suspended thread t that it popped?
mayBeResumed(t) == timedOut[t] \/ timeout[t] # 0

\* The scheduler takes a thread from the runnable queue.  It signals the
\* thread, which leaves onRequestingLock, or pushes it back.
continueThread(t) ==
  /\ t \in runnable
  /\ key[t] = NoThread
  /\ IF mayBeResumed(t)
     THEN /\ runnable' = runnable \ {t}
          /\ pc' = [pc EXCEPT ![t] = "running"]
     ELSE UNCHANGED <<pc, runnable>>
  /\ UNCHANGED <<info, key, arg, next, timeout, timedOut, owners>>

\* A timeslice of the thread ends outside a handler and it is rescheduled:
\* setSuspendedAndPushToRunnables leaves timedOut set and the timeout at -1.
Timeslice(t) ==
  /\ pc[t] = "running"
  /\ key[t] = NoThread
  /\ timeout' = [timeout EXCEPT ![t] = -1]
  /\ timedOut' = [timedOut EXCEPT ![t] = TRUE]
  /\ UNCHANGED <<info, key, pc, arg, next, runnable, owners>>

\* onReleasingLock: VEX entry.
EnterRelease(t, l) ==
  /\ pc[t] = "running"
  /\ key[t] = NoThread
  /\ t \in owners[l]
  /\ key' = [key EXCEPT ![t] = t]
  /\ arg' = [arg EXCEPT ![t] = l]
  /\ pc' = [pc EXCEPT ![t] = "releasing"]
  /\ UNCHANGED <<info, next, timeout, timedOut, runnable, owners>>

\* releaseAndGetNext answers NULL: an inner release, or nobody is blocked.
ReleaseUncontended(t) ==
  LET l == arg[t] IN
  /\ pc[t] = "releasing"
  /\ ~(Relinquishes(l) /\ blocked[l] # <<>>)
  /\ releaseMonitor(l)
  /\ owners' = [owners EXCEPT ![l] = IF Relinquishes(l) THEN @ \ {t} ELSE @]
  /\ key' = [key EXCEPT ![t] = NoThread]
  /\ pc' = [pc EXCEPT ![t] = "running"]
  /\ UNCHANGED <<registered, blocked, arg, next, timeout, timedOut, runnable>>

\* releaseAndGetNext names the next owner: "the state is now the owner of
\* the monitor".
ReleaseToNext(t) ==
  LET l == arg[t]
      u == LastBlocked(l) IN
  /\ pc[t] = "releasing"
  /\ Relinquishes(l) /\ blocked[l] # <<>>
  /\ handMonitorOver(l)
  /\ popBlocked(l)
  /\ owners' = [owners EXCEPT ![l] = (@ \ {t}) \cup {u}]
  /\ next' = [next EXCEPT ![t] = u]
  /\ pc' = [pc EXCEPT ![t] = "handing"]
  /\ UNCHANGED <<registered, key, arg, timeout, timedOut, runnable>>

\* ThreadManager::onAnyReplacedWaitingInterrupt of thread u, with
\* beforeThreadInterruptAt: pushes the thread only if its timeout is 0 or -2.
onAnyReplacedWaitingInterrupt(u, tmo) ==
  /\ runnable' = IF tmo[u] \in {0, -2} THEN runnable \cup {u} ELSE runnable
  /\ timeout' = [tmo EXCEPT ![u] = IF @ < 0 THEN 0 ELSE @]
  /\ timedOut' = [timedOut EXCEPT ![u] = FALSE]

\* Lock the key of the next owner, set the releaser's own timeout to 0,
\* interrupt the next owner, unlock its key and leave VEX.
HandOver(t) ==
  /\ pc[t] = "handing"
  /\ key[next[t]] = NoThread
  /\ onAnyReplacedWaitingInterrupt(next[t], [timeout EXCEPT ![t] = 0])
  /\ key' = [key EXCEPT ![t] = NoThread]
  /\ next' = [next EXCEPT ![t] = NoThread]
  /\ pc' = [pc EXCEPT ![t] = "running"]
  /\ UNCHANGED <<info, arg, owners>>

Next ==
  \E t \in Threads :
    \/ \E l \in Locks : EnterRequest(t, l) \/ EnterRelease(t, l)
    \/ RequestGranted(t)
    \/ RequestContended(t)
    \/ Block(t)
    \/ continueThread(t)
    \/ Timeslice(t)
    \/ ReleaseUncontended(t)
    \/ ReleaseToNext(t)
    \/ HandOver(t)

Spec == Init /\ [][Next]_vars
-----------------------------------------------------------------------------
\* Type invariant: every variable keeps the shape the classes declare.
TypeOK ==
  /\ registered \subseteq Locks
  /\ monitorLocked \in [Locks -> BOOLEAN]
  /\ blocked \in [Locks -> Seq(Threads)]
  /\ owner \in [Locks -> Threads \cup {NoThread}]
  /\ counter \in [Locks -> Int]
  /\ key \in [Threads -> Threads \cup {NoThread}]
  /\ pc \in [Threads -> {"running", "requesting", "blocking", "blocked",
                        "releasing", "handing"}]
  /\ arg \in [Threads -> Locks]
  /\ next \in [Threads -> Threads \cup {NoThread}]
  /\ timeout \in [Threads -> Int]
  /\ timedOut \in [Threads -> BOOLEAN]
  /\ runnable \subseteq Threads
  /\ owners \in [Locks -> SUBSET Threads]

\* At most one thread is ever told that it owns a monitor, whether
\* tryAcquiringLock answered true or releaseAndGetNext chose it: "If the lock
\* is already acquired by another thread then the method adds the thread into
\* a list of blocked threads" (LockRegistry.cpp:88).
MutualExclusion ==
  \A l \in Locks : \A t, u \in owners[l] : t = u

\* monitorLocked is true exactly while some thread owns the monitor, across
\* hand-offs that skip the flag: a monitor without owner is never left locked,
\* and threads are never left in the blocked list of a monitor nobody will
\* release (LockRegistry.cpp:139-149).
LockedWhileOwned ==
  \A l \in Locks :
    /\ monitorLocked[l] <=> owners[l] # {}
    /\ blocked[l] # <<>> => owners[l] # {}

\* Thread t is in the list of threads blocked on lock l.
InBlockedList(t, l) == \E i \in 1 .. Len(blocked[l]) : blocked[l][i] = t

\* A thread in a blocked list is asleep in onRequestingLock for that very
\* lock, or about to be, and owns it not: releaseAndGetNext can never name a
\* thread that has moved on (LockRegistry.cpp:146, ThreadEventsBehaviour.cpp:791).
BlockedListIsAccurate ==
  \A t \in Threads, l \in Locks : InBlockedList(t, l) =>
    /\ pc[t] \in {"blocking", "blocked"}
    /\ arg[t] = l
    /\ t \notin owners[l]
    /\ t \notin runnable

\* The hand-over interrupts a thread that is still blocked in VEX and not in
\* the runnable queue, so ThreadQueue::push's assertion that the thread is not
\* already queued cannot fail (ThreadQueue.cpp:32).
HandOverTargetIsBlocked ==
  \A t \in Threads : pc[t] = "handing" =>
    /\ pc[next[t]] \in {"blocking", "blocked"}
    /\ next[t] \notin runnable
    /\ \A u \in Threads \ {t} : pc[u] = "handing" => next[u] # next[t]

\* What a thread may rely on when tryAcquiringLock or releaseAndGetNext made it
\* the owner of a monitor: nobody else owns it, the flag is set as long as
\* somebody does, whoever blocks is listed, and a hand-over names a thread that
\* still blocks there.
MonitorsAreExclusive ==
  /\ TypeOK
  /\ MutualExclusion
  /\ LockedWhileOwned
  /\ BlockedListIsAccurate
  /\ HandOverTargetIsBlocked

=============================================================================
