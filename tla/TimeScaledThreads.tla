-------------------------- MODULE TimeScaledThreads --------------------------
(* The queue of runnable threads as the heap it is (ThreadQueue,            *)
(* AdaptiblePQueue), under the loosely synchronised schedulers.  A thread   *)
(* in a time-scaled method stays queued while it runs, a slot ahead of its  *)
(* time: a barrier the other cores must not pass.  Clocks change outside    *)
(* the queue's lock, and the heap is rebuilt later, in another step.        *)
EXTENDS Integers, Sequences, SequencesExt

CONSTANTS HeapThreads,  \* the threads of the application
          Scalable,     \* those that call time-scaled methods
          CoreIds,      \* the schedulers
          None,         \* no thread
          MaxErt        \* bound: timestamps lie in -MaxErt .. MaxErt

ASSUME HeapAssumption ==
  /\ Scalable \subseteq HeapThreads /\ None \notin HeapThreads /\ MaxErt \in Nat

\* schedulerTimeslot, in the unit of the timestamps.
Slot == 1

VARIABLES
  queue,   \* AdaptiblePQueue::c, the array of the heap
  ert,     \* thread -> estimatedRealTime
  st,      \* thread -> currentState; TIMED is WAITING with a timeout
  scaled,  \* thread -> is its time scaling factor other than 1?
  at,      \* thread -> what is left of the operation it is in, "free" between two
  core,    \* thread -> its controlling manager
  running, \* scheduler -> runningThread
  stale    \* has a queued thread's time changed since the heap was rebuilt? (history)

heapVars == <<queue, ert, st, scaled, at, core, running, stale>>

(***************************************************************************)
(* std::push_heap, std::pop_heap and std::make_heap of libstdc++, with the *)
(* thread of the least timestamp on top.                                   *)
(***************************************************************************)
Swap(q, i, j) == [q EXCEPT ![i] = q[j], ![j] = q[i]]

RECURSIVE SiftUp(_, _, _, _)
SiftUp(q, e, i, topmost) ==
  IF i \div 2 >= topmost /\ e[q[i \div 2]] > e[q[i]]
  THEN SiftUp(Swap(q, i, i \div 2), e, i \div 2, topmost) ELSE q

\* The hole sinks to the bottom, whatever is put into it; the element rises again.
RECURSIVE AdjustHeap(_, _, _, _)
AdjustHeap(q, e, i, topmost) ==
  LET left == 2 * i
      child == IF left < Len(q) /\ e[q[left + 1]] <= e[q[left]] THEN left + 1 ELSE left
  IN IF left > Len(q) THEN SiftUp(q, e, i, topmost)
     ELSE AdjustHeap(Swap(q, i, child), e, child, topmost)

RECURSIVE MakeHeap(_, _, _)
MakeHeap(q, e, i) == IF i = 0 THEN q ELSE MakeHeap(AdjustHeap(q, e, i, i), e, i - 1)

PushHeap(q, e, t) == SiftUp(Append(q, t), e, Len(q) + 1, 1)
PopHeap(q, e) ==
  IF Len(q) = 1 THEN <<>> ELSE AdjustHeap(<<Last(q)>> \o SubSeq(q, 2, Len(q) - 1), e, 1, 1)

(***************************************************************************)
(* ThreadQueue: each operation is one step, under its mutex.               *)
(***************************************************************************)
Queued(t) == t \in ToSet(queue)

push(t) == queue' = PushHeap(queue, ert, t) /\ UNCHANGED stale

rebuild(q) == queue' = MakeHeap(q, ert, Len(q) \div 2) /\ stale' = FALSE

update == rebuild(queue)

\* The first copy is taken out.
erase(t) ==
  rebuild(IF Queued(t)
          THEN LET i == SelectInSeq(queue, LAMBDA u : u = t) IN RemoveAt(queue, i)
          ELSE queue)

top == IF queue = <<>> THEN None ELSE Head(queue)

pop == queue' = PopHeap(queue, ert) /\ UNCHANGED stale

\* The time of a thread changes, wherever the thread is.
InBounds(time) == time \in (-MaxErt)..MaxErt
SetErt(t, time) ==
  /\ InBounds(time)
  /\ ert' = [ert EXCEPT ![t] = time]
  /\ stale' = (stale \/ (Queued(t) /\ time # ert[t]))

(***************************************************************************)
(* LooseParallelThreadManager.  An operation holds the key of its thread   *)
(* from its first step to its last.                                        *)
(***************************************************************************)
HeapInit ==
  /\ queue = <<>> /\ stale = FALSE
  /\ ert = [t \in HeapThreads |-> 0]
  /\ st = [t \in HeapThreads |-> "NATIVE"]
  /\ scaled = [t \in HeapThreads |-> FALSE]
  /\ at = [t \in HeapThreads |-> "free"]
  /\ \E c \in CoreIds : core = [t \in HeapThreads |-> c]
  /\ running = [c \in CoreIds |-> None]

Go(t, label) == at' = [at EXCEPT ![t] = label]
Become(t, state) == st' = [st EXCEPT ![t] = state]
unsetCurrentThreadFromRunningThread(t) ==
  running' = [c \in CoreIds |-> IF running[c] = t THEN None ELSE running[c]]

\* The barrier comes off when time has passed; `timeout` comes on top.
locklessUpdateTimeBy(t, diff, timeout) ==
  SetErt(t, ert[t] + diff + timeout - IF scaled[t] /\ diff > 0 THEN Slot ELSE 0)

\* setRunningThread.  With another thread running on the core, it is suspended again.
setRunningThread(t) ==
  /\ at[t] = "resumed"
  /\ IF running[core[t]] \in {None, t}
     THEN /\ running' = [running EXCEPT ![core[t]] = t]
          /\ Become(t, "RUNNING")
          /\ IF scaled[t] THEN SetErt(t, ert[t] + Slot) /\ Go(t, "insert")
             ELSE UNCHANGED <<ert, stale>> /\ Go(t, "free")
          /\ UNCHANGED queue
     ELSE IF Queued(t)
     THEN Become(t, "SUSPENDED") /\ Go(t, "free") /\ UNCHANGED <<queue, ert, running, stale>>
     ELSE Go(t, "suspend") /\ UNCHANGED <<queue, ert, st, running, stale>>
  /\ UNCHANGED <<scaled, core>>

insertBarrier(t) ==
  /\ at[t] = "insert"
  /\ IF Queued(t) THEN update ELSE push(t)
  /\ Go(t, "free")
  /\ UNCHANGED <<ert, st, scaled, core, running>>

\* Mutant: the queue is only reordered.
setSuspendedAndPush_Update(t) ==
  /\ at[t] = "push" /\ update /\ Become(t, "SUSPENDED") /\ Go(t, "free")
  /\ UNCHANGED <<ert, scaled, core, running>>

\* setSuspendedAndPushToRunnables, in two steps: the barrier, then the queue.
clearBarrier(t) ==
  /\ at[t] = "suspend"
  /\ unsetCurrentThreadFromRunningThread(t)
  /\ IF scaled[t] THEN SetErt(t, ert[t] - Slot) ELSE UNCHANGED <<ert, stale>>
  /\ Go(t, "push")
  /\ UNCHANGED <<queue, st, scaled, core>>

setSuspendedAndPush(t) ==
  /\ at[t] = "push"
  /\ IF ~scaled[t] \/ st[t] \in {"NATIVE", "SUSPENDED", "WAITING", "TIMED"} THEN push(t) ELSE update
  /\ Become(t, "SUSPENDED") /\ Go(t, "free")
  /\ UNCHANGED <<ert, scaled, core, running>>

\* notifySchedulerForVirtualizedTime, on entry to a scaled method ...
startScaling(t) ==
  /\ at[t] = "free" /\ st[t] = "RUNNING" /\ t \in Scalable /\ ~scaled[t]
  /\ scaled' = [scaled EXCEPT ![t] = TRUE]
  /\ Go(t, "resumed")
  /\ UNCHANGED <<queue, ert, st, core, running, stale>>

\* ... and on exit.
stopScaling(t) ==
  /\ at[t] = "free" /\ st[t] = "RUNNING" /\ scaled[t]
  /\ scaled' = [scaled EXCEPT ![t] = FALSE]
  /\ erase(t) /\ Go(t, "unscaled")
  /\ UNCHANGED <<ert, st, core, running>>

removeBarrier(t) ==
  /\ at[t] = "unscaled"
  /\ SetErt(t, ert[t] - Slot)
  /\ Go(t, "free")
  /\ UNCHANGED <<queue, st, scaled, core, running>>

\* A thread suspends itself: it yields, or comes back from native code.
suspendCurrentThread(t) ==
  /\ at[t] = "free" /\ st[t] \in {"RUNNING", "NATIVE"}
  /\ \E diff \in 0..1 : locklessUpdateTimeBy(t, diff, 0)
  /\ \/ queue # <<>> /\ Go(t, "suspend")
     \/ running[core[t]] = t /\ UNCHANGED at
     \/ queue = <<>> /\ running[core[t]] # t /\ Go(t, "resumed")
  /\ UNCHANGED <<queue, st, scaled, core, running>>

\* Thread.yield, charged as one unit: behind every thread that could run instead.
getHighestRunnableTime(time) ==
  Max({time} \cup {ert[u] : u \in {v \in ToSet(queue) : st[v] \in {"SUSPENDED", "NATIVE"}}})
onThreadYield(t) ==
  /\ at[t] = "free" /\ st[t] = "RUNNING"
  /\ SetErt(t, 1 + getHighestRunnableTime(ert[t] + IF scaled[t] THEN 1 - Slot ELSE 1))
  /\ Go(t, "suspend") \/ (queue = <<>> /\ UNCHANGED at)
  /\ UNCHANGED <<queue, st, scaled, core, running>>

\* A thread that ends is not looked for in the queue.
onThreadEnd(t) ==
  /\ at[t] = "free" /\ st[t] = "RUNNING"
  /\ \E diff \in 0..1 : locklessUpdateTimeBy(t, diff, 0)
  /\ unsetCurrentThreadFromRunningThread(t)
  /\ Become(t, "DEAD")
  /\ UNCHANGED <<queue, scaled, at, core>>

\* The scheduler signals its thread; the handler commits the time ...
onSignalledFromScheduler(c) ==
  \E t \in HeapThreads \cap {running[c]} :
    /\ at[t] = "free"
    /\ \E diff \in 0..1 : locklessUpdateTimeBy(t, diff, 0)
    /\ Go(t, "asked")
    /\ UNCHANGED <<queue, st, scaled, core, running>>

\* ... and the scheduler does what the thread intends.
setSuspended(t) ==
  /\ at[t] = "asked"
  /\ unsetCurrentThreadFromRunningThread(t)
  /\ Become(t, "SUSPENDED") /\ Go(t, "free")
  /\ IF scaled[t] THEN update ELSE push(t)
  /\ UNCHANGED <<ert, scaled, core>>

onIntentionToKeepOnRunning(t) ==
  /\ at[t] = "asked"
  /\ IF scaled[t] THEN SetErt(t, ert[t] + Slot) /\ Go(t, "update")
     ELSE UNCHANGED <<ert, stale>> /\ Go(t, "free")
  /\ UNCHANGED <<queue, st, scaled, core, running>>

onIntentionToBeDisregarded(t) ==
  /\ at[t] = "asked"
  /\ unsetCurrentThreadFromRunningThread(t)
  /\ Become(t, "NATIVE") /\ Go(t, "free")
  /\ IF scaled[t] THEN erase(t) ELSE UNCHANGED <<queue, stale>>
  /\ UNCHANGED <<ert, scaled, core>>

updateQueue(t) ==
  /\ at[t] = "update"
  /\ update /\ Go(t, "free")
  /\ UNCHANGED <<ert, st, scaled, core, running>>

\* onReplacedTimedWaiting: the timestamp, then setTimedWaitingThread.
startSleeping(t) ==
  /\ at[t] = "free" /\ st[t] = "RUNNING"
  /\ \E diff \in 0..1 : locklessUpdateTimeBy(t, diff, 1)
  /\ Go(t, "sleep")
  /\ UNCHANGED <<queue, st, scaled, core, running>>

setTimedWaitingThread(t) ==
  /\ at[t] = "sleep"
  /\ unsetCurrentThreadFromRunningThread(t)
  /\ Become(t, "TIMED") /\ push(t) /\ Go(t, "free")
  /\ UNCHANGED <<ert, scaled, core>>

onReplacedWaiting(t) ==
  /\ at[t] = "free" /\ st[t] = "RUNNING"
  /\ unsetCurrentThreadFromRunningThread(t)
  /\ Become(t, "WAITING")
  /\ UNCHANGED <<queue, ert, scaled, at, core, stale>>

\* A notification by thread u: the time first, then the queue.
onReplacedWaitingInterrupt(u, t) ==
  /\ at[u] = "free" /\ st[u] = "RUNNING"
  /\ at[t] = "free" /\ st[t] \in {"WAITING", "TIMED"}
  /\ SetErt(t, ert[u])
  /\ Become(t, "SUSPENDED")
  /\ Go(t, IF st[t] = "TIMED" THEN "update" ELSE "again")
  /\ UNCHANGED <<queue, scaled, core, running>>

\* The push at the end of a notification, or of a leap that was refused.
pushAgain(t) ==
  /\ at[t] = "again"
  /\ push(t) /\ Go(t, "free")
  /\ UNCHANGED <<ert, st, scaled, core, running>>

\* getNextIfEqualsElseReturnTop and continueThread: a running thread on top holds
\* every scheduler back; what cannot be resumed is dropped.  A timed waiting thread
\* may go back (ForwardLeaps), and so may a suspended one that has not timed out.
continueQueuedThread(c) ==
  \E t \in HeapThreads \cap {top} :
    /\ running[c] = None /\ at[t] = "free" /\ st[t] # "RUNNING"
    /\ pop
    /\ \/ /\ st[t] \in {"SUSPENDED", "TIMED"}
          /\ core' = [core EXCEPT ![t] = c] /\ Go(t, "resumed") /\ Become(t, "SUSPENDED")
       \/ st[t] \in {"SUSPENDED", "TIMED"} /\ Go(t, "again") /\ UNCHANGED <<core, st>>
       \/ st[t] \notin {"SUSPENDED", "TIMED"} /\ UNCHANGED <<core, at, st>>
    /\ UNCHANGED <<ert, scaled, running>>

HeapNext ==
  \/ \E t \in HeapThreads :
       \/ setRunningThread(t) \/ insertBarrier(t) \/ clearBarrier(t) \/ setSuspendedAndPush(t)
       \/ startScaling(t) \/ stopScaling(t) \/ removeBarrier(t)
       \/ suspendCurrentThread(t) \/ onThreadYield(t) \/ setSuspended(t) \/ onIntentionToKeepOnRunning(t)
       \/ onIntentionToBeDisregarded(t) \/ updateQueue(t)
       \/ startSleeping(t) \/ setTimedWaitingThread(t) \/ onReplacedWaiting(t)
       \/ pushAgain(t) \/ onThreadEnd(t) \/ \E u \in HeapThreads : onReplacedWaitingInterrupt(u, t)
  \/ \E c \in CoreIds : onSignalledFromScheduler(c) \/ continueQueuedThread(c)

HeapSpec == HeapInit /\ [][HeapNext]_heapVars

(***************************************************************************)
(* Properties                                                              *)
(***************************************************************************)
\* Whenever no time has changed since the last update of the queue, the heap is in
\* order, duplicates and all: the scheduler resumes the thread that is earliest.
QueueIsOrderedWhenSettled ==
  ~stale => \A i \in 2..Len(queue) : ert[queue[i \div 2]] <= ert[queue[i]]

\* No suspended thread is lost: it is queued, or somebody is about to resume or to
\* queue it.
SuspendedThreadIsQueued ==
  \A t \in HeapThreads : st[t] \in {"SUSPENDED", "TIMED"} /\ at[t] \in {"free", "update"} => Queued(t)

\* A thread that runs a scaled method holds the other cores back: its barrier is in
\* the queue all the time.
ScaledThreadHoldsTheOthersBack ==
  \A t \in HeapThreads : st[t] = "RUNNING" /\ scaled[t] /\ at[t] \in {"free", "update"} => Queued(t)

\* The runnable heap is in order whenever no clock of a queued thread has
\* changed since, has every suspended thread, and shows the other cores a
\* running time-scaled thread as a barrier.
HeapIsSound ==
  /\ QueueIsOrderedWhenSettled
  /\ SuspendedThreadIsQueued
  /\ ScaledThreadHoldsTheOthersBack

=============================================================================
