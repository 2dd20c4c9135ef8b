-------------------------- MODULE ModelSimulation --------------------------
(***************************************************************************)
(* Methods described by a performance model: the calling thread becomes a  *)
(* customer of a queueing network, its position in the network is advanced *)
(* in virtual time by the scheduler (or, for the rest of its timeslice, by *)
(* the thread itself) while the thread runs the method's real code, and    *)
(* the two meet again when the method returns.                             *)
(*                                                                         *)
(* Sources: vex/models (VexQueueingNode, VexInfiniteServerNode and their   *)
(* local variants, PostActionNode, VexSchedSimCustomer,                    *)
(* VexSchedSimQueueingNetwork), threads/ModelHandler.cpp,                  *)
(* threads/ThreadState.cpp, scheduler/ThreadManager.cpp, cinqs/network.    *)
(*                                                                         *)
(* One manager and a single virtual timeline.  A step is a section between *)
(* two lock operations of a node; time is in units of which Slot make a    *)
(* timeslice.  A service demand is a choice from Demands.                  *)
(***************************************************************************)
EXTENDS Integers, Sequences, FiniteSets, SequencesExt

CONSTANTS
  Threads,
  NoThread,
  Scheduler,   \* the scheduler thread, as a simulator and holder of keys
  Nodes,       \* the nodes of the network
  Kind,        \* node -> "source", "queue", "localQueue", "delay", "localDelay" or "sink"
  Links,       \* node -> the nodes its link may send a customer to
  Servers,     \* queueing node -> its number of resources
  Demands,     \* service times, 0 included: a sample below 1 ns
  Slot,        \* schedulerTimeslot
  MaxCalls,    \* bound: modelled calls a thread makes
  MaxTime      \* bound on the time stamps

ASSUME DistinctAssumption ==
  Scheduler \notin Threads /\ NoThread \notin Threads /\ NoThread # Scheduler
ASSUME FiniteAssumption == IsFiniteSet(Threads)
ASSUME NetworkAssumption ==
  /\ Kind \in [Nodes -> {"source", "queue", "localQueue", "delay", "localDelay", "sink"}]
  /\ Links \in [Nodes -> SUBSET Nodes]
  /\ \E n \in Nodes : Kind[n] = "source"
ASSUME BoundsAssumption ==
  Slot \in Nat \ {0} /\ MaxCalls \in Nat /\ MaxTime \in Nat /\ 0 \in Demands /\ Demands \subseteq Nat

Queueing == {n \in Nodes : Kind[n] \in {"queue", "localQueue"}}
Local == {n \in Nodes : Kind[n] \in {"localQueue", "localDelay"}}
Source == CHOOSE n \in Nodes : Kind[n] = "source"
ASSUME ServersAssumption == Servers \in [Queueing -> Nat \ {0}]

VARIABLES
  pc,          \* thread -> where its own code is
  calls,       \* thread -> modelled calls made
  state,       \* thread -> VexThreadState::currentState
  key,         \* thread -> holder of its sharedAccessKey
  simulatingModel,
  ert,         \* thread -> Timers::estimatedRealTime
  resumedAt,   \* thread -> Timers::resumedLastAt
  ran,         \* thread -> Timers::localTimeSinceLastResume
  timeout,     \* thread -> Timers::timeout
  currentNode, \* thread -> <<node, "enter" | "queued" | "served">>
  remaining,   \* thread -> ModelHandler::remainingLocalResourceConsumption
  budget,      \* thread -> totalExecutionTime of its current simulator
  at,          \* thread -> is a simulator "in" its loop, at its "test", or "no" simulator
  claimed,     \* queueing node -> resources in use
  waiting,     \* queueing node -> its FIFOQueue of customers
  due,         \* thread -> when its call started plus the demands since (history)
  queue,       \* runnableThreads, as a set
  heap,        \* is runnableThreads ordered?
  gvt,
  runningThread,
  failed       \* has the assertion of ThreadQueue::push failed?

clocks == <<ert, resumedAt, ran, timeout>>
network == <<claimed, waiting>>
place == <<currentNode, remaining, budget, at>>
vars == <<pc, calls, state, key, simulatingModel, ert, resumedAt, ran, timeout, currentNode,
          remaining, budget, at, claimed, waiting, due, queue, heap, gvt,
          runningThread, failed>>

Later(x, y) == IF x < y THEN y ELSE x
Set(f, t, v) == [f EXCEPT ![t] = v]

\* ThreadQueue::push, with its assertion.
push(ts) ==
  /\ queue' = queue \cup ts
  /\ failed' = (failed \/ ts \cap queue # {})

\* The thread at the root of the heap: the earliest one, unless a time stamp
\* was changed under the heap.
Top(t) == t \in queue /\ (heap => \A u \in queue : ert[t] <= ert[u])

TypeOK ==
  /\ pc \in [Threads -> {"user", "simulate", "real", "exit", "asleep", "ended"}]
  /\ calls \in [Threads -> 0..MaxCalls]
  /\ state \in [Threads -> {"RUNNING", "SUSPENDED", "IN_MODEL", "IN_MODEL_WAITING",
                            "AFTER_MODEL", "ENDED"}]
  /\ key \in [Threads -> Threads \cup {Scheduler, NoThread}]
  /\ simulatingModel \in [Threads -> BOOLEAN]
  /\ ert \in [Threads -> Nat] /\ resumedAt \in [Threads -> Nat] /\ ran \in [Threads -> Nat]
  /\ timeout \in [Threads -> Nat \cup {-1}]
  /\ currentNode \in [Threads -> Nodes \X {"enter", "queued", "served", "finished"}]
  /\ remaining \in [Threads -> Nat] /\ budget \in [Threads -> Int]
  /\ at \in [Threads -> {"no", "in", "test"}]
  /\ claimed \in [Queueing -> Nat] /\ waiting \in [Queueing -> Seq(Threads)]
  /\ due \in [Threads -> Nat]
  /\ queue \subseteq Threads /\ heap \in BOOLEAN /\ gvt \in Nat
  /\ runningThread \in Threads \cup {NoThread} /\ failed \in BOOLEAN

Init ==
  /\ pc = [t \in Threads |-> "asleep"]
  /\ calls = [t \in Threads |-> 0]
  /\ state = [t \in Threads |-> "SUSPENDED"]
  /\ key = [t \in Threads |-> NoThread]
  /\ simulatingModel = [t \in Threads |-> FALSE]
  /\ ert = [t \in Threads |-> 0] /\ resumedAt = ert /\ ran = ert
  /\ timeout = [t \in Threads |-> -1]
  /\ currentNode = [t \in Threads |-> <<Source, "enter">>]
  /\ remaining = ert /\ budget = ert
  /\ at = [t \in Threads |-> "no"]
  /\ claimed = [n \in Queueing |-> 0]
  /\ waiting = [n \in Queueing |-> <<>>]
  /\ due = ert
  /\ queue = Threads /\ heap = TRUE /\ gvt = 0
  /\ runningThread = NoThread /\ failed = FALSE
-----------------------------------------------------------------------------
\* A running thread consumes CPU time.
compute(t) ==
  /\ state[t] = "RUNNING" /\ pc[t] = "user"
  /\ ran[t] < Slot /\ ert[t] < MaxTime
  /\ ert' = Set(ert, t, ert[t] + 1)
  /\ ran' = Set(ran, t, ran[t] + 1)
  /\ UNCHANGED <<pc, calls, state, key, simulatingModel, resumedAt, timeout, place, network, due,
                 queue, heap, gvt, runningThread, failed>>

shouldCurrentThreadSuspend(t) ==
  \/ runningThread \notin {NoThread, t}
  \/ /\ 4 * (ert[t] - resumedAt[t]) >= 3 * Slot
     /\ \E u \in queue : Top(u) /\ ert[t] > ert[u]

\* ThreadManager::suspendThread of the running thread, which decides itself.
suspendThread(t) ==
  /\ runningThread = t /\ pc[t] = "user" /\ key[t] = NoThread
  /\ shouldCurrentThreadSuspend(t)
  /\ gvt' = Later(gvt, resumedAt[t] + ran[t])
  /\ runningThread' = NoThread
  /\ state' = Set(state, t, "SUSPENDED")
  /\ pc' = Set(pc, t, "asleep")
  /\ push({t})
  /\ UNCHANGED <<calls, key, simulatingModel, clocks, place, network, due, heap>>

\* The thread ends, once it has made its calls.
onEnd(t) ==
  /\ runningThread = t /\ pc[t] = "user" /\ calls[t] = MaxCalls
  /\ pc' = Set(pc, t, "ended")
  /\ state' = Set(state, t, "ENDED")
  /\ runningThread' = NoThread
  /\ gvt' = Later(gvt, resumedAt[t] + ran[t])
  /\ UNCHANGED <<calls, key, simulatingModel, clocks, place, network, due, queue, heap, failed>>

\* resumeThread and the resumed thread's setRunningThread.
resumeThread(t) ==
  /\ state[t] = "SUSPENDED" /\ pc[t] = "asleep" /\ key[t] = NoThread
  /\ queue' = queue \ {t}
  /\ state' = Set(state, t, "RUNNING")
  /\ pc' = Set(pc, t, "user")
  /\ runningThread' = t
  /\ resumedAt' = Set(resumedAt, t, gvt)
  /\ ran' = Set(ran, t, 0)
  /\ ert' = Set(ert, t, Later(ert[t], gvt))
  /\ UNCHANGED <<calls, key, simulatingModel, timeout, place, network, due, heap, gvt, failed>>
-----------------------------------------------------------------------------
\* afterMethodEntryUsingPerformanceModel up to the simulation loop: the thread
\* gives up its controlling lock and the running slot and, while its timeslice
\* lasts, starts the simulation itself.
simulate(t) ==
  /\ state[t] = "RUNNING" /\ pc[t] = "user" /\ calls[t] < MaxCalls /\ key[t] = NoThread
  /\ LET rest == Slot - (ert[t] - resumedAt[t])
         self == rest > 0 /\ timeout[t] <= 0
     IN  /\ IF self THEN UNCHANGED <<queue, failed>> ELSE push({t})
         /\ key' = Set(key, t, IF self THEN t ELSE NoThread)
         /\ pc' = Set(pc, t, IF self THEN "simulate" ELSE "real")
         /\ at' = Set(at, t, IF self THEN "in" ELSE "no")
         /\ budget' = Set(budget, t, IF self THEN rest ELSE 0)
  /\ calls' = Set(calls, t, calls[t] + 1)
  /\ state' = Set(state, t, "IN_MODEL")
  /\ simulatingModel' = Set(simulatingModel, t, TRUE)
  /\ currentNode' = Set(currentNode, t, <<Source, "enter">>)
  /\ runningThread' = IF runningThread = t THEN NoThread ELSE runningThread
  /\ due' = Set(due, t, ert[t])
  /\ UNCHANGED <<clocks, remaining, network, heap, gvt>>

\* A thread that is not before the one that wants to leap.
isDefinitelyActive(u) ==
  state[u] \in {"SUSPENDED", "RUNNING"} \/ pc[u] \in {"simulate", "exit"}

earlier(t) == {u \in Threads : state[u] # "ENDED" /\ ert[u] < ert[t]}
maybeAlive(t) ==
  {u \in earlier(t) : ~isDefinitelyActive(u) /\ ert[t] - ert[u] < 2 * (ert[t] - gvt)}

\* isValidToLeapInVirtualTimeTo and areAnyOtherThreadsActiveInFormerTime: the
\* first thread found decides; one that may be alive only delays the leap.
leapIsAllowed(t) ==
  ert[t] < gvt \/ maybeAlive(t) # {} \/ \A u \in earlier(t) : ~isDefinitelyActive(u)

leapIsRefused(t) ==
  ert[t] >= gvt /\ earlier(t) # {}

isModelTimedWaiting(t) == state[t] = "IN_MODEL" /\ timeout[t] > 0

\* Mutant of resumeModelSimulation: a customer in a timed service is always
\* pushed back.
resumeModelSimulation_Refused(t) ==
  /\ state[t] = "IN_MODEL" /\ key[t] = NoThread
  /\ \/ isModelTimedWaiting(t) /\ UNCHANGED vars
     \/ /\ ~isModelTimedWaiting(t)
        /\ queue' = queue \ {t}
        /\ key' = Set(key, t, Scheduler)
        /\ ert' = Set(ert, t, Later(ert[t], gvt))
        /\ resumedAt' = Set(resumedAt, t, gvt)
        /\ ran' = Set(ran, t, 0)
        /\ budget' = Set(budget, t, (6 * Slot) \div 5)
        /\ at' = Set(at, t, "in")
        /\ UNCHANGED <<pc, calls, state, simulatingModel, timeout, currentNode, remaining,
                       network, due, heap, gvt, runningThread, failed>>

\* resumeModelSimulation of the scheduler, up to the simulation loop.
resumeModelSimulation(t) ==
  /\ state[t] = "IN_MODEL" /\ key[t] = NoThread
  /\ isModelTimedWaiting(t) => leapIsAllowed(t)
  /\ queue' = queue \ {t}
  /\ key' = Set(key, t, Scheduler)
  /\ IF isModelTimedWaiting(t)
     THEN gvt' = Later(gvt, ert[t]) /\ timeout' = Set(timeout, t, -1) /\ UNCHANGED ert
     ELSE ert' = Set(ert, t, Later(ert[t], gvt)) /\ UNCHANGED <<gvt, timeout>>
  /\ resumedAt' = Set(resumedAt, t, gvt')
  /\ ran' = Set(ran, t, 0)
  /\ budget' = Set(budget, t, (6 * Slot) \div 5)
  /\ at' = Set(at, t, "in")
  /\ UNCHANGED <<pc, calls, state, simulatingModel, currentNode, remaining, network, due, heap,
                 runningThread, failed>>

\* A leap that is not valid: the thread is pushed back.
leapRefused(t) ==
  /\ isModelTimedWaiting(t) /\ key[t] = NoThread
  /\ leapIsRefused(t)
  /\ UNCHANGED vars
-----------------------------------------------------------------------------
\* simulateLocalServiceTime: local resources are consumed within the timeslot.
simulateLocalServiceTime(t) ==
  LET served == IF remaining[t] <= budget[t] THEN remaining[t] ELSE budget[t]
  IN  /\ remaining[t] > 0
      /\ ert' = Set(ert, t, ert[t] + served)
      /\ ran' = Set(ran, t, ran[t] + served)
      /\ remaining' = Set(remaining, t, remaining[t] - served)
      /\ budget' = Set(budget, t, budget[t] - served)
      /\ UNCHANGED <<resumedAt, timeout, currentNode, state, network, due, queue, failed>>

\* A remote service is a wait with a timeout, without a change of state.
waitRemote(t, d) ==
  /\ timeout' = Set(timeout, t, d)
  /\ ert' = Set(ert, t, ert[t] + d)
  /\ budget' = Set(budget, t, budget[t] - d)
  /\ UNCHANGED remaining

\* A local service is left for simulateLocalServiceTime.
service(t, d) ==
  /\ remaining' = Set(remaining, t, d)
  /\ UNCHANGED <<ert, timeout, budget>>

\* Serve customer t at node n; afterwards it is at the node's post service action.
invokeService(t, n) ==
  \E d \in Demands :
    /\ d = 0 \/ ert[t] + d <= MaxTime
    /\ IF n \in Local THEN service(t, d) ELSE waitRemote(t, d)
    /\ due' = Set(due, t, due[t] + d)
    /\ currentNode' = Set(currentNode, t, <<n, "served">>)
    /\ UNCHANGED <<resumedAt, ran>>

\* Link::move of a scheduler-simulated network: only the location changes.
forward(t, n) ==
  \E next \in Links[n] : currentNode' = Set(currentNode, t, <<next, "enter">>)

\* The customer waits in the queue, and its thread is not runnable.
blockAtQueue(t, n) ==
  /\ waiting' = Set(waiting, n, Append(waiting[n], t))
  /\ state' = Set(state, t, "IN_MODEL_WAITING")
  /\ currentNode' = Set(currentNode, t, <<n, "queued">>)

\* VexQueueingNode::accept.
accept(t, n) ==
  \/ /\ claimed[n] < Servers[n]
     /\ claimed' = Set(claimed, n, claimed[n] + 1)
     /\ invokeService(t, n)
     /\ UNCHANGED <<waiting, state, queue, failed>>
  \/ /\ claimed[n] >= Servers[n]
     /\ blockAtQueue(t, n)
     /\ UNCHANGED <<clocks, remaining, budget, claimed, due, queue, failed>>

\* Whoever gives a resource to customer c makes its thread runnable.
resume(c, time) ==
  /\ state' = Set(state, c, "IN_MODEL")
  /\ ert' = Set(ert, c, Later(ert[c], time))
  /\ push({c})

\* The resource goes to the first waiting customer, or is released.
releaseResourceAt(t, n) ==
  IF waiting[n] # <<>>
  THEN /\ waiting' = Set(waiting, n, Tail(waiting[n]))
       /\ resume(Head(waiting[n]), ert[t])
       /\ UNCHANGED claimed
  ELSE /\ claimed' = Set(claimed, n, claimed[n] - 1)
       /\ UNCHANGED <<waiting, state, ert, queue, failed>>

\* PostServiceActionNode::enter, and PostActionInfiniteServer::enter for the
\* nodes without resources.
onCompletingService(t, n) ==
  /\ forward(t, n)
  /\ IF n \in Queueing
     THEN releaseResourceAt(t, n)
     ELSE UNCHANGED <<network, state, ert, queue, failed>>
  /\ UNCHANGED <<resumedAt, ran, timeout, remaining, budget, due>>

\* Sink::accept.
absorb(t, n) ==
  /\ currentNode' = Set(currentNode, t, <<n, "finished">>)
  /\ UNCHANGED <<clocks, network, state, remaining, budget, due, queue, failed>>

\* CinqsNode::enter and accept of a source.
pass(t, n) ==
  /\ forward(t, n)
  /\ UNCHANGED <<clocks, network, state, remaining, budget, due, queue, failed>>

\* onCompletingQueueing, and accept of a node without resources.
serve(t, n) ==
  /\ invokeService(t, n)
  /\ UNCHANGED <<network, state, queue, failed>>

\* enter of the current node, or of the post action node left there.
enter(t) ==
  LET n == currentNode[t][1]
      phase == currentNode[t][2]
  IN  /\ remaining[t] = 0
      /\ \/ phase = "served" /\ onCompletingService(t, n)
         \/ phase = "queued" /\ serve(t, n)
         \/ phase = "enter" /\ Kind[n] = "source" /\ pass(t, n)
         \/ phase = "enter" /\ n \in Queueing /\ accept(t, n)
         \/ phase = "enter" /\ Kind[n] \in {"delay", "localDelay"} /\ serve(t, n)
         \/ phase = "enter" /\ Kind[n] = "sink" /\ absorb(t, n)

\* One turn of the loop of VexThreadState::resumeModelSimulation.
simulationStep(t) ==
  /\ at[t] = "in"
  /\ simulateLocalServiceTime(t) \/ enter(t)
  /\ at' = Set(at, t, "test")
  /\ UNCHANGED <<pc, calls, key, simulatingModel, heap, gvt, runningThread>>

finished(t) == currentNode[t][2] = "finished"

\* Mutant of simulationGoesOn: a customer in the queue of a node is simulated on.
simulationGoesOn_Queued(t) ==
  ~finished(t) /\ state[t] \in {"IN_MODEL", "IN_MODEL_WAITING"} /\ timeout[t] <= 0
  /\ budget[t] > 0

simulationGoesOn(t) ==
  ~finished(t) /\ state[t] = "IN_MODEL" /\ timeout[t] <= 0 /\ budget[t] > 0

simulationContinues(t) ==
  /\ at[t] = "test" /\ simulationGoesOn(t)
  /\ at' = Set(at, t, "in")
  /\ UNCHANGED <<pc, calls, state, key, simulatingModel, clocks, currentNode, remaining, budget,
                 network, due, queue, heap, gvt, runningThread, failed>>

\* The real code may return from here on: the thread waits, in the queue, at
\* the time it was last resumed.
waitForRealCodeToComplete(t) ==
  /\ state' = Set(state, t, "AFTER_MODEL")
  /\ ert' = Set(ert, t, resumedAt[t])
  /\ resumedAt' = Set(resumedAt, t, ert[t])
  /\ simulatingModel' = Set(simulatingModel, t, FALSE)
  /\ push({t})

\* What becomes of the thread when the loop ends.
_simulateModel(t) ==
  IF finished(t)
  THEN waitForRealCodeToComplete(t)
  ELSE /\ IF state[t] = "IN_MODEL" THEN push({t}) ELSE UNCHANGED <<queue, failed>>
       /\ UNCHANGED <<state, ert, resumedAt, simulatingModel>>

\* commitModelSimulationProgress, _simulateModel's end and the return of the
\* simulator, which releases the thread's key.
simulationStops(t) ==
  /\ at[t] = "test" /\ ~simulationGoesOn(t)
  /\ gvt' = IF isModelTimedWaiting(t) THEN gvt ELSE Later(gvt, resumedAt[t] + ran[t])
  /\ _simulateModel(t)
  /\ pc' = IF pc[t] = "simulate" THEN Set(pc, t, "real") ELSE pc
  /\ key' = Set(key, t, NoThread)
  /\ at' = Set(at, t, "no")
  /\ budget' = Set(budget, t, 0)
  /\ UNCHANGED <<calls, ran, timeout, currentNode, remaining, network, due, heap,
                 runningThread>>
-----------------------------------------------------------------------------
\* Mutant of blockUntilModelSimulationEnd: the real code returns at once.
blockUntilModelSimulationEnd_Not(t) == TRUE

blockUntilModelSimulationEnd(t) == ~simulatingModel[t]

\* onSynchronizeOnModelExit until it has the key: the time stamp is restored
\* without a lock, while the thread is in the runnable queue.
onSynchronizeOnModelExit(t) ==
  /\ pc[t] = "real" /\ blockUntilModelSimulationEnd(t)
  /\ ert' = Set(ert, t, resumedAt[t])
  /\ resumedAt' = Set(resumedAt, t, ert[t])
  /\ heap' = (heap /\ (t \notin queue \/ ert'[t] = ert[t]))
  /\ pc' = Set(pc, t, "exit")
  /\ UNCHANGED <<calls, state, key, simulatingModel, ran, timeout, place, network, due, queue, gvt,
                 runningThread, failed>>

\* suspendModelSimulationFinishingThread: stay in the queue and sleep, or leave
\* it (which reorders the heap) and run.
suspendModelSimulationFinishingThread(t) ==
  /\ pc[t] = "exit" /\ key[t] = NoThread
  /\ \/ /\ shouldCurrentThreadSuspend(t)
        /\ state' = Set(state, t, "SUSPENDED")
        /\ pc' = Set(pc, t, "asleep")
        /\ IF state[t] = "AFTER_MODEL" THEN UNCHANGED <<queue, failed>> ELSE push({t})
        /\ UNCHANGED <<clocks, heap, runningThread>>
     \/ /\ (~shouldCurrentThreadSuspend(t) \/ ~heap) /\ runningThread \in {NoThread, t}
        /\ IF state[t] = "AFTER_MODEL" THEN queue' = queue \ {t} /\ heap' = TRUE
                                       ELSE UNCHANGED <<queue, heap>>
        /\ state' = Set(state, t, "RUNNING")
        /\ pc' = Set(pc, t, "user")
        /\ runningThread' = t
        /\ ert' = Set(ert, t, Later(ert[t], gvt))
        /\ UNCHANGED <<resumedAt, ran, timeout, failed>>
  /\ UNCHANGED <<calls, key, simulatingModel, place, network, due, gvt>>

\* pollThreadToCheckIfActuallyRunning finds the real code blocked: the thread
\* goes behind another one, and the heap is made anew.
pollFindsBlocked(t) ==
  /\ state[t] = "AFTER_MODEL" /\ pc[t] = "real" /\ key[t] = NoThread
  /\ \E u \in queue :
       /\ ert[u] < MaxTime
       /\ ert' = Set(ert, t, Later(ert[t], ert[u] + 1))
  /\ heap' = TRUE
  /\ UNCHANGED <<pc, calls, state, key, simulatingModel, resumedAt, ran, timeout, place, network, due,
                 queue, gvt, runningThread, failed>>

\* continueThread of the thread on top, when no thread runs and the scheduler
\* is not inside a simulation.
continueThread(t) ==
  /\ runningThread = NoThread /\ \A u \in Threads : key[u] # Scheduler
  /\ Top(t)
  /\ resumeThread(t) \/ resumeModelSimulation(t) \/ leapRefused(t) \/ pollFindsBlocked(t)
-----------------------------------------------------------------------------
Over == failed \/ \A t \in Threads : pc[t] = "ended"

Step(t) ==
  \/ compute(t)
  \/ suspendThread(t)
  \/ onEnd(t)
  \/ simulate(t)
  \/ simulationStep(t)
  \/ simulationContinues(t)
  \/ simulationStops(t)
  \/ onSynchronizeOnModelExit(t)
  \/ suspendModelSimulationFinishingThread(t)
  \/ continueThread(t)

Next ==
  \/ ~failed /\ \E t \in Threads : Step(t)
  \/ Over /\ UNCHANGED vars

\* Every simulator and every thread goes on, real code returns, and no thread
\* stays on the earliest time for ever without being continued: running
\* threads' clocks advance.
Fairness ==
  \A t \in Threads :
    /\ WF_vars(~failed /\ (simulationStep(t) \/ simulationContinues(t) \/ simulationStops(t)))
    /\ WF_vars(~failed /\ onSynchronizeOnModelExit(t))
    /\ WF_vars(~failed /\ (simulate(t) \/ onEnd(t)))
    /\ SF_vars(~failed /\ suspendModelSimulationFinishingThread(t))
    /\ SF_vars(~failed /\ continueThread(t))

Spec == Init /\ [][Next]_vars /\ Fairness
-----------------------------------------------------------------------------
\* The customers in service at queueing node n.
InService(n) ==
  {t \in Threads : simulatingModel[t] /\ currentNode[t] = <<n, "served">>}

\* Resources are neither lost nor handed out twice: a claimed resource of a
\* node serves exactly one customer, or was given to a customer that has left
\* the node's queue and is on its way to be served.
ResourcesAreConserved ==
  \A n \in Queueing :
    /\ claimed[n] <= Servers[n]
    /\ claimed[n] = Cardinality(InService(n)
         \cup {t \in Threads : currentNode[t] = <<n, "queued">> /\ ~Contains(waiting[n], t)})

\* No customer is forgotten: one that waits in a network is in the queue of the
\* node it is at, and customers wait only while all resources are in use.
WaitingCustomersAreQueued ==
  \A n \in Queueing :
    /\ waiting[n] # <<>> => claimed[n] = Servers[n]
    /\ \A t \in Threads : Contains(waiting[n], t) <=> state[t] = "IN_MODEL_WAITING"
                                                    /\ currentNode[t] = <<n, "queued">>
    /\ IsInjective(waiting[n])

\* A thread is runnable, running, blocked in a node's queue, or in the hands of
\* exactly one simulator.
NoThreadIsLost ==
  ~failed => \A t \in Threads :
    \/ t \in queue
    \/ runningThread = t
    \/ at[t] # "no"
    \/ state[t] \in {"IN_MODEL_WAITING", "ENDED"}

\* Simulators that share a node neither lose nor duplicate its servers, its
\* waiting customers or the threads behind them.
CustomersKeepTheirPlace ==
  /\ TypeOK
  /\ ResourcesAreConserved
  /\ WaitingCustomersAreQueued
  /\ NoThreadIsLost

\* The method returns only after its model was simulated to the end.
MethodOutlivesItsModel ==
  \A t \in Threads : pc[t] \in {"exit", "user", "asleep"} /\ calls[t] > 0 =>
    ~simulatingModel[t] /\ finished(t) /\ remaining[t] = 0 /\ timeout[t] <= 0

\* A call is charged the service times its customer was given: when the method
\* returns, the thread's clock is past all of them.
DemandIsCharged == \A t \in Threads : pc[t] = "exit" => due[t] <= ert[t]

\* A modelled method returns after the simulation of its model and with at
\* least the demand of the services on its clock, whichever of the two ends
\* first.
MethodTakesItsModelTime ==
  /\ MethodOutlivesItsModel
  /\ DemandIsCharged

\* A thread whose real code has returned, or will, gets to run again.
EveryCallReturns ==
  \A t \in Threads : pc[t] \in {"simulate", "real", "exit"} ~> (failed \/ state[t] = "RUNNING")
=============================================================================
