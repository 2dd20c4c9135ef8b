---------------------------- MODULE ForwardLeaps ----------------------------
(* When may a scheduler leap forward in virtual time, to the timeout of the *)
(* thread at the top of its queue?  It looks at the other threads one after *)
(* the other while they go on (ThreadManager::isValidToLeapInVirtualTimeTo, *)
(* ThreadRegistry::areAnyOtherThreadsActiveInFormerTime).  Threads it cannot*)
(* judge are looked at twice, some time apart.                              *)
EXTENDS Integers, FiniteSetsExt

CONSTANTS LeapThreads,  \* the threads of the application
          Newborn,      \* those that are started by others
          Natives,      \* those that make native calls; the others wait for timeouts
          MaxTime,      \* bound: units of virtual time
          Apart,        \* ticks of real time between two looks (200 ms)
          Natwait       \* the option that names the criteria for native waiting

ASSUME LeapAssumption ==
  /\ Newborn \cup Natives \subseteq LeapThreads
  /\ {MaxTime, Apart} \subseteq Nat \ {0}

VARIABLES
  life,     \* thread -> VexThreadState::currentState; "none" before it is registered
  clockOf,  \* thread -> its estimatedRealTime
  sysState, \* thread -> does the kernel call it blocked? (external)
  spawned,  \* clock of the parent of the thread being spawned, -1 when there is none
  allowed,  \* ThreadRegistry::forwardLeapsAllowed
  pending,  \* is pendingNotifications of the scheduler above 0?
  vtime,    \* global virtual time
  look,     \* the look the scheduler takes: where it is, the candidate, threads left,
            \* the outcome ("none" or "maybe" alive)
  before,   \* lastTotalThreadERT and the ticks since it was taken
  stayed,   \* threads active ever since the look began (history)
  ready     \* native waiting threads the kernel could run ever since (history)

leapVars == <<life, clockOf, sysState, spawned, allowed, pending, vtime, look, before, stayed, ready>>

NoLook == [at |-> "idle"]
NoSum == [sum |-> 0, age |-> 0]

LeapInit ==
  /\ life = [t \in LeapThreads |-> IF t \in Newborn THEN "none" ELSE "RUNNING"]
  /\ clockOf = [t \in LeapThreads |-> 0]
  /\ sysState = [t \in LeapThreads |-> FALSE]
  /\ spawned = -1 /\ allowed = TRUE /\ pending = FALSE /\ vtime = 0
  /\ look = NoLook /\ before = NoSum /\ stayed = {} /\ ready = {}

Registered == {t \in LeapThreads : life[t] # "none"}
RunnableQueue == {t \in LeapThreads : life[t] \in {"SUSPENDED", "TIMED", "REAL"}}

\* The scheduler holds the key of its candidate: nobody else changes that thread.
InLook(t) == look.at # "idle" /\ look.cand = t

isDefinitelyActive(t) == life[t] \in {"REGISTERING", "SUSPENDED", "RUNNING"}

Later(x, y) == IF x < y THEN y ELSE x

(***************************************************************************)
(* The application, while a scheduler looks                                *)
(***************************************************************************)
OnlyThreads == UNCHANGED <<sysState, spawned, allowed, look, before>>

\* A running thread commits the time it has used.
commitCpuTime(t) ==
  /\ life[t] = "RUNNING" /\ clockOf[t] < MaxTime
  /\ clockOf' = [clockOf EXCEPT ![t] = @ + 1]
  /\ vtime' = Later(vtime, clockOf'[t])
  /\ UNCHANGED <<life, pending>> /\ OnlyThreads

startWaiting(t) ==
  /\ life[t] = "RUNNING"
  /\ \/ /\ life' = [life EXCEPT ![t] = "WAITING"]
        /\ UNCHANGED clockOf
     \/ \E timeout \in 1..2, kind \in {"TIMED", "REAL"} :
          /\ t \notin Natives /\ clockOf[t] + timeout <= MaxTime
          /\ life' = [life EXCEPT ![t] = kind]
          /\ clockOf' = [clockOf EXCEPT ![t] = @ + timeout]
  /\ UNCHANGED <<pending, vtime>> /\ OnlyThreads

\* The real timeout of a wait outside VEX expires.
onWrappedTimedWaitingEnd(t) ==
  /\ life[t] = "REAL" /\ ~InLook(t)
  /\ life' = [life EXCEPT ![t] = "SUSPENDED"]
  /\ UNCHANGED <<clockOf, pending, vtime>> /\ OnlyThreads

\* A notification counts as pending for the notifier's manager, here or elsewhere.
notifyThread(t, u) ==
  /\ life[t] = "RUNNING" /\ life[u] \in {"WAITING", "TIMED"} /\ ~InLook(u)
  /\ life' = [life EXCEPT ![u] = "SUSPENDED"]
  /\ clockOf' = [clockOf EXCEPT ![u] = clockOf[t]]
  /\ pending' \in {pending, TRUE}
  /\ UNCHANGED vtime /\ OnlyThreads

\* Another scheduler resumes a suspended thread.
resumeElsewhere(t) ==
  /\ life[t] = "SUSPENDED"
  /\ life' = [life EXCEPT ![t] = "RUNNING"]
  /\ clockOf' = [clockOf EXCEPT ![t] = Later(@, vtime)]
  /\ UNCHANGED <<pending, vtime>> /\ OnlyThreads

\* The criteria for native waiting, by the text of the option; stack traces are
\* searched for "libvex" in an address printed with %p, which they never contain.
setCriteriaType(text) ==
  CASE text = "none" -> 1 [] text = "stackTrace" -> 2 [] text = "combined" -> 3 [] OTHER -> 0

NoNativeWaitingCriteria == FALSE
VexCountersBasedCriteria(idle) == idle
StackTraceBasedCriteria(inCondWait) == inCondWait
CombinedCriteria(idle, inCondWait) ==
  VexCountersBasedCriteria(idle) /\ StackTraceBasedCriteria(inCondWait)

getCriteria(type, idle, inCondWait) ==
  CASE type = 1 -> NoNativeWaitingCriteria
    [] type = 2 -> StackTraceBasedCriteria(inCondWait)
    [] type = 3 -> CombinedCriteria(idle, inCondWait)
    [] OTHER -> VexCountersBasedCriteria(idle)

\* The criteria found no progress: the thread is left to itself.
becomeNative(t) ==
  /\ t \in Natives /\ life[t] = "RUNNING"
  /\ \E idle, inCondWait \in BOOLEAN :
       getCriteria(setCriteriaType(Natwait), idle, inCondWait)
  /\ life' = [life EXCEPT ![t] = "NATIVE_WAITING"]
  /\ sysState' = [sysState EXCEPT ![t] = TRUE]
  /\ UNCHANGED <<clockOf, spawned, allowed, pending, vtime, look, before>>

\* Its call returns; VEX does not know yet.
nativeCallReturns(t) ==
  /\ life[t] = "NATIVE_WAITING" /\ sysState[t]
  /\ sysState' = [sysState EXCEPT ![t] = FALSE]
  /\ UNCHANGED <<life, clockOf, spawned, allowed, pending, vtime, look, before>>

reenterVex(t) ==
  /\ life[t] = "NATIVE_WAITING" /\ ~sysState[t]
  /\ life' = [life EXCEPT ![t] = IF RunnableQueue # {} THEN "SUSPENDED" ELSE "RUNNING"]
  /\ UNCHANGED <<clockOf, pending, vtime>> /\ OnlyThreads

\* The registry is locked while the scheduler goes through it.
RegistryFree == look.at # "scan"

\* Bound: one thread is being spawned at a time.
beforeCreatingThread(t) ==
  /\ RegistryFree /\ life[t] = "RUNNING" /\ \E u \in Newborn : life[u] = "none"
  /\ spawned = -1
  /\ spawned' = clockOf[t]
  /\ UNCHANGED <<life, clockOf, sysState, allowed, pending, vtime, look, before>>

addThread(t) ==
  /\ RegistryFree /\ t \in Newborn /\ life[t] = "none" /\ spawned >= 0
  /\ life' = [life EXCEPT ![t] = "REGISTERING"]
  /\ clockOf' = [clockOf EXCEPT ![t] = spawned]
  /\ spawned' = -1
  /\ UNCHANGED <<sysState, allowed, pending, vtime, look, before>>

onThreadSpawned(t) ==
  /\ life[t] = "REGISTERING"
  /\ life' = [life EXCEPT ![t] = "SUSPENDED"]
  /\ UNCHANGED <<clockOf, pending, vtime>> /\ OnlyThreads

\* Leaps are forbidden while the garbage is collected.
onWrappedBackgroundLoadExecution ==
  /\ allowed' = ~allowed
  /\ UNCHANGED <<life, clockOf, sysState, spawned, pending, vtime, look, before>>

(***************************************************************************)
(* isValidToLeapInVirtualTimeTo                                            *)
(***************************************************************************)
OnlyLooks == UNCHANGED <<life, clockOf, sysState, spawned, allowed, pending, vtime>>

\* The codes of VexThreadStates, and the nanoseconds of a unit of time next to them.
Code == [RUNNING |-> 1, WAITING |-> 2, SUSPENDED |-> 3, TIMED |-> 2, REAL |-> 2,
         REGISTERING |-> 9, NATIVE_WAITING |-> 11]
Unit == 100

\* One number for all the threads: their clocks and states, added up.
getSummedErtOfAllThreads ==
  MapThenSumSet(LAMBDA t : clockOf[t] * Unit + Code[life[t]], Registered)

remainingTime(t) == clockOf[t] - vtime

\* The thread is pushed back: the leap is not valid now.
Refuse(b) == look' = NoLook /\ before' = b

\* A new round of the loop forgets the notifications of the last one.
clearPendingNotifications ==
  /\ look.at = "idle" /\ pending
  /\ pending' = FALSE
  /\ UNCHANGED <<life, clockOf, sysState, spawned, allowed, vtime, look, before>>

\* The timed waiting thread with the least timestamp.
consider(t) ==
  /\ look.at = "idle" /\ life[t] \in {"TIMED", "REAL"}
  /\ \A u \in RunnableQueue : clockOf[t] <= clockOf[u]
  /\ IF life[t] = "REAL" THEN Refuse(before)
     ELSE IF remainingTime(t) < 0
     THEN look' = [at |-> "leap", cand |-> t, outcome |-> "late"] /\ UNCHANGED before
     ELSE IF pending \/ spawned >= 0 \/ ~allowed THEN Refuse(NoSum)
     ELSE /\ look' = [at |-> "scan", cand |-> t, left |-> Registered]
          /\ UNCHANGED before
  /\ OnlyLooks

existsThreadThatIsSuspendedOnHigherErt(t) ==
  \E u \in Registered : life[u] = "SUSPENDED" /\ clockOf[u] >= clockOf[t]

\* Mutant: threads that are not yet running are not considered.
Verdict_Running(t, u) == IF life[u] = "RUNNING" /\ clockOf[u] < clockOf[t] THEN "alive" ELSE "go on"

\* What the scheduler makes of thread u when t is the candidate.
Verdict(t, u) ==
  CASE clockOf[u] >= clockOf[t] -> "go on"
    [] clockOf[u] < clockOf[t] /\ isDefinitelyActive(u) -> "alive"
    [] clockOf[u] < clockOf[t] /\ life[u] = "NATIVE_WAITING" ->
         IF existsThreadThatIsSuspendedOnHigherErt(t) THEN "maybe" ELSE "alive"
    [] OTHER -> IF clockOf[t] - clockOf[u] < 2 * remainingTime(t) THEN "maybe" ELSE "go on"

areAnyOtherThreadsActiveInFormerTime(u) ==
  /\ look.at = "scan" /\ u \in look.left
  /\ \/ /\ Verdict(look.cand, u) = "go on"
        /\ look' = IF look.left = {u} THEN [at |-> "leap", cand |-> look.cand, outcome |-> "none"]
                   ELSE [look EXCEPT !.left = @ \ {u}]
        /\ UNCHANGED before
     \/ /\ Verdict(look.cand, u) = "alive"
        /\ Refuse(NoSum)
     \/ /\ Verdict(look.cand, u) = "maybe"
        /\ look' = [at |-> "maybe", cand |-> look.cand]
        /\ UNCHANGED before
  /\ OnlyLooks

\* The first look leaves a sum behind; a second one soon after it is refused.
firstLook ==
  /\ look.at = "maybe" /\ (before.sum = 0 \/ before.age < Apart)
  /\ Refuse(IF before.sum = 0
            THEN [sum |-> getSummedErtOfAllThreads, age |-> 0]
            ELSE before)
  /\ OnlyLooks

secondLook ==
  /\ look.at = "maybe" /\ before.sum # 0 /\ before.age >= Apart
  /\ IF before.sum = getSummedErtOfAllThreads
     THEN look' = [at |-> "blocked?", cand |-> look.cand] /\ UNCHANGED before
     ELSE Refuse(NoSum)
  /\ OnlyLooks

areAllNativeWaitingThreadsBlockedAccordingToSystemState ==
  /\ allowed
  /\ \A u \in Registered :
       clockOf[u] < clockOf[look.cand] /\ life[u] = "NATIVE_WAITING" => sysState[u]

thirdLook ==
  /\ look.at = "blocked?"
  /\ IF areAllNativeWaitingThreadsBlockedAccordingToSystemState
     THEN look' = [at |-> "leap", cand |-> look.cand, outcome |-> "maybe"]
          /\ before' = NoSum
     ELSE Refuse(NoSum)
  /\ OnlyLooks

\* Mutant: the interrupted thread is resumed, the clock stays.
interruptTimedWaitingThread_NoLeap ==
  /\ look.at = "leap"
  /\ life' = [life EXCEPT ![look.cand] = "TIMED"]
  /\ look' = NoLook
  /\ UNCHANGED <<clockOf, sysState, spawned, allowed, pending, vtime, before>>

interruptTimedWaitingThread ==
  /\ look.at = "leap"
  /\ vtime' = Later(vtime, clockOf[look.cand])
  /\ life' = [life EXCEPT ![look.cand] = "RUNNING"]
  /\ clockOf' = [clockOf EXCEPT ![look.cand] = vtime']
  /\ look' = NoLook
  /\ UNCHANGED <<sysState, spawned, allowed, pending, before>>

Tick ==
  /\ before.sum # 0 /\ before.age < Apart
  /\ before' = [before EXCEPT !.age = @ + 1]
  /\ UNCHANGED <<life, clockOf, sysState, spawned, allowed, pending, vtime, look>>

LeapSchedulerStep ==
  \/ clearPendingNotifications
  \/ \E t \in LeapThreads : consider(t) \/ areAnyOtherThreadsActiveInFormerTime(t)
  \/ firstLook \/ secondLook \/ thirdLook \/ interruptTimedWaitingThread

LeapThreadStep(t) ==
  \/ commitCpuTime(t) \/ startWaiting(t) \/ onWrappedTimedWaitingEnd(t) \/ resumeElsewhere(t)
  \/ becomeNative(t) \/ nativeCallReturns(t) \/ reenterVex(t)
  \/ beforeCreatingThread(t) \/ addThread(t) \/ onThreadSpawned(t)
  \/ \E u \in LeapThreads : notifyThread(t, u)

\* The histories: who was active, or could have been, all the while.
Throughout(set, A(_)) ==
  {t \in LeapThreads : look'.at # "idle" /\ A(t) /\ (look.at = "idle" \/ t \in set)}
Watch ==
  /\ stayed' = Throughout(stayed, LAMBDA t : life'[t] \in {"REGISTERING", "SUSPENDED", "RUNNING"})
  /\ ready' = Throughout(ready, LAMBDA t : life'[t] = "NATIVE_WAITING" /\ ~sysState'[t])

LeapNext ==
  /\ \/ LeapSchedulerStep \/ Tick \/ onWrappedBackgroundLoadExecution
     \/ \E t \in LeapThreads : LeapThreadStep(t)
  /\ Watch

LeapSpec == LeapInit /\ [][LeapNext]_leapVars

\* The scheduler runs and time passes.
FairLeapSpec ==
  /\ LeapSpec
  /\ WF_leapVars(LeapSchedulerStep /\ Watch) /\ WF_leapVars(Tick /\ Watch)

(***************************************************************************)
(* Properties                                                              *)
(***************************************************************************)
\* A leap overtakes no thread that was active all the while the scheduler looked:
\* with the states of the threads read one by one, without a lock, only a thread
\* that changes in the meantime can be missed.
ActiveThreadsAreNotOvertaken ==
  look.at = "leap" /\ look.outcome = "none" =>
    \A t \in stayed : clockOf[t] >= clockOf[look.cand]

\* Nor does it overtake a thread VEX takes for blocked in a native call while the
\* kernel could run it all along.
ReadyNativeThreadsAreNotOvertaken ==
  look.at = "leap" /\ look.outcome # "late" =>
    \A t \in ready : clockOf[t] >= clockOf[look.cand]

\* A leap to the end of a timed wait (interruptTimedWaitingThread) overtakes
\* neither an active thread nor a native waiting one that could have gone on,
\* although the states were read one by one.
LeapsOvertakeNobody ==
  /\ ActiveThreadsAreNotOvertaken
  /\ ReadyNativeThreadsAreNotOvertaken

\* A thread that sleeps does wake up when all the others wait for good.
Quiet(t) ==
  /\ spawned = -1 /\ allowed
  /\ \A u \in Registered \ {t} : life[u] \in {"WAITING", "TIMED"}
SleeperWakes ==
  \A t \in LeapThreads \ Natives : life[t] = "TIMED" ~> life[t] # "TIMED" \/ ~Quiet(t)
=============================================================================
