--------------------------- MODULE StateStatistics ---------------------------
(* The state transition statistics: every change of a thread's state goes    *)
(* through VexThreadState::setNewState, which counts the transition and the  *)
(* virtual time spent in the state that is left; the counters of a thread    *)
(* that ends are added to AggregateStateCounters, from which the transition  *)
(* map is printed.  A table of transitions is a bag of pairs of states.      *)
EXTENDS Integers, Bags, FiniteSets, FiniteSetsExt

CONSTANTS CountedThreads,
          StateCodes,     \* the states the setters of VexThreadState go to
          MaxTransitions, \* bound: logged transitions of a thread
          MaxStateTime    \* bound: virtual time

ASSUME StateStatisticsAssumption ==
  /\ {"REGISTERING", "RUNNING"} \subseteq StateCodes /\ IsFiniteSet(StateCodes)
  /\ {"VEX_ZOMBIE", "MARK", "unborn", "gone"} \cap StateCodes = {}
  /\ MaxTransitions \in Nat /\ MaxStateTime \in Nat

VARIABLES
  currentState,          \* thread -> its state, "unborn" or "gone"
  estimatedRealTime,     \* thread -> Timers::estimatedRealTime
  lastTimePerStateERT,   \* thread -> when its time was last charged to a state
  stateTransitions,      \* thread -> Statistics::stateTransitions
  totalTimePerState,     \* thread -> state -> Statistics::totalTimePerState
  aggregateTransitions,  \* AggregateStateCounters::aggregateStateTransitions
  aggregateTimePerState, \* AggregateStateCounters::aggregateTotalTimePerState
  resetting,             \* the thread in resetSimulator, between its two clears
  countedFrom,           \* thread -> state and time its counters start at (history)
  merged                 \* bag of countedFrom, and time, of the merged threads (history)

threadCounters == <<stateTransitions, totalTimePerState>>
aggregateCounters == <<aggregateTransitions, aggregateTimePerState>>
statisticsVars == <<currentState, estimatedRealTime, lastTimePerStateERT, threadCounters,
                    aggregateCounters, resetting, countedFrom, merged>>

\* "MARK" stands for the codes that are logged and never entered (IN_IO_STALE,
\* IN_IO_INVALIDATION, CUSTOM1...).
Enterable == StateCodes \cup {"VEX_ZOMBIE"}
Codes == Enterable \cup {"MARK"}
NoTimes == [s \in Codes |-> 0]
Nobody == "nobody"
Alive(t) == currentState[t] \in StateCodes

StatisticsInit ==
  /\ currentState = [t \in CountedThreads |-> "unborn"]
  /\ estimatedRealTime = [t \in CountedThreads |-> 0]
  /\ lastTimePerStateERT = [t \in CountedThreads |-> 0]
  /\ stateTransitions = [t \in CountedThreads |-> EmptyBag]
  /\ totalTimePerState = [t \in CountedThreads |-> NoTimes]
  /\ aggregateTransitions = EmptyBag /\ aggregateTimePerState = NoTimes
  /\ resetting = Nobody
  /\ countedFrom = [t \in CountedThreads |-> [state |-> "REGISTERING", time |-> 0]]
  /\ merged = [origins |-> EmptyBag, time |-> 0]

----------------------------------------------------------------------------
setRegistering(t) ==
  /\ currentState[t] = "unborn"
  /\ currentState' = [currentState EXCEPT ![t] = "REGISTERING"]
  /\ lastTimePerStateERT' = [lastTimePerStateERT EXCEPT ![t] = estimatedRealTime[t]]
  /\ UNCHANGED <<estimatedRealTime, threadCounters, aggregateCounters, resetting, countedFrom, merged>>

\* The clock of a thread moves: commits and leaps forward, roll-backs of a timeout
\* and of a predicted I/O time backward.
Elapse(t) ==
  /\ Alive(t)
  /\ \E e \in 0..MaxStateTime \ {estimatedRealTime[t]} :
       estimatedRealTime' = [estimatedRealTime EXCEPT ![t] = e]
  /\ UNCHANGED <<currentState, lastTimePerStateERT, threadCounters, aggregateCounters, resetting,
                 countedFrom, merged>>

\* Statistics::logTransition, with and without a duration.
logTransition(t, from, to, duration) ==
  /\ BagCardinality(stateTransitions[t]) < MaxTransitions
  /\ stateTransitions' = [stateTransitions EXCEPT ![t] = @ (+) SetToBag({<<from, to>>})]
  /\ totalTimePerState' = [totalTimePerState EXCEPT ![t][from] = @ + duration]

setNewState(t, newState) ==
  /\ logTransition(t, currentState[t], newState, estimatedRealTime[t] - lastTimePerStateERT[t])
  /\ lastTimePerStateERT' = [lastTimePerStateERT EXCEPT ![t] = estimatedRealTime[t]]
  /\ currentState' = [currentState EXCEPT ![t] = newState]
  /\ UNCHANGED <<estimatedRealTime, aggregateCounters, resetting, countedFrom, merged>>

\* setSuspended, setWaiting, setRunning and the other setters, by the thread, the
\* scheduler or a notifier.
setState(t) == \E s \in StateCodes : Alive(t) /\ setNewState(t, s)

\* setInIoStale, setInIoInvalidation, setCustom3: logged, nothing is entered.
setMark(t) ==
  /\ Alive(t) /\ logTransition(t, currentState[t], "MARK", 0)
  /\ UNCHANGED <<currentState, estimatedRealTime, lastTimePerStateERT, aggregateCounters, resetting,
                 countedFrom, merged>>

\* ThreadEventsBehaviour::onEnd: the manager declares the thread dead ...
setDead(t) == Alive(t) /\ t # resetting /\ setNewState(t, "VEX_ZOMBIE")

\* A bug for the mutants: the last state is taken for the rows of the whole table.
addTransitionsOf_Row(t) ==
  /\ currentState[t] = "VEX_ZOMBIE"
  /\ aggregateTransitions' = aggregateTransitions
       (+) [p \in {q \in BagToSet(stateTransitions[t]) : q[2] # "VEX_ZOMBIE"} |-> stateTransitions[t][p]]
  /\ aggregateTimePerState' = [s \in Codes |-> aggregateTimePerState[s] + totalTimePerState[t][s]]
  /\ currentState' = [currentState EXCEPT ![t] = "gone"]
  /\ merged' = [origins |-> merged.origins (+) SetToBag({countedFrom[t].state}),
                time |-> merged.time + lastTimePerStateERT[t] - countedFrom[t].time]
  /\ UNCHANGED <<estimatedRealTime, lastTimePerStateERT, threadCounters, resetting, countedFrom>>

\* ... and its counters are added to the others.
addTransitionsOf(t) ==
  /\ currentState[t] = "VEX_ZOMBIE"
  /\ aggregateTransitions' = aggregateTransitions (+) stateTransitions[t]
  /\ aggregateTimePerState' = [s \in Codes |-> aggregateTimePerState[s] + totalTimePerState[t][s]]
  /\ currentState' = [currentState EXCEPT ![t] = "gone"]
  /\ merged' = [origins |-> merged.origins (+) SetToBag({countedFrom[t].state}),
                time |-> merged.time + lastTimePerStateERT[t] - countedFrom[t].time]
  /\ UNCHANGED <<estimatedRealTime, lastTimePerStateERT, threadCounters, resetting, countedFrom>>

\* resetSimulator, called by the application: the caller's own counters first ...
clearTransitionCounters(t) ==
  /\ Alive(t) /\ resetting = Nobody
  /\ stateTransitions' = [stateTransitions EXCEPT ![t] = EmptyBag]
  /\ totalTimePerState' = [totalTimePerState EXCEPT ![t] = NoTimes]
  /\ resetting' = t
  /\ countedFrom' = [countedFrom EXCEPT ![t] = [state |-> currentState[t], time |-> lastTimePerStateERT[t]]]
  /\ UNCHANGED <<currentState, estimatedRealTime, lastTimePerStateERT, aggregateCounters, merged>>

\* ... then those of the ended threads.  The counters of the other threads stay.
clear ==
  /\ resetting # Nobody /\ resetting' = Nobody
  /\ aggregateTransitions' = EmptyBag /\ aggregateTimePerState' = NoTimes
  /\ merged' = [origins |-> EmptyBag, time |-> 0]
  /\ UNCHANGED <<currentState, estimatedRealTime, lastTimePerStateERT, threadCounters, countedFrom>>

StatisticsNext ==
  \/ clear
  \/ \E t \in CountedThreads :
       \/ setRegistering(t) \/ Elapse(t) \/ setState(t) \/ setMark(t) \/ setDead(t)
       \/ addTransitionsOf(t) \/ clearTransitionCounters(t)

StatisticsSpec == StatisticsInit /\ [][StatisticsNext]_statisticsVars

----------------------------------------------------------------------------
\* How often a pair (or a state) is in a table.
Copies(p, table) == IF BagIn(p, table) THEN table[p] ELSE 0

\* printTransitionMapAndGraph: how often a state was entered; how often it was left
\* for another one that was entered.
Occurences(transitions, s) == MapThenSumSet(LAMBDA c : Copies(<<c, s>>, transitions), Codes)
Departures(transitions, s) == MapThenSumSet(LAMBDA c : Copies(<<s, c>>, transitions), Enterable)
TotalTime(times) == MapThenSumSet(LAMBDA s : times[s], Codes)
One(condition) == IF condition THEN 1 ELSE 0

\* How many elements of Enterable a bag of them has.
Population(bag) == MapThenSumSet(LAMBDA s : Copies(s, bag), Enterable)

(***************************************************************************)
(* A thread enters a state as often as it leaves it, but for the state it  *)
(* is in and the one its counters started at: no change of state goes      *)
(* unlogged, whoever makes it and whenever the counters are cleared.       *)
(***************************************************************************)
ThreadTransitionsBalance ==
  \A t \in CountedThreads : Alive(t) =>
    \A s \in Enterable :
      Occurences(stateTransitions[t], s) - Departures(stateTransitions[t], s)
        = One(currentState[t] = s) - One(countedFrom[t].state = s)

\* The time charged to the states of a thread is the time that passed on its clock
\* between two changes of state, also when the clock was rolled back in between.
StateTimesAddUp ==
  \A t \in CountedThreads : currentState[t] # "unborn" =>
    TotalTime(totalTimePerState[t]) = lastTimePerStateERT[t] - countedFrom[t].time

\* The printed map is a union of complete paths: every one of its threads left the
\* state it was counted from and ended as a zombie.
PrintedMapBalances ==
  \A s \in Enterable :
    Occurences(aggregateTransitions, s) - Departures(aggregateTransitions, s)
      = One(s = "VEX_ZOMBIE") * Population(merged.origins) - Copies(s, merged.origins)

\* The printed times are the life times of the threads of the map.
PrintedTimesAddUp == TotalTime(aggregateTimePerState) = merged.time

\* Every state is left as often as it is entered, but for the first and the
\* last, times in states add up to the life of a thread, and merging the
\* counters of ended threads keeps both.
StatisticsBalance ==
  /\ ThreadTransitionsBalance
  /\ StateTimesAddUp
  /\ PrintedMapBalances
  /\ PrintedTimesAddUp
=============================================================================
