------------------------------ MODULE IoLogging ------------------------------
(* The loggers of the I/O simulation (io/IoLogger) as the predictors drive   *)
(* them.  One global behaviour and the behaviour of the prediction method    *)
(* that all callers share are walked by every caller, each under its own     *)
(* key: two callers are in the same logger at once.  A QStats is not locked, *)
(* so its addSample is a read and a write; the vectors of the extended       *)
(* statistics have a mutex.                                                  *)
EXTENDS Integers, Sequences, SequencesExt

CONSTANTS IoCallers,     \* threads that perform I/O
          IoOutcomes,    \* <<prediction, flag>>: what predictor, recognizer and
                         \* excluder may make of a call
          Measured,      \* what a call may take
          MaxIoCalls     \* bound: calls a thread makes

ASSUME IoLoggingAssumption ==
  /\ IoOutcomes \subseteq Nat \X {"io", "cached", "ignored"}
  /\ Measured \subseteq Nat /\ MaxIoCalls \in Nat

VARIABLES
  usingExtendedStats,  \* the option
  samples,     \* <<behaviour, logger>> -> samples it holds
  walk,        \* caller -> <<behaviour, logger>> pairs it has still to enter
  loaded,      \* caller -> the count it has read in the logger it is in, or -1
  phase,       \* caller -> "out", "start", "io", "end"
  called,      \* caller -> its call: prediction, flag and duration
  nullRead,    \* was a member of the NULL state of a local log read?
  excludedIo,  \* calls that were flagged as ignored (history)
  simulatedIo, \* calls that were not (history)
  loggedIo,    \* calls whose end was logged (history)
  callsMade    \* caller -> calls

ioLogVars == <<usingExtendedStats, samples, walk, loaded, phase, called, nullRead,
               excludedIo, simulatedIo, loggedIo, callsMade>>

Behaviours == {"global", "local"}

Optional == IF usingExtendedStats THEN <<"allPredicted", "allActual">> ELSE <<>>

\* addGlobalIoLoggers, addLocalIoLoggers: the lists of loggers.
prelogs(b) == IF b = "global" THEN <<"parallelism", "predicted">> ELSE <<"predicted">>

Measuring(b) ==
  IF b = "global"
    THEN <<"actual", "mispredicted", "mse", "overUnder", "used", "unused",
           "realToCpu", "actualRealToCpu">>
    ELSE <<"actual", "mispredicted", "mse">>

postlogs(b) == Measuring(b) \o Optional

\* What overUnder counts: the relative error against a limit of 20%, in
\* doubles; without a duration the error is infinite or not a number.
OverUnderPrediction(c) ==
  LET error == c.prediction - c.actual
  IN IF 5 * error > c.actual THEN "over"
     ELSE IF 5 * error < -c.actual THEN "under" ELSE "correct"

\* The counters behind a logger.
Counters(l) == IF l = "overUnder" THEN {"over", "under", "correct"} ELSE {l}
CounterNames ==
  {"parallelism", "predicted", "actual", "mispredicted", "mse", "over", "under", "correct",
   "used", "unused", "realToCpu", "actualRealToCpu", "allPredicted", "allActual"}

Mutexed == {"allPredicted", "allActual"}

\* What is kept of a count: for most loggers, whether there is a sample at all.
Kept(k, n) == IF k \in {"used", "unused"} THEN n ELSE 1

\* The loggers whose logOnIoStart looks at the thread's state.
ReadsState == {"parallelism"}

----------------------------------------------------------------------------
(* When a logger takes a sample of call c. *)
LogsStart(l, c) ==
  CASE l = "parallelism" -> c.flag = "io"
    [] l = "predicted" -> c.prediction > 0

LogsEnd(l, c) ==
  CASE l \in {"mispredicted", "mse"} -> c.prediction > 0 /\ c.flag # "ignored"
    [] l = "used" -> c.flag # "ignored"
    [] l = "unused" -> c.flag = "ignored"
    [] OTHER -> TRUE

Entries(b, ls) == [i \in DOMAIN ls |-> <<b, ls[i]>>]
NoCall == [prediction |-> 0, flag |-> "io", actual |-> 0]

IoLogInit ==
  /\ usingExtendedStats \in BOOLEAN
  /\ samples = [x \in Behaviours \X CounterNames |-> 0]
  /\ walk = [t \in IoCallers |-> <<>>]
  /\ loaded = [t \in IoCallers |-> -1]
  /\ phase = [t \in IoCallers |-> "out"]
  /\ called = [t \in IoCallers |-> NoCall]
  /\ nullRead = FALSE
  /\ excludedIo = 0 /\ simulatedIo = 0 /\ loggedIo = 0
  /\ callsMade = [t \in IoCallers |-> 0]

\* CyclicBufferBased::getNext: the local log hears of a prediction, without
\* the thread's state; an unfilled buffer answers 0 and logs nothing.
getNext(p) == IF p = 0 THEN <<>>
              ELSE SelectSeq(prelogs("local"), LAMBDA l : l \in ReadsState \/ p > 0)

\* onIoEntryGetIoPrediction: the prediction, then what recognizer and excluder
\* make of the call, then the global log.
onIoEntry(t) ==
  /\ phase[t] = "out" /\ callsMade[t] < MaxIoCalls
  /\ \E o \in IoOutcomes :
       LET c == [NoCall EXCEPT !.prediction = o[1], !.flag = o[2]]
           local == getNext(o[1])
       IN /\ called' = [called EXCEPT ![t] = c]
          /\ nullRead' = (nullRead \/ \E i \in DOMAIN local : local[i] \in ReadsState)
          /\ walk' = [walk EXCEPT ![t] = Entries("local", local) \o
               Entries("global", SelectSeq(prelogs("global"), LAMBDA l : LogsStart(l, c)))]
  /\ phase' = [phase EXCEPT ![t] = "start"]
  /\ callsMade' = [callsMade EXCEPT ![t] = @ + 1]
  /\ UNCHANGED <<usingExtendedStats, samples, loaded, excludedIo, simulatedIo, loggedIo>>

\* The lists are walked: IoProtocolEnforcer::onStart lets the call begin.
startIo(t) ==
  /\ phase[t] = "start" /\ walk[t] = <<>>
  /\ phase' = [phase EXCEPT ![t] = "io"]
  /\ IF called[t].flag = "ignored"
       THEN excludedIo' = excludedIo + 1 /\ UNCHANGED simulatedIo
       ELSE simulatedIo' = simulatedIo + 1 /\ UNCHANGED excludedIo
  /\ UNCHANGED <<usingExtendedStats, samples, walk, loaded, called, nullRead, loggedIo, callsMade>>

\* onIoExitAddRealTimeMeasurement: the global log, then (addPredictionInfo)
\* the log of the prediction method.  The flags are reset afterwards.
LogEnd(t, c) ==
  /\ called' = [called EXCEPT ![t] = c]
  /\ walk' = [walk EXCEPT ![t] =
       Entries("global", SelectSeq(postlogs("global"), LAMBDA l : LogsEnd(l, c))) \o
       Entries("local", SelectSeq(postlogs("local"), LAMBDA l : LogsEnd(l, c)))]
  /\ phase' = [phase EXCEPT ![t] = "end"]
  /\ UNCHANGED <<usingExtendedStats, samples, loaded, nullRead, excludedIo, simulatedIo,
                 loggedIo, callsMade>>

onIoExit(t) ==
  /\ phase[t] = "io"
  /\ \E a \in Measured :
       LogEnd(t, [called[t] EXCEPT !.actual = a])

\* IoProtocolEnforcer::onEnd: resetIoStateFlags.
endIo(t) ==
  /\ phase[t] = "end" /\ walk[t] = <<>>
  /\ phase' = [phase EXCEPT ![t] = "out"]
  /\ called' = [called EXCEPT ![t] = NoCall]
  /\ loggedIo' = loggedIo + 1
  /\ UNCHANGED <<usingExtendedStats, samples, walk, loaded, nullRead, excludedIo,
                 simulatedIo, callsMade>>

\* The counter that the next logger of t's walk changes.
Counter(t) ==
  LET e == Head(walk[t])
  IN IF e[2] = "overUnder" THEN <<e[1], OverUnderPrediction(called[t])>> ELSE e

Walked(t) == walk' = [walk EXCEPT ![t] = Tail(@)]
logUnchanged == <<usingExtendedStats, phase, called, nullRead, excludedIo, simulatedIo,
                  loggedIo, callsMade>>

\* QStats::addSample, and the counters of OverUnderPrediction: read ...
loadSample(t) ==
  /\ walk[t] # <<>> /\ loaded[t] = -1 /\ Counter(t)[2] \notin Mutexed
  /\ loaded' = [loaded EXCEPT ![t] = samples[Counter(t)]]
  /\ UNCHANGED <<samples, walk>> /\ UNCHANGED logUnchanged

\* ... and write.
storeSample(t) ==
  /\ loaded[t] # -1
  /\ samples' = [samples EXCEPT ![Counter(t)] = Kept(Counter(t)[2], loaded[t] + 1)]
  /\ loaded' = [loaded EXCEPT ![t] = -1]
  /\ Walked(t) /\ UNCHANGED logUnchanged

\* A bug for the mutants: the push is not locked.
pushSample_Unlocked(t) ==
  /\ walk[t] # <<>> /\ Counter(t)[2] \in Mutexed
  /\ IF loaded[t] = -1
       THEN loaded' = [loaded EXCEPT ![t] = samples[Counter(t)]] /\ UNCHANGED <<samples, walk>>
       ELSE /\ samples' = [samples EXCEPT ![Counter(t)] = loaded[t] + 1]
            /\ loaded' = [loaded EXCEPT ![t] = -1] /\ Walked(t)
  /\ UNCHANGED logUnchanged
\* AllPredictedIoSamples, AllActualIoSamples: push_back under the mutex.
pushSample(t) ==
  /\ walk[t] # <<>> /\ Counter(t)[2] \in Mutexed
  /\ samples' = [samples EXCEPT ![Counter(t)] = @ + 1]
  /\ Walked(t) /\ UNCHANGED loaded /\ UNCHANGED logUnchanged

\* ActualIoRealToCpuTimeDifference: no sample while real and CPU time of the
\* call agree to 10%.
skipSample(t) ==
  /\ walk[t] # <<>> /\ loaded[t] = -1 /\ Counter(t)[2] = "actualRealToCpu"
  /\ Walked(t) /\ UNCHANGED <<samples, loaded>> /\ UNCHANGED logUnchanged

IoLogNext ==
  \E t \in IoCallers :
    \/ onIoEntry(t) \/ startIo(t) \/ onIoExit(t) \/ endIo(t)
    \/ loadSample(t) \/ storeSample(t) \/ pushSample(t) \/ skipSample(t)

IoLogSpec == IoLogInit /\ [][IoLogNext]_ioLogVars

----------------------------------------------------------------------------
(* The report. *)
hasLogged(b, l) == \E k \in Counters(l) : samples[<<b, k>>] > 0

\* IoLoggingBehaviour::hasLoggedSamples: a log without samples is not printed.
hasLoggedSamples(b) ==
  \/ \E i \in DOMAIN prelogs(b) : hasLogged(b, prelogs(b)[i])
  \/ \E i \in DOMAIN postlogs(b) : hasLogged(b, postlogs(b)[i])

\* printLocalLogging: the row of a prediction method is left out without samples.
printLocalLogging == hasLoggedSamples("local")

\* getTitlesInCSVRow, getValuesInCSVRow: the columns a logger's titles and its
\* values take in a row.  The vectors have no title.
Titles(l) == IF l \in Mutexed THEN 1 ELSE 3
Columns(b, l) == IF l \in Mutexed THEN 4 + samples[<<b, l>>] ELSE 3

\* The column at which the i-th logger of a row begins, given the columns of each.
Begin(widths, i) == FoldLeft(+, 0, SubSeq(widths, 1, i - 1))

----------------------------------------------------------------------------
(***************************************************************************)
(* A local log is told of predictions with a NULL state                    *)
(* (PredictionMethod.cpp:95): none of the loggers addLocalIoLoggers puts   *)
(* in front of a call may look at the state.                               *)
(***************************************************************************)
NullStateIsNotRead == ~nullRead

\* However the callers interleave in the unlocked statistics, used and unused
\* predictions are never more than the calls that were simulated and the calls
\* that were excluded: the flags are reset only when the end was logged.
UsageIsNotOvercounted ==
  \A b \in Behaviours :
    /\ samples[<<b, "used">>] <= simulatedIo
    /\ samples[<<b, "unused">>] <= excludedIo

\* Lost updates never make a log look empty: once the end of a call was logged,
\* its prediction method has a row in the report (printLocalLogging), also when
\* nothing was predicted.
EndedCallsAreReported == loggedIo > 0 => printLocalLogging

\* In a row of a prediction method every logger's values stand under its titles,
\* although the vectors of the extended statistics grow: they come last.
ColumnsLineUp ==
  LET row == prelogs("local") \o postlogs("local")
  IN \A i \in DOMAIN row :
       row[i] \in Mutexed
       \/ Begin([j \in DOMAIN row |-> Titles(row[j])], i)
            = Begin([j \in DOMAIN row |-> Columns("local", row[j])], i)

\* The two vectors of the extended statistics have a sample for every call whose
\* end was logged, and for none besides the calls being logged: the mutex.
VectorsAreComplete ==
  usingExtendedStats =>
    \A b \in Behaviours, l \in Mutexed :
      LET n == samples[<<b, l>>]
      IN n >= loggedIo /\ n <= excludedIo + simulatedIo

\* Calls that several threads log end up in the report with all their columns,
\* in vectors that belong together, and no prediction is counted as used more
\* often than calls ended.
LogsAreConsistent ==
  /\ NullStateIsNotRead
  /\ UsageIsNotOvercounted
  /\ EndedCallsAreReported
  /\ ColumnsLineUp
  /\ VectorsAreComplete
=============================================================================
