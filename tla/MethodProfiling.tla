--------------------------- MODULE MethodProfiling ---------------------------
(***************************************************************************)
(* The profile of the application's methods: what a thread logs when it    *)
(* enters and leaves an instrumented method, the time scaling factors that *)
(* a method sets for its callees, the measures of a thread and their merge *)
(* into those of the simulation when the thread ends, and the adaptive     *)
(* removal of the instrumentation of methods that are not worth profiling. *)
(*                                                                         *)
(* The application (calls, returns, exceptions, the reloading of a class)  *)
(* is external: an exception that passes through a frame leaves it without *)
(* the call of beforeMethodExit, and a frame keeps the code it was entered *)
(* with when its class is reloaded.                                        *)
(*                                                                         *)
(* Sources: vex/events/MethodEventsBehaviour, the method log of            *)
(* vex/threads (ThreadState, MethodLog), vex/profiler, and jine            *)
(* (JVMMethods, JVMProfilingInvalidationEnforcer).                         *)
(***************************************************************************)
EXTENDS Integers, FiniteSets, Sequences, SequencesExt, Functions

CONSTANTS
  ProfiledThreads,
  Late,          \* threads VEX may learn of inside an instrumented method
  Throwing,      \* threads in which exceptions happen
  Methods,
  IoMethods,     \* methods that are I/O calls, with reportIoMethods
  ModelMethods,  \* methods whose performance comes from a model
  Registered,    \* methods registerMethod has been called for
  Scaling,       \* method -> its time scaling factor, 1 by default
  Configurations,\* <<by stack trace?, invalidation policy>>: the policy is "none",
                 \* "samples", "relative" or "absolute"
  SamplesLimit,
  MinimumTime,   \* AbsoluteTime...::minimumAcceptableTime
  Percentage,    \* RelativePercentage...::invalidationAggregationPercentage
  MaxDepth,      \* bound: frames of a thread
  MaxInvocations,\* bound: calls of all threads
  MaxRealTime    \* bound: units of time all threads spend

ASSUME ParametersAssumption ==
  /\ Late \subseteq ProfiledThreads /\ Throwing \subseteq ProfiledThreads
  /\ IoMethods \subseteq Methods /\ ModelMethods \subseteq Methods \ IoMethods
  /\ Registered \subseteq Methods
  /\ Scaling \in [Methods -> Nat \ {0}]
  /\ Configurations \subseteq BOOLEAN \X {"none", "samples", "relative", "absolute"}
  /\ SamplesLimit \in Nat \ {0} /\ MinimumTime \in Nat /\ Percentage \in 0..100
  /\ MaxDepth \in Nat /\ MaxInvocations \in Nat /\ MaxRealTime \in Nat

Runs == <<"runs">>
Ended == <<"ended">>
Crashed == <<"crashed">>

NoReport == [aet |-> -1, lines |-> {}]

VARIABLES
  tracing,     \* is the StackTraceLogger used, with StackTraceThreadStates?
  policy,      \* MethodEventsBehaviour::invalidationPolicy
  frames,      \* thread -> frames of the application (external)
  activity,    \* thread -> what it does: Runs, Ended, Crashed, or <<adaptation, method>>
  clock,       \* thread -> its timers
  storage,     \* thread -> MethodLog::methodInfoStorage
  next,        \* thread -> MethodLog::nextMethodInfoToUse
  stack,       \* thread -> MethodLog::methodStack, positions in the storage
  current,     \* thread -> MethodLog::currentMethodInfo, 0 for NULL
  factor,      \* thread -> its time scaling factor
  trace,       \* thread -> currentStackTraceInfo, a path from a root
  measures,    \* thread -> key -> its measures
  known,       \* keys of EventLogger::registeredMethodNames
  merged,      \* key -> EventLogger::measures, or the tree of measuresRoots
  invalidated, \* methods whose MethodData is invalidated
  recursive,   \* methods whose MethodData is recursive
  adapted,     \* methods without instruments in the JVM (external)
  report,      \* what printResults has printed
  made,        \* calls so far, of all threads
  spent,       \* thread -> key -> time spent with that method on top (history)
  truth,       \* the sum of it for the threads that ended (history)
  clean        \* threads no exception and no unlogged frame has disturbed (history)

threadVars == <<frames, activity, clock, storage, next, stack, current, factor, trace, measures>>
loggerVars == <<known, merged, report>>
methodVars == <<invalidated, recursive, adapted>>
historyVars == <<spent, truth, clean>>
profilingVars == <<tracing, policy, threadVars, loggerVars, methodVars, made, historyVars>>

------------------------------------------------------------------------------
(* Times: the counters of Timers.h that the profiler reads.                *)

Counters == {"cpu", "real", "monitor", "io"}
NoTime == [c \in Counters |-> 0]
Plus(a, b) == [c \in Counters |-> a[c] + b[c]]
Minus(a, b) == [c \in Counters |-> a[c] - b[c]]

\* What a unit of time adds: a predicted I/O counts as CPU time too (addElapsedTime),
\* one whose duration is being learnt does not (addLocalIoTime).
Tick(kind) == [cpu     |-> IF kind \in {"run", "predicted"} THEN 1 ELSE 0,
               real    |-> 1,
               monitor |-> IF kind = "wait" THEN 1 ELSE 0,
               io      |-> IF kind \in {"predicted", "learnt"} THEN 1 ELSE 0]

------------------------------------------------------------------------------
(* Measures.                                                               *)

init == [excl |-> NoTime, incl |-> NoTime, samples |-> 0]

add(pm, excl, incl) ==
  [excl |-> Plus(pm.excl, excl), incl |-> Plus(pm.incl, incl), samples |-> pm.samples + 1]

\* operator+= adds the CPU and real times and the samples, and not the waiting.
\* (Without samples of its own a measure has no times either.)
MergedTime(a, b) == [a EXCEPT !["cpu"] = @ + b["cpu"], !["real"] = @ + b["real"]]
plusEquals(pm, other) ==
  [excl |-> MergedTime(pm.excl, other.excl), incl |-> MergedTime(pm.incl, other.incl),
   samples |-> pm.samples + other.samples]

Update(f, key, value) == [k \in DOMAIN f \cup {key} |-> IF k = key THEN value ELSE f[k]]
Lookup(f, key, default) == IF key \in DOMAIN f THEN f[key] ELSE default
Total(f, S, c) == FoldFunctionOnSet(LAMBDA time, sum : time[c] + sum, 0, f, S)

\* A key is a method, or the methods of a stack trace.
Key(path) == IF tracing THEN path ELSE <<Last(path)>>

------------------------------------------------------------------------------
(* ProfilingInvalidationPolicy::keepOnProfiling; pm is 0 for NULL.         *)

GlobalTime == CHOOSE g \in {clock[t]["real"] : t \in ProfiledThreads} :
                \A t \in ProfiledThreads : clock[t]["real"] <= g

keepOnProfilingSamples(pm) == pm.samples <= SamplesLimit
keepOnProfilingRelative(pm) ==
  pm.samples > SamplesLimit => 100 * pm.incl["real"] >= Percentage * GlobalTime
keepOnProfilingAbsolute(pm) ==
  LET ratio == pm.samples \div SamplesLimit IN
  ratio > 0 => pm.incl["real"] >= ratio * MinimumTime

keepOnProfiling(found, pm) ==
  found => CASE policy = "samples"  -> keepOnProfilingSamples(pm)
             [] policy = "relative" -> keepOnProfilingRelative(pm)
             [] policy = "absolute" -> keepOnProfilingAbsolute(pm)
             [] OTHER -> TRUE

------------------------------------------------------------------------------
(* The method log of a thread.                                             *)

\* StackTraceThreadState: a method that is on the current trace is recursive.
methodAlreadyCalledInStackTrace(t, m) == tracing /\ Contains(trace[t], m)

\* getCurrentStackTraceInfo: the node of m below the current one, new if need be.
getCurrentStackTraceInfo(t, m) ==
  IF tracing
  THEN LET node == Append(trace[t], m) IN
       /\ trace' = [trace EXCEPT ![t] = node]
       /\ measures' = [measures EXCEPT ![t] = Update(@, node, Lookup(@, node, init))]
  ELSE UNCHANGED <<trace, measures>>

setInfo(t, m, resets) ==
  [method |-> m, entry |-> clock[t], callee |-> NoTime, resets |-> resets,
   recursive |-> methodAlreadyCalledInStackTrace(t, m),
   trace |-> IF tracing THEN Append(trace[t], m) ELSE <<>>]

increaseNextMethodInfoToUse(t) == next' = [next EXCEPT ![t] = @ + 1]

\* A call info is reused if there is one, otherwise it is added to the storage.
NextCallInfo(t) == IF next[t] < Len(storage[t]) THEN next[t] + 1 ELSE Len(storage[t]) + 1

getNextMethodCallInfo(t, m, resets) ==
  /\ storage' = [storage EXCEPT ![t] = IF next[t] < Len(@)
                                       THEN [@ EXCEPT ![NextCallInfo(t)] = setInfo(t, m, resets)]
                                       ELSE Append(@, setInfo(t, m, resets))]
  /\ getCurrentStackTraceInfo(t, m)
  /\ increaseNextMethodInfoToUse(t)

pushMethodEntryEventIntoThreadMethodStack(t, callinfo) ==
  /\ stack' = [stack EXCEPT ![t] = Append(@, callinfo)]
  /\ current' = [current EXCEPT ![t] = callinfo]

logMethodEntry(t, m, resets) ==
  /\ getNextMethodCallInfo(t, m, resets)
  /\ pushMethodEntryEventIntoThreadMethodStack(t, NextCallInfo(t))

\* The scaling factor is set by the outermost method that has one.
onVexMethodEntry(t, m, methodTimeScalingFactor) ==
  LET sets == factor[t] = 1 /\ methodTimeScalingFactor \notin {0, 1} IN
  /\ factor' = [factor EXCEPT ![t] = IF sets THEN methodTimeScalingFactor ELSE @]
  /\ logMethodEntry(t, m, sets)

getTimeScalingFactorOfMethod(m) == Scaling[m]

\* The entries of the stack above the topmost one of m are dropped unlogged.
Matches(t, m) == {i \in 1..Len(stack[t]) : storage[t][stack[t][i]].method = m}
Found(t, m) == Matches(t, m) # {}
\* Mutant: the exit is matched with the outermost call of the method.
MatchOutermost(t, m) == CHOOSE i \in Matches(t, m) : \A j \in Matches(t, m) : i <= j

Match(t, m) == CHOOSE i \in Matches(t, m) : \A j \in Matches(t, m) : j <= i

\* With traces the measure of the current method is used, which need not be the
\* exiting one.
ExitingKey(t, m) == IF tracing THEN storage[t][current[t]].trace ELSE <<m>>

\* The measure is made when there is none.
getExitingMethodPerformanceMeasure(t, key) == Lookup(measures[t], key, init)

\* What a call cost, with its callees, and what its caller is told of it.
getInclusiveTimeDifferenceFrom(t, entry) == Minus(clock[t], entry.entry)
updateCalleeTime(info, incl) == [info EXCEPT !.callee = Plus(@, incl)]

\* Mutant: the caller is told the exclusive time of its callee.
logTimesOnMethodExitExclusive(t, m) ==
  LET entry   == storage[t][stack[t][Match(t, m)]]
      calling == IF Match(t, m) > 1 THEN stack[t][Match(t, m) - 1] ELSE 0
      incl    == getInclusiveTimeDifferenceFrom(t, entry)
      excl    == Minus(incl, entry.callee)
  IN  /\ storage' = [storage EXCEPT ![t] = [i \in DOMAIN @ |->
                       IF i = calling THEN updateCalleeTime(@[i], excl) ELSE @[i]]]
      /\ \E key \in {ExitingKey(t, m)} :
           measures' = [measures EXCEPT ![t] =
             Update(@, key, add(getExitingMethodPerformanceMeasure(t, key), excl, incl))]
      /\ current' = [current EXCEPT ![t] = calling]

logTimesOnMethodExit(t, m) ==
  LET entry   == storage[t][stack[t][Match(t, m)]]
      calling == IF Match(t, m) > 1 THEN stack[t][Match(t, m) - 1] ELSE 0
      incl    == getInclusiveTimeDifferenceFrom(t, entry)
      excl    == Minus(incl, entry.callee)
  IN  /\ storage' = [storage EXCEPT ![t] = [i \in DOMAIN @ |->
                       IF i = calling THEN updateCalleeTime(@[i], incl) ELSE @[i]]]
      /\ \E key \in {ExitingKey(t, m)} :
           measures' = [measures EXCEPT ![t] =
             Update(@, key, add(getExitingMethodPerformanceMeasure(t, key), excl, incl))]
      /\ current' = [current EXCEPT ![t] = calling]

logMethodExit(t, m) ==
  \/ /\ Found(t, m)
     /\ logTimesOnMethodExit(t, m)
     /\ stack' = [stack EXCEPT ![t] = SubSeq(@, 1, Match(t, m) - 1)]
     /\ next' = [next EXCEPT ![t] = @ - 1]
     /\ trace' = [trace EXCEPT ![t] = IF tracing THEN Front(ExitingKey(t, m)) ELSE @]
  \/ /\ ~Found(t, m)
     /\ stack' = [stack EXCEPT ![t] = <<>>]
     /\ current' = [current EXCEPT ![t] = 0]
     /\ UNCHANGED <<storage, next, trace, measures>>

\* The factor is reset by the current method, which need not be the exiting one.
onVexMethodExit(t, m) ==
  /\ factor' = [factor EXCEPT ![t] =
                  IF current[t] # 0 /\ storage[t][current[t]].resets THEN 1 ELSE @]
  /\ logMethodExit(t, m)

\* onSynchronizeOnModelExit of a model method leaves the factor alone.
onModelMethodExit(t, m) == logMethodExit(t, m) /\ UNCHANGED factor

------------------------------------------------------------------------------
(* JVMProfilingInvalidationEnforcer.  getMethodDataOf looks a method up    *)
(* with operator[], which inserts it when it is not registered.            *)

Enforce(t, m, done, what) ==
  /\ known' = known \cup {m}
  /\ activity' = [activity EXCEPT ![t] = IF m \in Registered /\ m \notin done THEN <<what, m>> ELSE Runs]

invalidateProfilingOf(t, m) == Enforce(t, m, invalidated, "invalidate")
reinstrumentRecursiveMethod(t, m) == Enforce(t, m, recursive, "reinstrument")

\* The class is reloaded; the flag is set when the call is back.
ClassTransformed(t) ==
  /\ activity[t] \in {"invalidate", "reinstrument"} \X Methods
  /\ \/ /\ activity[t][1] = "invalidate"
        /\ adapted' = adapted \cup {activity[t][2]}
        /\ invalidated' = invalidated \cup {activity[t][2]}
        /\ UNCHANGED recursive
     \/ /\ activity[t][1] = "reinstrument"
        /\ recursive' = recursive \cup {activity[t][2]}
        /\ UNCHANGED <<adapted, invalidated>>
  /\ activity' = [activity EXCEPT ![t] = Runs]
  /\ UNCHANGED <<tracing, policy, frames, clock, storage, next, stack, current, factor, trace,
                 measures, loggerVars, made, historyVars>>

------------------------------------------------------------------------------
(* MethodEventsBehaviour, called by the application.                       *)

LoggedPath(t) == LET logged == SelectSeq(frames[t], LAMBDA f : f.logged)
                 IN  [i \in 1..Len(logged) |-> logged[i].method]

afterMethodEntry(t, m) == onVexMethodEntry(t, m, getTimeScalingFactorOfMethod(m))

\* The callback of the JVM has a method reinstrumented that turns out recursive.
EventNotifier_afterMethodEntry(t, m) ==
  /\ m \notin IoMethods \cup ModelMethods
  /\ afterMethodEntry(t, m)
  /\ IF methodAlreadyCalledInStackTrace(t, m)
     THEN reinstrumentRecursiveMethod(t, m)
     ELSE UNCHANGED <<known, activity>>

afterIoMethodEntry(t, m) ==
  /\ m \in IoMethods
  /\ logMethodEntry(t, m, FALSE)
  /\ UNCHANGED <<factor, known, activity>>

afterMethodEntryUsingPerformanceModel(t, m) ==
  /\ m \in ModelMethods
  /\ onVexMethodEntry(t, m, 0)
  /\ UNCHANGED <<known, activity>>

\* beforeMethodExit asks the policy; the one for absolute times reads the measure
\* before it checks that there is one.
ShouldMethodBeInvalidated(t, m) ==
  LET pm == IF Found(t, m) THEN measures'[t][ExitingKey(t, m)] ELSE init
  IN  ~keepOnProfiling(Found(t, m), pm)

beforeMethodExit(t, m) ==
  /\ m \notin IoMethods \cup ModelMethods
  /\ onVexMethodExit(t, m)
  /\ IF ~Found(t, m) /\ policy = "absolute"
     THEN activity' = [activity EXCEPT ![t] = Crashed] /\ UNCHANGED known
     ELSE IF ShouldMethodBeInvalidated(t, m) THEN invalidateProfilingOf(t, m)
     ELSE UNCHANGED <<known, activity>>

beforeIoMethodExit(t, m) ==
  /\ m \in IoMethods
  /\ logMethodExit(t, m)
  /\ UNCHANGED <<factor, known, activity>>

beforeMethodExitUsingPerformanceModel(t, m) ==
  /\ m \in ModelMethods
  /\ onModelMethodExit(t, m)
  /\ UNCHANGED <<known, activity>>

\* A call of the application: the frame is logged if the method still has its
\* instruments.
Call(t, m) ==
  /\ activity[t] = Runs /\ Len(frames[t]) < MaxDepth /\ made < MaxInvocations
  /\ frames' = [frames EXCEPT ![t] = Append(@, [method |-> m, logged |-> m \notin adapted])]
  /\ made' = made + 1
  /\ \/ m \notin adapted /\ EventNotifier_afterMethodEntry(t, m)
     \/ m \notin adapted /\ afterIoMethodEntry(t, m)
     \/ m \notin adapted /\ afterMethodEntryUsingPerformanceModel(t, m)
     \/ /\ m \in adapted
        /\ UNCHANGED <<storage, next, stack, current, factor, trace, measures, known, activity>>
  /\ UNCHANGED <<tracing, policy, clock, merged, report, methodVars, historyVars>>

Return(t) ==
  /\ activity[t] = Runs /\ frames[t] # <<>>
  /\ frames' = [frames EXCEPT ![t] = Front(@)]
  /\ LET f == Last(frames[t]) IN
     \/ f.logged /\ beforeMethodExit(t, f.method)
     \/ f.logged /\ beforeIoMethodExit(t, f.method)
     \/ f.logged /\ beforeMethodExitUsingPerformanceModel(t, f.method)
     \/ ~f.logged /\ UNCHANGED <<storage, next, stack, current, factor, trace, measures, known, activity>>
  /\ UNCHANGED <<tracing, policy, clock, merged, report, methodVars, made, historyVars>>

\* An exception leaves a frame; VEX is not told.
Unwind(t) ==
  /\ t \in Throwing /\ activity[t] = Runs /\ frames[t] # <<>>
  /\ frames' = [frames EXCEPT ![t] = Front(@)]
  /\ clean' = IF Last(frames[t]).logged THEN clean \ {t} ELSE clean
  /\ UNCHANGED <<tracing, policy, activity, clock, storage, next, stack, current, factor, trace, measures,
                 loggerVars, methodVars, made, spent, truth>>

\* Time passes in a method: it computes, or waits for a monitor or for I/O.
Work(t, kind) ==
  /\ activity[t] = Runs /\ frames[t] # <<>>
  /\ Total(clock, ProfiledThreads, "real") < MaxRealTime
  /\ kind \in {"predicted", "learnt"} <=> Last(frames[t]).method \in IoMethods
  /\ clock' = [clock EXCEPT ![t] = Plus(@, Tick(kind))]
  /\ spent' = IF LoggedPath(t) = <<>> THEN spent
              ELSE LET key == Key(LoggedPath(t)) IN
                   [spent EXCEPT ![t] = Update(@, key, Plus(Lookup(@, key, NoTime), Tick(kind)))]
  /\ UNCHANGED <<tracing, policy, frames, activity, storage, next, stack, current, factor, trace, measures,
                 loggerVars, methodVars, made, truth, clean>>

------------------------------------------------------------------------------
(* EventLogger and StackTraceLogger.                                       *)

\* createMeasuresForThread and mergeMeasures.  The measure of a method that is
\* not registered is dropped, unless it has one already.
Mergeable(t) == {k \in DOMAIN measures[t] : tracing \/ k \in DOMAIN merged \/ Last(k) \in known}

createMeasuresForThread(t) ==
  merged' = [k \in DOMAIN merged \cup Mergeable(t) |->
               IF k \notin Mergeable(t) THEN merged[k]
               ELSE IF k \notin DOMAIN merged THEN measures[t][k]
               ELSE plusEquals(merged[k], measures[t][k])]

\* onEnd: the thread's measures are merged and its state is deleted.
onThreadEnd(t) ==
  /\ activity[t] = Runs /\ frames[t] = <<>>
  /\ createMeasuresForThread(t)
  /\ activity' = [activity EXCEPT ![t] = Ended]
  /\ known' = IF tracing THEN known \cup {Last(k) : k \in DOMAIN measures[t]} ELSE known
  /\ storage' = [storage EXCEPT ![t] = <<>>]
  /\ next' = [next EXCEPT ![t] = 0]
  /\ stack' = [stack EXCEPT ![t] = <<>>]
  /\ current' = [current EXCEPT ![t] = 0]
  /\ factor' = [factor EXCEPT ![t] = 1]
  /\ trace' = [trace EXCEPT ![t] = <<>>]
  /\ measures' = [measures EXCEPT ![t] = <<>>]
  /\ truth' = [k \in DOMAIN truth \cup DOMAIN spent[t] |->
                 Plus(Lookup(truth, k, NoTime), Lookup(spent[t], k, NoTime))]
  /\ spent' = [spent EXCEPT ![t] = <<>>]
  /\ UNCHANGED <<tracing, policy, frames, clock, report, methodVars, made, clean>>

\* resetSimulator forgets what was merged; the running threads keep their measures.
reset ==
  /\ \E t \in ProfiledThreads : activity[t] = Runs
  /\ merged # <<>>
  /\ merged' = <<>> /\ truth' = <<>>
  /\ UNCHANGED <<tracing, policy, threadVars, known, report, methodVars, made, spent, clean>>

Roots == {k \in DOMAIN merged : Len(k) = 1}
\* Mutant: the inclusive times of all traces are added up.
serializedExecutionTimeOfAll ==
  IF tracing THEN Total([k \in DOMAIN merged |-> merged[k].incl], DOMAIN merged, "cpu")
  ELSE Total([k \in DOMAIN merged |-> merged[k].excl], DOMAIN merged, "cpu")

serializedExecutionTime ==
  IF tracing THEN Total([k \in DOMAIN merged |-> merged[k].incl], Roots, "cpu")
  ELSE Total([k \in DOMAIN merged |-> merged[k].excl], DOMAIN merged, "cpu")

\* printMeansInMSec takes all the time in I/O off the CPU time, in the measure
\* itself.
Max0(n) == IF n < 0 THEN 0 ELSE n
printMeansInMSec(pm) ==
  [pm EXCEPT !.excl["cpu"] = Max0(@ - pm.excl["io"]), !.incl["cpu"] = Max0(@ - pm.incl["io"])]

\* outputStackTraceLevel leaves out a trace without CPU time, and what is below it.
Printed == {k \in DOMAIN merged : tracing =>
              \A i \in 1..Len(k) : merged[SubSeq(k, 1, i)].incl["cpu"] > 0}

\* writeData; bound: one report.
printResults ==
  /\ report = NoReport /\ merged # <<>>
  /\ report' = [aet |-> serializedExecutionTime, lines |-> Printed]
  /\ merged' = [k \in DOMAIN merged |->
                  IF k \in Printed THEN printMeansInMSec(merged[k]) ELSE merged[k]]
  /\ UNCHANGED <<tracing, policy, threadVars, known, methodVars, made, historyVars>>

------------------------------------------------------------------------------
\* A late thread is inside a method whose exit VEX will see.
ProfilingInit ==
  /\ \E c \in Configurations : tracing = c[1] /\ policy = c[2]
  /\ clean \in {ProfiledThreads \ late : late \in SUBSET Late}
  /\ frames \in [ProfiledThreads -> {<<>>} \cup {<<[method |-> m, logged |-> TRUE]>> :
                                           m \in Methods \ (IoMethods \cup ModelMethods)}]
  /\ \A t \in ProfiledThreads : frames[t] = <<>> <=> t \in clean
  /\ activity = [t \in ProfiledThreads |-> Runs]
  /\ clock = [t \in ProfiledThreads |-> NoTime]
  /\ storage = [t \in ProfiledThreads |-> <<>>] /\ next = [t \in ProfiledThreads |-> 0]
  /\ stack = [t \in ProfiledThreads |-> <<>>] /\ current = [t \in ProfiledThreads |-> 0]
  /\ factor = [t \in ProfiledThreads |-> 1] /\ trace = [t \in ProfiledThreads |-> <<>>]
  /\ measures = [t \in ProfiledThreads |-> <<>>]
  /\ known = Registered /\ merged = <<>>
  /\ invalidated = {} /\ recursive = {} /\ adapted = {}
  /\ report = NoReport /\ made = 0
  /\ spent = [t \in ProfiledThreads |-> <<>>] /\ truth = <<>>

ProfilingNext ==
  \/ \E t \in ProfiledThreads :
       \/ \E m \in Methods : Call(t, m)
       \/ Return(t) \/ Unwind(t) \/ ClassTransformed(t) \/ onThreadEnd(t)
       \/ \E kind \in {"run", "wait", "predicted", "learnt"} : Work(t, kind)
  \/ reset
  \/ printResults

ProfilingSpec == ProfilingInit /\ [][ProfilingNext]_profilingVars

------------------------------------------------------------------------------
(* Properties.                                                             *)

Time == [Counters -> Nat]
Measure == [excl : Time, incl : Time, samples : Nat]
Info == [method : Methods, entry : Time, callee : Time, resets : BOOLEAN, recursive : BOOLEAN,
         trace : Seq(Methods)]

\* The profile holds values of their types: no time is negative, also when an
\* exit drops the calls above it, whose times their callers never learn of.
ProfileTypeOK ==
  /\ <<tracing, policy>> \in Configurations
  /\ \A t \in ProfiledThreads :
       /\ frames[t] \in Seq([method : Methods, logged : BOOLEAN])
       /\ activity[t] \in {Runs, Ended, Crashed} \cup ({"invalidate", "reinstrument"} \X Methods)
       /\ clock[t] \in Time
       /\ storage[t] \in Seq(Info)
       /\ next[t] \in 0..Len(storage[t])
       /\ stack[t] \in Seq(DOMAIN storage[t])
       /\ current[t] \in 0..Len(storage[t])
       /\ factor[t] \in Nat \ {0}
       /\ trace[t] \in Seq(Methods)
       /\ \A k \in DOMAIN measures[t] : k \in Seq(Methods) /\ measures[t][k] \in Measure
  /\ \A k \in DOMAIN merged : k \in Seq(Methods) /\ merged[k] \in Measure
  /\ known \subseteq Methods /\ invalidated \subseteq Methods /\ recursive \subseteq Methods
  /\ adapted \subseteq Methods

\* The profile and what is printed of it.
ProfilingTypeOK ==
  /\ ProfileTypeOK
  /\ report.aet \in Nat \cup {-1} /\ report.lines \subseteq Seq(Methods)

StackMethods(t) == [i \in 1..Len(stack[t]) |-> storage[t][stack[t][i]].method]

\* No two calls on the stack of a thread share a MethodCallInfo, none of them will
\* be reused for the next call, and the current method is the top of the stack:
\* also when an exit drops several entries at once and gives one of them back.
CallInfosAreNotShared ==
  \A t \in ProfiledThreads :
    /\ \A i \in 1..Len(stack[t]) : stack[t][i] <= next[t]
    /\ \A i, j \in 1..Len(stack[t]) : i < j => stack[t][i] < stack[t][j]
    /\ current[t] = IF stack[t] = <<>> THEN 0 ELSE Last(stack[t])

\* s is obtained from r by leaving out elements.
Embedded(s, r) ==
  \E f \in [1..Len(s) -> 1..Len(r)] :
    /\ \A i \in 1..Len(s) : s[i] = r[f[i]]
    /\ \A i, j \in 1..Len(s) : i < j => f[i] < f[j]

\* The log of a thread has all the instrumented methods it is in, in their order
\* (an exception may leave more of them); without exceptions it has just those,
\* and so has the stack trace.
LogFollowsTheCalls ==
  \A t \in ProfiledThreads :
    /\ t \notin Late => Embedded(LoggedPath(t), StackMethods(t))
    /\ t \in clean => /\ StackMethods(t) = LoggedPath(t)
                      /\ tracing => trace[t] = LoggedPath(t)

\* The exclusive time of a method (or stack trace) a thread is not in is the time
\* it has spent with that method on top, in every counter.
ExclusiveTimesAreTheTimesSpent ==
  \A t \in clean : activity[t] # Ended =>
    \A k \in DOMAIN measures[t] \cup DOMAIN spent[t] :
      (IF tracing THEN ~IsPrefix(k, LoggedPath(t)) ELSE ~Contains(LoggedPath(t), k[1])) =>
        Lookup(measures[t], k, init).excl = Lookup(spent[t], k, NoTime)

\* A thread is scaled just while it is in a method with a scaling factor, by that
\* of the outermost one.
OutermostFactorHolds ==
  \A t \in clean :
    LET scaled == SelectSeq(LoggedPath(t),
                            LAMBDA m : m \notin IoMethods \cup ModelMethods /\ Scaling[m] # 1)
    IN  factor[t] = IF scaled = <<>> THEN 1 ELSE Scaling[scaled[1]]

EndedAreClean == \A t \in ProfiledThreads : activity[t] = Ended => t \in clean

\* The merged measures are the CPU and real times the threads that ended have
\* spent, whatever the order in which they end, up to the report, which changes
\* the CPU times; and they cover every registered method.
MergedTimesAddUp ==
  EndedAreClean =>
    /\ \A k \in DOMAIN merged :
         LET time == Lookup(truth, k, NoTime) IN
         (tracing \/ Last(k) \in Registered) =>
           /\ merged[k].excl["real"] = time["real"]
           /\ report = NoReport => merged[k].excl["cpu"] = time["cpu"]
    /\ \A k \in DOMAIN truth : k \in DOMAIN merged \/ Last(k) \notin known

\* What a thread without exceptions measures for a method is the time it spent
\* there, and the merged measures are the sum over the threads that ended, in
\* whichever order.
MeasuredTimesAreTheTimesSpent ==
  /\ ExclusiveTimesAreTheTimesSpent
  /\ MergedTimesAddUp

\* The aggregate execution time of a report is the CPU time of the threads that
\* ended, in the methods that are registered: with traces it is computed from the
\* inclusive times of the roots, otherwise from all exclusive times.
ReportedTimeIsTheTimeSpent ==
  [][report' # report /\ EndedAreClean =>
       LET all == Total(truth, DOMAIN truth, "cpu")
           registered == Total(truth, {k \in DOMAIN truth : Last(k) \in Registered}, "cpu")
       IN  IF tracing THEN report'.aet = all ELSE report'.aet \in registered..all]_profilingVars

\* A call is taken for a recursive one just if its method is below it on the stack
\* of the application, and only when stack traces are kept.
RecursionIsDetected ==
  \A t \in clean : \A i \in 1..Len(stack[t]) :
    storage[t][stack[t][i]].recursive <=>
      tracing /\ Contains(SubSeq(LoggedPath(t), 1, i - 1), LoggedPath(t)[i])

\* The method log of a thread follows its calls through exceptions and reloaded
\* classes: entries are not shared, recursion is found, and the scaling factor
\* is that of the outermost scaled method.
CallLogIsConsistent ==
  /\ ProfilingTypeOK
  /\ CallInfosAreNotShared
  /\ LogFollowsTheCalls
  /\ OutermostFactorHolds
  /\ RecursionIsDetected
=============================================================================
