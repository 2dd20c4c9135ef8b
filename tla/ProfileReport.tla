--------------------------- MODULE ProfileReport ---------------------------
(* The reports of the profiler (profiler/EventLogger.cpp): the flat lists of *)
(* writeDataHprofStyle and writeMethods, and the call tree that              *)
(* StackTraceLogger::writeDataVTFStyle sorts, prunes and writes twice, as    *)
(* text and as HTML.                                                         *)
(*                                                                           *)
(* The measures of the run are given: how they are collected is              *)
(* MethodProfiling. The recursive functions are a stack of frames, one for   *)
(* each vector of submethods being walked through. A percentage p of a time  *)
(* t is above the threshold when 100 * p > threshold * t, which is what the  *)
(* floating point quotient gives also for a total of zero (x/0 is infinite,  *)
(* 0/0 compares false).                                                      *)
EXTENDS Naturals, Sequences, FiniteSets

CONSTANTS
  Measures,        \* the nodes of the call tree, or the methods of a flat profile
  Top,             \* stands for the vector measuresRoots
  Times,           \* times and invocation counts a measure may have
  Thresholds,      \* values of prunePercentage
  Trees            \* call trees: the calling measure, or Top, of each measure

ASSUME TreesAssumption == Trees \subseteq [Measures -> Measures \cup {Top}]
ASSUME TimesAssumption == Times \subseteq Nat /\ Thresholds \subseteq Nat

VARIABLES
  callingMethod,   \* of each measure
  subMethods,      \* the vector of each measure, and of Top
  inclusive,       \* cpuTimeIncludingCalleeMethods of each measure
  exclusive,       \* cpuTimeExcludingCalleeMethods
  invocations,
  prunePercentage,
  writing,         \* what is being written; "idle" before, "failed" without a file
  frames,          \* the stack of walks: [of: measure or Top, next: index]
  serialized,      \* serializedExecutionTime
  summed,          \* the invocations sortSubmethodsAndGetSamples has added up
  text,            \* lines of the text report: [level, measure]
  html,            \* items of the HTML report: [id, measure]
  ranks            \* the rows of a flat report: [measure, accumulated]

profile == <<callingMethod, inclusive, exclusive, invocations, prunePercentage>>
reportVars == <<callingMethod, subMethods, inclusive, exclusive, invocations,
                prunePercentage, writing, frames, serialized, summed, text, html, ranks>>

SumOf(f, S) ==
  LET add[T \in SUBSET S] ==
        IF T = {} THEN 0 ELSE LET x == CHOOSE x \in T : TRUE IN f[x] + add[T \ {x}]
  IN add[S]

Orders(S) == {s \in [1..Cardinality(S) -> S] : {s[i] : i \in DOMAIN s} = S}

(* The comparators of the reports: larger values first, and of equal values  *)
(* none first, so that a sort may leave them either way.                     *)
SortedBy(s, value) == \A i, j \in DOMAIN s : i < j => value[s[i]] >= value[s[j]]

compare_PerformanceMeasureTotalTime(s) == SortedBy(s, inclusive)
compare_PerformanceMeasureExclusiveTimes(s) == SortedBy(s, exclusive)
compare_PerformanceMeasureInvocations(s) == SortedBy(s, invocations)

(***************************************************************************)
(* Flat reports                                                            *)
(***************************************************************************)

Accumulated(s, value) ==
  [i \in DOMAIN s |-> [measure |-> s[i],
                       accumulated |-> SumOf(value, {s[j] : j \in 1..i})]]

writeDataHprofStyle ==
  /\ writing = "idle"
  /\ \E s \in Orders(Measures) :
       compare_PerformanceMeasureExclusiveTimes(s) /\ ranks' = Accumulated(s, exclusive)
  /\ serialized' = SumOf(exclusive, Measures)
  /\ writing' = "hprof"
  /\ UNCHANGED <<profile, subMethods, frames, summed, text, html>>

(* writeMethods: the invocations of each method, and their share of sum.     *)
writeMethods ==
  /\ writing = "idle"
  /\ \E s \in Orders(Measures) :
       /\ compare_PerformanceMeasureInvocations(s)
       /\ ranks' = Accumulated(s, invocations)
  /\ summed' = SumOf(invocations, Measures)
  /\ writing' = "methods"
  /\ UNCHANGED <<profile, subMethods, frames, serialized, text, html>>

(***************************************************************************)
(* The call tree                                                           *)
(***************************************************************************)

Frame == frames[Len(frames)]
Current == subMethods[Frame.of][Frame.next]
InFrame == frames # <<>> /\ Frame.next <= Len(subMethods[Frame.of])

(* The walk goes on behind the current measure, first through its            *)
(* submethods.                                                               *)
Descended == Append([frames EXCEPT ![Len(frames)].next = @ + 1], [of |-> Current, next |-> 1])
Skipped == [frames EXCEPT ![Len(frames)].next = @ + 1]

(* std::sort of the vector a walk is about to go through.                    *)
SortLevel(m, sorted) ==
  /\ sorted \in Orders({subMethods[m][i] : i \in DOMAIN subMethods[m]})
  /\ compare_PerformanceMeasureTotalTime(sorted)
  /\ subMethods' = [subMethods EXCEPT ![m] = sorted]

(* writeDataVTFStyle calls sortSubmethodsAndGetSamples with the roots, which *)
(* sorts them ...                                                            *)
writeDataVTFStyle ==
  /\ writing = "idle"
  /\ \E sorted \in Orders({subMethods[Top][i] : i \in DOMAIN subMethods[Top]}) :
       SortLevel(Top, sorted)
  /\ frames' = <<[of |-> Top, next |-> 1]>>
  /\ writing' = "sort"
  /\ UNCHANGED <<profile, serialized, summed, text, html, ranks>>

(* A mutant: the invocations of a submethod are added to its caller's, and   *)
(* the walk does not go below them.                                          *)
sortSubmethodsAndGetSamples_Shallow ==
  /\ writing = "sort" /\ InFrame
  /\ summed' = summed + invocations[Current]
  /\ frames' = IF Frame.of = Top THEN Descended ELSE Skipped
  /\ UNCHANGED <<profile, writing, subMethods, serialized, text, html, ranks>>

(* ... and takes them one by one: the invocations are added, and the call    *)
(* for its submethods sorts theirs.                                          *)
sortSubmethodsAndGetSamples ==
  /\ writing = "sort" /\ InFrame
  /\ summed' = summed + invocations[Current]
  /\ \E sorted \in Orders({subMethods[Current][i] : i \in DOMAIN subMethods[Current]}) :
       SortLevel(Current, sorted)
  /\ frames' = Descended
  /\ UNCHANGED <<profile, writing, serialized, text, html, ranks>>

(* The time of the roots is the total of the report, and the roots are       *)
(* sorted once more.                                                         *)
aggregateRootLevel ==
  /\ writing = "total"
  /\ serialized' = SumOf(inclusive, {subMethods[Top][i] : i \in DOMAIN subMethods[Top]})
  /\ \E sorted \in Orders({subMethods[Top][i] : i \in DOMAIN subMethods[Top]}) :
       SortLevel(Top, sorted)
  /\ frames' = <<[of |-> Top, next |-> 1]>>
  /\ writing' = "text"
  /\ UNCHANGED <<profile, summed, text, html, ranks>>

IsAboveThreshold(m) == 100 * inclusive[m] > prunePercentage * serialized

outputStackTraceLevel ==
  /\ writing = "text" /\ InFrame
  /\ IF IsAboveThreshold(Current)
     THEN /\ text' = Append(text, [level |-> Len(frames) - 1, measure |-> Current])
          /\ frames' = Descended
     ELSE frames' = Skipped /\ UNCHANGED text
  /\ UNCHANGED <<profile, writing, subMethods, serialized, summed, html, ranks>>

toHTML ==
  /\ writing = "html" /\ InFrame
  /\ IF IsAboveThreshold(Current)
     THEN /\ html' = Append(html, [id |-> Len(html), measure |-> Current])
          /\ frames' = Descended
     ELSE frames' = Skipped /\ UNCHANGED html
  /\ UNCHANGED <<profile, writing, subMethods, serialized, summed, text, ranks>>

(* The end of a vector: the caller's walk goes on, or the next part of       *)
(* writeDataVTFStyle follows.                                                *)
LevelEnds ==
  /\ frames # <<>> /\ ~InFrame
  /\ IF Len(frames) > 1
     THEN frames' = SubSeq(frames, 1, Len(frames) - 1) /\ UNCHANGED writing
     ELSE \/ /\ writing = "sort" /\ writing' = "total" /\ frames' = <<>>
          \/ /\ writing = "text" /\ writing' = "html"
             /\ frames' = <<[of |-> Top, next |-> 1]>>
          \/ /\ writing = "html" /\ writing' = "written" /\ frames' = <<>>
  /\ UNCHANGED <<profile, subMethods, serialized, summed, text, html, ranks>>

(* A file cannot be opened: the report ends before its first line. The flat  *)
(* reports have changed nothing that is read again, the tree is sorted.      *)
openFails ==
  /\ \/ writing = "idle"
     \/ writing \in {"text", "html"} /\ frames = <<[of |-> Top, next |-> 1]>>
  /\ writing' = "failed" /\ frames' = <<>>
  /\ UNCHANGED <<profile, subMethods, serialized, summed, text, html, ranks>>

CalleesInOrder(called) ==
  [m \in Measures \cup {Top} |->
     LET IsCallee(n) == callingMethod[n] = m IN SelectSeq(called, IsCallee)]

(* The submethods are in the order in which they were first called. A        *)
(* caller's time may be below its callees': one that has not returned when   *)
(* the report is written has no time of its own yet.                         *)
RecordedProfile ==
  /\ callingMethod \in Trees
  /\ \E called \in Orders(Measures) : subMethods = CalleesInOrder(called)
  /\ inclusive \in [Measures -> Times]
  /\ exclusive \in {inclusive, [m \in Measures |-> IF inclusive[m] > 0 THEN 1 ELSE 0]}
  /\ invocations \in {[m \in Measures |-> 1 + inclusive[m]], [m \in Measures |-> 1]}
  /\ prunePercentage \in Thresholds

ReportStart ==
  /\ writing = "idle" /\ frames = <<>>
  /\ serialized = 0 /\ summed = 0
  /\ text = <<>> /\ html = <<>> /\ ranks = <<>>

ReportInit == RecordedProfile /\ ReportStart

ReportNext ==
  \/ writeDataHprofStyle \/ writeMethods \/ writeDataVTFStyle
  \/ sortSubmethodsAndGetSamples \/ aggregateRootLevel
  \/ outputStackTraceLevel \/ toHTML \/ LevelEnds \/ openFails

ReportSpec == ReportInit /\ [][ReportNext]_reportVars

(***************************************************************************)
(* Properties                                                              *)
(***************************************************************************)

Callers(m) ==
  LET up[i \in 0..Cardinality(Measures)] ==
        IF i = 0 THEN {m} ELSE up[i - 1] \cup {callingMethod[n] : n \in up[i - 1] \ {Top}}
  IN up[Cardinality(Measures)] \ {Top}

(* The text report of a call tree holds a measure exactly when it and all    *)
(* its callers take more than the pruned share of the time, once, indented   *)
(* by the number of its callers.                                             *)
PrunedTreeIsPrinted ==
  writing \in {"html", "written"} =>
    /\ {text[i].measure : i \in DOMAIN text} =
         {m \in Measures : \A c \in Callers(m) : IsAboveThreshold(c)}
    /\ \A i, j \in DOMAIN text : text[i].measure = text[j].measure => i = j
    /\ \A i \in DOMAIN text : text[i].level = Cardinality(Callers(text[i].measure)) - 1

(* In the text report a measure follows its caller before anything outside   *)
(* the caller's subtree, and the callees of one caller come in the order of  *)
(* their times.                                                              *)
TreeIsReadable ==
  writing \in {"html", "written"} =>
    \A i, j \in DOMAIN text :
      LET a == text[i].measure
          b == text[j].measure
      IN i < j =>
           /\ a \notin Callers(b) =>
                \A k \in j..Len(text) : a \notin Callers(text[k].measure)
           /\ b \notin Callers(a)
           /\ callingMethod[a] = callingMethod[b] => inclusive[a] >= inclusive[b]

(* Text and HTML show the same tree, and the HTML items are numbered in      *)
(* order: the walks of two functions, over vectors sorted in between, agree. *)
BothReportsAgree ==
  writing = "written" =>
    /\ Len(html) = Len(text)
    /\ \A i \in DOMAIN html : html[i] = [id |-> i - 1, measure |-> text[i].measure]

(* The invocations in the legend are those of all measures of the tree,      *)
(* pruned ones included.                                                     *)
InvocationsAreCounted ==
  writing \in {"total", "text", "html", "written"} =>
    summed = SumOf(invocations, Measures)

(* accum% in row n of an Hprof style report is the largest share of the time *)
(* that any n methods have.                                                  *)
RanksAccumulateMost ==
  writing = "hprof" =>
    \A n \in DOMAIN ranks : \A S \in SUBSET Measures :
      Cardinality(S) = n => SumOf(exclusive, S) <= ranks[n].accumulated

\* The reports show the recorded profile: the tree without its pruned branches,
\* callees by time, the same lines in text and HTML, all invocations, and the
\* ranking that accumulates most of the time first.
ReportIsTheProfile ==
  /\ PrunedTreeIsPrinted
  /\ TreeIsReadable
  /\ BothReportsAgree
  /\ InvocationsAreCounted
  /\ RanksAccumulateMost
============================================================================
