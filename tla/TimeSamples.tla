----------------------------- MODULE TimeSamples -----------------------------
(* The time statistics that keep every commit (time_stats=all):              *)
(* SamplesPerThreadAnalysis collects a sample per commit in a list per       *)
(* thread, and its combined report sorts all of them by global time and      *)
(* looks for time that no sample explains.  Times are in milliseconds, the   *)
(* tolerance of the report is one of them.                                   *)
EXTENDS Integers, Sequences, SequencesExt, FiniteSets

CONSTANTS SampledThreads,
          Background,    \* the row of the background load, thread id -1
          Advances,      \* by how much a commit may move the global clock
          MaxSamples     \* bound: commits

ASSUME SampleAssumption ==
  /\ Background \notin SampledThreads
  /\ Advances \subseteq Nat /\ MaxSamples \in Nat

VARIABLES
  sampledTime,      \* the global virtual time
  threadsToSamples, \* thread -> ThreadTimeSamples::times
  gaps              \* when the clock moved without a sample (history)

sampleVars == <<sampledTime, threadsToSamples, gaps>>

Tolerance == 1
Rows == SampledThreads \cup {Background}
SamplesTaken == FoldSet(LAMBDA r, n : n + Len(threadsToSamples[r]), 0, Rows)

\* The commits that are logged.  The waits and the background load have a
\* checkInterThreadValidity that answers "OK" to everything.
ThreadKinds == {"CPU", "IO", "NW", "MS", "WTS", "TWTS", "IOTO"}
Checked == {"CPU", "IO", "NW", "MS"}

SampleInit ==
  /\ sampledTime = 0 /\ gaps = {}
  /\ threadsToSamples = [r \in Rows |-> <<>>]

\* The constructor of a sample.  resumedLastAt stays uninitialised in the one of
\* the background load.
NewSample(kind, d, resumed) ==
  [kind |-> kind, before |-> sampledTime, after |-> sampledTime + d, resumed |-> resumed]

Record(r, kind) ==
  /\ SamplesTaken < MaxSamples
  /\ \E d \in Advances, resumed \in {0, sampledTime} :
       /\ threadsToSamples' = [threadsToSamples EXCEPT ![r] = Append(@, NewSample(kind, d, resumed))]
       /\ sampledTime' = sampledTime + d
  /\ UNCHANGED gaps

\* SamplesPerThreadAnalysis::logCpuTime and its siblings.
logThread(t) == \E kind \in ThreadKinds : Record(t, kind)
logBackgroundLoadExecutionTime == Record(Background, "BGND")

\* The clock moves by more than the tolerance and no logger is told.
Unlogged ==
  /\ SamplesTaken < MaxSamples /\ Cardinality(gaps) < 1
  /\ \E d \in Advances :
       d > Tolerance /\ gaps' = gaps \cup {sampledTime} /\ sampledTime' = sampledTime + d
  /\ UNCHANGED threadsToSamples

SampleNext == (\E t \in SampledThreads : logThread(t)) \/ logBackgroundLoadExecutionTime \/ Unlogged

SampleSpec == SampleInit /\ [][SampleNext]_sampleVars

----------------------------------------------------------------------------
\* ThreadTimeSample::compareTo; compare_ThreadTimeSamples swaps its arguments.
compareTo(a, b) ==
  \/ a.before > b.before
  \/ a.before = b.before /\ (a.after < b.after \/ (a.after = b.after /\ a.resumed < b.resumed))
Precedes(a, b) == compareTo(b, a)

\* addAllSamples: the lists one after the other.
AllSamples == FlattenSeq([i \in 1..Cardinality(Rows) |-> threadsToSamples[SetToSeq(Rows)[i]]])

\* The orders std::sort may put the samples in.
Sorted == {p \in SetToSeqs(DOMAIN AllSamples) :
             \A i, j \in DOMAIN p : i < j => ~Precedes(AllSamples[p[j]], AllSamples[p[i]])}

\* A bug for the mutants: every sample moves the end of the last one.
Leaps_AllMove(lastGvtAfter, s) ==
  <<s.kind \in Checked /\ (s.before - lastGvtAfter > Tolerance \/ lastGvtAfter - s.before > Tolerance),
    s.after>>
\* checkInterThreadValidity: is a leap reported at sample s, and the new lastGvtAfter?
Leaps(lastGvtAfter, s) ==
  <<s.kind \in Checked /\ (s.before - lastGvtAfter > Tolerance \/ lastGvtAfter - s.before > Tolerance),
    IF s.kind \in Checked THEN s.after ELSE lastGvtAfter>>

\* combinedAnalysis, printSortedByGvt: the samples of order p marked as leaps.
combinedAnalysis(p) ==
  FoldLeft(LAMBDA acc, i : LET x == Leaps(acc.last, AllSamples[i])
                           IN [last |-> x[2], found |-> acc.found \/ x[1]],
           [last |-> 0, found |-> FALSE], p).found

----------------------------------------------------------------------------
(***************************************************************************)
(* Whatever order std::sort leaves equal samples in, time that passed      *)
(* without a sample shows as a leap as soon as a later sample of a checked *)
(* kind was taken (TimeLogger.cpp: "LEAP FROM ONE GVT TO THE NEXT").       *)
(***************************************************************************)
UnexplainedTimeIsReported ==
  (\E g \in gaps, i \in DOMAIN AllSamples :
      AllSamples[i].kind \in Checked /\ AllSamples[i].before > g)
    => \A p \in Sorted : combinedAnalysis(p)

\* compare_ThreadTimeSamples is an order std::sort may be used with: irreflexive,
\* transitive, and so is being equivalent under it.
OrderIsStrictWeak ==
  LET s == ToSet(AllSamples)
  IN /\ \A a \in s : ~Precedes(a, a)
     /\ \A a, b, c \in s :
          /\ Precedes(a, b) /\ Precedes(b, c) => Precedes(a, c)
          /\ Precedes(a, c) => Precedes(a, b) \/ Precedes(b, c)

\* Time of the global clock that no sample explains is reported as a leap, and
\* the samples are compared by a strict weak order, as std::sort requires.
SamplesAreReported ==
  /\ UnexplainedTimeIsReported
  /\ OrderIsStrictWeak
=============================================================================
