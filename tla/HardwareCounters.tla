-------------------------- MODULE HardwareCounters --------------------------
(* The profiler of hardware counters and resource usage                      *)
(* (src/profiler/PapiProfiler), as the Java agent beside it and the thread   *)
(* events of VEX use it: a thread starts its counters when it starts, and    *)
(* adds a record of what it used to a shared vector when it ends; the        *)
(* records are written, with their averages, when the virtual machine ends.  *)
(*                                                                           *)
(* papiInitializedSuccess is one flag for all threads, read and written      *)
(* without a lock; the start values are thread local. CPU and real time are  *)
(* treated alike in the code: the model follows the CPU time. The hardware   *)
(* counters themselves are one number per thread.                            *)
EXTENDS Integers, Sequences

CONSTANTS
  CountedBy,       \* the threads
  MaxUse           \* CPU time units a thread uses at most

ASSUME MaxUseAssumption == MaxUse \in Nat

VARIABLES
  papiInitializedSuccess,
  everFailed,      \* PAPI reported an error (observed by the properties only)
  step,            \* where each thread is in onThreadStart or onThreadEnd
  virtNsec,        \* PAPI_get_virt_nsec of each thread
  ownUse,          \* what it has used since its start (for the properties only)
  startingCpuTime, \* __thread startingThreadCpuTime
  eventSet,        \* __thread eventSet: its counters are running
  usageAtStart,    \* __thread resourceUsage, of the process
  measured,        \* locals of onThreadEnd: CPU time, counter and usage
  data,            \* the vector of records
  row,             \* the report: rows written, 0 before it; or Done, or Torn
  totals           \* the record it adds the rows to, and their number

papiVars == <<papiInitializedSuccess, everFailed, step, virtNsec, ownUse, startingCpuTime,
              eventSet, usageAtStart, measured, data, row, totals>>

threads == <<papiInitializedSuccess, everFailed, step, virtNsec, ownUse, startingCpuTime,
             eventSet, usageAtStart, measured>>

Nothing == [cpu |-> 0, counter |-> 0, usage |-> 0]

Done == -1
Torn == -2

(* getrusage(RUSAGE_SELF): the whole process, not the calling thread.        *)
ProcessUsage ==
  LET sum[S \in SUBSET CountedBy] ==
        IF S = {} THEN 0
        ELSE LET t == CHOOSE t \in S : TRUE IN virtNsec[t] + sum[S \ {t}]
  IN sum[CountedBy]

(* The constructor: an error of PAPI_library_init or PAPI_thread_init is     *)
(* reported, and the flag is set all the same.                               *)
PapiInit ==
  /\ papiInitializedSuccess = TRUE
  /\ everFailed \in BOOLEAN
  /\ step = [t \in CountedBy |-> "new"]
  /\ virtNsec \in [CountedBy -> {0, 1}]
  /\ ownUse = [t \in CountedBy |-> 0]
  /\ startingCpuTime = [t \in CountedBy |-> 0]
  /\ eventSet = [t \in CountedBy |-> FALSE]
  /\ usageAtStart = [t \in CountedBy |-> 0]
  /\ measured = [t \in CountedBy |-> Nothing]
  /\ data = <<>>
  /\ row = 0
  /\ totals = [count |-> 0, sum |-> Nothing]

Goes(t, from, to) == step[t] = from /\ step' = [step EXCEPT ![t] = to]

(* The thread runs, before, between and after the calls.                     *)
UseCpu(t) ==
  /\ step[t] = "running" /\ virtNsec[t] < MaxUse
  /\ virtNsec' = [virtNsec EXCEPT ![t] = @ + 1]
  /\ ownUse' = [ownUse EXCEPT ![t] = @ + 1]
  /\ UNCHANGED <<papiInitializedSuccess, everFailed, step, startingCpuTime, eventSet,
                 usageAtStart, measured, data, row, totals>>

(* startPapiCounterMeasurement with addEvents, then getrusage. An event that *)
(* cannot be added is only reported; PAPI_start without events fails.        *)
startPapiCounterMeasurement(t) ==
  /\ Goes(t, "new", "starting")
  /\ \E works \in BOOLEAN :
       /\ papiInitializedSuccess' = (papiInitializedSuccess /\ works)
       /\ everFailed' = (everFailed \/ (papiInitializedSuccess /\ ~works))
       /\ eventSet' = [eventSet EXCEPT ![t] = papiInitializedSuccess]
  /\ usageAtStart' = [usageAtStart EXCEPT ![t] = ProcessUsage]
  /\ UNCHANGED <<virtNsec, ownUse, startingCpuTime, measured, data, row, totals>>

(* A mutant: startingThreadCpuTime is not thread local.                      *)
onThreadStart_Shared(t) ==
  /\ Goes(t, "starting", "running")
  /\ startingCpuTime' = [u \in CountedBy |-> IF papiInitializedSuccess THEN virtNsec[t] ELSE 0]
  /\ UNCHANGED <<papiInitializedSuccess, everFailed, virtNsec, ownUse, eventSet, usageAtStart,
                 measured, data, row, totals>>

onThreadStart(t) ==
  /\ Goes(t, "starting", "running")
  /\ startingCpuTime' = [startingCpuTime EXCEPT ![t] =
                           IF papiInitializedSuccess THEN virtNsec[t] ELSE 0]
  /\ UNCHANGED <<papiInitializedSuccess, everFailed, virtNsec, ownUse, eventSet, usageAtStart,
                 measured, data, row, totals>>

(* onThreadEnd reads the clock if the flag is (still) set ...                *)
onPapiThreadEnd(t) ==
  /\ Goes(t, "running", "ending")
  /\ measured' = [measured EXCEPT ![t].cpu = IF papiInitializedSuccess THEN virtNsec[t] ELSE 0]
  /\ UNCHANGED <<papiInitializedSuccess, everFailed, virtNsec, ownUse, startingCpuTime,
                 eventSet, usageAtStart, data, row, totals>>

(* ... stops the counters, if the flag is set at that time, and takes what   *)
(* the process has used since the thread started. An error of PAPI_stop is   *)
(* only reported; without counters their values are 0.                       *)
stopPapiCounterMeasurement(t) ==
  /\ Goes(t, "ending", "measured")
  /\ \E works \in BOOLEAN :
       measured' = [measured EXCEPT
                      ![t].counter = IF papiInitializedSuccess /\ eventSet[t] /\ works
                                     THEN 1 ELSE 0,
                      ![t].usage = ProcessUsage - usageAtStart[t]]
  /\ UNCHANGED <<papiInitializedSuccess, everFailed, virtNsec, ownUse, startingCpuTime,
                 eventSet, usageAtStart, data, row, totals>>

RecordOf(t) == [measured[t] EXCEPT !.cpu = @ - startingCpuTime[t]]

(* A push moves the vector when it is full. outputResults takes no lock, and *)
(* the virtual machine may end while a thread still does: the iterator of a  *)
(* report under way then points to memory that is freed.                     *)
Pushed(t) ==
  /\ data' = Append(data, [thread |-> t, of |-> RecordOf(t)])
  /\ row' \in IF row > 0 THEN {row, Torn} ELSE {row}

(* ... and adds the record under the mutex.                                  *)
pushRecord(t) ==
  /\ Goes(t, "measured", "ended")
  /\ Pushed(t)
  /\ UNCHANGED <<papiInitializedSuccess, everFailed, virtNsec, ownUse, startingCpuTime,
                 eventSet, usageAtStart, measured, totals>>

(***************************************************************************)
(* The report                                                              *)
(***************************************************************************)

Add(a, b) == [cpu |-> a.cpu + b.cpu, counter |-> a.counter + b.counter,
              usage |-> a.usage + b.usage]

Mean(total, count) == IF total >= 0 THEN total \div count ELSE -((-total) \div count)

Averages(sum, count) ==
  [cpu |-> Mean(sum.cpu, count), counter |-> Mean(sum.counter, count),
   usage |-> Mean(sum.usage, count)]

(* outputResults begins. Without a record it divides by a count of zero.     *)
outputResults ==
  /\ row = 0 /\ data # <<>>
  /\ row' = 1 /\ totals' = [count |-> 1, sum |-> data[1].of]
  /\ UNCHANGED <<threads, data>>

addRow ==
  /\ row > 0 /\ row < Len(data)
  /\ row' = row + 1
  /\ totals' = [count |-> row + 1, sum |-> Add(totals.sum, data[row + 1].of)]
  /\ UNCHANGED <<threads, data>>

(* The last row, when the iterator is at the end.                            *)
average ==
  /\ row > 0 /\ row = Len(data)
  /\ row' = Done
  /\ totals' = [count |-> row, sum |-> Averages(totals.sum, row)]
  /\ UNCHANGED <<threads, data>>

PapiNext ==
  \/ \E t \in CountedBy :
       \/ UseCpu(t)
       \/ startPapiCounterMeasurement(t) \/ onThreadStart(t)
       \/ onPapiThreadEnd(t) \/ stopPapiCounterMeasurement(t) \/ pushRecord(t)
  \/ outputResults \/ addRow \/ average

PapiSpec == PapiInit /\ [][PapiNext]_papiVars

(***************************************************************************)
(* Properties                                                              *)
(***************************************************************************)

(* Every thread that has ended has exactly one record: threads that end at   *)
(* the same time do not lose one of the vector's elements.                   *)
EveryThreadIsRecorded ==
  \A t \in CountedBy :
    Len(SelectSeq(data, LAMBDA r : r.thread = t)) = (IF step[t] = "ended" THEN 1 ELSE 0)

(* While PAPI has reported no error, the CPU time of a record is what that   *)
(* thread has used between its start and its end, whatever other threads     *)
(* started, ended or ran in between, and the resource usage of the record,   *)
(* which is that of the process, is at least as much.                        *)
RecordIsTheThreadsOwn ==
  ~everFailed =>
    \A i \in DOMAIN data :
      data[i].of.cpu = ownUse[data[i].thread] /\ data[i].of.cpu <= data[i].of.usage

(* A report that is not torn by a thread's end shows the averages of its     *)
(* rows, over as many records as there were when its last row was written.   *)
TotalsAverageTheRows ==
  row = Done =>
    LET sum[i \in 0..Len(data)] ==
          IF i = 0 THEN Nothing ELSE Add(sum[i - 1], data[i].of)
    IN /\ totals.count \in 1..Len(data)
       /\ totals.sum = Averages(sum[totals.count], totals.count)

\* Every thread that ends is recorded once with what it used itself, and the
\* totals are those of the rows.
RecordsAreAccurate ==
  /\ EveryThreadIsRecorded
  /\ RecordIsTheThreadsOwn
  /\ TotalsAverageTheRows
============================================================================
