--------------------------- MODULE SupportProofs ---------------------------
(***************************************************************************)
(* The components around the scheduler.  Its loops, for any number of      *)
(* cores and threads: the round robin, the flag that keeps a notification  *)
(* until it is served, and the order of the shutdown.  The set-up of a     *)
(* simulation, for any number of options.  The CPU time a thread is        *)
(* charged, for any number of threads and any scaling.  The monitors of    *)
(* the plain LockRegistry, for every set of threads.                       *)
(***************************************************************************)
EXTENDS TimeAccounting, SimulatorSetup, SchedulerLoop, LockRegistry, FiniteSums, SequenceTheorems,
        TLAPS

LoopTypeOK ==
  /\ sched \in [Ids -> {"created", "loop", "wait", "slice", "asleep", "signalled", "check",
                        "scan", "gone"}]
  /\ running \in [Ids -> BOOLEAN] /\ flag \in [Ids -> BOOLEAN] /\ factor \in [Ids -> BOOLEAN]
  /\ news \in [Ids -> BOOLEAN] /\ rescaled \in [Ids -> BOOLEAN]
  /\ nextCpu \in Ids
  /\ spawned \in [Ids -> Nat]
  /\ stop \in [at : {"no", "end", "waits", "woken", "deleted"}, of : Ids]
  /\ late \in BOOLEAN /\ disturbed \in BOOLEAN

\* The managers before the next one have one thread more than it and those after it.
RoundRobin ==
  \A m \in Ids : spawned[m] = spawned[Cores - 1] + (IF m < nextCpu THEN 1 ELSE 0)

\* The scheduler sleeps with its flag set.
SleepsFlagged == \A m \in Ids : sched[m] = "asleep" => flag[m]

\* A changed scaling the scheduler still has to look at is one it has been told of.
FactorIsNews ==
  \A m \in Ids : sched[m] \notin {"loop", "gone"} /\ factor[m] => rescaled[m]

\* On the way to its next sleep the scheduler finds what it was told in the flag.
NewsIsFlagged ==
  \A m \in Ids :
    sched[m] \in {"created", "loop", "slice", "wait"} /\ news[m] /\ ~rescaled[m] => flag[m]

\* The managers whose end() has begun.
Ended(m) ==
  \/ stop.at \in {"waits", "woken", "deleted"} /\ m <= stop.of
  \/ stop.at = "end" /\ m < stop.of

\* Their schedulers do not sleep again.
EndedSchedulersStop ==
  ~late => \A m \in Ids : Ended(m) => ~running[m] /\ sched[m] \notin {"created", "asleep"}

\* Those whose end() has returned have left, unless a notifier took the signal.
ReturnedSchedulersAreGone ==
  ~disturbed =>
    \A m \in Ids : Ended(m) /\ ~(stop.at = "waits" /\ m = stop.of) => sched[m] = "gone"

\* What the flags and the scheduler say of each other.
FlagsAreKept ==
  SleepsFlagged /\ FactorIsNews /\ NewsIsFlagged /\ NotificationIsNotSleptThrough

ShutdownIsOrdered ==
  /\ EndedSchedulersStop
  /\ ReturnedSchedulersAreGone
  /\ stop.at = "no" => stop.of = 0
  /\ stop.at = "deleted" => stop.of + 1 = Cores

LoopInv == LoopTypeOK /\ RoundRobin /\ FlagsAreKept /\ ShutdownIsOrdered
-----------------------------------------------------------------------------
LEMMA CoresAreNumbered == 0 \in Ids /\ Cores - 1 \in Ids /\ \A m \in Ids : m \in Nat
  BY CoresAssumption DEF Ids

LEMMA LoopInitEstablishes ==
  ASSUME LoopInit
  PROVE  LoopInv
  <1>0. LoopTypeOK
    BY CoresAreNumbered DEF LoopInit, LoopTypeOK
  <1>1. RoundRobin
    BY CoresAreNumbered DEF LoopInit, RoundRobin
  <1>2. FlagsAreKept
    BY DEF LoopInit, FlagsAreKept, SleepsFlagged, FactorIsNews, NewsIsFlagged,
           NotificationIsNotSleptThrough
  <1>3. ShutdownIsOrdered
    BY DEF LoopInit, ShutdownIsOrdered, EndedSchedulersStop, ReturnedSchedulersAreGone,
           Ended
  <1> QED BY <1>0, <1>1, <1>2, <1>3 DEF LoopInv

\* A notification wakes the scheduler or leaves the flag set; only a shutdown
\* that waits may take the signal instead.
LEMMA NotificationIsKept ==
  ASSUME LoopInv, NEW m \in Ids, Notify(m),
         UNCHANGED <<running, factor, rescaled, late>>
  PROVE  /\ sched' \in [Ids -> {"created", "loop", "wait", "slice", "asleep", "signalled",
                                "check", "scan", "gone"}]
         /\ flag' \in [Ids -> BOOLEAN] /\ news' \in [Ids -> BOOLEAN]
         /\ stop' \in [at : {"no", "end", "waits", "woken", "deleted"}, of : Ids]
         /\ disturbed' \in BOOLEAN
         /\ FlagsAreKept' /\ ShutdownIsOrdered'
  <1> USE DEF LoopInv, LoopTypeOK, Notify, unconditionalWakeup, Signal, EndWaits
  <1>1. /\ sched' \in [Ids -> {"created", "loop", "wait", "slice", "asleep", "signalled",
                               "check", "scan", "gone"}]
        /\ flag' \in [Ids -> BOOLEAN] /\ news' \in [Ids -> BOOLEAN]
        /\ stop' \in [at : {"no", "end", "waits", "woken", "deleted"}, of : Ids]
        /\ disturbed' \in BOOLEAN
    OBVIOUS
  <1>2. FlagsAreKept'
    <2>1. SleepsFlagged' /\ FactorIsNews' /\ NewsIsFlagged'
      BY DEF FlagsAreKept, SleepsFlagged, FactorIsNews, NewsIsFlagged
    <2>2. ~late /\ sched[m] = "asleep" => ~EndWaits(m)
      BY CoresAreNumbered DEF ShutdownIsOrdered, EndedSchedulersStop, Ended
    <2>3. NotificationIsNotSleptThrough'
      BY <2>2 DEF FlagsAreKept, SleepsFlagged, NotificationIsNotSleptThrough
    <2> QED BY <2>1, <2>3 DEF FlagsAreKept
  <1>3. ShutdownIsOrdered'
    BY DEF ShutdownIsOrdered, EndedSchedulersStop, ReturnedSchedulersAreGone, Ended, Ids
  <1> QED BY <1>1, <1>2, <1>3

LEMMA LoopStepKeepsInvariant ==
  ASSUME LoopInv, LoopNext
  PROVE  LoopInv'
  <1> USE CoresAssumption DEF LoopInv
  <1>1. ASSUME NEW m \in Ids, start(m) PROVE LoopInv'
    <2> USE <1>1 DEF start, Untouched
    <2>1. LoopTypeOK' /\ RoundRobin'
      BY DEF LoopTypeOK, RoundRobin, Ids
    <2>2. FlagsAreKept'
      BY DEF LoopTypeOK, FlagsAreKept, SleepsFlagged, FactorIsNews, NewsIsFlagged,
             NotificationIsNotSleptThrough
    <2>3. ShutdownIsOrdered'
      BY DEF LoopTypeOK, ShutdownIsOrdered, EndedSchedulersStop, ReturnedSchedulersAreGone,
             Ended, Ids
    <2> QED BY <2>1, <2>2, <2>3 DEF LoopInv
  <1>2. ASSUME NEW m \in Ids, EnterWait(m) PROVE LoopInv'
    <2> USE <1>2 DEF EnterWait, Untouched
    <2>1. LoopTypeOK' /\ RoundRobin'
      BY DEF LoopTypeOK, RoundRobin, Ids
    <2>2. FlagsAreKept'
      BY DEF LoopTypeOK, FlagsAreKept, SleepsFlagged, FactorIsNews, NewsIsFlagged,
             NotificationIsNotSleptThrough
    <2>3. ShutdownIsOrdered'
      BY DEF LoopTypeOK, ShutdownIsOrdered, EndedSchedulersStop, ReturnedSchedulersAreGone,
             Ended, Ids
    <2> QED BY <2>1, <2>2, <2>3 DEF LoopInv
  <1>3. ASSUME NEW m \in Ids, ComputeSlice(m) PROVE LoopInv'
    <2> USE <1>3 DEF ComputeSlice, Untouched
    <2>1. LoopTypeOK' /\ RoundRobin'
      BY DEF LoopTypeOK, RoundRobin, Ids
    <2>2. FlagsAreKept'
      BY DEF LoopTypeOK, FlagsAreKept, SleepsFlagged, FactorIsNews, NewsIsFlagged,
             NotificationIsNotSleptThrough
    <2>3. ShutdownIsOrdered'
      BY DEF LoopTypeOK, ShutdownIsOrdered, EndedSchedulersStop, ReturnedSchedulersAreGone,
             Ended, Ids
    <2> QED BY <2>1, <2>2, <2>3 DEF LoopInv
  <1>4. ASSUME NEW m \in Ids, timedWait(m) PROVE LoopInv'
    <2> USE <1>4 DEF timedWait, Untouched
    <2>1. LoopTypeOK' /\ RoundRobin'
      BY DEF LoopTypeOK, RoundRobin, Ids
    <2>2. FlagsAreKept'
      BY DEF LoopTypeOK, FlagsAreKept, SleepsFlagged, FactorIsNews, NewsIsFlagged,
             NotificationIsNotSleptThrough
    <2>3. ShutdownIsOrdered'
      BY DEF LoopTypeOK, ShutdownIsOrdered, EndedSchedulersStop, ReturnedSchedulersAreGone,
             Ended, Ids
    <2> QED BY <2>1, <2>2, <2>3 DEF LoopInv
  <1>5. ASSUME NEW m \in Ids, WakeUp(m) PROVE LoopInv'
    <2> USE <1>5 DEF WakeUp, Untouched
    <2>1. LoopTypeOK' /\ RoundRobin'
      BY DEF LoopTypeOK, RoundRobin, Ids
    <2>2. FlagsAreKept'
      BY DEF LoopTypeOK, FlagsAreKept, SleepsFlagged, FactorIsNews, NewsIsFlagged,
             NotificationIsNotSleptThrough
    <2>3. ShutdownIsOrdered'
      BY DEF LoopTypeOK, ShutdownIsOrdered, EndedSchedulersStop, ReturnedSchedulersAreGone,
             Ended, Ids
    <2> QED BY <2>1, <2>2, <2>3 DEF LoopInv
  <1>6. ASSUME NEW m \in Ids, CheckLoops(m) PROVE LoopInv'
    <2> USE <1>6 DEF CheckLoops, Untouched
    <2>1. LoopTypeOK' /\ RoundRobin'
      BY DEF LoopTypeOK, RoundRobin, Ids
    <2>2. FlagsAreKept'
      BY DEF LoopTypeOK, FlagsAreKept, SleepsFlagged, FactorIsNews, NewsIsFlagged,
             NotificationIsNotSleptThrough
    <2>3. ShutdownIsOrdered'
      BY DEF LoopTypeOK, ShutdownIsOrdered, EndedSchedulersStop, ReturnedSchedulersAreGone,
             Ended, Ids
    <2> QED BY <2>1, <2>2, <2>3 DEF LoopInv
  <1>7. ASSUME NEW m \in Ids, suspendRunningResumeNext(m) PROVE LoopInv'
    <2> USE <1>7 DEF suspendRunningResumeNext
    <2>1. LoopTypeOK' /\ RoundRobin'
      BY DEF LoopTypeOK, RoundRobin, Ids
    <2>2. FlagsAreKept'
      BY DEF LoopTypeOK, FlagsAreKept, SleepsFlagged, FactorIsNews, NewsIsFlagged,
             NotificationIsNotSleptThrough
    <2>3. ShutdownIsOrdered'
      BY DEF LoopTypeOK, ShutdownIsOrdered, EndedSchedulersStop, ReturnedSchedulersAreGone,
             Ended, Ids
    <2> QED BY <2>1, <2>2, <2>3 DEF LoopInv
  <1>8. ASSUME NEW m \in Ids, exitLoop(m) PROVE LoopInv'
    <2> USE <1>8 DEF exitLoop, Untouched, EndWaits
    <2>1. LoopTypeOK' /\ RoundRobin'
      BY DEF LoopTypeOK, RoundRobin, Ids
    <2>2. FlagsAreKept'
      BY DEF LoopTypeOK, FlagsAreKept, SleepsFlagged, FactorIsNews, NewsIsFlagged,
             NotificationIsNotSleptThrough
    <2>3. ShutdownIsOrdered'
      BY DEF LoopTypeOK, ShutdownIsOrdered, EndedSchedulersStop, ReturnedSchedulersAreGone,
             Ended, Ids
    <2> QED BY <2>1, <2>2, <2>3 DEF LoopInv
  <1>9. ASSUME NEW m \in Ids, end(m) PROVE LoopInv'
    <2> USE <1>9 DEF end
    <2>1. LoopTypeOK' /\ RoundRobin'
      BY DEF LoopTypeOK, RoundRobin, Ids
    <2>2. FlagsAreKept'
      BY DEF LoopTypeOK, FlagsAreKept, SleepsFlagged, FactorIsNews, NewsIsFlagged,
             NotificationIsNotSleptThrough
    <2>3. /\ stop.at = "end" /\ stop.of = m /\ stop'.at = "waits" /\ stop'.of = m
          /\ \A k \in Ids : Ended(k)' <=> Ended(k) \/ k = m
      BY CoresAreNumbered DEF LoopTypeOK, Ended
    <2>4. EndedSchedulersStop'
      BY <2>3 DEF LoopTypeOK, ShutdownIsOrdered, EndedSchedulersStop
    <2>5. ReturnedSchedulersAreGone'
      BY <2>3 DEF LoopTypeOK, ShutdownIsOrdered, ReturnedSchedulersAreGone
    <2>6. ShutdownIsOrdered'
      BY <2>3, <2>4, <2>5 DEF ShutdownIsOrdered
    <2> QED BY <2>1, <2>2, <2>6 DEF LoopInv
  <1>10. ASSUME NEW m \in Ids, NEW t \in LoopThreads,
                notifySchedulerForVirtualizedTime(t, m)
         PROVE LoopInv'
    <2> USE <1>10 DEF notifySchedulerForVirtualizedTime
    <2>1. LoopTypeOK' /\ RoundRobin'
      BY DEF LoopTypeOK, RoundRobin, Ids
    <2>2. FlagsAreKept'
      BY DEF LoopTypeOK, FlagsAreKept, SleepsFlagged, FactorIsNews, NewsIsFlagged,
             NotificationIsNotSleptThrough
    <2>3. ShutdownIsOrdered'
      BY DEF LoopTypeOK, ShutdownIsOrdered, EndedSchedulersStop, ReturnedSchedulersAreGone,
             Ended, Ids
    <2> QED BY <2>1, <2>2, <2>3 DEF LoopInv
  <1>11. ASSUME callbackVMDeath PROVE LoopInv'
    <2> USE <1>11 DEF callbackVMDeath
    <2>1. LoopTypeOK' /\ RoundRobin'
      BY DEF LoopTypeOK, RoundRobin, Ids
    <2>2. FlagsAreKept'
      BY DEF LoopTypeOK, FlagsAreKept, SleepsFlagged, FactorIsNews, NewsIsFlagged,
             NotificationIsNotSleptThrough
    <2>3. ShutdownIsOrdered'
      BY DEF LoopTypeOK, ShutdownIsOrdered, EndedSchedulersStop, ReturnedSchedulersAreGone,
             Ended, Ids
    <2> QED BY <2>1, <2>2, <2>3 DEF LoopInv
  <1>12. ASSUME EndReturned PROVE LoopInv'
    <2> USE <1>12 DEF EndReturned
    <2>1. LoopTypeOK' /\ RoundRobin'
      BY DEF LoopTypeOK, RoundRobin, Ids
    <2>2. FlagsAreKept'
      BY DEF LoopTypeOK, FlagsAreKept, SleepsFlagged, FactorIsNews, NewsIsFlagged,
             NotificationIsNotSleptThrough
    <2>3. ShutdownIsOrdered'
      BY DEF LoopTypeOK, ShutdownIsOrdered, EndedSchedulersStop, ReturnedSchedulersAreGone,
             Ended, Ids
    <2> QED BY <2>1, <2>2, <2>3 DEF LoopInv
  <1>13. ASSUME NEW m \in Ids, NEW t \in LoopThreads, onThreadEnd(t, m) PROVE LoopInv'
    <2>1. /\ sched' \in [Ids -> {"created", "loop", "wait", "slice", "asleep", "signalled",
                                 "check", "scan", "gone"}]
          /\ flag' \in [Ids -> BOOLEAN] /\ news' \in [Ids -> BOOLEAN]
          /\ stop' \in [at : {"no", "end", "waits", "woken", "deleted"}, of : Ids]
          /\ disturbed' \in BOOLEAN
          /\ FlagsAreKept' /\ ShutdownIsOrdered'
      BY <1>13, NotificationIsKept DEF onThreadEnd, Leave, LoopInv
    <2>2. LoopTypeOK' /\ RoundRobin'
      BY <1>13, <2>1 DEF onThreadEnd, Leave, LoopTypeOK, RoundRobin
    <2> QED BY <2>1, <2>2 DEF LoopInv
  <1>14. ASSUME NEW m \in Ids, NEW t \in LoopThreads, FinishRescaling(t, m) PROVE LoopInv'
    <2>1. /\ sched' \in [Ids -> {"created", "loop", "wait", "slice", "asleep", "signalled",
                                 "check", "scan", "gone"}]
          /\ flag' \in [Ids -> BOOLEAN] /\ news' \in [Ids -> BOOLEAN]
          /\ stop' \in [at : {"no", "end", "waits", "woken", "deleted"}, of : Ids]
          /\ disturbed' \in BOOLEAN
          /\ FlagsAreKept' /\ ShutdownIsOrdered'
      BY <1>14, NotificationIsKept DEF FinishRescaling, LoopInv
    <2>2. LoopTypeOK' /\ RoundRobin'
      BY <1>14, <2>1 DEF FinishRescaling, LoopTypeOK, RoundRobin
    <2> QED BY <2>1, <2>2 DEF LoopInv
  <1>15. ASSUME NEW t \in LoopThreads, onThreadSpawn(t) PROVE LoopInv'
    <2>0. nextCpu \in Ids
      BY DEF LoopTypeOK
    <2>1. /\ sched' \in [Ids -> {"created", "loop", "wait", "slice", "asleep", "signalled",
                                 "check", "scan", "gone"}]
          /\ flag' \in [Ids -> BOOLEAN] /\ news' \in [Ids -> BOOLEAN]
          /\ stop' \in [at : {"no", "end", "waits", "woken", "deleted"}, of : Ids]
          /\ disturbed' \in BOOLEAN
          /\ FlagsAreKept' /\ ShutdownIsOrdered'
      BY <1>15, <2>0, NotificationIsKept DEF onThreadSpawn, LoopInv
    <2>2. LoopTypeOK' /\ RoundRobin'
      BY <1>15, <2>1, CoresAssumption DEF onThreadSpawn, Successor, LoopTypeOK, RoundRobin, Ids
    <2> QED BY <2>1, <2>2 DEF LoopInv
  <1> QED
    BY <1>1, <1>2, <1>3, <1>4, <1>5, <1>6, <1>7, <1>8, <1>9, <1>10, <1>11, <1>12, <1>13, <1>14,
       <1>15 DEF LoopNext

\* The invariant is enough: the shutdown ends with the last manager.
LEMMA LoopInvSuffices ==
  ASSUME LoopInv
  PROVE  LoopIsSound
  <1>1. SpawnsAreBalanced
    <2>1. \A m \in Ids : spawned[m] \in Nat
      BY DEF LoopInv, LoopTypeOK
    <2> QED BY <2>1, CoresAreNumbered DEF LoopInv, LoopTypeOK, RoundRobin, SpawnsAreBalanced
  <1>2. DeletedAfterTheSchedulers
    BY CoresAssumption DEF LoopInv, LoopTypeOK, ShutdownIsOrdered, ReturnedSchedulersAreGone,
                           Ended, DeletedAfterTheSchedulers, Ids
  <1> QED BY <1>1, <1>2 DEF LoopInv, FlagsAreKept, LoopIsSound

\* For any number of cores and threads: new threads are dealt out evenly, a
\* scheduler sleeps through no notification (unconditionalWakeup,
\* performTimedWait) and the simulator is deleted after the schedulers have left
\* their loops, as far as no notification takes the signal meant for end().
THEOREM SchedulerLoopIsSound == LoopSpec => []LoopIsSound
  <1>1. LoopInit => LoopInv
    BY LoopInitEstablishes
  <1>2. LoopInv /\ [LoopNext]_loopVars => LoopInv'
    <2>1. LoopInv /\ LoopNext => LoopInv'
      BY LoopStepKeepsInvariant
    <2>2. LoopInv /\ UNCHANGED loopVars => LoopInv'
      BY DEF loopVars, LoopInv, LoopTypeOK, RoundRobin, FlagsAreKept, SleepsFlagged,
             FactorIsNews, NewsIsFlagged, NotificationIsNotSleptThrough, ShutdownIsOrdered,
             EndedSchedulersStop, ReturnedSchedulersAreGone, Ended
    <2> QED BY <2>1, <2>2
  <1>3. LoopInv => LoopIsSound
    BY LoopInvSuffices
  <1> QED BY <1>1, <1>2, <1>3, PTL DEF LoopSpec

-----------------------------------------------------------------------------
(***************************************************************************)
(* The set-up of a simulation.  What is known of the options: the values   *)
(* each may have.                                                          *)
(***************************************************************************)
ConfigFields ==
  {"cpus", "scheduling", "strict", "hprof", "stackTraces", "timeStats", "timeslot", "host",
   "port", "server", "polling", "combined", "printGlobal", "printLocal", "globalIo", "rts"}
IoFields ==
  {"method", "level", "buffer", "protocol", "excluder", "recognizer", "import", "model",
   "logging", "local", "predictor"}

\* The attributes that leave cpus, timeslot and the parameters of all I/O alone.
LEMMA OptionValues ==
  ASSUME NEW o \in Options
  PROVE  /\ o.attr = "cpus" => o.value \in 0..2
         /\ o.attr = "timeslot" => o.value \in Nat
         /\ o.attr = "io" => o.value \in {"lax", "other"}
         /\ o.attr = "iolevel" => o.value = "ioop"
         /\ o.attr = "iobuffer" => o.value = 0
         /\ o.attr = "ioexclude" => o.value = 50
         /\ o.attr = "iostats" => o.value = "all"
         /\ o.attr \notin {"iothreshold", "iodisregard"}
         /\ o = Option(o.attr, o.value)
  BY DEF Options, Option

\* What an option does to the parameters of an I/O simulator, field by field.
LEMMA IoValueSet ==
  ASSUME NEW p, NEW o \in Options, DOMAIN p = IoFields
  PROVE  LET q == setIoValue(p, o) IN
         /\ DOMAIN q = IoFields
         /\ q.protocol = IF o.attr = "io" THEN parseIoPolicy(o.value) ELSE p.protocol
         /\ q.level = IF o.attr = "iolevel" THEN "ioop" ELSE p.level
         /\ q.buffer = IF o.attr = "iobuffer" THEN 0 ELSE p.buffer
         /\ q.excluder = IF o.attr = "ioexclude" THEN "random" ELSE p.excluder
         /\ q.recognizer = p.recognizer
         /\ q.predictor = p.predictor
<1> DEFINE q == setIoValue(p, o)
<1>0. /\ o.attr = "iolevel" => o.value = "ioop"
      /\ o.attr = "iobuffer" => o.value = 0
      /\ o.attr = "ioexclude" => o.value = 50
      /\ o.attr \notin {"iothreshold", "iodisregard"}
  BY OptionValues
<1>1. CASE o.attr = "io"
  BY <1>1 DEF setIoValue, IoFields
<1>2. CASE o.attr = "iopred"
  BY <1>2 DEF setIoValue, IoFields
<1>3. CASE o.attr = "iolevel"
  BY <1>0, <1>3 DEF setIoValue, parseIoLevel, IoFields
<1>4. CASE o.attr = "iobuffer"
  BY <1>0, <1>4 DEF setIoValue, IoFields
<1>5. CASE o.attr = "iomodel"
  BY <1>5 DEF setIoValue, IoFields
<1>6. CASE o.attr = "ioimport"
  BY <1>6 DEF setIoValue, IoFields
<1>7. CASE o.attr = "ioexclude"
  BY <1>0, <1>7 DEF setIoValue, parseRandomIoRecognition, IoFields
<1>8. CASE o.attr \notin {"io", "iopred", "iolevel", "iobuffer", "iomodel", "ioimport", "ioexclude"}
  BY <1>0, <1>8 DEF setIoValue, IoFields
<1> QED BY <1>1, <1>2, <1>3, <1>4, <1>5, <1>6, <1>7, <1>8

\* What an option does to the configuration, as far as the set-up depends on it.
LEMMA ValueSet ==
  ASSUME NEW c, NEW o \in Options, DOMAIN c = ConfigFields,
         c.scheduling \in BOOLEAN, c.strict \in BOOLEAN, c.host \in BOOLEAN,
         c.server \in BOOLEAN, c.printGlobal \in BOOLEAN
  PROVE  LET d == setValue(o, c) IN
         /\ DOMAIN d = ConfigFields
         /\ d.cpus = IF o.attr = "cpus" THEN o.value ELSE c.cpus
         /\ d.timeslot = IF o.attr = "timeslot" THEN SlotOf(o.value) ELSE c.timeslot
         /\ d.scheduling \in BOOLEAN /\ d.strict \in BOOLEAN /\ d.host \in BOOLEAN
         /\ d.server \in BOOLEAN /\ d.printGlobal \in BOOLEAN
         /\ d.printGlobal <=> o.attr = "iostats" \/ c.printGlobal
         /\ d.globalIo = IF o.attr \in IoAttributes THEN setIoValue(c.globalIo, o) ELSE c.globalIo
<1> DEFINE d == setValue(o, c)
<1>0. o.attr = "iostats" => o.value = "all"
  BY OptionValues
<1>1. CASE o.attr = "cpus"
  BY <1>1 DEF setValue, IoCategories, ConfigFields, IoAttributes
<1>2. CASE o.attr = "no_scheduling"
  BY <1>2 DEF setValue, IoCategories, ConfigFields, IoAttributes
<1>3. CASE o.attr = "spex"
  BY <1>3 DEF setValue, IoCategories, ConfigFields, IoAttributes
<1>4. CASE o.attr = "stack_trace_mode"
  BY <1>4 DEF setValue, IoCategories, ConfigFields, IoAttributes
<1>5. CASE o.attr = "poll_nw"
  BY <1>5 DEF setValue, IoCategories, ConfigFields, IoAttributes
<1>6. CASE o.attr = "output_format"
  BY <1>6 DEF setValue, IoCategories, ConfigFields, IoAttributes
<1>7. CASE o.attr = "time_stats"
  BY <1>7 DEF setValue, IoCategories, parseTimeStats, ConfigFields, IoAttributes
<1>8. CASE o.attr = "timeslot"
  BY <1>8 DEF setValue, IoCategories, ConfigFields, IoAttributes
<1>9. CASE o.attr = "client"
  BY <1>9 DEF setValue, IoCategories, parseClientOptions, ConfigFields, IoAttributes
<1>10. CASE o.attr = "server"
  BY <1>10 DEF setValue, IoCategories, parseClientOptions, ConfigFields, IoAttributes
<1>11. CASE o.attr \in IoCategories \cup {"rts_file"}
  BY <1>11 DEF setValue, parseRTS, IoCategories, ConfigFields, IoAttributes
<1>12. CASE o.attr = "iostats"
  BY <1>0, <1>12 DEF setValue, parseIoStats, IoCategories, ConfigFields, IoAttributes
<1>13. CASE o.attr \in IoAttributes
  BY <1>13 DEF setValue, IoCategories, ConfigFields, IoAttributes
<1>14. CASE o.attr \notin {"cpus", "no_scheduling", "spex", "stack_trace_mode", "poll_nw",
                           "output_format", "time_stats", "timeslot", "client", "server",
                           "rts_file", "iostats"} \cup IoCategories \cup IoAttributes
  BY <1>14 DEF setValue, IoCategories, ConfigFields, IoAttributes
<1> QED BY <1>1, <1>2, <1>3, <1>4, <1>5, <1>6, <1>7, <1>8, <1>9, <1>10, <1>11, <1>12, <1>13, <1>14

-----------------------------------------------------------------------------
(* What is known of the set-up at each stage.                              *)
Stages == {"parse", "managers", "ready", "loading", "loaded", "refused"}
Managers == [kind : {"passive", "server", "client", "plain", "strict", "loose"},
             controller : {"multiple", "single", "passive"}, simulator : Nat,
             times : {"total", "nothing"}, slot : Nat]

SetUpTypeOK ==
  /\ given \in Seq(Options) /\ seen \in 0..Len(given)
  /\ stage \in Stages
  /\ DOMAIN config = ConfigFields
  /\ config.cpus \in 0..2 /\ config.timeslot \in Nat
  /\ config.scheduling \in BOOLEAN /\ config.strict \in BOOLEAN /\ config.host \in BOOLEAN
  /\ config.server \in BOOLEAN /\ config.printGlobal \in BOOLEAN
  /\ DOMAIN config.globalIo = IoFields
  /\ simulators \in Nat
  /\ managers \in Seq(Managers)
  /\ schedulers \in Seq(Nat) /\ Len(schedulers) = Len(managers)

NoneSeen(a) == \A i \in 1..seen : given[i].attr # a

\* The parameters of all I/O while the options are taken, as long as none was refused.
ParametersFollowOptions ==
  stage = "parse" =>
    /\ config.cpus > 0
    /\ LET p == config.globalIo IN
       /\ LastOf("io", "normal", p.protocol) /\ p.protocol # "NULL"
       /\ LastOf("iolevel", "invpoint", p.level)
       /\ p.buffer \in Nat \ {0}
       /\ p.excluder = "none" <=> NoneSeen("ioexclude")
       /\ p.recognizer = FALSE
       /\ p.predictor = NoPredictor
    /\ config.printGlobal <=> ~NoneSeen("iostats")

\* What a passive manager finds when it creates its simulator: with a predictor
\* that was kept or without.
ParametersAreKept ==
  stage = "managers" =>
    LET p == config.globalIo IN
    /\ p.buffer \in Nat \ {0}
    /\ p.excluder = "none" <=> NoneSeen("ioexclude")
    /\ p.recognizer = FALSE
    /\ p.predictor # NoPredictor => p.predictor.factory.buffer \in Nat \ {0}

\* The simulator in use, from the moment there is one.
SimulatorFollowsOptions ==
  stage \in {"managers", "ready", "loading", "loaded"} /\ ioSimulator.kind = "simple" =>
    LET s == ioSimulator IN
    /\ Len(s.protocol) \in 1..2 /\ s.protocol[Len(s.protocol)] # "NULL"
    /\ s.predictor.factory.buffer > 0
    /\ Len(s.protocol) = 1 <=> NoneSeen("ioexclude")
    /\ config.scheduling =>
         /\ LastOf("io", "normal", s.protocol[Len(s.protocol)])
         /\ LastOf("iolevel", "invpoint", s.predictor.level)
         /\ s.predictor.logging <=> ~NoneSeen("iostats")
    /\ ~config.scheduling /\ managers # <<>> => s.protocol[Len(s.protocol)] = "none"

\* Managers exist only once the configuration is repaired, and are made for it.
ManagersFollowTheConfig ==
  /\ stage = "parse" => managers = <<>>
  /\ stage \in {"managers", "ready", "loading", "loaded"} \/ managers # <<>> =>
       /\ config.cpus > 0 /\ (config.cpus > 1 => config.scheduling)
       /\ timeline = selectVirtualTime(config)
       /\ simulators > 0
  /\ Len(managers) <= config.cpus
  /\ \A i \in DOMAIN managers :
       /\ managers[i].kind = ManagerKind(config) /\ managers[i].controller = Controller(config)
       /\ managers[i].simulator = simulators
       /\ managers[i].kind = "passive" => simulators > 1

\* The slot a manager starts with.
FirstSlot == 100000000

\* The slots before the options reach the managers, and afterwards.
SlotsFollowTheConfig ==
  /\ stage \in {"parse", "managers"} =>
       \A i \in DOMAIN managers : managers[i].slot = FirstSlot /\ schedulers[i] \in {0, FirstSlot}
  /\ stage \in {"ready", "loading", "loaded"} =>
       /\ Len(managers) = config.cpus
       /\ \A i \in DOMAIN managers :
            managers[i].slot = config.timeslot /\ schedulers[i] \in {0, FirstSlot, config.timeslot}

\* The agent has looked at the first option only.
AgentFollowsOptions ==
  /\ stage \in {"loading", "loaded"} =>
       ("usingJvmtiForMonitorControl" \in jine <=> given # <<>> /\ given[1].attr # "no_jvmti")
  /\ stage = "loaded" =>
       /\ "monitor" \in agent.caps <=> config.scheduling
       /\ "monitor" \in agent.events <=> config.scheduling
       /\ "monitor" \in agent.callbacks <=> "usingJvmtiForMonitorControl" \in jine

SetUpInv ==
  /\ SetUpTypeOK /\ ParametersFollowOptions /\ ParametersAreKept /\ SimulatorFollowsOptions
  /\ ManagersFollowTheConfig /\ SlotsFollowTheConfig /\ AgentFollowsOptions

LEMMA SetUpInvImplies == SetUpInv => SetUpIsConsistent
<1> SUFFICES ASSUME SetUpInv PROVE SetUpIsConsistent
  OBVIOUS
<1> USE DEF SetUpInv
<1>0. /\ \A i \in DOMAIN managers : i \in 1..Len(managers) /\ managers[i] \in Managers
      /\ managers # <<>> => 1 \in DOMAIN managers
  BY DEF SetUpTypeOK
<1>1. ManagersFitTheTimeline
  <2> SUFFICES ASSUME NEW i \in DOMAIN managers
               PROVE  /\ managers[i].controller = "multiple" <=> timeline # "single"
                      /\ managers[i].kind = "strict" => timeline = "disabling"
                      /\ managers[i].kind = "loose" => timeline = "multicore"
                      /\ managers[i].kind = "passive" <=> managers[i].controller = "passive"
    BY DEF ManagersFitTheTimeline
  <2>1. managers # <<>>
    BY <1>0
  <2>2. /\ config.cpus \in 1..2 /\ (config.cpus > 1 => config.scheduling)
        /\ timeline = selectVirtualTime(config)
        /\ managers[i].kind = ManagerKind(config) /\ managers[i].controller = Controller(config)
        /\ config.scheduling \in BOOLEAN /\ config.host \in BOOLEAN
        /\ config.server \in BOOLEAN /\ config.strict \in BOOLEAN
    BY <2>1 DEF ManagersFollowTheConfig, SetUpTypeOK
  <2> QED BY <2>2 DEF selectVirtualTime, ManagerKind, Controller
<1>2. OneIoSimulator
  BY DEF OneIoSimulator, ManagersFollowTheConfig
<1>3. OptionsReachTheSimulator
  <2> SUFFICES ASSUME stage \in {"ready", "loading", "loaded"}, ioSimulator.kind = "simple"
               PROVE  OptionsReachTheSimulator
    BY DEF OptionsReachTheSimulator
  <2>1. managers # <<>>
    BY DEF SetUpTypeOK, ManagersFollowTheConfig, SlotsFollowTheConfig
  <2> QED BY <2>1 DEF OptionsReachTheSimulator, SimulatorFollowsOptions, NoneSeen
<1>4. SlotReachesEveryScheduler
  BY SMT DEF SlotReachesEveryScheduler, SlotsFollowTheConfig, FirstSlot
<1>5. MonitorsAreHeard
  BY DEF MonitorsAreHeard, AgentFollowsOptions
<1> QED BY <1>1, <1>2, <1>3, <1>4, <1>5 DEF SetUpIsConsistent

LEMMA SetUpInit == SuInit => SetUpInv
<1> SUFFICES ASSUME SuInit PROVE SetUpInv
  OBVIOUS
<1>1. /\ given \in Seq(Options) /\ seen = 0 /\ stage = "parse" /\ managers = <<>>
      /\ schedulers = <<>> /\ simulators = 0 /\ config = setDefaultValues
  BY DEF SuInit
<1>2. /\ DOMAIN config = ConfigFields /\ config.cpus = 1 /\ config.timeslot \in Nat
      /\ config.scheduling = TRUE /\ config.strict = FALSE /\ config.host = FALSE
      /\ config.server = FALSE /\ config.printGlobal = FALSE
      /\ config.globalIo = setIoDefaults
  BY <1>1 DEF setDefaultValues, ConfigFields
<1>3. /\ DOMAIN setIoDefaults = IoFields
      /\ setIoDefaults.protocol = "normal" /\ setIoDefaults.level = "invpoint"
      /\ setIoDefaults.buffer = 16 /\ setIoDefaults.excluder = "none"
      /\ setIoDefaults.recognizer = FALSE /\ setIoDefaults.predictor = NoPredictor
  BY DEF setIoDefaults, IoFields
<1>4. SetUpTypeOK
  <2>1. managers \in Seq(Managers) /\ schedulers \in Seq(Nat) /\ Len(schedulers) = Len(managers)
    BY <1>1
  <2>2. Len(given) \in Nat
    BY <1>1
  <2>3. stage \in Stages
    BY <1>1 DEF Stages
  <2>4. seen \in 0..Len(given) /\ given \in Seq(Options) /\ simulators \in Nat
    BY <1>1, <2>2
  <2>5. /\ config.cpus \in 0..2 /\ config.timeslot \in Nat
        /\ config.scheduling \in BOOLEAN /\ config.strict \in BOOLEAN /\ config.host \in BOOLEAN
        /\ config.server \in BOOLEAN /\ config.printGlobal \in BOOLEAN
    BY <1>1 DEF setDefaultValues
  <2>6. DOMAIN config = ConfigFields /\ DOMAIN config.globalIo = IoFields
    BY <1>2, <1>3
  <2> QED BY <2>1, <2>3, <2>4, <2>5, <2>6 DEF SetUpTypeOK
<1>5. ParametersFollowOptions
  BY <1>1, <1>2, <1>3 DEF ParametersFollowOptions, LastOf, NoneSeen
<1>6. ParametersAreKept /\ SimulatorFollowsOptions /\ ManagersFollowTheConfig
      /\ SlotsFollowTheConfig /\ AgentFollowsOptions
  BY <1>1, <1>2 DEF ParametersAreKept, SimulatorFollowsOptions, ManagersFollowTheConfig,
     SlotsFollowTheConfig, AgentFollowsOptions
<1> QED BY <1>4, <1>5, <1>6 DEF SetUpInv
-----------------------------------------------------------------------------
(* The helpers of the steps.                                               *)

\* LastOf among the first n options.
LastAmong(a, default, v, n) ==
  \/ (\A i \in 1..n : given[i].attr # a) /\ v = default
  \/ \E i \in 1..n : given[i] = Option(a, v) /\ \A j \in (i + 1)..n : given[j].attr # a

\* One more option: it is the last of its name, or what was last stays so.
LEMMA LastOfNext ==
  ASSUME NEW n \in Nat, NEW a, NEW default, NEW v, NEW w,
         given[n + 1] = Option(given[n + 1].attr, w)
  PROVE  /\ given[n + 1].attr = a => LastAmong(a, default, w, n + 1)
         /\ given[n + 1].attr # a /\ LastAmong(a, default, v, n) => LastAmong(a, default, v, n + 1)
<1>1. \A i \in 1..(n + 1) : i \in 1..n \/ i = n + 1
  OBVIOUS
<1>2. ASSUME given[n + 1].attr = a PROVE LastAmong(a, default, w, n + 1)
  <2>1. n + 1 \in 1..(n + 1) /\ given[n + 1] = Option(a, w) /\ (n + 1 + 1)..(n + 1) = {}
    BY <1>2
  <2> QED BY <2>1 DEF LastAmong
<1>3. ASSUME given[n + 1].attr # a, LastAmong(a, default, v, n)
      PROVE  LastAmong(a, default, v, n + 1)
  <2>1. CASE (\A i \in 1..n : given[i].attr # a) /\ v = default
    BY <1>1, <1>3, <2>1 DEF LastAmong
  <2>2. CASE \E i \in 1..n : given[i] = Option(a, v) /\ \A j \in (i + 1)..n : given[j].attr # a
    <3>1. PICK i \in 1..n : given[i] = Option(a, v) /\ \A j \in (i + 1)..n : given[j].attr # a
      BY <2>2
    <3>2. \A j \in (i + 1)..(n + 1) : given[j].attr # a
      <4>1. \A j \in (i + 1)..(n + 1) : j \in (i + 1)..n \/ j = n + 1
        OBVIOUS
      <4> QED BY <4>1, <3>1, <1>3
    <3>3. i \in 1..(n + 1)
      OBVIOUS
    <3> QED BY <3>1, <3>2, <3>3 DEF LastAmong
  <2> QED BY <1>3, <2>1, <2>2 DEF LastAmong
<1> QED BY <1>2, <1>3

\* The simulator that is built from parameters, and the parameters afterwards.
LEMMA Creates ==
  ASSUME NEW p, DOMAIN p = IoFields, p.recognizer = FALSE, p.buffer \in Nat \ {0},
         p.predictor # NoPredictor => p.predictor.factory.buffer \in Nat \ {0}
  PROVE  /\ create(p).kind = "simple" =>
              LET s == create(p) IN
              /\ Len(s.protocol) \in 1..2 /\ s.protocol[Len(s.protocol)] = p.protocol
              /\ Len(s.protocol) = 1 <=> p.excluder = "none"
              /\ s.predictor.factory.buffer \in Nat \ {0}
              /\ p.predictor = NoPredictor =>
                   s.predictor.level = p.level /\ s.predictor.logging = p.logging
         /\ LET q == Created(p) IN
            /\ DOMAIN q = IoFields /\ q.buffer = p.buffer /\ q.excluder = p.excluder
            /\ q.recognizer = p.recognizer
            /\ q.predictor # NoPredictor => q.predictor.factory.buffer \in Nat \ {0}
<1>1. /\ getIoPredictor(p).factory.buffer \in Nat \ {0}
      /\ p.predictor = NoPredictor =>
           getIoPredictor(p).level = p.level /\ getIoPredictor(p).logging = p.logging
  BY DEF getIoPredictor, createPredictor, PredictionMethodFactory
<1>2. /\ Len(getIoProtocol(p)) \in 1..2
      /\ getIoProtocol(p)[Len(getIoProtocol(p))] = p.protocol
      /\ Len(getIoProtocol(p)) = 1 <=> p.excluder = "none"
  <2>1. CASE p.excluder = "none"
    <3>1. getIoProtocol(p) = <<p.protocol>>
      BY <2>1 DEF getIoProtocol
    <3> QED BY <2>1, <3>1
  <2>2. CASE p.excluder # "none"
    <3>1. getIoProtocol(p) = <<"serial", p.protocol>>
      BY <2>2 DEF getIoProtocol
    <3> QED BY <2>2, <3>1
  <2> QED BY <2>1, <2>2
<1>3. create(p).kind = "simple" =>
        create(p) =
          [kind |-> "simple", protocol |-> getIoProtocol(p), predictor |-> getIoPredictor(p)]
  BY DEF create
<1>4. LET q == Created(p) IN
      /\ DOMAIN q = IoFields /\ q.buffer = p.buffer /\ q.excluder = p.excluder
      /\ q.recognizer = p.recognizer
      /\ q.predictor # NoPredictor => q.predictor.factory.buffer \in Nat \ {0}
  BY <1>1 DEF Created, IoFields
<1>5. ASSUME create(p).kind = "simple"
      PROVE  create(p).protocol = getIoProtocol(p) /\ create(p).predictor = getIoPredictor(p)
  BY <1>3, <1>5
<1> QED BY <1>1, <1>2, <1>4, <1>5

\* The parameters of a passive manager.
LEMMA PassiveParameters ==
  ASSUME NEW p, DOMAIN p = IoFields
  PROVE  LET q == PassiveIo(p) IN
         /\ DOMAIN q = IoFields /\ q.protocol = "none" /\ q.buffer = p.buffer
         /\ q.excluder = p.excluder /\ q.recognizer = p.recognizer /\ q.predictor = p.predictor
<1> DEFINE r == setIoValue(p, Option("io", "none"))
<1>1. r = [p EXCEPT !.protocol = "none"]
  BY DEF setIoValue, Option, parseIoPolicy
<1>2. PassiveIo(p) = [r EXCEPT !.method = "none"]
  BY DEF PassiveIo, setIoValue, Option
<1> HIDE DEF r
<1> QED BY <1>1, <1>2 DEF IoFields

\* Repairing touches the scheduling only, as far as the set-up depends on it.
LEMMA Repairs ==
  ASSUME NEW c, DOMAIN c = ConfigFields, c.scheduling \in BOOLEAN
  PROVE  LET d == Repaired(c) IN
         /\ DOMAIN d = ConfigFields
         /\ d.cpus = c.cpus /\ d.timeslot = c.timeslot /\ d.strict = c.strict
         /\ d.host = c.host /\ d.server = c.server /\ d.printGlobal = c.printGlobal
         /\ d.globalIo = c.globalIo
         /\ d.scheduling \in BOOLEAN
         /\ d.scheduling <=> c.scheduling \/ c.cpus > 1
  BY DEF Repaired, ConfigFields

LEMMA Logs ==
  ASSUME NEW c, DOMAIN c = ConfigFields, DOMAIN c.globalIo = IoFields
  PROVE  LET d == Logging(c) IN
         /\ DOMAIN d = ConfigFields
         /\ d.cpus = c.cpus /\ d.timeslot = c.timeslot /\ d.strict = c.strict
         /\ d.host = c.host /\ d.server = c.server /\ d.printGlobal = c.printGlobal
         /\ d.scheduling = c.scheduling
         /\ usingRealTimeSimulationByCategories(d) <=> usingRealTimeSimulationByCategories(c)
         /\ LET p == c.globalIo  q == d.globalIo IN
            /\ DOMAIN q = IoFields /\ q.protocol = p.protocol /\ q.level = p.level
            /\ q.buffer = p.buffer /\ q.excluder = p.excluder /\ q.recognizer = p.recognizer
            /\ q.predictor = p.predictor
            /\ ~usingRealTimeSimulationByCategories(c) => q.logging = c.printGlobal
<1> DEFINE d == Logging(c)
           q == setLoggingBehaviour(c.globalIo, c.printGlobal, c.printLocal)
<1>0. /\ DOMAIN q = IoFields /\ q.protocol = c.globalIo.protocol /\ q.level = c.globalIo.level
      /\ q.buffer = c.globalIo.buffer /\ q.excluder = c.globalIo.excluder
      /\ q.recognizer = c.globalIo.recognizer /\ q.predictor = c.globalIo.predictor
      /\ q.logging = c.printGlobal
  BY DEF setLoggingBehaviour, IoFields
<1> HIDE DEF q
<1>1. CASE usingRealTimeSimulationByCategories(c)
  BY <1>1 DEF Logging, usingRealTimeSimulationByCategories, ConfigFields
<1>2. CASE ~usingRealTimeSimulationByCategories(c)
  <2>1. d = [c EXCEPT !.globalIo = q]
    BY <1>2 DEF Logging, q
  <2> HIDE DEF d
  <2>2. /\ DOMAIN d = ConfigFields
        /\ d.cpus = c.cpus /\ d.timeslot = c.timeslot /\ d.strict = c.strict
        /\ d.host = c.host /\ d.server = c.server /\ d.printGlobal = c.printGlobal
        /\ d.scheduling = c.scheduling /\ d.rts = c.rts /\ d.globalIo = q
    BY <2>1 DEF ConfigFields
  <2>3. usingRealTimeSimulationByCategories(d) <=> usingRealTimeSimulationByCategories(c)
    BY <2>2 DEF usingRealTimeSimulationByCategories
  <2> QED BY <1>0, <1>2, <2>2, <2>3 DEF d
<1> QED BY <1>1, <1>2

LEMMA Keeps ==
  ASSUME NEW c, DOMAIN c = ConfigFields
  PROVE  LET d == Keeping(c) IN
         /\ DOMAIN d = ConfigFields
         /\ d.cpus = c.cpus /\ d.timeslot = c.timeslot /\ d.strict = c.strict
         /\ d.host = c.host /\ d.server = c.server /\ d.printGlobal = c.printGlobal
         /\ d.scheduling = c.scheduling
         /\ d.globalIo \in {c.globalIo, Created(c.globalIo)}
  BY DEF Keeping, ConfigFields

-----------------------------------------------------------------------------
(* The steps.                                                              *)
LEMMA NoManagersYet ==
  ASSUME SetUpTypeOK, ManagersFollowTheConfig, stage = "parse"
  PROVE  managers = <<>> /\ schedulers = <<>>
<1>1. managers = <<>>
  BY DEF ManagersFollowTheConfig
<1>2. schedulers \in Seq(Nat) /\ Len(schedulers) = Len(managers)
  BY DEF SetUpTypeOK
<1>3. Len(schedulers) = 0
  BY <1>1, <1>2
<1> QED BY <1>1, <1>2, <1>3

LEMMA parseOption_Step ==
  ASSUME SetUpInv, parseOption
  PROVE  SetUpInv'
<1> DEFINE o == given[seen + 1]
           n == seen
<1>i. /\ SetUpTypeOK /\ ParametersFollowOptions /\ ManagersFollowTheConfig
  BY DEF SetUpInv
<1>1. /\ stage = "parse" /\ seen < Tokens /\ seen' = seen + 1
      /\ config' = setValue(o, config)
      /\ stage' = IF Accepted(o) THEN "parse" ELSE "refused"
      /\ UNCHANGED <<given, timeline, simulators, ioSimulator, managers, schedulers, jine, agent>>
  BY DEF parseOption
<1>2. seen \in Nat /\ seen + 1 \in 1..Len(given) /\ o \in Options
  <2>1. Len(given) \in Nat /\ seen \in 0..Len(given)
    BY <1>i DEF SetUpTypeOK
  <2>2. CASE Len(given) < MaxTokens
    <3>1. seen + 1 \in 1..Len(given)
      BY <1>1, <2>1, <2>2 DEF Tokens, Pieces
    <3> QED BY <3>1, <2>1, <1>i DEF SetUpTypeOK
  <2>3. CASE ~(Len(given) < MaxTokens)
    <3>1. seen + 1 \in 1..Len(given)
      BY <1>1, <2>1, <2>3, SetupAssumption DEF Tokens, Pieces
    <3> QED BY <3>1, <2>1, <1>i DEF SetUpTypeOK
  <2> QED BY <2>2, <2>3
<1> HIDE DEF o
<1>3. /\ DOMAIN config' = ConfigFields
      /\ config'.cpus = IF o.attr = "cpus" THEN o.value ELSE config.cpus
      /\ config'.timeslot = IF o.attr = "timeslot" THEN SlotOf(o.value) ELSE config.timeslot
      /\ config'.scheduling \in BOOLEAN /\ config'.strict \in BOOLEAN /\ config'.host \in BOOLEAN
      /\ config'.server \in BOOLEAN /\ config'.printGlobal \in BOOLEAN
      /\ config'.printGlobal <=> o.attr = "iostats" \/ config.printGlobal
      /\ config'.globalIo = IF o.attr \in IoAttributes THEN setIoValue(config.globalIo, o)
                            ELSE config.globalIo
  BY <1>i, <1>1, <1>2, ValueSet DEF SetUpTypeOK
<1>4. /\ o.attr = "cpus" => o.value \in 0..2
      /\ o.attr = "timeslot" => o.value \in Nat
      /\ o.attr = "io" => o.value \in {"lax", "other"}
      /\ o.attr = "iolevel" => o.value = "ioop"
      /\ o.attr = "iobuffer" => o.value = 0
      /\ o = Option(o.attr, o.value)
  BY <1>2, OptionValues
<1>5. LET p == config.globalIo  q == config'.globalIo IN
      /\ DOMAIN q = IoFields
      /\ q.protocol = IF o.attr = "io" THEN parseIoPolicy(o.value) ELSE p.protocol
      /\ q.level = IF o.attr = "iolevel" THEN "ioop" ELSE p.level
      /\ q.buffer = IF o.attr = "iobuffer" THEN 0 ELSE p.buffer
      /\ q.excluder = IF o.attr = "ioexclude" THEN "random" ELSE p.excluder
      /\ q.recognizer = p.recognizer
      /\ q.predictor = p.predictor
  <2>1. DOMAIN config.globalIo = IoFields
    BY <1>i DEF SetUpTypeOK
  <2>2. CASE o.attr \in IoAttributes
    BY <2>1, <2>2, <1>2, <1>3, IoValueSet
  <2>3. CASE o.attr \notin IoAttributes
    BY <2>1, <2>3, <1>3 DEF IoAttributes
  <2> QED BY <2>2, <2>3
<1>6. managers = <<>> /\ schedulers = <<>>
  BY <1>i, <1>1, NoManagersYet
<1>7. SetUpTypeOK'
  <2>1. config'.cpus \in 0..2
    BY <1>i, <1>3, <1>4 DEF SetUpTypeOK
  <2>2. config'.timeslot \in Nat
    BY <1>i, <1>3, <1>4 DEF SetUpTypeOK, SlotOf
  <2>3. stage' \in Stages
    BY <1>1 DEF Stages
  <2> QED BY <1>i, <1>1, <1>2, <1>3, <1>5, <2>1, <2>2, <2>3 DEF SetUpTypeOK
<1>8. ParametersFollowOptions'
  <2> SUFFICES ASSUME stage' = "parse" PROVE ParametersFollowOptions'
    BY DEF ParametersFollowOptions
  <2>1. Accepted(o)
    BY <1>1
  <2>2. /\ o.attr = "cpus" => o.value > 0
        /\ o.attr = "io" => o.value = "lax" /\ parseIoPolicy(o.value) = o.value
        /\ o.attr # "iobuffer"
    BY <2>1, <1>4 DEF Accepted, IoAccepted, IoAttributes, parseIoPolicy
  <2>3. /\ config.cpus > 0
        /\ LastAmong("io", "normal", config.globalIo.protocol, n)
        /\ config.globalIo.protocol # "NULL"
        /\ LastAmong("iolevel", "invpoint", config.globalIo.level, n)
        /\ config.globalIo.buffer \in Nat \ {0}
        /\ config.globalIo.excluder = "none" <=> NoneSeen("ioexclude")
        /\ config.globalIo.recognizer = FALSE
        /\ config.globalIo.predictor = NoPredictor
        /\ config.printGlobal <=> ~NoneSeen("iostats")
    BY <1>i, <1>1 DEF ParametersFollowOptions, LastOf, LastAmong
  <2>4. LastOf("io", "normal", config.globalIo.protocol)'
    <3>1. LastAmong("io", "normal", config'.globalIo.protocol, n + 1)
      <4>1. CASE o.attr = "io"
        BY <4>1, <1>2, <1>4, <1>5, <2>2, LastOfNext DEF o
      <4>2. CASE o.attr # "io"
        BY <4>2, <1>2, <1>4, <1>5, <2>3, LastOfNext DEF o
      <4> QED BY <4>1, <4>2
    <3> QED BY <3>1, <1>1 DEF LastOf, LastAmong
  <2>5. LastOf("iolevel", "invpoint", config.globalIo.level)'
    <3>1. LastAmong("iolevel", "invpoint", config'.globalIo.level, n + 1)
      <4>1. CASE o.attr = "iolevel"
        BY <4>1, <1>2, <1>4, <1>5, LastOfNext DEF o
      <4>2. CASE o.attr # "iolevel"
        BY <4>2, <1>2, <1>4, <1>5, <2>3, LastOfNext DEF o
      <4> QED BY <4>1, <4>2
    <3> QED BY <3>1, <1>1 DEF LastOf, LastAmong
  <2>6. \A a : NoneSeen(a)' <=> NoneSeen(a) /\ o.attr # a
    <3>1. \A i \in 1..(seen + 1) : i \in 1..seen \/ i = seen + 1
      BY <1>2
    <3>2. 1..seen \subseteq 1..(seen + 1) /\ seen + 1 \in 1..(seen + 1)
      BY <1>2
    <3> QED BY <3>1, <3>2, <1>1 DEF NoneSeen, o
  <2>7. /\ config'.cpus > 0
        /\ config'.globalIo.protocol # "NULL"
        /\ config'.globalIo.buffer \in Nat \ {0}
        /\ config'.globalIo.recognizer = FALSE
        /\ config'.globalIo.predictor = NoPredictor
    BY <1>3, <1>5, <2>2, <2>3
  <2>8. config'.globalIo.excluder = "none" <=> NoneSeen("ioexclude")'
    BY <1>5, <2>3, <2>6
  <2>9. config'.printGlobal <=> ~NoneSeen("iostats")'
    BY <1>3, <2>3, <2>6
  <2> QED BY <2>4, <2>5, <2>7, <2>8, <2>9 DEF ParametersFollowOptions
<1>9. ParametersAreKept' /\ SimulatorFollowsOptions' /\ AgentFollowsOptions'
  BY <1>1 DEF ParametersAreKept, SimulatorFollowsOptions, AgentFollowsOptions
<1>10. ManagersFollowTheConfig' /\ SlotsFollowTheConfig'
  <2>1. config'.cpus \in 0..2 /\ stage' \in {"parse", "refused"} /\ managers' = <<>>
    BY <1>1, <1>6, <1>7 DEF SetUpTypeOK
  <2> QED BY <2>1 DEF ManagersFollowTheConfig, SlotsFollowTheConfig
<1> QED BY <1>7, <1>8, <1>9, <1>10 DEF SetUpInv

LEMMA setupSimulationEnvironment_Step ==
  ASSUME SetUpInv, setupSimulationEnvironment
  PROVE  SetUpInv'
<1> DEFINE l == Logging(Repaired(config))
           p == config.globalIo
<1>i. /\ SetUpTypeOK /\ ParametersFollowOptions /\ ManagersFollowTheConfig
  BY DEF SetUpInv
<1>1. /\ stage = "parse" /\ stage' = "managers"
      /\ config' = Keeping(l)
      /\ timeline' = selectVirtualTime(config')
      /\ simulators' = IF usingRealTimeSimulationByCategories(config) THEN 4 ELSE 1
      /\ ioSimulator' = FirstIoSimulator(l)
      /\ UNCHANGED <<given, seen, managers, schedulers, jine, agent>>
  BY DEF setupSimulationEnvironment
<1>2. /\ DOMAIN l = ConfigFields
      /\ l.cpus = config.cpus /\ l.timeslot = config.timeslot /\ l.strict = config.strict
      /\ l.host = config.host /\ l.server = config.server /\ l.printGlobal = config.printGlobal
      /\ l.scheduling \in BOOLEAN
      /\ l.scheduling <=> config.scheduling \/ config.cpus > 1
      /\ LET q == l.globalIo IN
         /\ DOMAIN q = IoFields /\ q.protocol = p.protocol /\ q.level = p.level
         /\ q.buffer = p.buffer /\ q.excluder = p.excluder /\ q.recognizer = p.recognizer
         /\ q.predictor = p.predictor
         /\ ~usingRealTimeSimulationByCategories(l) => q.logging = config.printGlobal
  <2>1. LET d == Repaired(config) IN
        /\ DOMAIN d = ConfigFields
        /\ d.cpus = config.cpus /\ d.timeslot = config.timeslot /\ d.strict = config.strict
        /\ d.host = config.host /\ d.server = config.server /\ d.printGlobal = config.printGlobal
        /\ d.globalIo = config.globalIo
        /\ d.scheduling \in BOOLEAN
        /\ d.scheduling <=> config.scheduling \/ config.cpus > 1
    BY <1>i, Repairs DEF SetUpTypeOK
  <2>2. DOMAIN Repaired(config).globalIo = IoFields
    BY <1>i, <2>1 DEF SetUpTypeOK
  <2> HIDE DEF p
  <2> QED BY <2>1, <2>2, Logs DEF p
<1> HIDE DEF l
<1>3. /\ DOMAIN config' = ConfigFields
      /\ config'.cpus = config.cpus /\ config'.timeslot = config.timeslot
      /\ config'.strict = config.strict /\ config'.host = config.host
      /\ config'.server = config.server /\ config'.printGlobal = config.printGlobal
      /\ config'.scheduling = l.scheduling
      /\ config'.globalIo \in {l.globalIo, Created(l.globalIo)}
  BY <1>1, <1>2, Keeps
<1>4. /\ config.cpus > 0 /\ config.cpus \in 0..2
      /\ LastOf("io", "normal", p.protocol) /\ p.protocol # "NULL"
      /\ LastOf("iolevel", "invpoint", p.level)
      /\ p.buffer \in Nat \ {0}
      /\ p.excluder = "none" <=> NoneSeen("ioexclude")
      /\ p.recognizer = FALSE
      /\ p.predictor = NoPredictor
      /\ config.printGlobal <=> ~NoneSeen("iostats")
  BY <1>i, <1>1 DEF ParametersFollowOptions, SetUpTypeOK
<1>5. /\ create(l.globalIo).kind = "simple" =>
           LET s == create(l.globalIo) IN
           /\ Len(s.protocol) \in 1..2 /\ s.protocol[Len(s.protocol)] = l.globalIo.protocol
           /\ Len(s.protocol) = 1 <=> l.globalIo.excluder = "none"
           /\ s.predictor.factory.buffer \in Nat \ {0}
           /\ s.predictor.level = l.globalIo.level /\ s.predictor.logging = l.globalIo.logging
      /\ LET q == Created(l.globalIo) IN
         /\ DOMAIN q = IoFields /\ q.buffer = l.globalIo.buffer /\ q.excluder = l.globalIo.excluder
         /\ q.recognizer = l.globalIo.recognizer
         /\ q.predictor # NoPredictor => q.predictor.factory.buffer \in Nat \ {0}
  <2> DEFINE g == l.globalIo
  <2>1. /\ DOMAIN g = IoFields /\ g.recognizer = FALSE /\ g.buffer \in Nat \ {0}
        /\ g.predictor = NoPredictor
    BY <1>2, <1>4
  <2> HIDE DEF g
  <2>2. /\ create(g).kind = "simple" =>
             LET s == create(g) IN
             /\ Len(s.protocol) \in 1..2 /\ s.protocol[Len(s.protocol)] = g.protocol
             /\ Len(s.protocol) = 1 <=> g.excluder = "none"
             /\ s.predictor.factory.buffer \in Nat \ {0}
             /\ s.predictor.level = g.level /\ s.predictor.logging = g.logging
        /\ LET q == Created(g) IN
           /\ DOMAIN q = IoFields /\ q.buffer = g.buffer /\ q.excluder = g.excluder
           /\ q.recognizer = g.recognizer
           /\ q.predictor # NoPredictor => q.predictor.factory.buffer \in Nat \ {0}
    BY <2>1, Creates
  <2> QED BY <2>2 DEF g
<1> HIDE DEF p
<1>6. managers = <<>> /\ managers' = <<>> /\ schedulers' = <<>>
  BY <1>i, <1>1, NoManagersYet
<1>7. SetUpTypeOK'
  <2>1. DOMAIN config'.globalIo = IoFields
    BY <1>2, <1>3, <1>5
  <2>2. simulators' \in Nat /\ stage' \in Stages
    BY <1>1 DEF Stages
  <2> QED BY <1>i, <1>1, <1>2, <1>3, <1>6, <2>1, <2>2 DEF SetUpTypeOK
<1>8. ParametersAreKept'
  <2>1. \A a : NoneSeen(a)' <=> NoneSeen(a)
    BY <1>1 DEF NoneSeen
  <2>2. CASE config'.globalIo = l.globalIo
    BY <2>1, <2>2, <1>2, <1>4 DEF ParametersAreKept
  <2>3. CASE config'.globalIo = Created(l.globalIo)
    BY <2>1, <2>3, <1>2, <1>4, <1>5 DEF ParametersAreKept
  <2> QED BY <1>3, <2>2, <2>3
<1>9. SimulatorFollowsOptions'
  <2> SUFFICES ASSUME ioSimulator'.kind = "simple" PROVE SimulatorFollowsOptions'
    BY DEF SimulatorFollowsOptions
  <2>1. ~usingRealTimeSimulationByCategories(l) /\ ioSimulator' = create(l.globalIo)
    BY <1>1 DEF FirstIoSimulator
  <2>2. /\ Len(ioSimulator'.protocol) \in 1..2
        /\ ioSimulator'.protocol[Len(ioSimulator'.protocol)] = p.protocol
        /\ Len(ioSimulator'.protocol) = 1 <=> NoneSeen("ioexclude")
        /\ ioSimulator'.predictor.factory.buffer > 0
        /\ ioSimulator'.predictor.level = p.level
        /\ ioSimulator'.predictor.logging <=> ~NoneSeen("iostats")
    BY <2>1, <1>2, <1>4, <1>5
  <2>3. /\ LastOf("io", "normal", ioSimulator.protocol[Len(ioSimulator.protocol)])'
        /\ LastOf("iolevel", "invpoint", ioSimulator.predictor.level)'
    BY <1>1, <1>4, <2>2 DEF LastOf
  <2>4. \A a : NoneSeen(a)' <=> NoneSeen(a)
    BY <1>1 DEF NoneSeen
  <2> QED BY <2>2, <2>3, <2>4, <1>4, <1>6 DEF SimulatorFollowsOptions
<1>10. ParametersFollowOptions' /\ AgentFollowsOptions'
  BY <1>1 DEF ParametersFollowOptions, AgentFollowsOptions
<1>11. ManagersFollowTheConfig' /\ SlotsFollowTheConfig'
  <2>1. config'.cpus > 0 /\ (config'.cpus > 1 => config'.scheduling) /\ config'.cpus \in 0..2
    BY <1>2, <1>3, <1>4
  <2> QED BY <2>1, <1>1, <1>6 DEF ManagersFollowTheConfig, SlotsFollowTheConfig
<1> QED BY <1>7, <1>8, <1>9, <1>10, <1>11 DEF SetUpInv
\* One manager more, with the parameters as they are or those of a passive manager.
LEMMA addThreadManager_Step ==
  ASSUME SetUpInv, addThreadManager
  PROVE  SetUpInv'
<1> DEFINE m == [kind |-> ManagerKind(config), controller |-> Controller(config),
                 simulator |-> simulators', times |-> LoggedTimes(config), slot |-> 100000000]
<1>i. /\ SetUpTypeOK /\ ParametersAreKept /\ SimulatorFollowsOptions /\ ManagersFollowTheConfig
      /\ SlotsFollowTheConfig
  BY DEF SetUpInv
<1>1. /\ stage = "managers" /\ Len(managers) < config.cpus
      /\ simulators' = IF config.scheduling THEN simulators ELSE simulators + 1
      /\ config.scheduling => UNCHANGED <<config, ioSimulator>>
      /\ ~config.scheduling =>
           /\ config' = [config EXCEPT !.globalIo = Created(PassiveIo(@))]
           /\ ioSimulator' = create(PassiveIo(config.globalIo))
      /\ managers' = Append(managers, m) /\ schedulers' = Append(schedulers, 0)
      /\ UNCHANGED <<given, stage, seen, timeline, jine, agent>>
  BY DEF addThreadManager, selectManager
<1> HIDE DEF m
<1>2. /\ config.cpus \in 0..2 /\ config.timeslot \in Nat
      /\ config.scheduling \in BOOLEAN /\ config.strict \in BOOLEAN /\ config.host \in BOOLEAN
      /\ config.server \in BOOLEAN /\ config.printGlobal \in BOOLEAN
      /\ DOMAIN config = ConfigFields /\ DOMAIN config.globalIo = IoFields
      /\ simulators \in Nat /\ managers \in Seq(Managers)
      /\ schedulers \in Seq(Nat) /\ Len(schedulers) = Len(managers)
  BY <1>i DEF SetUpTypeOK
<1>3. /\ config.cpus > 0 /\ (config.cpus > 1 => config.scheduling)
      /\ timeline = selectVirtualTime(config) /\ simulators > 0
      /\ \A i \in DOMAIN managers :
           /\ managers[i].kind = ManagerKind(config)
           /\ managers[i].controller = Controller(config)
           /\ managers[i].simulator = simulators
           /\ managers[i].kind = "passive" => simulators > 1
  BY <1>i, <1>1 DEF ManagersFollowTheConfig
<1>4. ~config.scheduling => managers = <<>>
  <2>1. ~config.scheduling => Len(managers) = 0
    BY <1>1, <1>2, <1>3
  <2> QED BY <2>1, <1>2
<1>5. LET q == PassiveIo(config.globalIo) IN
      /\ DOMAIN q = IoFields /\ q.protocol = "none" /\ q.buffer = config.globalIo.buffer
      /\ q.excluder = config.globalIo.excluder /\ q.recognizer = config.globalIo.recognizer
      /\ q.predictor = config.globalIo.predictor
  BY <1>2, PassiveParameters
<1>6. LET p == config.globalIo IN
      /\ p.buffer \in Nat \ {0} /\ p.recognizer = FALSE
      /\ p.excluder = "none" <=> NoneSeen("ioexclude")
      /\ p.predictor # NoPredictor => p.predictor.factory.buffer \in Nat \ {0}
  BY <1>i, <1>1 DEF ParametersAreKept
<1>7. LET q == PassiveIo(config.globalIo)  s == create(q)  r == Created(q) IN
      /\ s.kind = "simple" =>
           /\ Len(s.protocol) \in 1..2 /\ s.protocol[Len(s.protocol)] = "none"
           /\ Len(s.protocol) = 1 <=> NoneSeen("ioexclude")
           /\ s.predictor.factory.buffer \in Nat \ {0}
      /\ DOMAIN r = IoFields /\ r.buffer \in Nat \ {0}
      /\ r.excluder = "none" <=> NoneSeen("ioexclude")
      /\ r.recognizer = FALSE
      /\ r.predictor # NoPredictor => r.predictor.factory.buffer \in Nat \ {0}
  <2> DEFINE q == PassiveIo(config.globalIo)
  <2>1. /\ DOMAIN q = IoFields /\ q.recognizer = FALSE /\ q.buffer \in Nat \ {0}
        /\ q.predictor # NoPredictor => q.predictor.factory.buffer \in Nat \ {0}
        /\ q.protocol = "none" /\ (q.excluder = "none" <=> NoneSeen("ioexclude"))
    BY <1>5, <1>6
  <2> HIDE DEF q
  <2>2. /\ create(q).kind = "simple" =>
             LET s == create(q) IN
             /\ Len(s.protocol) \in 1..2 /\ s.protocol[Len(s.protocol)] = q.protocol
             /\ Len(s.protocol) = 1 <=> q.excluder = "none"
             /\ s.predictor.factory.buffer \in Nat \ {0}
        /\ LET r == Created(q) IN
           /\ DOMAIN r = IoFields /\ r.buffer = q.buffer /\ r.excluder = q.excluder
           /\ r.recognizer = q.recognizer
           /\ r.predictor # NoPredictor => r.predictor.factory.buffer \in Nat \ {0}
    BY <2>1, Creates
  <2> QED BY <2>1, <2>2 DEF q
<1>8. /\ DOMAIN config' = ConfigFields /\ config'.cpus = config.cpus
      /\ config'.timeslot = config.timeslot /\ config'.scheduling = config.scheduling
      /\ config'.strict = config.strict /\ config'.host = config.host
      /\ config'.server = config.server /\ config'.printGlobal = config.printGlobal
      /\ config'.globalIo = IF config.scheduling THEN config.globalIo
                            ELSE Created(PassiveIo(config.globalIo))
  <2>1. CASE config.scheduling
    BY <2>1, <1>1, <1>2
  <2>2. CASE ~config.scheduling
    BY <2>2, <1>1, <1>2 DEF ConfigFields
  <2> QED BY <2>1, <2>2
<1>9. \A a : NoneSeen(a)' <=> NoneSeen(a)
  BY <1>1 DEF NoneSeen
<1>10. /\ Controller(config)' = Controller(config) /\ ManagerKind(config)' = ManagerKind(config)
       /\ selectVirtualTime(config)' = selectVirtualTime(config)
  BY <1>8 DEF Controller, ManagerKind, selectVirtualTime
<1>11. m \in Managers
  <2>1. Controller(config) \in {"multiple", "single", "passive"}
    BY DEF Controller
  <2>2. ManagerKind(config) \in {"passive", "server", "client", "plain", "strict", "loose"}
    BY <1>2 DEF ManagerKind
  <2>3. simulators' \in Nat /\ LoggedTimes(config) \in {"total", "nothing"}
    BY <1>1, <1>2 DEF LoggedTimes
  <2> QED BY <2>1, <2>2, <2>3, SMT DEF Managers, m
<1>12. /\ m.kind = ManagerKind(config) /\ m.controller = Controller(config)
       /\ m.simulator = simulators' /\ m.slot = FirstSlot
  BY SMT DEF m, FirstSlot
<1>13. /\ Len(managers') = Len(managers) + 1 /\ DOMAIN managers' = 1..(Len(managers) + 1)
       /\ DOMAIN managers = 1..Len(managers) /\ Len(managers) \in Nat
       /\ \A i \in 1..Len(managers) :
            managers'[i] = managers[i] /\ schedulers'[i] = schedulers[i]
       /\ managers'[Len(managers) + 1] = m /\ schedulers'[Len(managers) + 1] = 0
  <2>1. managers' = Append(managers, m) /\ managers \in Seq(Managers)
    BY <1>1, <1>2
  <2>2. schedulers' = Append(schedulers, 0) /\ schedulers \in Seq(Nat)
        /\ Len(schedulers) = Len(managers)
    BY <1>1, <1>2
  <2>3. /\ Len(managers') = Len(managers) + 1 /\ DOMAIN managers' = 1..(Len(managers) + 1)
        /\ DOMAIN managers = 1..Len(managers) /\ Len(managers) \in Nat
        /\ \A i \in 1..Len(managers) : managers'[i] = managers[i]
        /\ managers'[Len(managers) + 1] = m
    BY <2>1, <1>11, SMT
  <2>4. /\ \A i \in 1..Len(schedulers) : schedulers'[i] = schedulers[i]
        /\ schedulers'[Len(schedulers) + 1] = 0
    BY <2>2, SMT
  <2> QED BY <2>2, <2>3, <2>4
<1>14. \A i \in DOMAIN managers' : i \in DOMAIN managers \/ i = Len(managers) + 1
  BY <1>13
<1>15. SetUpTypeOK'
  <2>1. managers' \in Seq(Managers) /\ schedulers' \in Seq(Nat)
        /\ Len(schedulers') = Len(managers')
    BY <1>1, <1>2, <1>11
  <2>2. DOMAIN config'.globalIo = IoFields
    BY <1>2, <1>7, <1>8
  <2>3. simulators' \in Nat
    BY <1>1, <1>2
  <2> QED BY <2>1, <2>2, <2>3, <1>i, <1>1, <1>2, <1>8 DEF SetUpTypeOK
<1>16. ParametersFollowOptions' /\ AgentFollowsOptions'
  BY <1>1 DEF ParametersFollowOptions, AgentFollowsOptions
<1>17. ParametersAreKept'
  <2>1. CASE config.scheduling
    BY <2>1, <1>6, <1>8, <1>9 DEF ParametersAreKept
  <2>2. CASE ~config.scheduling
    BY <2>2, <1>7, <1>8, <1>9 DEF ParametersAreKept
  <2> QED BY <2>1, <2>2
<1>18. SimulatorFollowsOptions'
  <2>1. CASE config.scheduling
    <3>1. UNCHANGED <<config, ioSimulator, given, seen, stage>>
      BY <2>1, <1>1
    <3>2. \A a, d, v : LastOf(a, d, v)' <=> LastOf(a, d, v)
      BY <3>1 DEF LastOf
    <3> QED BY <2>1, <3>1, <3>2, <1>i, <1>1, <1>9 DEF SimulatorFollowsOptions
  <2>2. CASE ~config.scheduling
    <3> SUFFICES ASSUME ioSimulator'.kind = "simple" PROVE SimulatorFollowsOptions'
      BY DEF SimulatorFollowsOptions
    <3>1. ioSimulator' = create(PassiveIo(config.globalIo))
      BY <2>2, <1>1
    <3>2. /\ Len(ioSimulator'.protocol) \in 1..2
          /\ ioSimulator'.protocol[Len(ioSimulator'.protocol)] = "none"
          /\ Len(ioSimulator'.protocol) = 1 <=> NoneSeen("ioexclude")
          /\ ioSimulator'.predictor.factory.buffer \in Nat \ {0}
      BY <3>1, <1>7
    <3>3. ioSimulator'.predictor.factory.buffer > 0
      BY <3>2
    <3> QED BY <2>2, <3>2, <3>3, <1>8, <1>9 DEF SimulatorFollowsOptions
  <2> QED BY <2>1, <2>2
<1>19. ManagersFollowTheConfig'
  <2>1. stage' = "managers" /\ Len(managers') <= config'.cpus
    BY <1>1, <1>2, <1>8, <1>13
  <2>2. /\ config'.cpus > 0 /\ (config'.cpus > 1 => config'.scheduling)
        /\ timeline' = selectVirtualTime(config)' /\ simulators' > 0
    BY <1>1, <1>2, <1>3, <1>8, <1>10
  <2>3. ManagerKind(config) = "passive" => ~config.scheduling
    BY <1>2 DEF ManagerKind
  <2>4. ASSUME NEW i \in DOMAIN managers'
        PROVE  /\ managers'[i].kind = ManagerKind(config)'
               /\ managers'[i].controller = Controller(config)'
               /\ managers'[i].simulator = simulators'
               /\ managers'[i].kind = "passive" => simulators' > 1
    <3>1. CASE i \in DOMAIN managers
      <4>1. config.scheduling /\ simulators' = simulators
        BY <3>1, <1>1, <1>4
      <4>2. managers'[i] = managers[i]
        BY <3>1, <1>13
      <4> QED BY <4>1, <4>2, <3>1, <1>3, <1>10
    <3>2. CASE i = Len(managers) + 1
      <4>1. managers'[i] = m
        BY <3>2, <1>13
      <4>2. ~config.scheduling => simulators' > 1
        BY <1>1, <1>2, <1>3
      <4> QED BY <4>1, <4>2, <2>3, <1>10, <1>12
    <3> QED BY <3>1, <3>2, <1>14
  <2> QED BY <2>1, <2>2, <2>4 DEF ManagersFollowTheConfig
<1>20. SlotsFollowTheConfig'
  <2>1. stage' = "managers"
    BY <1>1
  <2>2. \A i \in DOMAIN managers :
          managers[i].slot = FirstSlot /\ schedulers[i] \in {0, FirstSlot}
    BY <1>i, <1>1 DEF SlotsFollowTheConfig
  <2>3. ASSUME NEW i \in DOMAIN managers'
        PROVE  managers'[i].slot = FirstSlot /\ schedulers'[i] \in {0, FirstSlot}
    BY <2>2, <1>12, <1>13, <1>14
  <2> QED BY <2>1, <2>3 DEF SlotsFollowTheConfig
<1> QED BY <1>15, <1>16, <1>17, <1>18, <1>19, <1>20 DEF SetUpInv

\* What the steps after the options leave alone.
LEMMA SameOptions ==
  ASSUME UNCHANGED <<given, seen>>
  PROVE  /\ \A a : NoneSeen(a)' <=> NoneSeen(a)
         /\ \A a, d, v : LastOf(a, d, v)' <=> LastOf(a, d, v)
  BY DEF NoneSeen, LastOf

LEMMA NoManager_Step ==
  ASSUME SetUpInv, NoManager
  PROVE  SetUpInv'
<1>i. SetUpTypeOK /\ ManagersFollowTheConfig
  BY DEF SetUpInv
<1>1. /\ stage = "managers" /\ stage' = "refused"
      /\ UNCHANGED <<given, seen, config, timeline, simulators, ioSimulator, managers,
                     schedulers, jine, agent>>
  BY DEF NoManager
<1>2. SetUpTypeOK'
  BY <1>i, <1>1 DEF SetUpTypeOK, Stages
<1>3. ManagersFollowTheConfig'
  <2>1. UNCHANGED <<config, timeline, simulators, managers>> /\ stage' = "refused"
    BY <1>1
  <2>2. /\ managers # <<>> => /\ config.cpus > 0 /\ (config.cpus > 1 => config.scheduling)
                              /\ timeline = selectVirtualTime(config) /\ simulators > 0
        /\ Len(managers) <= config.cpus
        /\ \A i \in DOMAIN managers :
             /\ managers[i].kind = ManagerKind(config)
             /\ managers[i].controller = Controller(config)
             /\ managers[i].simulator = simulators
             /\ managers[i].kind = "passive" => simulators > 1
    BY <1>i DEF ManagersFollowTheConfig
  <2> QED BY <2>1, <2>2 DEF ManagersFollowTheConfig
<1>4. /\ ParametersFollowOptions' /\ ParametersAreKept' /\ SimulatorFollowsOptions'
      /\ SlotsFollowTheConfig' /\ AgentFollowsOptions'
  BY <1>1 DEF ParametersFollowOptions, ParametersAreKept, SimulatorFollowsOptions,
     SlotsFollowTheConfig, AgentFollowsOptions
<1> QED BY <1>2, <1>3, <1>4 DEF SetUpInv

\* All the managers take the slot of the options.
LEMMA finishSetup_Step ==
  ASSUME SetUpInv, finishSetup
  PROVE  SetUpInv'
<1>i. /\ SetUpTypeOK /\ SimulatorFollowsOptions /\ ManagersFollowTheConfig /\ SlotsFollowTheConfig
  BY DEF SetUpInv
<1>1. /\ stage = "managers" /\ Len(managers) = config.cpus /\ stage' = "ready"
      /\ managers' = [i \in DOMAIN managers |-> [managers[i] EXCEPT !.slot = config.timeslot]]
      /\ UNCHANGED <<given, seen, config, timeline, simulators, ioSimulator, schedulers,
                     jine, agent>>
  BY DEF finishSetup, setDefaultSchedulerTimeslot
<1>2. managers \in Seq(Managers) /\ config.timeslot \in Nat
  BY <1>i DEF SetUpTypeOK
<1>3. /\ DOMAIN managers' = DOMAIN managers
      /\ \A i \in DOMAIN managers :
           /\ managers'[i] \in Managers
           /\ managers'[i].kind = managers[i].kind
           /\ managers'[i].controller = managers[i].controller
           /\ managers'[i].simulator = managers[i].simulator
           /\ managers'[i].slot = config.timeslot
  <2>1. \A i \in DOMAIN managers : managers[i] \in Managers
    BY <1>2
  <2> QED BY <2>1, <1>1, <1>2 DEF Managers
<1>4. managers' \in Seq(Managers) /\ Len(managers') = Len(managers)
  <2>1. DOMAIN managers = 1..Len(managers) /\ Len(managers) \in Nat
    BY <1>2
  <2>2. managers' = [i \in 1..Len(managers) |-> managers'[i]]
    BY <2>1, <1>1
  <2> QED BY <2>1, <2>2, <1>3
<1>5. SetUpTypeOK'
  BY <1>i, <1>1, <1>4 DEF SetUpTypeOK, Stages
<1>6. managers = <<>> <=> managers' = <<>>
  BY <1>2, <1>4
<1>7. SimulatorFollowsOptions'
  <2>1. UNCHANGED <<config, ioSimulator>>
    BY <1>1
  <2>2. /\ \A a : NoneSeen(a)' <=> NoneSeen(a)
        /\ \A a, d, v : LastOf(a, d, v)' <=> LastOf(a, d, v)
    BY <1>1, SameOptions
  <2> QED BY <2>1, <2>2, <1>i, <1>1, <1>6 DEF SimulatorFollowsOptions
<1>8. ManagersFollowTheConfig'
  <2>1. UNCHANGED <<config, timeline, simulators>>
    BY <1>1
  <2> QED BY <2>1, <1>i, <1>1, <1>3, <1>4 DEF ManagersFollowTheConfig
<1>9. SlotsFollowTheConfig'
  <2>1. \A i \in DOMAIN managers : schedulers[i] \in {0, FirstSlot}
    BY <1>i, <1>1 DEF SlotsFollowTheConfig
  <2> QED BY <2>1, <1>1, <1>3, <1>4 DEF SlotsFollowTheConfig
<1>10. ParametersFollowOptions' /\ ParametersAreKept' /\ AgentFollowsOptions'
  BY <1>1 DEF ParametersFollowOptions, ParametersAreKept, AgentFollowsOptions
<1> QED BY <1>5, <1>7, <1>8, <1>9, <1>10 DEF SetUpInv

\* A scheduler takes the slot its manager has: at its start or at a later slice.
LEMMA Scheduler_Step ==
  ASSUME SetUpInv, NEW k \in 1..2, startScheduler(k) \/ doControllerWait(k)
  PROVE  SetUpInv'
<1>i. /\ SetUpTypeOK /\ ParametersFollowOptions /\ ParametersAreKept /\ SimulatorFollowsOptions
      /\ ManagersFollowTheConfig /\ SlotsFollowTheConfig /\ AgentFollowsOptions
  BY DEF SetUpInv
<1>1. /\ k \in DOMAIN managers
      /\ schedulers' = [schedulers EXCEPT ![k] = managers[k].slot]
      /\ UNCHANGED <<given, stage, seen, config, timeline, simulators, ioSimulator, managers,
                     jine, agent>>
  BY DEF startScheduler, doControllerWait
<1>2. /\ managers \in Seq(Managers) /\ schedulers \in Seq(Nat)
      /\ Len(schedulers) = Len(managers)
  BY <1>i DEF SetUpTypeOK
<1>3. managers[k].slot \in Nat
  <2>1. managers[k] \in Managers
    BY <1>1, <1>2
  <2> QED BY <2>1 DEF Managers
<1>4. /\ schedulers' \in Seq(Nat) /\ Len(schedulers') = Len(managers)
      /\ \A i \in DOMAIN managers :
           schedulers'[i] = IF i = k THEN managers[k].slot ELSE schedulers[i]
  BY <1>1, <1>2, <1>3
<1>5. SetUpTypeOK'
  BY <1>i, <1>1, <1>4 DEF SetUpTypeOK
<1>6. SlotsFollowTheConfig'
  <2>1. UNCHANGED <<stage, managers, config>>
    BY <1>1
  <2> QED BY <2>1, <1>i, <1>1, <1>4 DEF SlotsFollowTheConfig
<1>7. /\ \A a : NoneSeen(a)' <=> NoneSeen(a)
      /\ \A a, d, v : LastOf(a, d, v)' <=> LastOf(a, d, v)
  BY <1>1, SameOptions
<1>8. UNCHANGED <<stage, config, timeline, simulators, ioSimulator, managers, given, jine, agent>>
  BY <1>1
<1>9. ParametersFollowOptions' /\ ParametersAreKept'
  BY <1>i, <1>7, <1>8 DEF ParametersFollowOptions, ParametersAreKept
<1>10. SimulatorFollowsOptions'
  BY <1>i, <1>7, <1>8 DEF SimulatorFollowsOptions
<1>11. ManagersFollowTheConfig'
  BY <1>i, <1>8 DEF ManagersFollowTheConfig
<1>12. AgentFollowsOptions'
  BY <1>i, <1>8 DEF AgentFollowsOptions
<1> QED BY <1>5, <1>6, <1>9, <1>10, <1>11, <1>12 DEF SetUpInv

\* The agent is loaded in two steps, and nothing changes in a stuttering one:
\* the set-up itself stays as it is.
LEMMA Agent_Step ==
  ASSUME SetUpInv,
         UNCHANGED <<given, seen, config, timeline, simulators, ioSimulator, managers, schedulers>>,
         \/ stage = "ready" /\ stage' = "loading"
         \/ stage = "loading" /\ stage' = "loaded"
         \/ stage' = stage,
         AgentFollowsOptions'
  PROVE  SetUpInv'
<1>i. /\ SetUpTypeOK /\ ParametersFollowOptions /\ ParametersAreKept /\ SimulatorFollowsOptions
      /\ ManagersFollowTheConfig /\ SlotsFollowTheConfig
  BY DEF SetUpInv
<1>1. /\ \A a : NoneSeen(a)' <=> NoneSeen(a)
      /\ \A a, d, v : LastOf(a, d, v)' <=> LastOf(a, d, v)
  BY SameOptions
<1>2. stage' \in Stages
  BY <1>i DEF SetUpTypeOK, Stages
<1>3. SetUpTypeOK'
  BY <1>i, <1>2 DEF SetUpTypeOK
<1>4. ParametersFollowOptions' /\ ParametersAreKept'
  BY <1>i, <1>1 DEF ParametersFollowOptions, ParametersAreKept
<1>5. SimulatorFollowsOptions'
  BY <1>i, <1>1 DEF SimulatorFollowsOptions
<1>6. ManagersFollowTheConfig'
  BY <1>i DEF ManagersFollowTheConfig
<1>7. SlotsFollowTheConfig'
  BY <1>i DEF SlotsFollowTheConfig
<1> QED BY <1>3, <1>4, <1>5, <1>6, <1>7 DEF SetUpInv

LEMMA initializeJineLowerLayer_Step ==
  ASSUME SetUpInv, initializeJineLowerLayer
  PROVE  SetUpInv'
<1>1. /\ stage = "ready" /\ stage' = "loading"
      /\ jine' = {f \in JineFlags : given # <<>> /\ given[1].attr # getOptionValue[f]}
      /\ UNCHANGED <<given, seen, config, timeline, simulators, ioSimulator, managers, schedulers>>
  BY DEF initializeJineLowerLayer
<1>2. "usingJvmtiForMonitorControl" \in jine' <=> given # <<>> /\ given[1].attr # "no_jvmti"
  BY <1>1 DEF JineFlags, getOptionValue
<1>3. AgentFollowsOptions'
  BY <1>1, <1>2 DEF AgentFollowsOptions
<1> QED BY <1>1, <1>3, Agent_Step

LEMMA Agent_OnLoad_Step ==
  ASSUME SetUpInv, Agent_OnLoad
  PROVE  SetUpInv'
<1>1. /\ stage = "loading" /\ stage' = "loaded"
      /\ agent' = [caps |-> Requested(config).caps,
                   callbacks |-> GcEvents \cup
                     IF "usingJvmtiForMonitorControl" \in jine THEN {"monitor"} ELSE {},
                   events |-> Requested(config).events]
      /\ UNCHANGED <<given, seen, config, timeline, simulators, ioSimulator, managers, schedulers>>
      /\ jine' = jine
  BY DEF Agent_OnLoad
<1>2. /\ "monitor" \in agent'.caps <=> config.scheduling
      /\ "monitor" \in agent'.events <=> config.scheduling
      /\ "monitor" \in agent'.callbacks <=> "usingJvmtiForMonitorControl" \in jine
  BY <1>1 DEF Requested, MonitorEvents, GcEvents
<1>3. "usingJvmtiForMonitorControl" \in jine <=> given # <<>> /\ given[1].attr # "no_jvmti"
  BY <1>1 DEF SetUpInv, AgentFollowsOptions
<1>4. AgentFollowsOptions'
  BY <1>1, <1>2, <1>3 DEF AgentFollowsOptions
<1> QED BY <1>1, <1>4, Agent_Step

LEMMA SetUpStep == SetUpInv /\ [SuNext]_suVars => SetUpInv'
<1> SUFFICES ASSUME SetUpInv, [SuNext]_suVars PROVE SetUpInv'
  OBVIOUS
<1>1. CASE parseOption
  BY <1>1, parseOption_Step
<1>2. CASE setupSimulationEnvironment
  BY <1>2, setupSimulationEnvironment_Step
<1>3. CASE addThreadManager
  BY <1>3, addThreadManager_Step
<1>4. CASE NoManager
  BY <1>4, NoManager_Step
<1>5. CASE finishSetup
  BY <1>5, finishSetup_Step
<1>6. CASE initializeJineLowerLayer
  BY <1>6, initializeJineLowerLayer_Step
<1>7. CASE Agent_OnLoad
  BY <1>7, Agent_OnLoad_Step
<1>8. ASSUME NEW k \in 1..2, startScheduler(k) \/ doControllerWait(k) PROVE SetUpInv'
  BY <1>8, Scheduler_Step
<1>9. CASE UNCHANGED suVars
  <2>1. UNCHANGED <<given, stage, seen, config, timeline, simulators, ioSimulator, managers,
                    schedulers, jine, agent>>
    BY <1>9 DEF suVars
  <2>2. AgentFollowsOptions'
    BY <2>1 DEF SetUpInv, AgentFollowsOptions
  <2> QED BY <2>1, <2>2, Agent_Step
<1> QED BY <1>1, <1>2, <1>3, <1>4, <1>5, <1>6, <1>7, <1>8, <1>9 DEF SuNext

\* However many options are given, in whatever order: the managers that setup
\* creates fit the timeline, share one I/O simulator built from the last option
\* of each name, every scheduler works with the slot asked for, and the agent
\* listens to monitors where a scheduler needs to know of them
\* (initializeSimulator of VTF.cpp, Agent_OnLoad of JVMTIUtil.cpp).
THEOREM SetUpStaysConsistent == SuSpec => []SetUpIsConsistent
<1>1. SuInit => SetUpInv
  BY SetUpInit
<1>2. SetUpInv /\ [SuNext]_suVars => SetUpInv'
  BY SetUpStep
<1>3. SetUpInv => SetUpIsConsistent
  BY SetUpInvImplies
<1> QED BY <1>1, <1>2, <1>3, PTL DEF SuSpec

-----------------------------------------------------------------------------
(***************************************************************************)
(* The charges of the threads.  What is known of a timer.                  *)
(***************************************************************************)
TimerFields == {"vt", "ert", "lastCpu", "local", "resumedAt", "waited", "since"}

TimerOK(r) ==
  /\ DOMAIN r = TimerFields
  /\ r.vt \in Nat /\ r.ert \in Nat /\ r.lastCpu \in Nat /\ r.local \in Nat /\ r.resumedAt \in Nat

Activities == {"suspended", "resumed", "running", "native", "waiting", "asleep"}

\* A commit under way is about a thread, but for those of the collector.
CommitOK(c) ==
  \/ c = Out
  \/ /\ DOMAIN c = {"at", "whose", "category", "before", "after", "sum", "row", "then"}
     /\ c.at \in {"commit", "look", "log"}
     /\ c.category \in Categories
     /\ c.category # "background" => c.whose \in TimedThreads
  \/ DOMAIN c = {"at", "then", "whose"} /\ c.at = "then"

TaTypeOK ==
  /\ globalTime \in Nat /\ unknown \in Nat
  /\ timers = [t \in TimedThreads |-> timers[t]] /\ \A t \in TimedThreads : TimerOK(timers[t])
  /\ cpu \in [TimedThreads -> Nat]
  /\ doing \in [TimedThreads -> Activities]
  /\ commit = [a \in Actors |-> commit[a]] /\ \A a \in Actors : CommitOK(commit[a])
  /\ used = [t \in TimedThreads |-> cpu[t] * Scaling[t]]

\* The timer r of thread t, which has used k of CPU time, fits what the thread
\* does (d), its commit (c) and the global time (g): in application code what it
\* ran before its last clock update is charged, once or twice, and elsewhere all
\* it ran.
Fits(t, k, r, d, c, g) ==
  /\ r.lastCpu <= k
  /\ d \in {"running", "native"} /\ c = Out =>
       r.lastCpu * Scaling[t] <= r.vt /\ r.vt <= 2 * (r.lastCpu * Scaling[t])
  /\ ~(d \in {"running", "native"} /\ c = Out) =>
       k * Scaling[t] <= r.vt /\ r.vt <= 2 * (k * Scaling[t])
  /\ d \in {"running", "native"} \/ (d = "waiting" /\ c # Out) => r.ert >= r.resumedAt + r.local
  /\ d = "resumed" => r.local = 0 /\ r.resumedAt <= g
  /\ d \in {"asleep", "suspended", "resumed"} => c = Out

\* The scheduler commits the time of a sleeper, who goes on sleeping meanwhile.
SchedulerCommitsSleepers ==
  LET c == commit[CoreScheduler] IN
  c # Out => c.whose \in TimedThreads /\ doing[c.whose] = "asleep"

TimersFit == \A t \in TimedThreads : Fits(t, cpu[t], timers[t], doing[t], commit[t], globalTime)

TaInv == TaTypeOK /\ TimersFit /\ SchedulerCommitsSleepers

LEMMA Products ==
  ASSUME NEW a \in Nat, NEW b \in Nat, NEW s \in Nat
  PROVE  /\ a * s \in Nat /\ b * s \in Nat /\ (a + 1) * s = a * s + s
         /\ (a - b) * s = a * s - b * s
         /\ b <= a => b * s <= a * s
<1>1. a * s \in Nat /\ b * s \in Nat /\ (a + 1) * s = a * s + s
  OBVIOUS
<1>2. (a - b) * s = a * s - b * s
  OBVIOUS
<1>3. ASSUME b <= a PROVE b * s <= a * s
  <2>1. a - b \in Nat
    BY <1>3
  <2>2. \A d \in Nat : d * s \in Nat
    OBVIOUS
  <2>3. (a - b) * s \in Nat
    BY <2>1, <2>2
  <2> QED BY <1>1, <1>2, <2>3
<1> QED BY <1>1, <1>2, <1>3

LEMMA ScalingIsNat == \A t \in TimedThreads : Scaling[t] \in Nat
  BY TimeAssumption

\* What a charge does to a timer.
LEMMA Charged ==
  ASSUME TaTypeOK, NEW t \in TimedThreads, NEW r, TimerOK(r), r.lastCpu = timers[t].lastCpu,
         timers[t].lastCpu <= cpu[t]
  PROVE  LET q == updateThreadLocalTimeSinceLastResumeTo(t, r)
             d == cpu[t] * Scaling[t] - r.lastCpu * Scaling[t]
         IN  /\ TimerOK(q) /\ d \in Nat
             /\ q.vt = r.vt + d /\ q.ert = r.ert + d /\ q.local = r.local + d
             /\ q.lastCpu = r.lastCpu /\ q.resumedAt = r.resumedAt
<1> DEFINE d == cpu[t] * Scaling[t] - r.lastCpu * Scaling[t]
           q == updateThreadLocalTimeSinceLastResumeTo(t, r)
<1>1. /\ cpu[t] \in Nat /\ r.lastCpu \in Nat /\ Scaling[t] \in Nat
      /\ r.vt \in Nat /\ r.ert \in Nat /\ r.local \in Nat /\ r.resumedAt \in Nat
      /\ DOMAIN r = TimerFields
  BY ScalingIsNat DEF TaTypeOK, TimerOK
<1>2. /\ CpuSince(t) = cpu[t] - r.lastCpu /\ CpuSince(t) \in Nat
  BY <1>1 DEF CpuSince
<1>3. CpuSince(t) * Scaling[t] = d /\ d \in Nat
  <2>1. r.lastCpu <= cpu[t]
    OBVIOUS
  <2>2. /\ cpu[t] * Scaling[t] \in Nat /\ r.lastCpu * Scaling[t] \in Nat
        /\ (cpu[t] - r.lastCpu) * Scaling[t] = cpu[t] * Scaling[t] - r.lastCpu * Scaling[t]
        /\ r.lastCpu * Scaling[t] <= cpu[t] * Scaling[t]
    BY <1>1, <2>1, Products
  <2> QED BY <1>2, <2>2
<1> HIDE DEF d
<1>4. CASE CpuSince(t) > 0
  <2>1. q = addLocalTime(r, d)
    BY <1>3, <1>4 DEF updateThreadLocalTimeSinceLastResumeTo
  <2>2. addLocalTime(r, d) = [r EXCEPT !.vt = @ + d, !.ert = @ + d, !.local = @ + d]
    BY <1>1 DEF addLocalTime, addElapsedTime, TimerFields
  <2> HIDE DEF q
  <2>3. /\ DOMAIN q = TimerFields
        /\ q.vt = r.vt + d /\ q.ert = r.ert + d /\ q.local = r.local + d
        /\ q.lastCpu = r.lastCpu /\ q.resumedAt = r.resumedAt
    BY <1>1, <2>1, <2>2 DEF TimerFields
  <2>4. TimerOK(q)
    BY <1>1, <1>3, <2>3 DEF TimerOK
  <2> QED BY <1>3, <2>3, <2>4 DEF q, d
<1>5. CASE ~(CpuSince(t) > 0)
  <2>1. q = r
    BY <1>5 DEF updateThreadLocalTimeSinceLastResumeTo
  <2>2. CpuSince(t) = 0
    BY <1>2, <1>5
  <2>3. d = 0
    BY <1>1, <1>3, <2>2
  <2>4. r.vt = r.vt + d /\ r.ert = r.ert + d /\ r.local = r.local + d
    BY <2>3, <1>1
  <2> QED BY <1>3, <2>1, <2>4 DEF d
<1> QED BY <1>4, <1>5

\* What the return to application code does to it.
LEMMA ExitsVex ==
  ASSUME TaTypeOK, NEW t \in TimedThreads, NEW r, TimerOK(r)
  PROVE  LET q == ExitVex(t, r) IN
         /\ TimerOK(q) /\ q.vt = r.vt /\ q.ert = r.ert /\ q.local = r.local
         /\ q.resumedAt = r.resumedAt /\ q.lastCpu = cpu[t]
<1> DEFINE w == IF r.since >= 0 THEN updateWaitingTimeFrom(r, r.since) ELSE r
           q == ExitVex(t, r)
<1>1. DOMAIN r = TimerFields
  BY DEF TimerOK
<1>2. /\ DOMAIN w = TimerFields /\ w.vt = r.vt /\ w.ert = r.ert /\ w.local = r.local
      /\ w.resumedAt = r.resumedAt
  <2>1. CASE w = r
    BY <1>1, <2>1
  <2>2. CASE w = updateWaitingTimeFrom(r, r.since)
    BY <1>1, <2>2 DEF updateWaitingTimeFrom, TimerFields
  <2> QED BY <2>1, <2>2
<1>3. q = updateCpuTimeClock(t, [w EXCEPT !.since = -1])
  BY DEF ExitVex
<1> HIDE DEF w
<1>4. q = [w EXCEPT !.since = -1, !.lastCpu = cpu[t]]
  BY <1>2, <1>3 DEF updateCpuTimeClock, TimerFields
<1> HIDE DEF q
<1>5. /\ DOMAIN q = TimerFields /\ q.vt = r.vt /\ q.ert = r.ert /\ q.local = r.local
      /\ q.resumedAt = r.resumedAt /\ q.lastCpu = cpu[t]
  BY <1>2, <1>4 DEF TimerFields
<1>6. TimerOK(q)
  <2>1. cpu[t] \in Nat
    BY DEF TaTypeOK
  <2> QED BY <2>1, <1>5 DEF TimerOK
<1> QED BY <1>5, <1>6 DEF q

\* The clock update and the leap.
LEMMA ClockAndLeap ==
  ASSUME TaTypeOK, NEW t \in TimedThreads, NEW r, TimerOK(r)
  PROVE  /\ LET q == updateCpuTimeClock(t, r) IN
            /\ TimerOK(q) /\ q.vt = r.vt /\ q.ert = r.ert /\ q.local = r.local
            /\ q.resumedAt = r.resumedAt /\ q.lastCpu = cpu[t]
         /\ LET q == leapTimerTo(r, globalTime) IN
            /\ TimerOK(q) /\ q.vt = r.vt /\ q.local = r.local /\ q.resumedAt = r.resumedAt
            /\ q.lastCpu = r.lastCpu /\ q.ert >= r.ert /\ q.ert >= globalTime
<1>1. cpu[t] \in Nat /\ globalTime \in Nat
  BY DEF TaTypeOK
<1>2. LET q == updateCpuTimeClock(t, r) IN
      /\ TimerOK(q) /\ q.vt = r.vt /\ q.ert = r.ert /\ q.local = r.local
      /\ q.resumedAt = r.resumedAt /\ q.lastCpu = cpu[t]
  BY <1>1 DEF updateCpuTimeClock, TimerOK, TimerFields
<1>3. LET q == leapTimerTo(r, globalTime) IN
      /\ TimerOK(q) /\ q.vt = r.vt /\ q.local = r.local /\ q.resumedAt = r.resumedAt
      /\ q.lastCpu = r.lastCpu /\ q.ert >= r.ert /\ q.ert >= globalTime
  <2>1. CASE r.ert < globalTime
    BY <1>1, <2>1 DEF leapTimerTo, TimerOK, TimerFields
  <2>2. CASE ~(r.ert < globalTime)
    BY <1>1, <2>2 DEF leapTimerTo, TimerOK, TimerFields
  <2> QED BY <2>1, <2>2
<1> QED BY <1>2, <1>3

-----------------------------------------------------------------------------
(* A step of one thread: its timer, what it does and its commit may change, *)
(* and nothing else that the invariant is about.                            *)
LEMMA OneThreadMoves ==
  ASSUME TaInv, NEW t \in TimedThreads, NEW r, NEW d \in Activities, NEW c,
         TimerOK(r), CommitOK(c), doing[t] # "asleep" \/ commit[CoreScheduler] = Out,
         Fits(t, cpu[t], r, d, c, globalTime),
         timers' = [timers EXCEPT ![t] = r], doing' = [doing EXCEPT ![t] = d],
         commit' = [commit EXCEPT ![t] = c],
         UNCHANGED <<globalTime, unknown, cpu, used>>
  PROVE  TaInv'
<1>1. /\ globalTime \in Nat /\ unknown \in Nat
      /\ timers = [u \in TimedThreads |-> timers[u]]
      /\ \A u \in TimedThreads : TimerOK(timers[u])
      /\ cpu \in [TimedThreads -> Nat] /\ doing \in [TimedThreads -> Activities]
      /\ commit = [a \in Actors |-> commit[a]] /\ \A a \in Actors : CommitOK(commit[a])
      /\ used = [u \in TimedThreads |-> cpu[u] * Scaling[u]]
  BY DEF TaInv, TaTypeOK
<1>2. /\ timers' = [u \in TimedThreads |-> timers'[u]]
      /\ commit' = [a \in Actors |-> commit'[a]]
      /\ timers'[t] = r /\ doing'[t] = d /\ commit'[t] = c
      /\ \A u \in TimedThreads \ {t} : timers'[u] = timers[u] /\ doing'[u] = doing[u]
      /\ \A a \in Actors \ {t} : commit'[a] = commit[a]
      /\ t \in Actors /\ TimedThreads \subseteq Actors
  BY <1>1 DEF Actors
<1>3. TaTypeOK'
  <2>1. doing' \in [TimedThreads -> Activities]
    BY <1>1
  <2>2. \A u \in TimedThreads : TimerOK(timers'[u])
    BY <1>1, <1>2
  <2>3. \A a \in Actors : CommitOK(commit'[a])
    BY <1>1, <1>2
  <2> QED BY <1>1, <1>2, <2>1, <2>2, <2>3 DEF TaTypeOK, TimerOK, CommitOK
<1>4. TimersFit'
  <2> SUFFICES ASSUME NEW u \in TimedThreads
               PROVE  Fits(u, cpu[u], timers'[u], doing'[u], commit'[u], globalTime)
    BY DEF TimersFit, Fits
  <2>1. CASE u = t
    BY <2>1, <1>2
  <2>2. CASE u # t
    <3>1. Fits(u, cpu[u], timers[u], doing[u], commit[u], globalTime)
      BY DEF TaInv, TimersFit
    <3> QED BY <2>2, <3>1, <1>2
  <2> QED BY <2>1, <2>2
<1>5. SchedulerCommitsSleepers'
  <2>1. CoreScheduler \in Actors \ {t}
    BY TimeAssumption DEF Actors
  <2>2. commit'[CoreScheduler] = commit[CoreScheduler]
    BY <2>1, <1>2
  <2>3. commit[CoreScheduler] # Out =>
          /\ commit[CoreScheduler].whose \in TimedThreads
          /\ doing[commit[CoreScheduler].whose] = "asleep"
    BY DEF TaInv, SchedulerCommitsSleepers
  <2>4. commit[CoreScheduler] # Out => commit[CoreScheduler].whose # t
    BY <2>3
  <2> QED BY <2>2, <2>3, <2>4, <1>2 DEF SchedulerCommitsSleepers, Out
<1> QED BY <1>3, <1>4, <1>5 DEF TaInv

-----------------------------------------------------------------------------
(* The steps of the threads.                                               *)
LEMMA ThreadFacts ==
  ASSUME TaInv, NEW t \in TimedThreads
  PROVE  /\ TaTypeOK /\ TimerOK(timers[t]) /\ cpu[t] \in Nat /\ Scaling[t] \in Nat
         /\ globalTime \in Nat
         /\ doing[t] \in Activities
         /\ doing = [doing EXCEPT ![t] = doing[t]]
         /\ commit = [commit EXCEPT ![t] = commit[t]] /\ CommitOK(commit[t])
         /\ timers = [timers EXCEPT ![t] = timers[t]]
         /\ Fits(t, cpu[t], timers[t], doing[t], commit[t], globalTime)
         /\ cpu[t] * Scaling[t] \in Nat /\ timers[t].lastCpu * Scaling[t] \in Nat
         /\ timers[t].lastCpu <= cpu[t]
         /\ timers[t].lastCpu * Scaling[t] <= cpu[t] * Scaling[t]
<1>1. /\ TaTypeOK /\ TimerOK(timers[t]) /\ cpu[t] \in Nat /\ globalTime \in Nat
      /\ doing[t] \in Activities
      /\ CommitOK(commit[t])
  BY DEF TaInv, TaTypeOK, Actors
<1>2. /\ timers = [u \in TimedThreads |-> timers[u]] /\ commit = [a \in Actors |-> commit[a]]
      /\ doing \in [TimedThreads -> Activities]
  BY <1>1 DEF TaTypeOK
<1>3. Fits(t, cpu[t], timers[t], doing[t], commit[t], globalTime)
  BY DEF TaInv, TimersFit
<1>4. Scaling[t] \in Nat /\ timers[t].lastCpu \in Nat /\ timers[t].lastCpu <= cpu[t]
  BY <1>1, <1>3, ScalingIsNat DEF TimerOK, Fits
<1>5. /\ cpu[t] * Scaling[t] \in Nat /\ timers[t].lastCpu * Scaling[t] \in Nat
      /\ timers[t].lastCpu * Scaling[t] <= cpu[t] * Scaling[t]
  BY <1>1, <1>4, Products
<1>6. /\ doing = [doing EXCEPT ![t] = doing[t]]
      /\ commit = [commit EXCEPT ![t] = commit[t]]
      /\ timers = [timers EXCEPT ![t] = timers[t]]
  BY <1>2 DEF Actors
<1> QED BY <1>1, <1>3, <1>4, <1>5, <1>6

\* A thread in application code charges itself, possibly a second time (r is its
\* timer with the first charge), and commits.
LEMMA setCurrentThreadVT_Step ==
  ASSUME TaInv, NEW t \in TimedThreads, NEW r, NEW then, TimerOK(r),
         doing[t] \in {"running", "native"}, commit[t] = Out,
         r.lastCpu = timers[t].lastCpu, r.ert >= r.resumedAt + r.local,
         timers[t].vt <= r.vt,
         r.vt <= timers[t].vt + (cpu[t] * Scaling[t] - timers[t].lastCpu * Scaling[t]),
         setCurrentThreadVT(t, r, then), UNCHANGED doing, Unmoved
  PROVE  TaInv'
<1> DEFINE k == cpu[t] * Scaling[t]
           l == timers[t].lastCpu * Scaling[t]
           q == updateThreadLocalTimeSinceLastResumeTo(t, r)
<1>1. /\ TaTypeOK /\ cpu[t] \in Nat /\ TimerOK(timers[t]) /\ doing[t] \in Activities
      /\ doing' = [doing EXCEPT ![t] = doing[t]]
      /\ k \in Nat /\ l \in Nat /\ timers[t].lastCpu <= cpu[t] /\ l <= k
      /\ Fits(t, cpu[t], timers[t], doing[t], commit[t], globalTime)
  BY ThreadFacts
<1>2. l <= timers[t].vt /\ timers[t].vt <= 2 * l
  BY <1>1 DEF Fits
<1>3. UNCHANGED <<globalTime, unknown, cpu, used>>
  BY DEF Unmoved, clock
<1>4. /\ TimerOK(q) /\ k - l \in Nat
      /\ q.vt = r.vt + (k - l) /\ q.ert = r.ert + (k - l) /\ q.local = r.local + (k - l)
      /\ q.lastCpu = r.lastCpu /\ q.resumedAt = r.resumedAt
  BY <1>1, Charged
<1>5. /\ timers[t].vt \in Nat /\ timers[t].lastCpu \in Nat /\ r.vt \in Nat /\ r.ert \in Nat
      /\ r.local \in Nat /\ r.resumedAt \in Nat
  BY <1>1 DEF TimerOK
<1> HIDE DEF q
<1>6. r.vt <= timers[t].vt + (k - l)
  OBVIOUS
<1>7. \A c : c # Out /\ CpuSince(t) > 0 =>
        Fits(t, cpu[t], q, doing[t], c, globalTime)
  <2> SUFFICES ASSUME NEW c, c # Out PROVE Fits(t, cpu[t], q, doing[t], c, globalTime)
    OBVIOUS
  <2>1. k <= q.vt /\ q.vt <= 2 * k
    <3> HIDE DEF k, l
    <3> QED BY <1>1, <1>2, <1>4, <1>5, <1>6
  <2>2. q.ert >= q.resumedAt + q.local
    <3> HIDE DEF k, l
    <3> QED BY <1>4, <1>5
  <2>3. q.lastCpu <= cpu[t]
    BY <1>1, <1>4
  <2> QED BY <2>1, <2>2, <2>3 DEF Fits
<1>8. CASE CpuSince(t) > 0 /\ timers' = [timers EXCEPT ![t] = q]
           /\ Begin(t, t, IF doing[t] = "native" THEN "native" ELSE "cpu", then)
  <2> DEFINE c == [at |-> "commit", whose |-> t,
                   category |-> IF doing[t] = "native" THEN "native" ELSE "cpu",
                   before |-> globalTime, after |-> globalTime, sum |-> 0, row |-> 0,
                   then |-> then]
  <2>1. commit' = [commit EXCEPT ![t] = c]
    BY <1>8 DEF Begin
  <2>2. CommitOK(c) /\ c # Out
    BY DEF CommitOK, Categories, Out
  <2> HIDE DEF c
  <2>3. Fits(t, cpu[t], q, doing[t], c, globalTime)
    BY <1>7, <1>8, <2>2
  <2>4. timers' = [timers EXCEPT ![t] = q]
    BY <1>8
  <2>5. doing[t] # "asleep"
    OBVIOUS
  <2> QED BY <1>1, <1>3, <1>4, <2>1, <2>2, <2>3, <2>4, <2>5, OneThreadMoves
<1>9. CASE CpuSince(t) <= 0 /\ timers' = [timers EXCEPT ![t] = r]
           /\ commit' = [commit EXCEPT ![t] = [at |-> "then", then |-> then, whose |-> t]]
  <2> DEFINE c == [at |-> "then", then |-> then, whose |-> t]
  <2>1. commit' = [commit EXCEPT ![t] = c]
    BY <1>9
  <2>2. CommitOK(c) /\ c # Out
    BY DEF CommitOK, Out
  <2> HIDE DEF c
  <2>3. cpu[t] = timers[t].lastCpu
    BY <1>1, <1>5, <1>9 DEF CpuSince
  <2>4. k = l /\ r.vt = timers[t].vt
    <3>1. k = l
      BY <2>3
    <3> HIDE DEF k, l
    <3> QED BY <3>1, <1>1, <1>5, <1>6
  <2>5. Fits(t, cpu[t], r, doing[t], c, globalTime)
    BY <1>1, <1>2, <2>2, <2>3, <2>4 DEF Fits
  <2>6. timers' = [timers EXCEPT ![t] = r] /\ doing[t] # "asleep"
    BY <1>9
  <2> QED BY <1>1, <1>3, <2>1, <2>2, <2>5, <2>6, OneThreadMoves
<1> QED BY <1>8, <1>9 DEF setCurrentThreadVT, q

\* Interaction points, the signal and a thread that turned native commit the one charge.
LEMMA ChargeOnce ==
  ASSUME TaInv, NEW t \in TimedThreads,
         doing[t] \in {"running", "native"}, commit[t] = Out,
         \E then : setCurrentThreadVT(t, timers[t], then), UNCHANGED doing, Unmoved
  PROVE  TaInv'
<1>0. PICK then : setCurrentThreadVT(t, timers[t], then)
  OBVIOUS
<1>1. /\ TimerOK(timers[t]) /\ Fits(t, cpu[t], timers[t], doing[t], commit[t], globalTime)
      /\ cpu[t] * Scaling[t] \in Nat /\ timers[t].lastCpu * Scaling[t] \in Nat
      /\ timers[t].lastCpu * Scaling[t] <= cpu[t] * Scaling[t]
  BY ThreadFacts
<1>2. timers[t].ert >= timers[t].resumedAt + timers[t].local
  BY <1>1 DEF Fits
<1>3. timers[t].vt <= timers[t].vt /\ timers[t].vt <=
        timers[t].vt + (cpu[t] * Scaling[t] - timers[t].lastCpu * Scaling[t])
  <2>1. timers[t].vt \in Nat
    BY <1>1 DEF TimerOK
  <2> QED BY <2>1, <1>1
<1> QED BY <1>0, <1>1, <1>2, <1>3, setCurrentThreadVT_Step

\* The others have charged themselves before.
LEMMA ChargeTwice ==
  ASSUME TaInv, NEW t \in TimedThreads, InApplication(t, "running"),
         \E then : setCurrentThreadVT(
                     t, updateThreadLocalTimeSinceLastResumeTo(t, timers[t]), then),
         UNCHANGED doing, Unmoved
  PROVE  TaInv'
<1> DEFINE r == updateThreadLocalTimeSinceLastResumeTo(t, timers[t])
           e == cpu[t] * Scaling[t] - timers[t].lastCpu * Scaling[t]
<1>0. doing[t] = "running" /\ commit[t] = Out
  BY DEF InApplication
<1>1. /\ TaTypeOK /\ TimerOK(timers[t]) /\ timers[t].lastCpu <= cpu[t]
      /\ Fits(t, cpu[t], timers[t], doing[t], commit[t], globalTime)
  BY ThreadFacts
<1>2. /\ TimerOK(r) /\ e \in Nat
      /\ r.vt = timers[t].vt + e /\ r.ert = timers[t].ert + e /\ r.local = timers[t].local + e
      /\ r.lastCpu = timers[t].lastCpu /\ r.resumedAt = timers[t].resumedAt
  BY <1>1, Charged
<1>3. timers[t].ert >= timers[t].resumedAt + timers[t].local
  BY <1>0, <1>1 DEF Fits
<1>4. /\ timers[t].vt \in Nat /\ timers[t].ert \in Nat /\ timers[t].local \in Nat
      /\ timers[t].resumedAt \in Nat
  BY <1>1 DEF TimerOK
<1>5. PICK then : setCurrentThreadVT(t, r, then)
  OBVIOUS
<1> HIDE DEF r
<1>6. r.ert >= r.resumedAt + r.local /\ timers[t].vt <= r.vt /\ r.vt <= timers[t].vt + e
  <2> HIDE DEF e
  <2> QED BY <1>2, <1>3, <1>4
<1> QED BY <1>0, <1>2, <1>5, <1>6, setCurrentThreadVT_Step

LEMMA onVexMethodEntry_Step ==
  ASSUME TaInv, NEW t \in TimedThreads, onVexMethodEntry(t)
  PROVE  TaInv'
<1> DEFINE r == updateThreadLocalTimeSinceLastResumeTo(t, timers[t])
           q == updateCpuTimeClock(t, r)
           e == cpu[t] * Scaling[t] - timers[t].lastCpu * Scaling[t]
<1>0. /\ doing[t] = "running" /\ commit[t] = Out
      /\ timers' = [timers EXCEPT ![t] = q]
      /\ UNCHANGED <<doing, commit, globalTime, unknown, cpu, used>>
  BY DEF onVexMethodEntry, InApplication, Unmoved, clock
<1>1. /\ TaTypeOK /\ TimerOK(timers[t]) /\ timers[t].lastCpu <= cpu[t] /\ cpu[t] \in Nat
      /\ Fits(t, cpu[t], timers[t], doing[t], commit[t], globalTime)
      /\ doing' = [doing EXCEPT ![t] = doing[t]] /\ commit' = [commit EXCEPT ![t] = commit[t]]
      /\ doing[t] \in Activities /\ CommitOK(commit[t])
      /\ cpu[t] * Scaling[t] \in Nat /\ timers[t].lastCpu * Scaling[t] \in Nat
      /\ timers[t].lastCpu * Scaling[t] <= cpu[t] * Scaling[t]
  BY <1>0, ThreadFacts
<1>2. /\ TimerOK(r) /\ e \in Nat
      /\ r.vt = timers[t].vt + e /\ r.ert = timers[t].ert + e /\ r.local = timers[t].local + e
      /\ r.lastCpu = timers[t].lastCpu /\ r.resumedAt = timers[t].resumedAt
  BY <1>1, Charged
<1> HIDE DEF r
<1>3. /\ TimerOK(q) /\ q.vt = r.vt /\ q.ert = r.ert /\ q.local = r.local
      /\ q.resumedAt = r.resumedAt /\ q.lastCpu = cpu[t]
  BY <1>1, <1>2, ClockAndLeap
<1> HIDE DEF q
<1>4. /\ timers[t].lastCpu * Scaling[t] <= timers[t].vt
      /\ timers[t].vt <= 2 * (timers[t].lastCpu * Scaling[t])
      /\ timers[t].ert >= timers[t].resumedAt + timers[t].local
  BY <1>0, <1>1 DEF Fits
<1>5. /\ timers[t].vt \in Nat /\ timers[t].ert \in Nat /\ timers[t].local \in Nat
      /\ timers[t].resumedAt \in Nat
  BY <1>1 DEF TimerOK
<1>6. /\ cpu[t] * Scaling[t] <= q.vt /\ q.vt <= 2 * (cpu[t] * Scaling[t])
      /\ q.ert >= q.resumedAt + q.local
  <2> DEFINE k == cpu[t] * Scaling[t]
             l == timers[t].lastCpu * Scaling[t]
  <2>1. k \in Nat /\ l \in Nat /\ l <= k /\ e = k - l
        /\ l <= timers[t].vt /\ timers[t].vt <= 2 * l
    BY <1>1, <1>4
  <2> HIDE DEF k, l, e
  <2>2. k <= q.vt /\ q.vt <= 2 * k
    BY <2>1, <1>2, <1>3, <1>5
  <2>3. q.ert >= q.resumedAt + q.local
    BY <1>2, <1>3, <1>4, <1>5
  <2> QED BY <2>2, <2>3 DEF k
<1>7. Fits(t, cpu[t], q, doing[t], commit[t], globalTime)
  BY <1>0, <1>1, <1>3, <1>6 DEF Fits
<1>8. doing[t] # "asleep" /\ UNCHANGED <<globalTime, unknown, cpu, used>>
  BY <1>0
<1>9. timers' = [timers EXCEPT ![t] = q]
  BY <1>0
<1> QED BY <1>1, <1>3, <1>7, <1>8, <1>9, OneThreadMoves

\* The wait is over: the clocks of the thread restart at the global time.
LEMMA onWrappedWaitingEnd_Step ==
  ASSUME TaInv, NEW t \in TimedThreads, onWrappedWaitingEnd(t)
  PROVE  TaInv'
<1> DEFINE w == leapTimerTo(timers[t], globalTime)
           q == [w EXCEPT !.resumedAt = globalTime, !.local = 0, !.since = timers[t].ert]
           c == [at |-> "then", then |-> "go on", whose |-> t]
<1>0. /\ doing[t] = "waiting" /\ commit[t] = Out
      /\ timers' = [timers EXCEPT ![t] = q] /\ commit' = [commit EXCEPT ![t] = c]
      /\ UNCHANGED <<doing, globalTime, unknown, cpu, used>>
  BY DEF onWrappedWaitingEnd, InApplication, Unmoved, clock
<1>1. /\ TaTypeOK /\ TimerOK(timers[t]) /\ timers[t].lastCpu <= cpu[t] /\ globalTime \in Nat
      /\ Fits(t, cpu[t], timers[t], doing[t], commit[t], globalTime)
      /\ doing' = [doing EXCEPT ![t] = doing[t]] /\ doing[t] \in Activities
  BY <1>0, ThreadFacts
<1>2. /\ TimerOK(w) /\ w.vt = timers[t].vt /\ w.lastCpu = timers[t].lastCpu
      /\ w.ert >= globalTime
  BY <1>1, ClockAndLeap
<1> HIDE DEF w
<1>3. /\ TimerOK(q) /\ q.vt = timers[t].vt /\ q.lastCpu = timers[t].lastCpu
      /\ q.ert = w.ert /\ q.resumedAt = globalTime /\ q.local = 0
  BY <1>1, <1>2 DEF TimerOK, TimerFields
<1>4. CommitOK(c) /\ c # Out
  BY DEF CommitOK, Out
<1> HIDE DEF q, c
<1>5. q.ert >= q.resumedAt + q.local
  BY <1>1, <1>2, <1>3 DEF TimerOK
<1>6. Fits(t, cpu[t], q, doing[t], c, globalTime)
  BY <1>0, <1>1, <1>3, <1>4, <1>5 DEF Fits
<1>7. /\ timers' = [timers EXCEPT ![t] = q] /\ commit' = [commit EXCEPT ![t] = c]
      /\ doing[t] # "asleep" /\ UNCHANGED <<globalTime, unknown, cpu, used>>
  BY <1>0
<1> QED BY <1>1, <1>3, <1>4, <1>6, <1>7, OneThreadMoves

\* The sleeper is charged before it sleeps; its timeout is not executed.
LEMMA onReplacedTimedWaiting_Step ==
  ASSUME TaInv, NEW t \in TimedThreads, onReplacedTimedWaiting(t)
  PROVE  TaInv'
<1> DEFINE r == updateThreadLocalTimeSinceLastResumeTo(t, timers[t])
           q == updateTimesBeforeWaitingWithTimeout(t, r)
           e == cpu[t] * Scaling[t] - timers[t].lastCpu * Scaling[t]
<1>0. /\ doing[t] = "running" /\ commit[t] = Out
      /\ timers' = [timers EXCEPT ![t] = q] /\ doing' = [doing EXCEPT ![t] = "asleep"]
      /\ UNCHANGED <<commit, globalTime, unknown, cpu, used>>
  BY DEF onReplacedTimedWaiting, InApplication, Unmoved, clock
<1>1. /\ TaTypeOK /\ TimerOK(timers[t]) /\ timers[t].lastCpu <= cpu[t] /\ Scaling[t] \in Nat
      /\ Fits(t, cpu[t], timers[t], doing[t], commit[t], globalTime)
      /\ commit' = [commit EXCEPT ![t] = commit[t]] /\ CommitOK(commit[t])
      /\ cpu[t] * Scaling[t] \in Nat /\ timers[t].lastCpu * Scaling[t] \in Nat
      /\ timers[t].lastCpu * Scaling[t] <= cpu[t] * Scaling[t]
  BY <1>0, ThreadFacts
<1>2. /\ TimerOK(r) /\ e \in Nat
      /\ r.vt = timers[t].vt + e /\ r.lastCpu = timers[t].lastCpu
  BY <1>1, Charged
<1> HIDE DEF r
<1>3. SleepTime * Scaling[t] \in Nat
  BY <1>1, TimeAssumption
<1>4. TimerOK(q) /\ q.vt = r.vt /\ q.lastCpu = r.lastCpu
  <2> DEFINE s == SleepTime * Scaling[t]
  <2>1. q = [r EXCEPT !.ert = @ + s] /\ s \in Nat
    BY <1>3 DEF updateTimesBeforeWaitingWithTimeout
  <2> HIDE DEF q, s
  <2> QED BY <2>1, <1>2 DEF TimerOK, TimerFields
<1> HIDE DEF q
<1>5. cpu[t] * Scaling[t] <= q.vt /\ q.vt <= 2 * (cpu[t] * Scaling[t])
  <2> DEFINE k == cpu[t] * Scaling[t]
             l == timers[t].lastCpu * Scaling[t]
  <2>1. k \in Nat /\ l \in Nat /\ l <= k /\ e = k - l /\ timers[t].vt \in Nat
        /\ l <= timers[t].vt /\ timers[t].vt <= 2 * l
    BY <1>0, <1>1 DEF Fits, TimerOK
  <2> HIDE DEF k, l, e
  <2>2. k <= q.vt /\ q.vt <= 2 * k
    BY <2>1, <1>2, <1>4
  <2> QED BY <2>2 DEF k
<1>6. Fits(t, cpu[t], q, "asleep", commit[t], globalTime)
  BY <1>0, <1>1, <1>2, <1>4, <1>5 DEF Fits
<1>7. /\ timers' = [timers EXCEPT ![t] = q] /\ doing[t] # "asleep" /\ "asleep" \in Activities
      /\ doing' = [doing EXCEPT ![t] = "asleep"] /\ UNCHANGED <<globalTime, unknown, cpu, used>>
  BY <1>0 DEF Activities
<1> QED BY <1>1, <1>4, <1>6, <1>7, OneThreadMoves

\* What a thread that is about to go on, to wait or to turn native has been charged.
LEMMA InVex ==
  ASSUME TaInv, NEW t \in TimedThreads, commit[t].at = "then" \/ doing[t] = "resumed"
  PROVE  /\ cpu[t] * Scaling[t] <= timers[t].vt /\ timers[t].vt <= 2 * (cpu[t] * Scaling[t])
         /\ timers[t].lastCpu <= cpu[t]
         /\ doing[t] # "resumed" =>
              /\ commit[t] # Out /\ doing[t] \in {"running", "native", "waiting"}
              /\ timers[t].ert >= timers[t].resumedAt + timers[t].local
         /\ doing[t] = "resumed" => timers[t].local = 0 /\ timers[t].resumedAt <= globalTime
<1>1. /\ Fits(t, cpu[t], timers[t], doing[t], commit[t], globalTime) /\ doing[t] \in Activities
  BY ThreadFacts
<1>2. CASE doing[t] = "resumed"
  BY <1>1, <1>2 DEF Fits
<1>3. CASE doing[t] # "resumed"
  <2>1. commit[t] # Out
    BY <1>3 DEF Out
  <2> QED BY <1>1, <1>3, <2>1 DEF Fits, Activities
<1> QED BY <1>2, <1>3

\* A thread takes the core: r is its timer, after a leap or as it was.
LEMMA TakesTheCore ==
  ASSUME TaInv, NEW t \in TimedThreads, NEW r,
         cpu[t] * Scaling[t] <= timers[t].vt, timers[t].vt <= 2 * (cpu[t] * Scaling[t]),
         TimerOK(r), r.vt = timers[t].vt, r.ert >= r.resumedAt + r.local,
         doing[t] # "asleep",
         timers' = [timers EXCEPT ![t] = ExitVex(t, r)],
         doing' = [doing EXCEPT ![t] = "running"], commit' = [commit EXCEPT ![t] = Out],
         UNCHANGED <<globalTime, unknown, cpu, used>>
  PROVE  TaInv'
<1> DEFINE q == ExitVex(t, r)
<1>1. TaTypeOK /\ cpu[t] \in Nat
  BY ThreadFacts
<1>2. /\ TimerOK(q) /\ q.vt = r.vt /\ q.ert = r.ert /\ q.local = r.local
      /\ q.resumedAt = r.resumedAt /\ q.lastCpu = cpu[t]
  BY <1>1, ExitsVex
<1>3. timers' = [timers EXCEPT ![t] = q]
  OBVIOUS
<1> HIDE DEF q
<1>4. Fits(t, cpu[t], q, "running", Out, globalTime)
  BY <1>1, <1>2 DEF Fits
<1>5. CommitOK(Out) /\ "running" \in Activities
  BY DEF CommitOK, Activities
<1> QED BY <1>2, <1>3, <1>4, <1>5, OneThreadMoves

LEMMA GoesOn_Step ==
  ASSUME TaInv, NEW t \in TimedThreads, GoesOn(t)
  PROVE  TaInv'
<1>0. /\ commit[t].at = "then" /\ commit' = [commit EXCEPT ![t] = Out]
      /\ UNCHANGED <<globalTime, unknown, cpu, used>>
  BY DEF GoesOn, Unmoved, clock
<1>1. /\ TaTypeOK /\ TimerOK(timers[t]) /\ globalTime \in Nat
      /\ timers = [timers EXCEPT ![t] = timers[t]]
      /\ Fits(t, cpu[t], timers[t], doing[t], commit[t], globalTime)
  BY ThreadFacts
<1>2. /\ cpu[t] * Scaling[t] <= timers[t].vt /\ timers[t].vt <= 2 * (cpu[t] * Scaling[t])
      /\ timers[t].lastCpu <= cpu[t]
      /\ doing[t] \in {"running", "native", "waiting"}
      /\ timers[t].ert >= timers[t].resumedAt + timers[t].local
  <2>1. doing[t] # "resumed"
    BY <1>0, <1>1 DEF Fits, Out
  <2> QED BY <1>0, <2>1, InVex
<1> DEFINE w == leapTimerTo(timers[t], globalTime)
<1>3. /\ TimerOK(w) /\ w.vt = timers[t].vt /\ w.local = timers[t].local
      /\ w.resumedAt = timers[t].resumedAt /\ w.ert >= timers[t].ert
  BY <1>1, ClockAndLeap
<1>4. CASE /\ doing' = [doing EXCEPT ![t] = "running"]
           /\ timers' = [timers EXCEPT
                ![t] = ExitVex(t, IF core = t THEN @ ELSE leapTimerTo(@, globalTime))]
  <2> DEFINE r == IF core = t THEN timers[t] ELSE w
  <2>1. timers' = [timers EXCEPT ![t] = ExitVex(t, r)]
    BY <1>4
  <2> HIDE DEF w
  <2>2. TimerOK(r) /\ r.vt = timers[t].vt /\ r.ert >= r.resumedAt + r.local
    BY <1>1, <1>2, <1>3 DEF TimerOK
  <2> HIDE DEF r
  <2> QED BY <1>0, <1>2, <1>4, <2>1, <2>2, TakesTheCore
<1>5. CASE doing' = [doing EXCEPT ![t] = "suspended"] /\ UNCHANGED timers
  <2>1. Fits(t, cpu[t], timers[t], "suspended", Out, globalTime)
    BY <1>2 DEF Fits
  <2>2. /\ timers' = [timers EXCEPT ![t] = timers[t]] /\ doing[t] # "asleep"
        /\ "suspended" \in Activities /\ CommitOK(Out)
    BY <1>1, <1>2, <1>5 DEF Activities, CommitOK
  <2> QED BY <1>0, <1>1, <1>5, <2>1, <2>2, OneThreadMoves
<1> QED BY <1>4, <1>5 DEF GoesOn

LEMMA Waits_Step ==
  ASSUME TaInv, NEW t \in TimedThreads, Waits(t)
  PROVE  TaInv'
<1> DEFINE q == updateCpuTimeClock(t, timers[t])
<1>0. /\ commit[t].at = "then" /\ commit' = [commit EXCEPT ![t] = Out]
      /\ doing' = [doing EXCEPT ![t] = "waiting"] /\ timers' = [timers EXCEPT ![t] = q]
      /\ UNCHANGED <<globalTime, unknown, cpu, used>>
  BY DEF Waits, Unmoved, clock
<1>1. /\ TaTypeOK /\ TimerOK(timers[t]) /\ cpu[t] \in Nat
      /\ Fits(t, cpu[t], timers[t], doing[t], commit[t], globalTime)
  BY ThreadFacts
<1>2. /\ cpu[t] * Scaling[t] <= timers[t].vt /\ timers[t].vt <= 2 * (cpu[t] * Scaling[t])
  BY <1>0, InVex
<1>3. TimerOK(q) /\ q.vt = timers[t].vt /\ q.lastCpu = cpu[t]
  BY <1>1, ClockAndLeap
<1> HIDE DEF q
<1>4. Fits(t, cpu[t], q, "waiting", Out, globalTime)
  BY <1>1, <1>2, <1>3 DEF Fits
<1>5. doing[t] # "asleep" /\ "waiting" \in Activities /\ CommitOK(Out)
  BY <1>0, <1>1 DEF Fits, Out, Activities, CommitOK
<1> QED BY <1>0, <1>3, <1>4, <1>5, OneThreadMoves

LEMMA TurnsNative_Step ==
  ASSUME TaInv, NEW t \in TimedThreads, TurnsNative(t)
  PROVE  TaInv'
<1> DEFINE r == [timers[t] EXCEPT !.resumedAt = timers[t].ert, !.local = 0]
           q == updateCpuTimeClock(t, r)
<1>0. /\ commit[t].at = "then" /\ commit' = [commit EXCEPT ![t] = Out]
      /\ doing' = [doing EXCEPT ![t] = "native"] /\ timers' = [timers EXCEPT ![t] = q]
      /\ UNCHANGED <<globalTime, unknown, cpu, used>>
  BY DEF TurnsNative, Unmoved, clock
<1>1. /\ TaTypeOK /\ TimerOK(timers[t]) /\ cpu[t] \in Nat
      /\ Fits(t, cpu[t], timers[t], doing[t], commit[t], globalTime)
  BY ThreadFacts
<1>2. /\ cpu[t] * Scaling[t] <= timers[t].vt /\ timers[t].vt <= 2 * (cpu[t] * Scaling[t])
  BY <1>0, InVex
<1>3. TimerOK(r) /\ r.vt = timers[t].vt /\ r.ert = r.resumedAt + r.local
  BY <1>1 DEF TimerOK, TimerFields
<1> HIDE DEF r
<1>4. /\ TimerOK(q) /\ q.vt = timers[t].vt /\ q.lastCpu = cpu[t]
      /\ q.ert = r.ert /\ q.resumedAt = r.resumedAt /\ q.local = r.local
  BY <1>1, <1>3, ClockAndLeap
<1> HIDE DEF q
<1>5. Fits(t, cpu[t], q, "native", Out, globalTime)
  <2>1. q.ert >= q.resumedAt + q.local
    BY <1>3, <1>4 DEF TimerOK
  <2> QED BY <1>1, <1>2, <1>4, <2>1 DEF Fits
<1>6. doing[t] # "asleep" /\ "native" \in Activities /\ CommitOK(Out)
  BY <1>0, <1>1 DEF Fits, Out, Activities, CommitOK
<1> QED BY <1>0, <1>4, <1>5, <1>6, OneThreadMoves

LEMMA setRunningThread_Step ==
  ASSUME TaInv, NEW t \in TimedThreads, setRunningThread(t)
  PROVE  TaInv'
<1> DEFINE w == leapTimerTo(timers[t], globalTime)
<1>0. doing[t] = "resumed" /\ UNCHANGED <<commit, globalTime, unknown, cpu, used>>
  BY DEF setRunningThread, Unmoved, clock
<1>1. /\ TaTypeOK /\ TimerOK(timers[t]) /\ globalTime \in Nat
      /\ timers = [timers EXCEPT ![t] = timers[t]]
      /\ commit = [commit EXCEPT ![t] = commit[t]] /\ commit[t] = Out
      /\ Fits(t, cpu[t], timers[t], doing[t], commit[t], globalTime)
  BY <1>0, ThreadFacts DEF Fits
<1>2. /\ cpu[t] * Scaling[t] <= timers[t].vt /\ timers[t].vt <= 2 * (cpu[t] * Scaling[t])
      /\ timers[t].lastCpu <= cpu[t]
      /\ timers[t].local = 0 /\ timers[t].resumedAt <= globalTime
  BY <1>0, InVex
<1>3. /\ TimerOK(w) /\ w.vt = timers[t].vt /\ w.local = timers[t].local
      /\ w.resumedAt = timers[t].resumedAt /\ w.ert >= globalTime
  BY <1>1, ClockAndLeap
<1>4. CASE /\ doing' = [doing EXCEPT ![t] = "running"]
           /\ timers' = [timers EXCEPT ![t] = ExitVex(t, leapTimerTo(@, globalTime))]
  <2>1. timers' = [timers EXCEPT ![t] = ExitVex(t, w)]
    BY <1>4
  <2> HIDE DEF w
  <2>2. w.ert >= w.resumedAt + w.local
    BY <1>1, <1>2, <1>3 DEF TimerOK
  <2>3. commit' = [commit EXCEPT ![t] = Out] /\ doing[t] # "asleep"
    BY <1>0, <1>1
  <2> QED BY <1>0, <1>2, <1>3, <1>4, <2>1, <2>2, <2>3, TakesTheCore
<1>5. CASE doing' = [doing EXCEPT ![t] = "suspended"] /\ UNCHANGED timers
  <2>1. Fits(t, cpu[t], timers[t], "suspended", Out, globalTime)
    BY <1>2 DEF Fits
  <2>2. /\ timers' = [timers EXCEPT ![t] = timers[t]] /\ doing[t] # "asleep"
        /\ commit' = [commit EXCEPT ![t] = Out]
        /\ "suspended" \in Activities /\ CommitOK(Out)
    BY <1>0, <1>1, <1>5 DEF Activities, CommitOK
  <2> QED BY <1>0, <1>1, <1>5, <2>1, <2>2, OneThreadMoves
<1> QED BY <1>4, <1>5 DEF setRunningThread

-----------------------------------------------------------------------------
(* The scheduler, the collector and the commits.                           *)
LEMMA resumeTimedThread_Step ==
  ASSUME TaInv, NEW t \in TimedThreads, resumeTimedThread(t)
  PROVE  TaInv'
<1> DEFINE q == updateTimesAfterResuming(timers[t], globalTime)
<1>0. /\ doing[t] = "suspended" /\ timers' = [timers EXCEPT ![t] = q]
      /\ doing' = [doing EXCEPT ![t] = "resumed"]
      /\ UNCHANGED <<commit, globalTime, unknown, cpu, used>>
  BY DEF resumeTimedThread, clock
<1>1. /\ TaTypeOK /\ TimerOK(timers[t]) /\ globalTime \in Nat
      /\ commit = [commit EXCEPT ![t] = commit[t]] /\ CommitOK(commit[t])
      /\ Fits(t, cpu[t], timers[t], doing[t], commit[t], globalTime)
  BY ThreadFacts
<1>2. /\ TimerOK(q) /\ q.vt = timers[t].vt /\ q.lastCpu = timers[t].lastCpu
      /\ q.resumedAt = globalTime /\ q.local = 0
  BY <1>1 DEF updateTimesAfterResuming, TimerOK, TimerFields
<1> HIDE DEF q
<1>3. Fits(t, cpu[t], q, "resumed", commit[t], globalTime)
  BY <1>0, <1>1, <1>2 DEF Fits
<1>4. /\ doing[t] # "asleep" /\ "resumed" \in Activities
      /\ commit' = [commit EXCEPT ![t] = commit[t]]
  BY <1>0, <1>1 DEF Activities
<1> QED BY <1>0, <1>1, <1>2, <1>3, <1>4, OneThreadMoves

\* A commit goes on: the global time may advance, of the timers only the time waited changes.
LEMMA CommitMoves ==
  ASSUME TaInv, NEW a \in Actors, NEW c, CommitOK(c), commit' = [commit EXCEPT ![a] = c],
         a \in TimedThreads => commit[a] # Out /\ c # Out,
         a = CoreScheduler /\ c # Out => c.whose \in TimedThreads /\ doing[c.whose] = "asleep",
         UNCHANGED <<doing, cpu, used>>,
         globalTime' \in Nat, globalTime <= globalTime', unknown' \in Nat,
         timers' = [t \in TimedThreads |-> timers'[t]],
         \A t \in TimedThreads :
           LET r == timers[t]  q == timers'[t] IN
           /\ DOMAIN q = DOMAIN r /\ q.vt = r.vt /\ q.ert = r.ert /\ q.lastCpu = r.lastCpu
           /\ q.local = r.local /\ q.resumedAt = r.resumedAt
  PROVE  TaInv'
<1>1. /\ globalTime \in Nat
      /\ \A t \in TimedThreads : TimerOK(timers[t])
      /\ commit = [b \in Actors |-> commit[b]] /\ \A b \in Actors : CommitOK(commit[b])
      /\ cpu \in [TimedThreads -> Nat] /\ doing \in [TimedThreads -> Activities]
      /\ used = [t \in TimedThreads |-> cpu[t] * Scaling[t]]
  BY DEF TaInv, TaTypeOK
<1>2. /\ commit' = [b \in Actors |-> commit'[b]] /\ commit'[a] = c
      /\ \A b \in Actors \ {a} : commit'[b] = commit[b]
  BY <1>1
<1>3. TaTypeOK'
  <2>1. \A t \in TimedThreads : TimerOK(timers'[t])
    BY <1>1 DEF TimerOK
  <2>2. \A b \in Actors : CommitOK(commit'[b])
    BY <1>1, <1>2
  <2> QED BY <1>1, <1>2, <2>1, <2>2 DEF TaTypeOK, TimerOK, CommitOK
<1>4. TimersFit'
  <2> SUFFICES ASSUME NEW t \in TimedThreads
               PROVE  Fits(t, cpu[t], timers'[t], doing[t], commit'[t], globalTime')
    BY DEF TimersFit, Fits
  <2>1. Fits(t, cpu[t], timers[t], doing[t], commit[t], globalTime)
    BY DEF TaInv, TimersFit
  <2>2. commit'[t] = Out <=> commit[t] = Out
    <3>1. t \in Actors
      BY DEF Actors
    <3> QED BY <3>1, <1>2
  <2>3. timers[t].resumedAt \in Nat
    BY <1>1 DEF TimerOK
  <2> QED BY <2>1, <2>2, <2>3, <1>1 DEF Fits
<1>5. SchedulerCommitsSleepers'
  <2>1. CoreScheduler \in Actors
    BY DEF Actors
  <2>2. SchedulerCommitsSleepers
    BY DEF TaInv
  <2>3. commit'[CoreScheduler] = IF a = CoreScheduler THEN c ELSE commit[CoreScheduler]
    BY <1>2, <2>1
  <2> QED BY <2>2, <2>3 DEF SchedulerCommitsSleepers, Out
<1> QED BY <1>3, <1>4, <1>5 DEF TaInv

\* A commit that has reached `at` is of a thread that is in Vex, or of the scheduler.
LEMMA Committing ==
  ASSUME TaInv, NEW a \in Actors, commit[a].at \in {"commit", "look", "log"}
  PROVE  /\ commit[a] # Out
         /\ DOMAIN commit[a] = {"at", "whose", "category", "before", "after", "sum", "row", "then"}
         /\ commit[a].category \in Categories
         /\ commit[a].category # "background" => commit[a].whose \in TimedThreads
         /\ a = CoreScheduler =>
              commit[a].whose \in TimedThreads /\ doing[commit[a].whose] = "asleep"
<1>1. CommitOK(commit[a])
  BY DEF TaInv, TaTypeOK
<1>2. commit[a] # Out
  BY DEF Out
<1>3. SchedulerCommitsSleepers
  BY DEF TaInv
<1> QED BY <1>1, <1>2, <1>3 DEF CommitOK, SchedulerCommitsSleepers

LEMMA SameTimers ==
  ASSUME TaInv, UNCHANGED timers
  PROVE  /\ timers' = [t \in TimedThreads |-> timers'[t]]
         /\ \A t \in TimedThreads :
              LET r == timers[t]  q == timers'[t] IN
              /\ DOMAIN q = DOMAIN r /\ q.vt = r.vt /\ q.ert = r.ert /\ q.lastCpu = r.lastCpu
              /\ q.local = r.local /\ q.resumedAt = r.resumedAt
<1>1. timers = [t \in TimedThreads |-> timers[t]]
  BY DEF TaInv, TaTypeOK
<1> QED BY <1>1

LEMMA Commit_Step ==
  ASSUME TaInv, NEW a \in Actors, Commit(a)
  PROVE  TaInv'
<1> DEFINE o == commit[a]
           c == [o EXCEPT !.at = "look"]
<1>0. /\ o.at = "commit" /\ commit' = [commit EXCEPT ![a].at = "look"]
      /\ UNCHANGED <<cpu, doing, used>>
  BY DEF Commit
<1>1. /\ globalTime \in Nat /\ unknown \in Nat
      /\ timers = [t \in TimedThreads |-> timers[t]]
      /\ \A t \in TimedThreads : TimerOK(timers[t])
  BY DEF TaInv, TaTypeOK
<1>2. /\ o # Out /\ DOMAIN o = {"at", "whose", "category", "before", "after", "sum", "row", "then"}
      /\ o.category \in Categories
      /\ o.category # "background" => o.whose \in TimedThreads
      /\ a = CoreScheduler => o.whose \in TimedThreads /\ doing[o.whose] = "asleep"
  BY <1>0, Committing
<1>3. commit' = [commit EXCEPT ![a] = c]
  BY <1>0
<1> HIDE DEF o
<1>4. /\ DOMAIN c = DOMAIN o /\ c.at = "look" /\ c.whose = o.whose /\ c.category = o.category
  BY <1>2
<1> HIDE DEF c
<1>5. CommitOK(c) /\ c # Out
  BY <1>2, <1>4 DEF CommitOK, Out
<1>6. /\ globalTime' \in Nat /\ globalTime <= globalTime' /\ unknown' \in Nat
      /\ timers' = [t \in TimedThreads |-> timers'[t]]
      /\ \A t \in TimedThreads :
           LET r == timers[t]  q == timers'[t] IN
           /\ DOMAIN q = DOMAIN r /\ q.vt = r.vt /\ q.ert = r.ert /\ q.lastCpu = r.lastCpu
           /\ q.local = r.local /\ q.resumedAt = r.resumedAt
  <2>1. ASSUME NEW time \in Nat, leapForwardTo(time)
        PROVE  globalTime' \in Nat /\ globalTime <= globalTime' /\ unknown' \in Nat
    BY <1>1, <2>1 DEF leapForwardTo
  <2>2. CASE o.category = "cpu" /\ commitCpuTimeProgress(o.whose)
    <3>1. /\ o.whose \in TimedThreads
          /\ leapForwardTo(timers[o.whose].resumedAt + timers[o.whose].local)
      BY <2>2, <1>2 DEF commitCpuTimeProgress
    <3>2. timers[o.whose].resumedAt + timers[o.whose].local \in Nat
      BY <3>1, <1>1 DEF TimerOK
    <3>3. UNCHANGED timers
      BY <2>2 DEF commitCpuTimeProgress
    <3> QED BY <3>1, <3>2, <3>3, <2>1, SameTimers
  <2>3. CASE o.category = "native" /\ commitNativeWaitingProgress(o.whose)
    <3>1. timers[o.whose].local \in Nat
      BY <2>3, <1>1, <1>2 DEF TimerOK
    <3>2. /\ globalTime' = globalTime + timers[o.whose].local
          /\ unknown' = unknown + timers[o.whose].local /\ UNCHANGED timers
      BY <2>3 DEF commitNativeWaitingProgress, addTimeOfThreadExecutingAtUnknownTime
    <3> QED BY <3>1, <3>2, <1>1, SameTimers
  <2>4. CASE o.category = "timed wait" /\ commitTimedWaitingProgress(o.whose)
    <3> DEFINE w == o.whose
               q == updateWaitingTimeFrom(timers[w], globalTime)
    <3>1. /\ w \in TimedThreads /\ timers' = [timers EXCEPT ![w] = q]
          /\ leapForwardTo(timers[w].ert)
      BY <2>4, <1>2 DEF commitTimedWaitingProgress
    <3>2. timers[w].ert \in Nat /\ DOMAIN timers[w] = TimerFields
      BY <3>1, <1>1 DEF TimerOK
    <3>3. /\ DOMAIN q = DOMAIN timers[w] /\ q.vt = timers[w].vt /\ q.ert = timers[w].ert
          /\ q.lastCpu = timers[w].lastCpu /\ q.local = timers[w].local
          /\ q.resumedAt = timers[w].resumedAt
      BY <3>2 DEF updateWaitingTimeFrom, TimerFields
    <3> HIDE DEF q, w
    <3>4. /\ timers' = [t \in TimedThreads |-> timers'[t]]
          /\ \A t \in TimedThreads : timers'[t] = IF t = w THEN q ELSE timers[t]
      BY <3>1, <1>1
    <3>5. globalTime' \in Nat /\ globalTime <= globalTime' /\ unknown' \in Nat
      BY <3>1, <3>2, <2>1
    <3> QED BY <3>3, <3>4, <3>5
  <2>5. CASE o.category = "background" /\ commitBackgroundLoadExecutionTime
    <3>1. /\ globalTime' = globalTime + GcTime /\ UNCHANGED <<unknown, timers>>
      BY <2>5 DEF commitBackgroundLoadExecutionTime,
                  addTimeOfUnknownRealTimeDurationAndSynchronize
    <3>2. GcTime \in Nat
      BY TimeAssumption
    <3> QED BY <3>1, <3>2, <1>1, SameTimers
  <2>6. \/ o.category = "cpu" /\ commitCpuTimeProgress(o.whose)
        \/ o.category = "native" /\ commitNativeWaitingProgress(o.whose)
        \/ o.category = "timed wait" /\ commitTimedWaitingProgress(o.whose)
        \/ o.category = "background" /\ commitBackgroundLoadExecutionTime
    BY <1>2 DEF Commit, Categories, o
  <2> QED BY <2>2, <2>3, <2>4, <2>5, <2>6
<1>7. a = CoreScheduler => c.whose \in TimedThreads /\ doing[c.whose] = "asleep"
  BY <1>2, <1>4
<1>8. commit[a] # Out
  BY <1>2 DEF o
<1> QED BY <1>0, <1>3, <1>5, <1>6, <1>7, <1>8, CommitMoves

LEMMA Look_Step ==
  ASSUME TaInv, NEW a \in Actors, Look(a)
  PROVE  TaInv'
<1> DEFINE o == commit[a]
           s == totals[commit[a].category]
           w == rows[commit[a].whose][commit[a].category]
           c == [o EXCEPT !.at = "log", !.after = globalTime, !.sum = s, !.row = w]
<1>0. /\ o.at = "look" /\ UNCHANGED <<cpu, doing, used, globalTime, unknown, timers>>
      /\ commit' = [commit EXCEPT ![a].at = "log", ![a].after = globalTime,
                                  ![a].sum = s, ![a].row = w]
  BY DEF Look, clock
<1>1. /\ o # Out /\ DOMAIN o = {"at", "whose", "category", "before", "after", "sum", "row", "then"}
      /\ o.category \in Categories
      /\ o.category # "background" => o.whose \in TimedThreads
      /\ a = CoreScheduler => o.whose \in TimedThreads /\ doing[o.whose] = "asleep"
  BY <1>0, Committing
<1>2. /\ globalTime \in Nat /\ unknown \in Nat /\ commit = [b \in Actors |-> commit[b]]
  BY DEF TaInv, TaTypeOK
<1> HIDE DEF s, w
<1>3. commit' = [commit EXCEPT ![a] = c]
  BY <1>0, <1>2
<1> HIDE DEF o
<1>4. /\ DOMAIN c = DOMAIN o /\ c.at = "log" /\ c.whose = o.whose /\ c.category = o.category
  BY <1>1
<1> HIDE DEF c
<1>5. CommitOK(c) /\ c # Out
  BY <1>1, <1>4 DEF CommitOK, Out
<1>6. a = CoreScheduler => c.whose \in TimedThreads /\ doing[c.whose] = "asleep"
  BY <1>1, <1>4
<1>7. commit[a] # Out /\ globalTime' \in Nat /\ globalTime <= globalTime' /\ unknown' \in Nat
  BY <1>0, <1>1, <1>2 DEF o
<1> QED BY <1>0, <1>3, <1>5, <1>6, <1>7, SameTimers, CommitMoves

LEMMA Log_Step ==
  ASSUME TaInv, NEW a \in Actors, Log(a)
  PROVE  TaInv'
<1> DEFINE o == commit[a]
           c == [at |-> "then", then |-> o.then, whose |-> o.whose]
<1>0. /\ o.at = "log" /\ UNCHANGED <<cpu, doing, used, globalTime, unknown, timers>>
      /\ commit' = [commit EXCEPT ![a] = c]
  BY DEF Log, clock
<1>1. /\ o # Out
      /\ a = CoreScheduler => o.whose \in TimedThreads /\ doing[o.whose] = "asleep"
  BY <1>0, Committing
<1>2. globalTime \in Nat /\ unknown \in Nat
  BY DEF TaInv, TaTypeOK
<1> HIDE DEF o
<1>3. CommitOK(c) /\ c # Out /\ c.whose = o.whose
  BY DEF CommitOK, Out
<1> HIDE DEF c
<1>4. a = CoreScheduler => c.whose \in TimedThreads /\ doing[c.whose] = "asleep"
  BY <1>1, <1>3
<1>5. commit[a] # Out /\ globalTime' \in Nat /\ globalTime <= globalTime' /\ unknown' \in Nat
  BY <1>0, <1>1, <1>2 DEF o
<1>6. commit' = [commit EXCEPT ![a] = c]
  BY <1>0
<1> QED BY <1>0, <1>3, <1>4, <1>5, <1>6, SameTimers, CommitMoves

LEMMA interruptTimedWaitingThread_Step ==
  ASSUME TaInv, NEW t \in TimedThreads, interruptTimedWaitingThread(t)
  PROVE  TaInv'
<1> DEFINE c == [at |-> "commit", whose |-> t, category |-> "timed wait",
                 before |-> globalTime, after |-> globalTime, sum |-> 0, row |-> 0,
                 then |-> "interrupt"]
<1>0. /\ doing[t] = "asleep" /\ commit' = [commit EXCEPT ![CoreScheduler] = c]
      /\ UNCHANGED <<doing, cpu, used, globalTime, unknown, timers>>
  BY DEF interruptTimedWaitingThread, Begin, Unmoved, clock
<1>1. globalTime \in Nat /\ unknown \in Nat
  BY DEF TaInv, TaTypeOK
<1>2. CommitOK(c) /\ c # Out /\ c.whose = t
  BY DEF CommitOK, Categories, Out
<1> HIDE DEF c
<1>3. CoreScheduler \in Actors /\ CoreScheduler \notin TimedThreads
  BY TimeAssumption DEF Actors
<1>4. globalTime' \in Nat /\ globalTime <= globalTime' /\ unknown' \in Nat
  BY <1>0, <1>1
<1> QED BY <1>0, <1>2, <1>3, <1>4, SameTimers, CommitMoves

LEMMA Collector_Step ==
  ASSUME TaInv, onWrappedBackgroundLoadExecutionEnd \/ CollectorDone
  PROVE  TaInv'
<1>1. globalTime \in Nat /\ unknown \in Nat
  BY DEF TaInv, TaTypeOK
<1>2. Collector \in Actors /\ Collector \notin TimedThreads /\ Collector # CoreScheduler
  BY TimeAssumption DEF Actors
<1>3. UNCHANGED <<doing, cpu, used, globalTime, unknown, timers>>
  BY DEF onWrappedBackgroundLoadExecutionEnd, CollectorDone, Unmoved, clock
<1>4. globalTime' \in Nat /\ globalTime <= globalTime' /\ unknown' \in Nat
  BY <1>1, <1>3
<1>5. CASE onWrappedBackgroundLoadExecutionEnd
  <2> DEFINE c == [at |-> "commit", whose |-> Collector, category |-> "background",
                   before |-> globalTime, after |-> globalTime, sum |-> 0, row |-> 0,
                   then |-> "done"]
  <2>1. commit' = [commit EXCEPT ![Collector] = c]
    BY <1>5 DEF onWrappedBackgroundLoadExecutionEnd, Begin
  <2>2. CommitOK(c)
    BY DEF CommitOK, Categories
  <2> HIDE DEF c
  <2> QED BY <1>2, <1>3, <1>4, <2>1, <2>2, SameTimers, CommitMoves
<1>6. CASE CollectorDone
  <2>1. commit' = [commit EXCEPT ![Collector] = Out]
    BY <1>6 DEF CollectorDone
  <2>2. CommitOK(Out)
    BY DEF CommitOK
  <2> QED BY <1>2, <1>3, <1>4, <2>1, <2>2, SameTimers, CommitMoves
<1> QED BY <1>5, <1>6

\* The sleeper whose time is committed is resumed.
LEMMA Interrupts_Step ==
  ASSUME TaInv, NEW t \in TimedThreads, Interrupts(t)
  PROVE  TaInv'
<1> DEFINE e == [timers[t] EXCEPT !.ert = globalTime]
           q == updateTimesAfterResuming(e, globalTime)
<1>0. /\ commit[CoreScheduler].at = "then" /\ commit[CoreScheduler].whose = t
      /\ commit' = [commit EXCEPT ![CoreScheduler] = Out]
      /\ timers' = [timers EXCEPT ![t] = q] /\ doing' = [doing EXCEPT ![t] = "resumed"]
      /\ UNCHANGED <<globalTime, unknown, cpu, used>>
  BY DEF Interrupts, clock
<1>1. /\ globalTime \in Nat /\ unknown \in Nat
      /\ timers = [u \in TimedThreads |-> timers[u]]
      /\ \A u \in TimedThreads : TimerOK(timers[u])
      /\ cpu \in [TimedThreads -> Nat] /\ doing \in [TimedThreads -> Activities]
      /\ commit = [a \in Actors |-> commit[a]] /\ \A a \in Actors : CommitOK(commit[a])
      /\ used = [u \in TimedThreads |-> cpu[u] * Scaling[u]]
  BY DEF TaInv, TaTypeOK
<1>2. doing[t] = "asleep"
  BY <1>0 DEF TaInv, SchedulerCommitsSleepers, Out
<1>3. CoreScheduler \in Actors \ TimedThreads /\ TimedThreads \subseteq Actors
  BY TimeAssumption DEF Actors
<1>4. /\ TimerOK(q) /\ q.vt = timers[t].vt /\ q.lastCpu = timers[t].lastCpu
      /\ q.resumedAt = globalTime /\ q.local = 0
  <2>1. q = [timers[t] EXCEPT !.ert = globalTime, !.resumedAt = globalTime, !.local = 0]
    BY DEF updateTimesAfterResuming
  <2> HIDE DEF q
  <2>2. TimerOK(timers[t])
    BY <1>1
  <2> QED BY <1>1, <2>1, <2>2 DEF TimerOK, TimerFields
<1> HIDE DEF q
<1>5. /\ timers' = [u \in TimedThreads |-> timers'[u]] /\ timers'[t] = q /\ doing'[t] = "resumed"
      /\ \A u \in TimedThreads \ {t} : timers'[u] = timers[u] /\ doing'[u] = doing[u]
      /\ commit' = [a \in Actors |-> commit'[a]] /\ commit'[CoreScheduler] = Out
      /\ \A a \in Actors \ {CoreScheduler} : commit'[a] = commit[a]
  BY <1>0, <1>1, <1>3
<1>6. TaTypeOK'
  <2>1. doing' \in [TimedThreads -> Activities]
    BY <1>0, <1>1 DEF Activities
  <2>2. \A u \in TimedThreads : TimerOK(timers'[u])
    BY <1>1, <1>4, <1>5
  <2>3. \A a \in Actors : CommitOK(commit'[a])
    <3>1. CommitOK(Out)
      BY DEF CommitOK
    <3> QED BY <3>1, <1>1, <1>5
  <2> QED BY <1>0, <1>1, <1>5, <2>1, <2>2, <2>3 DEF TaTypeOK, TimerOK, CommitOK
<1>7. TimersFit'
  <2> SUFFICES ASSUME NEW u \in TimedThreads
               PROVE  Fits(u, cpu[u], timers'[u], doing'[u], commit'[u], globalTime)
    BY <1>0 DEF TimersFit, Fits
  <2>1. Fits(u, cpu[u], timers[u], doing[u], commit[u], globalTime)
    BY DEF TaInv, TimersFit
  <2>2. commit'[u] = commit[u]
    BY <1>3, <1>5
  <2>3. CASE u = t
    BY <2>1, <2>2, <2>3, <1>1, <1>2, <1>4, <1>5 DEF Fits
  <2>4. CASE u # t
    BY <2>1, <2>2, <2>4, <1>5
  <2> QED BY <2>3, <2>4
<1>8. SchedulerCommitsSleepers'
  BY <1>5 DEF SchedulerCommitsSleepers, Out
<1> QED BY <1>6, <1>7, <1>8 DEF TaInv

\* Application code uses CPU time nobody is told of.
LEMMA Execute_Step ==
  ASSUME TaInv, NEW t \in TimedThreads, Execute(t)
  PROVE  TaInv'
<1>0. /\ doing[t] \in {"running", "native"} /\ commit[t] = Out
      /\ cpu' = [cpu EXCEPT ![t] = @ + 1] /\ used' = [used EXCEPT ![t] = @ + Scaling[t]]
      /\ UNCHANGED <<globalTime, unknown, timers, doing, commit>>
  BY DEF Execute, clock
<1>1. TaTypeOK /\ TimersFit /\ SchedulerCommitsSleepers
  BY DEF TaInv
<1>2. /\ cpu \in [TimedThreads -> Nat] /\ \A u \in TimedThreads : TimerOK(timers[u])
      /\ used = [u \in TimedThreads |-> cpu[u] * Scaling[u]]
  BY <1>1 DEF TaTypeOK
<1>3. /\ cpu' \in [TimedThreads -> Nat] /\ cpu'[t] = cpu[t] + 1 /\ cpu[t] \in Nat
      /\ \A u \in TimedThreads \ {t} : cpu'[u] = cpu[u]
  BY <1>0, <1>2
<1>4. used' = [u \in TimedThreads |-> cpu'[u] * Scaling[u]]
  <2>1. \A u \in TimedThreads : used'[u] = cpu'[u] * Scaling[u]
    <3> SUFFICES ASSUME NEW u \in TimedThreads PROVE used'[u] = cpu'[u] * Scaling[u]
      OBVIOUS
    <3>1. CASE u = t
      <4>1. used'[t] = cpu[t] * Scaling[t] + Scaling[t]
        BY <1>0, <1>2
      <4>2. (cpu[t] + 1) * Scaling[t] = cpu[t] * Scaling[t] + Scaling[t]
        BY <1>3, ScalingIsNat, Products
      <4> QED BY <3>1, <4>1, <4>2, <1>3
    <3>2. CASE u # t
      BY <3>2, <1>0, <1>2, <1>3
    <3> QED BY <3>1, <3>2
  <2>2. used' = [u \in TimedThreads |-> used'[u]]
    BY <1>0, <1>2
  <2> QED BY <2>1, <2>2
<1>5. TaTypeOK'
  BY <1>0, <1>1, <1>3, <1>4 DEF TaTypeOK
<1>6. TimersFit'
  <2> SUFFICES ASSUME NEW u \in TimedThreads
               PROVE  Fits(u, cpu'[u], timers[u], doing[u], commit[u], globalTime)
    BY <1>0 DEF TimersFit
  <2>1. Fits(u, cpu[u], timers[u], doing[u], commit[u], globalTime)
    BY <1>1 DEF TimersFit
  <2>2. CASE u = t
    <3>1. timers[t].lastCpu <= cpu[t] + 1
      BY <2>1, <2>2, <1>2, <1>3 DEF Fits, TimerOK
    <3> QED BY <2>1, <2>2, <3>1, <1>0, <1>3 DEF Fits
  <2>3. CASE u # t
    BY <2>1, <2>3, <1>3
  <2> QED BY <2>2, <2>3
<1>7. SchedulerCommitsSleepers'
  BY <1>0, <1>1 DEF SchedulerCommitsSleepers
<1> QED BY <1>5, <1>6, <1>7 DEF TaInv

LEMMA TimeInitially == TaInit => TaInv
<1> SUFFICES ASSUME TaInit PROVE TaInv
  OBVIOUS
<1>1. /\ globalTime = 0 /\ unknown = 0
      /\ timers = [t \in TimedThreads |-> resetCounters]
      /\ cpu = [t \in TimedThreads |-> 0] /\ doing = [t \in TimedThreads |-> "suspended"]
      /\ commit = [a \in Actors |-> Out] /\ used = [t \in TimedThreads |-> 0]
  BY DEF TaInit
<1>2. TimerOK(resetCounters) /\ resetCounters.vt = 0 /\ resetCounters.lastCpu = 0
  BY DEF resetCounters, TimerOK, TimerFields
<1>3. \A t \in TimedThreads : 0 * Scaling[t] = 0
  BY ScalingIsNat
<1>4. TaTypeOK
  BY <1>1, <1>2, <1>3 DEF TaTypeOK, CommitOK, Activities
<1>5. TimersFit
  <2> SUFFICES ASSUME NEW t \in TimedThreads
               PROVE  Fits(t, cpu[t], timers[t], doing[t], commit[t], globalTime)
    BY DEF TimersFit
  <2>1. /\ cpu[t] = 0 /\ timers[t].vt = 0 /\ timers[t].lastCpu = 0
        /\ doing[t] = "suspended" /\ commit[t] = Out
    BY <1>1, <1>2 DEF Actors
  <2>2. 0 * Scaling[t] = 0
    BY <1>3
  <2> QED BY <2>1, <2>2 DEF Fits
<1>6. SchedulerCommitsSleepers
  BY <1>1 DEF SchedulerCommitsSleepers, Actors
<1> QED BY <1>4, <1>5, <1>6 DEF TaInv

LEMMA TimeStep == TaInv /\ [TaNext]_taVars => TaInv'
<1> SUFFICES ASSUME TaInv, [TaNext]_taVars PROVE TaInv'
  OBVIOUS
<1>1. ASSUME NEW a \in Actors, Commit(a) \/ Look(a) \/ Log(a) PROVE TaInv'
  BY <1>1, Commit_Step, Look_Step, Log_Step
<1>2. ASSUME NEW t \in TimedThreads, Execute(t) PROVE TaInv'
  BY <1>2, Execute_Step
<1>3. ASSUME NEW t \in TimedThreads, onVexMethodEntry(t) PROVE TaInv'
  BY <1>3, onVexMethodEntry_Step
<1>4. ASSUME NEW t \in TimedThreads,
             onInteractionPoint(t) \/ signalHandler(t) \/ suspendLooseCurrentThread(t)
      PROVE  TaInv'
  <2>1. doing[t] \in {"running", "native"} /\ commit[t] = Out /\ UNCHANGED doing /\ Unmoved
    BY <1>4 DEF onInteractionPoint, signalHandler, suspendLooseCurrentThread, InApplication
  <2>2. \E then : setCurrentThreadVT(t, timers[t], then)
    BY <1>4 DEF onInteractionPoint, signalHandler, suspendLooseCurrentThread
  <2> QED BY <2>1, <2>2, ChargeOnce
<1>5. ASSUME NEW t \in TimedThreads, beforeCreatingThread(t) \/ onWrappedWaitingStart(t)
      PROVE  TaInv'
  <2>1. InApplication(t, "running") /\ UNCHANGED doing /\ Unmoved
    BY <1>5 DEF beforeCreatingThread, onWrappedWaitingStart
  <2>2. \E then :
          setCurrentThreadVT(t, updateThreadLocalTimeSinceLastResumeTo(t, timers[t]), then)
    BY <1>5 DEF beforeCreatingThread, onWrappedWaitingStart
  <2> QED BY <2>1, <2>2, ChargeTwice
<1>6. ASSUME NEW t \in TimedThreads, onWrappedWaitingEnd(t) PROVE TaInv'
  BY <1>6, onWrappedWaitingEnd_Step
<1>7. ASSUME NEW t \in TimedThreads, onReplacedTimedWaiting(t) PROVE TaInv'
  BY <1>7, onReplacedTimedWaiting_Step
<1>8. ASSUME NEW t \in TimedThreads, GoesOn(t) \/ Waits(t) \/ TurnsNative(t) PROVE TaInv'
  BY <1>8, GoesOn_Step, Waits_Step, TurnsNative_Step
<1>9. ASSUME NEW t \in TimedThreads, setRunningThread(t) \/ resumeTimedThread(t) PROVE TaInv'
  BY <1>9, setRunningThread_Step, resumeTimedThread_Step
<1>10. ASSUME NEW t \in TimedThreads, interruptTimedWaitingThread(t) \/ Interrupts(t)
       PROVE  TaInv'
  BY <1>10, interruptTimedWaitingThread_Step, Interrupts_Step
<1>11. CASE onWrappedBackgroundLoadExecutionEnd \/ CollectorDone
  BY <1>11, Collector_Step
<1>12. CASE UNCHANGED taVars
  <2>1. UNCHANGED <<globalTime, unknown, timers, cpu, doing, commit, used>>
    BY <1>12 DEF taVars, clock
  <2>2. TaTypeOK' /\ TimersFit' /\ SchedulerCommitsSleepers'
    BY <2>1 DEF TaInv, TaTypeOK, TimersFit, SchedulerCommitsSleepers
  <2> QED BY <2>2 DEF TaInv
<1> QED BY <1>1, <1>2, <1>3, <1>4, <1>5, <1>6, <1>7, <1>8, <1>9, <1>10, <1>11, <1>12 DEF TaNext

LEMMA TimeSuffices == TaInv => UserTimeIsCharged /\ EstimateCoversLocalTime
<1> SUFFICES ASSUME TaInv, NEW t \in TimedThreads
             PROVE  /\ timers[t].vt + CpuSince(t) * Scaling[t] >= used[t]
                    /\ timers[t].vt <= 2 * used[t]
                    /\ doing[t] \in {"running", "native"} =>
                         timers[t].ert >= timers[t].resumedAt + timers[t].local
  BY DEF UserTimeIsCharged, EstimateCoversLocalTime
<1> DEFINE k == cpu[t] * Scaling[t]
           l == timers[t].lastCpu * Scaling[t]
           v == timers[t].vt
<1>1. /\ TimerOK(timers[t]) /\ cpu[t] \in Nat /\ Scaling[t] \in Nat
      /\ k \in Nat /\ l \in Nat /\ l <= k
      /\ Fits(t, cpu[t], timers[t], doing[t], commit[t], globalTime)
  BY ThreadFacts
<1>2. used[t] = k
  BY DEF TaInv, TaTypeOK
<1>3. timers[t].lastCpu \in Nat /\ v \in Nat
  BY <1>1 DEF TimerOK
<1>4. CpuSince(t) * Scaling[t] = k - l
  BY <1>1, <1>3, Products DEF CpuSince
<1>5. \/ l <= v /\ v <= 2 * l
      \/ k <= v /\ v <= 2 * k
  BY <1>1 DEF Fits
<1> HIDE DEF k, l, v
<1>6. v + (k - l) >= k /\ v <= 2 * k
  BY <1>1, <1>3, <1>5
<1>7. doing[t] \in {"running", "native"} =>
        timers[t].ert >= timers[t].resumedAt + timers[t].local
  BY <1>1 DEF Fits
<1> QED BY <1>2, <1>4, <1>6, <1>7 DEF v

-----------------------------------------------------------------------------
(***************************************************************************)
(* The statistics of the global time.                                      *)
(***************************************************************************)
RowOwners == TimedThreads \cup {Collector}
Busy(c) == c.at \in {"commit", "look", "log"}
Column(k) == [o \in RowOwners |-> rows[o][k]]
Logged == SumOver(totals, Categories)

\* What is known of a commit under way.
BusyOK(c) ==
  /\ DOMAIN c = {"at", "whose", "category", "before", "after", "sum", "row", "then"}
  /\ c.category \in Categories /\ c.whose \in RowOwners
  /\ c.before \in Int /\ c.after \in Int /\ c.sum \in Int /\ c.row \in Int

\* The only commit c under way, at time g with totals m and rows r: what was logged
\* (l) is its first snapshot, from which the global time moves with the commit; what
\* it is about to log is current.
Explains(c, l, g, m, r) ==
  /\ l = c.before
  /\ c.at = "commit" => c.before = g
  /\ c.at = "log" => c.after = g /\ c.sum = m[c.category] /\ c.row = r[c.whose][c.category]

ColumnsAddUp == \A k \in Categories : totals[k] = SumOver(Column(k), RowOwners)

StatisticsOK ==
  /\ totals \in [Categories -> Int] /\ rows \in [RowOwners -> [Categories -> Int]]
  /\ \A a \in Actors : Busy(commit[a]) => BusyOK(commit[a])

StatisticsFit ==
  ~overlapped =>
    /\ \A a, b \in Actors : Busy(commit[a]) /\ Busy(commit[b]) => a = b
    /\ \A a \in Actors : Busy(commit[a]) =>
         Explains(commit[a], Logged, globalTime, totals, rows)
    /\ (\A a \in Actors : ~Busy(commit[a])) => Logged = globalTime
    /\ ColumnsAddUp

StatInv == TaInv /\ StatisticsOK /\ StatisticsFit

LEMMA FiniteOwners == IsFiniteSet(RowOwners) /\ IsFiniteSet(Categories)
<1>1. IsFiniteSet(RowOwners)
  <2>1. IsFiniteSet(TimedThreads)
    BY TimeAssumption
  <2>2. IsFiniteSet(TimedThreads \cup {Collector})
    BY <2>1, FS_AddElement
  <2> QED BY <2>2 DEF RowOwners
<1>2. IsFiniteSet({"cpu"})
  BY FS_Singleton
<1>3. IsFiniteSet({"cpu"} \cup {"native"})
  BY <1>2, FS_AddElement
<1>4. IsFiniteSet(({"cpu"} \cup {"native"}) \cup {"timed wait"})
  BY <1>3, FS_AddElement
<1>5. IsFiniteSet((({"cpu"} \cup {"native"}) \cup {"timed wait"}) \cup {"background"})
  BY <1>4, FS_AddElement
<1>6. Categories = (({"cpu"} \cup {"native"}) \cup {"timed wait"}) \cup {"background"}
  BY DEF Categories
<1> QED BY <1>1, <1>5, <1>6

LEMMA StatisticsSummable ==
  ASSUME StatisticsOK
  PROVE  Summable(totals, Categories) /\ \A k \in Categories : Summable(Column(k), RowOwners)
BY FiniteOwners DEF StatisticsOK, Summable, Column

LEMMA StatInitially == TaInit => StatInv
<1> SUFFICES ASSUME TaInit PROVE StatInv
  OBVIOUS
<1>1. TaInv
  BY TimeInitially
<1>2. \A a \in Actors : ~Busy(commit[a])
  BY DEF TaInit, Busy, Out
<1>3. StatisticsOK
  BY <1>2 DEF TaInit, StatisticsOK, RowOwners
<1>4. Logged = 0
  <2>1. \A k \in Categories : totals[k] = 0
    BY DEF TaInit
  <2> QED BY <2>1, FiniteOwners, SumOfZeros DEF Logged
<1>5. ASSUME NEW k \in Categories
      PROVE  SumOver(Column(k), RowOwners) = 0
  <2>1. \A o \in RowOwners : Column(k)[o] = 0
    BY DEF TaInit, Column, RowOwners
  <2> QED BY <2>1, FiniteOwners, SumOfZeros
<1>6. \A k \in Categories : totals[k] = 0 /\ globalTime = 0
  BY DEF TaInit
<1>7. globalTime = 0
  BY DEF TaInit
<1>8. ColumnsAddUp
  BY <1>5, <1>6 DEF ColumnsAddUp
<1> QED BY <1>1, <1>2, <1>3, <1>4, <1>7, <1>8 DEF StatInv, StatisticsFit

\* A step that logs nothing.
LEMMA NothingLogged ==
  ASSUME UNCHANGED <<totals, rows>>
  PROVE  UNCHANGED Logged /\ (ColumnsAddUp <=> ColumnsAddUp')
<1>1. \A k \in Categories : UNCHANGED Column(k)
  BY DEF Column
<1> QED BY <1>1 DEF Logged, ColumnsAddUp

\* A step that neither begins nor continues a commit.
LEMMA CommitsStay ==
  ASSUME StatInv, TaInv', UNCHANGED <<globalTime, totals, rows, overlapped>>,
         \A a \in Actors : Busy(commit[a]) \/ Busy(commit'[a]) => commit'[a] = commit[a]
  PROVE  StatInv'
<1>1. StatisticsOK'
  BY DEF StatInv, StatisticsOK
<1>2. UNCHANGED Logged /\ (ColumnsAddUp <=> ColumnsAddUp')
  BY NothingLogged
<1>3. \A a \in Actors : /\ Busy(commit[a]) <=> Busy(commit'[a])
                        /\ Busy(commit[a]) => commit'[a] = commit[a]
  OBVIOUS
<1>4. StatisticsFit'
  BY <1>2, <1>3 DEF StatInv, StatisticsFit
<1> QED BY <1>1, <1>4 DEF StatInv

LEMMA OneCommitStays ==
  ASSUME StatInv, TaInv', UNCHANGED <<globalTime, totals, rows, overlapped>>,
         NEW a \in Actors, NEW c, commit' = [commit EXCEPT ![a] = c], ~Busy(c), ~Busy(commit[a])
  PROVE  StatInv'
<1>1. commit = [b \in Actors |-> commit[b]]
  BY DEF StatInv, TaInv, TaTypeOK
<1>2. \A b \in Actors : commit'[b] = IF b = a THEN c ELSE commit[b]
  BY <1>1
<1> QED BY <1>2, CommitsStay

\* A commit begins: it overlaps every other one.
LEMMA Begins ==
  ASSUME StatInv, TaInv', NEW a \in Actors, ~Busy(commit[a]), NEW whose \in RowOwners,
         NEW category \in Categories, NEW then, Begin(a, whose, category, then),
         UNCHANGED <<globalTime, totals, rows>>
  PROVE  StatInv'
<1> DEFINE c == [at |-> "commit", whose |-> whose, category |-> category,
                 before |-> globalTime, after |-> globalTime, sum |-> 0, row |-> 0, then |-> then]
<1>1. commit = [b \in Actors |-> commit[b]] /\ globalTime \in Int
  BY DEF StatInv, TaInv, TaTypeOK
<1>2. /\ commit' = [commit EXCEPT ![a] = c]
      /\ overlapped' = (overlapped \/ \E b \in Actors \ {a} : Busy(commit[b]))
  BY DEF Begin, Busy
<1>3. \A b \in Actors : commit'[b] = IF b = a THEN c ELSE commit[b]
  BY <1>1, <1>2
<1>4. BusyOK(c) /\ Busy(c) /\ c.at = "commit" /\ c.before = globalTime
  BY <1>1 DEF BusyOK, Busy
<1> HIDE DEF c
<1>5. StatisticsOK'
  BY <1>3, <1>4 DEF StatInv, StatisticsOK
<1>6. UNCHANGED Logged /\ (ColumnsAddUp <=> ColumnsAddUp')
  BY NothingLogged
<1>7. ASSUME ~overlapped'
      PROVE  /\ \A b \in Actors : Busy(commit'[b]) <=> b = a
             /\ Explains(commit'[a], Logged', globalTime', totals', rows')
             /\ ColumnsAddUp'
  <2>1. ~overlapped /\ \A b \in Actors : b # a => ~Busy(commit[b])
    BY <1>2, <1>7
  <2>2. \A b \in Actors : ~Busy(commit[b])
    BY <2>1
  <2>3. Logged = globalTime /\ ColumnsAddUp
    BY <2>1, <2>2 DEF StatInv, StatisticsFit
  <2>4. \A b \in Actors : Busy(commit'[b]) <=> b = a
    BY <1>3, <1>4, <2>2
  <2>5. Explains(commit'[a], Logged', globalTime', totals', rows')
    BY <1>3, <1>4, <1>6, <2>3 DEF Explains
  <2> QED BY <1>6, <2>3, <2>4, <2>5
<1>8. StatisticsFit'
  BY <1>7 DEF StatisticsFit
<1> QED BY <1>5, <1>8 DEF StatInv

\* A commit under way goes on, or has logged.
LEMMA CommitGoesOn ==
  ASSUME StatInv, TaInv', NEW a \in Actors, Busy(commit[a]), NEW c,
         \A b \in Actors : commit'[b] = IF b = a THEN c ELSE commit[b],
         UNCHANGED overlapped, StatisticsOK',
         ~overlapped => /\ Busy(c) => Explains(c, Logged', globalTime', totals', rows')
                        /\ ~Busy(c) => Logged' = globalTime'
                        /\ ColumnsAddUp'
  PROVE  StatInv'
<1>1. ASSUME ~overlapped'
      PROVE  \A b \in Actors : Busy(commit'[b]) <=> b = a /\ Busy(c)
  <2>1. \A b \in Actors : Busy(commit[b]) => b = a
    BY <1>1 DEF StatInv, StatisticsFit
  <2> QED BY <2>1
<1>2. StatisticsFit'
  <2> SUFFICES ASSUME ~overlapped'
               PROVE  /\ \A b, d \in Actors : Busy(commit'[b]) /\ Busy(commit'[d]) => b = d
                      /\ \A b \in Actors : Busy(commit'[b]) =>
                           Explains(commit'[b], Logged', globalTime', totals', rows')
                      /\ (\A b \in Actors : ~Busy(commit'[b])) => Logged' = globalTime'
                      /\ ColumnsAddUp'
    BY DEF StatisticsFit
  <2> QED BY <1>1
<1> QED BY <1>2 DEF StatInv

\* What the invariant says of a commit under way.
LEMMA UnderWay ==
  ASSUME StatInv, NEW a \in Actors, Busy(commit[a])
  PROVE  /\ BusyOK(commit[a])
         /\ ~overlapped => /\ Explains(commit[a], Logged, globalTime, totals, rows)
                           /\ ColumnsAddUp
BY DEF StatInv, StatisticsOK, StatisticsFit

LEMMA Commit_Explained ==
  ASSUME StatInv, TaInv', NEW a \in Actors, Commit(a)
  PROVE  StatInv'
<1> DEFINE o == commit[a]
           c == [o EXCEPT !.at = "look"]
<1>1. /\ o.at = "commit" /\ commit' = [commit EXCEPT ![a].at = "look"]
      /\ UNCHANGED <<totals, rows, overlapped>>
  BY DEF Commit, statistics
<1>2. Busy(o)
  BY <1>1 DEF Busy
<1>3. BusyOK(o) /\ (~overlapped => Explains(o, Logged, globalTime, totals, rows) /\ ColumnsAddUp)
  BY <1>2, UnderWay
<1>4. \A b \in Actors : commit'[b] = IF b = a THEN c ELSE commit[b]
  BY <1>1 DEF StatInv, TaInv, TaTypeOK
<1>5. c.at = "look" /\ BusyOK(c) /\ c.before = o.before
  BY <1>3 DEF BusyOK
<1>6. UNCHANGED Logged /\ (ColumnsAddUp <=> ColumnsAddUp')
  BY <1>1, NothingLogged
<1> HIDE DEF c
<1>7. StatisticsOK'
  BY <1>1, <1>4, <1>5 DEF StatInv, StatisticsOK
<1>8. ~overlapped => Explains(c, Logged', globalTime', totals', rows') /\ ColumnsAddUp'
  BY <1>3, <1>5, <1>6 DEF Explains
<1>9. Busy(c)
  BY <1>5 DEF Busy
<1> QED BY <1>1, <1>2, <1>4, <1>7, <1>8, <1>9, CommitGoesOn

LEMMA Look_Explained ==
  ASSUME StatInv, TaInv', NEW a \in Actors, Look(a)
  PROVE  StatInv'
<1> DEFINE o == commit[a]
           s == totals[commit[a].category]
           w == rows[commit[a].whose][commit[a].category]
           c == [o EXCEPT !.at = "log", !.after = globalTime, !.sum = s, !.row = w]
<1>1. /\ o.at = "look"
      /\ commit' = [commit EXCEPT ![a].at = "log", ![a].after = globalTime,
                                  ![a].sum = s, ![a].row = w]
      /\ UNCHANGED <<totals, rows, overlapped, globalTime>>
  BY DEF Look, statistics, clock
<1>2. Busy(o)
  BY <1>1 DEF Busy
<1>3. BusyOK(o) /\ (~overlapped => Explains(o, Logged, globalTime, totals, rows) /\ ColumnsAddUp)
  BY <1>2, UnderWay
<1>4. s \in Int /\ w \in Int /\ globalTime \in Int
  BY <1>3 DEF StatInv, StatisticsOK, BusyOK, TaInv, TaTypeOK
<1>5. s = totals[o.category] /\ w = rows[o.whose][o.category]
  OBVIOUS
<1> HIDE DEF s, w
<1>6. \A b \in Actors : commit'[b] = IF b = a THEN c ELSE commit[b]
  BY <1>1 DEF StatInv, TaInv, TaTypeOK
<1>7. /\ BusyOK(c) /\ c.at = "log" /\ c.before = o.before /\ c.after = globalTime /\ c.sum = s
      /\ c.row = w /\ c.category = o.category /\ c.whose = o.whose
  BY <1>3, <1>4 DEF BusyOK
<1>8. UNCHANGED Logged /\ (ColumnsAddUp <=> ColumnsAddUp')
  BY <1>1, NothingLogged
<1> HIDE DEF c
<1>9. StatisticsOK'
  BY <1>1, <1>6, <1>7 DEF StatInv, StatisticsOK
<1>10. ~overlapped => Explains(c, Logged', globalTime', totals', rows') /\ ColumnsAddUp'
  BY <1>1, <1>3, <1>5, <1>7, <1>8 DEF Explains
<1>11. Busy(c)
  BY <1>7 DEF Busy
<1> QED BY <1>1, <1>2, <1>6, <1>9, <1>10, <1>11, CommitGoesOn

\* A column follows the change of one row.
LEMMA OneRowChanges ==
  ASSUME NEW p \in RowOwners
  PROVE  \A f, g : Summable(f, RowOwners) /\ g[p] \in Int
                   /\ (\A o \in RowOwners : o # p => g[o] = f[o]) =>
           SumOver(g, RowOwners) = SumOver(f, RowOwners) - f[p] + g[p]
BY SumChanges

\* The log adds the same time to a total and to one row of its column.
LEMMA Log_Explained ==
  ASSUME StatInv, TaInv', NEW a \in Actors, Log(a)
  PROVE  StatInv'
<1> DEFINE o == commit[a]
           d == o.after - o.before
           c == [at |-> "then", then |-> o.then, whose |-> o.whose]
<1>1. /\ o.at = "log" /\ commit' = [commit EXCEPT ![a] = c]
      /\ totals' = [totals EXCEPT ![o.category] = o.sum + d]
      /\ rows' = [rows EXCEPT ![o.whose][o.category] = o.row + d]
      /\ UNCHANGED <<overlapped, globalTime>>
  BY DEF Log, clock, increaseTimeCounter, logPerThread
<1>2. Busy(o) /\ ~Busy(c)
  BY <1>1 DEF Busy
<1>3. BusyOK(o) /\ (~overlapped => Explains(o, Logged, globalTime, totals, rows) /\ ColumnsAddUp)
  BY <1>2, UnderWay
<1>4. \A b \in Actors : commit'[b] = IF b = a THEN c ELSE commit[b]
  BY <1>1 DEF StatInv, TaInv, TaTypeOK
<1>5. /\ d \in Int /\ o.category \in Categories /\ o.whose \in RowOwners
      /\ o.sum \in Int /\ o.row \in Int /\ o.before \in Int /\ o.after \in Int
  BY <1>3 DEF BusyOK
<1>6. /\ totals \in [Categories -> Int] /\ rows \in [RowOwners -> [Categories -> Int]]
      /\ \A b \in Actors : Busy(commit[b]) => BusyOK(commit[b])
  BY DEF StatInv, StatisticsOK
<1> HIDE DEF o, d, c
<1>7. /\ totals' \in [Categories -> Int] /\ totals'[o.category] = o.sum + d
      /\ \A k \in Categories : k # o.category => totals'[k] = totals[k]
  BY <1>1, <1>5, <1>6
<1>8. /\ rows' \in [RowOwners -> [Categories -> Int]]
      /\ rows'[o.whose][o.category] = o.row + d
      /\ \A p \in RowOwners, k \in Categories :
           p # o.whose \/ k # o.category => rows'[p][k] = rows[p][k]
  BY <1>1, <1>5, <1>6
<1>9. StatisticsOK'
  BY <1>2, <1>4, <1>6, <1>7, <1>8 DEF StatisticsOK
<1>10. ASSUME ~overlapped PROVE Logged' = globalTime' /\ ColumnsAddUp'
  <2>1. /\ Logged = o.before /\ o.after = globalTime /\ o.sum = totals[o.category]
        /\ o.row = rows[o.whose][o.category]
    BY <1>1, <1>3, <1>10 DEF Explains
  <2>2. Logged' = globalTime'
    <3>1. Summable(totals, Categories)
      BY StatisticsSummable DEF StatInv
    <3> PICK k \in Categories : k = o.category
      BY <1>5
    <3>0. ASSUME NEW f, NEW g, Summable(f, Categories), g[k] \in Int,
                 \A y \in Categories : y # k => g[y] = f[y]
          PROVE  SumOver(g, Categories) = SumOver(f, Categories) - f[k] + g[k]
      BY <3>0, SumChanges
    <3>2. /\ totals'[k] \in Int /\ totals'[k] = o.sum + d
          /\ \A y \in Categories : y # k => totals'[y] = totals[y]
      BY <1>5, <1>7
    <3>3. SumOver(totals', Categories) = SumOver(totals, Categories) - totals[k] + totals'[k]
      BY <3>0, <3>1, <3>2
    <3>4. Logged' = Logged - o.sum + (o.sum + d)
      BY <2>1, <3>2, <3>3 DEF Logged
    <3>5. d = globalTime - Logged
      BY <2>1 DEF d
    <3> QED BY <1>1, <1>5, <2>1, <3>4, <3>5
  <2>3. ASSUME NEW k \in Categories PROVE totals'[k] = SumOver(Column(k)', RowOwners)
    <3>1. totals[k] = SumOver(Column(k), RowOwners) /\ Summable(Column(k), RowOwners)
      BY <1>3, <1>10, StatisticsSummable DEF ColumnsAddUp, StatInv
    <3>2. \A p \in RowOwners : Column(k)[p] = rows[p][k] /\ Column(k)'[p] = rows'[p][k]
      BY DEF Column
    <3>3. CASE k # o.category
      <4>1. Column(k)' = Column(k)
        BY <1>8, <3>3 DEF Column
      <4> QED BY <1>7, <3>1, <3>3, <4>1
    <3>4. CASE k = o.category
      <4>1. /\ Column(k)'[o.whose] = o.row + d /\ Column(k)[o.whose] = o.row
            /\ \A p \in RowOwners : p # o.whose => Column(k)'[p] = Column(k)[p]
        BY <1>5, <1>8, <2>1, <3>2, <3>4
      <4>2. SumOver(Column(k)', RowOwners) = SumOver(Column(k), RowOwners) - o.row + (o.row + d)
        <5> DEFINE f == Column(k)
                   g == Column(k)'
        <5> PICK p \in RowOwners : p = o.whose
          BY <1>5
        <5>1. Summable(f, RowOwners) /\ g[p] \in Int /\ \A q \in RowOwners : q # p => g[q] = f[q]
          BY <1>5, <3>1, <4>1
        <5>2. f[p] = o.row /\ g[p] = o.row + d
          BY <4>1
        <5> HIDE DEF f, g
        <5>3. SumOver(g, RowOwners) = SumOver(f, RowOwners) - f[p] + g[p]
          BY <5>1, OneRowChanges
        <5> QED BY <5>2, <5>3 DEF f, g
      <4>3. SumOver(Column(k), RowOwners) = o.sum
        BY <2>1, <3>1, <3>4
      <4> QED BY <1>5, <1>7, <3>4, <4>2, <4>3
    <3> QED BY <3>3, <3>4
  <2> QED BY <2>2, <2>3 DEF ColumnsAddUp
<1> QED BY <1>1, <1>2, <1>4, <1>9, <1>10, CommitGoesOn DEF o

LEMMA IdleActors ==
  /\ TimedThreads \subseteq Actors /\ CoreScheduler \in Actors /\ Collector \in Actors
  /\ TimedThreads \subseteq RowOwners /\ Collector \in RowOwners
  /\ ~Busy(Out) /\ \A c : c.at = "then" => ~Busy(c)
BY DEF Actors, RowOwners, Out, Busy

\* A charge that is committed begins a commit of the thread itself.
LEMMA ChargeExplained ==
  ASSUME StatInv, TaInv', NEW t \in TimedThreads, NEW r, NEW then, commit[t] = Out,
         setCurrentThreadVT(t, r, then), UNCHANGED <<globalTime, totals, rows>>
  PROVE  StatInv'
<1>1. t \in Actors /\ t \in RowOwners /\ ~Busy(commit[t])
  BY IdleActors
<1>2. CASE Begin(t, t, IF doing[t] = "native" THEN "native" ELSE "cpu", then)
  <2>1. (IF doing[t] = "native" THEN "native" ELSE "cpu") \in Categories
    BY DEF Categories
  <2> QED BY <1>1, <1>2, <2>1, Begins
<1>3. CASE /\ commit' = [commit EXCEPT ![t] = [at |-> "then", then |-> then, whose |-> t]]
           /\ UNCHANGED overlapped
  <2>1. ~Busy([at |-> "then", then |-> then, whose |-> t])
    BY DEF Busy
  <2> QED BY <1>1, <1>3, <2>1, OneCommitStays
<1> QED BY <1>2, <1>3 DEF setCurrentThreadVT

\* A thread that charges itself, and maybe commits.
LEMMA Charges_Explained ==
  ASSUME StatInv, TaInv', NEW t \in TimedThreads,
         \/ onInteractionPoint(t) \/ signalHandler(t) \/ beforeCreatingThread(t)
         \/ onWrappedWaitingStart(t) \/ suspendLooseCurrentThread(t)
  PROVE  StatInv'
<1>1. /\ commit[t] = Out /\ \E r, then : setCurrentThreadVT(t, r, then)
      /\ UNCHANGED <<globalTime, totals, rows>>
  <2>1. CASE onInteractionPoint(t)
    BY <2>1 DEF onInteractionPoint, InApplication, Unmoved, clock, statistics
  <2>2. CASE signalHandler(t)
    BY <2>2 DEF signalHandler, InApplication, Unmoved, clock, statistics
  <2>3. CASE beforeCreatingThread(t)
    BY <2>3 DEF beforeCreatingThread, InApplication, Unmoved, clock, statistics
  <2>4. CASE onWrappedWaitingStart(t)
    BY <2>4 DEF onWrappedWaitingStart, InApplication, Unmoved, clock, statistics
  <2>5. CASE suspendLooseCurrentThread(t)
    BY <2>5 DEF suspendLooseCurrentThread, InApplication, Unmoved, clock, statistics
  <2> QED BY <2>1, <2>2, <2>3, <2>4, <2>5
<1>2. PICK r, then : setCurrentThreadVT(t, r, then)
  BY <1>1
<1> QED BY <1>1, <1>2, ChargeExplained

\* A thread that goes on after a commit, or ends its wait.
LEMMA Then_Explained ==
  ASSUME StatInv, TaInv', NEW t \in TimedThreads,
         \/ onWrappedWaitingEnd(t) \/ GoesOn(t) \/ Waits(t) \/ TurnsNative(t) \/ Interrupts(t)
  PROVE  StatInv'
<1>1. \E a \in Actors : \E c : /\ ~Busy(commit[a]) /\ ~Busy(c)
                             /\ commit' = [commit EXCEPT ![a] = c]
                             /\ UNCHANGED <<globalTime, totals, rows, overlapped>>
  <2>1. CASE onWrappedWaitingEnd(t)
    <3>1. /\ commit[t] = Out
          /\ commit' = [commit EXCEPT ![t] = [at |-> "then", then |-> "go on", whose |-> t]]
          /\ UNCHANGED <<globalTime, totals, rows, overlapped>>
      BY <2>1 DEF onWrappedWaitingEnd, InApplication, Unmoved, clock, statistics
    <3>2. ~Busy([at |-> "then", then |-> "go on", whose |-> t])
      BY DEF Busy
    <3> QED BY <3>1, <3>2, IdleActors
  <2>2. CASE GoesOn(t)
    <3>1. /\ commit[t].at = "then" /\ commit' = [commit EXCEPT ![t] = Out]
          /\ UNCHANGED <<globalTime, totals, rows, overlapped>>
      BY <2>2 DEF GoesOn, Unmoved, clock, statistics
    <3> QED BY <3>1, IdleActors
  <2>3. CASE Waits(t)
    <3>1. /\ commit[t].at = "then" /\ commit' = [commit EXCEPT ![t] = Out]
          /\ UNCHANGED <<globalTime, totals, rows, overlapped>>
      BY <2>3 DEF Waits, Unmoved, clock, statistics
    <3> QED BY <3>1, IdleActors
  <2>4. CASE TurnsNative(t)
    <3>1. /\ commit[t].at = "then" /\ commit' = [commit EXCEPT ![t] = Out]
          /\ UNCHANGED <<globalTime, totals, rows, overlapped>>
      BY <2>4 DEF TurnsNative, Unmoved, clock, statistics
    <3> QED BY <3>1, IdleActors
  <2>5. CASE Interrupts(t)
    <3>1. /\ commit[CoreScheduler].at = "then"
          /\ commit' = [commit EXCEPT ![CoreScheduler] = Out]
          /\ UNCHANGED <<globalTime, totals, rows, overlapped>>
      BY <2>5 DEF Interrupts, clock, statistics
    <3> QED BY <3>1, IdleActors
  <2> QED BY <2>1, <2>2, <2>3, <2>4, <2>5
<1> QED BY <1>1, OneCommitStays

\* A step that leaves the commits alone.
LEMMA Others_Explained ==
  ASSUME StatInv, TaInv', NEW t,
         \/ Execute(t) \/ onVexMethodEntry(t) \/ onReplacedTimedWaiting(t)
         \/ setRunningThread(t) \/ resumeTimedThread(t) \/ UNCHANGED taVars
  PROVE  StatInv'
<1>1. UNCHANGED <<globalTime, totals, rows, overlapped, commit>>
  BY DEF Execute, onVexMethodEntry, onReplacedTimedWaiting, setRunningThread, resumeTimedThread,
         Unmoved, clock, statistics, taVars
<1> QED BY <1>1, CommitsStay

LEMMA Begins_Explained ==
  ASSUME StatInv, TaInv', NEW t \in TimedThreads, interruptTimedWaitingThread(t)
  PROVE  StatInv'
<1>1. /\ commit[CoreScheduler] = Out /\ Begin(CoreScheduler, t, "timed wait", "interrupt")
      /\ UNCHANGED <<globalTime, totals, rows>>
  BY DEF interruptTimedWaitingThread, SchedulerIsFree, Unmoved, clock, statistics
<1>2. "timed wait" \in Categories
  BY DEF Categories
<1> QED BY <1>1, <1>2, IdleActors, Begins

LEMMA Collector_Explained ==
  ASSUME StatInv, TaInv', onWrappedBackgroundLoadExecutionEnd \/ CollectorDone
  PROVE  StatInv'
<1>1. CASE onWrappedBackgroundLoadExecutionEnd
  <2>1. /\ commit[Collector] = Out /\ Begin(Collector, Collector, "background", "done")
        /\ UNCHANGED <<globalTime, totals, rows>>
    BY <1>1 DEF onWrappedBackgroundLoadExecutionEnd, clock, statistics
  <2>2. "background" \in Categories
    BY DEF Categories
  <2> QED BY <2>1, <2>2, IdleActors, Begins
<1>2. CASE CollectorDone
  <2>1. /\ commit[Collector].at = "then" /\ commit' = [commit EXCEPT ![Collector] = Out]
        /\ UNCHANGED <<globalTime, totals, rows, overlapped>>
    BY <1>2 DEF CollectorDone, Unmoved, clock, statistics
  <2> QED BY <2>1, IdleActors, OneCommitStays
<1> QED BY <1>1, <1>2

LEMMA StatStep == StatInv /\ [TaNext]_taVars => StatInv'
<1> SUFFICES ASSUME StatInv, [TaNext]_taVars PROVE StatInv'
  OBVIOUS
<1>1. TaInv'
  BY TimeStep DEF StatInv
<1>2. ASSUME NEW a \in Actors, Commit(a) \/ Look(a) \/ Log(a) PROVE StatInv'
  BY <1>1, <1>2, Commit_Explained, Look_Explained, Log_Explained
<1>3. ASSUME NEW t \in TimedThreads,
             \/ onInteractionPoint(t) \/ signalHandler(t) \/ beforeCreatingThread(t)
             \/ onWrappedWaitingStart(t) \/ suspendLooseCurrentThread(t)
      PROVE  StatInv'
  BY <1>1, <1>3, Charges_Explained
<1>4. ASSUME NEW t \in TimedThreads,
             \/ onWrappedWaitingEnd(t) \/ GoesOn(t) \/ Waits(t) \/ TurnsNative(t) \/ Interrupts(t)
      PROVE  StatInv'
  BY <1>1, <1>4, Then_Explained
<1>5. ASSUME NEW t \in TimedThreads,
             \/ Execute(t) \/ onVexMethodEntry(t) \/ onReplacedTimedWaiting(t)
             \/ setRunningThread(t) \/ resumeTimedThread(t)
      PROVE  StatInv'
  BY <1>1, <1>5, Others_Explained
<1>6. ASSUME NEW t \in TimedThreads, interruptTimedWaitingThread(t) PROVE StatInv'
  BY <1>1, <1>6, Begins_Explained
<1>7. CASE onWrappedBackgroundLoadExecutionEnd \/ CollectorDone
  BY <1>1, <1>7, Collector_Explained
<1>8. CASE UNCHANGED taVars
  <2>1. UNCHANGED <<globalTime, totals, rows, overlapped, commit>>
    BY <1>8 DEF clock, statistics, taVars
  <2> QED BY <1>1, <2>1, CommitsStay
<1> QED BY <1>2, <1>3, <1>4, <1>5, <1>6, <1>7, <1>8 DEF TaNext

\* The sums of the property are those of the invariant.
LEMMA StatisticsSuffice == StatInv => StatisticsExplainTheClock
<1> SUFFICES ASSUME StatInv, ~overlapped, AllCommitsDone
             PROVE  /\ SumOf(totals) = globalTime
                    /\ \A k \in Categories :
                         totals[k] = MapThenSumSet(LAMBDA o : rows[o][k], TimedThreads \cup {Collector})
  BY DEF StatisticsExplainTheClock
<1>1. \A a \in Actors : ~Busy(commit[a])
  BY DEF AllCommitsDone, Busy
<1>2. Logged = globalTime /\ ColumnsAddUp
  BY <1>1 DEF StatInv, StatisticsFit
<1>3. SumOf(totals) = Logged
  <2>1. DOMAIN totals = Categories
    BY DEF StatInv, StatisticsOK
  <2> QED BY <2>1 DEF SumOf, Logged, SumOver
<1>4. ASSUME NEW k \in Categories
      PROVE  SumOver(Column(k), RowOwners) = MapThenSumSet(LAMBDA o : rows[o][k], RowOwners)
  <2>1. PICK g : IsSum(g, Column(k), RowOwners)
    BY SumsExist, FiniteOwners
  <2> DEFINE Adds(h) == h = [s \in SUBSET RowOwners |->
                              IF s = {} THEN 0 ELSE rows[Taken(s)][k] + h[s \ {Taken(s)}]]
             G == CHOOSE h : Adds(h)
  <2>2. \A h : IsSum(h, Column(k), RowOwners) <=> Adds(h)
    <3>1. \A s \in SUBSET RowOwners : s # {} => Column(k)[Taken(s)] = rows[Taken(s)][k]
      BY DEF Taken, Column
    <3> QED BY <3>1 DEF IsSum, NextSum
  <2>3. IsSum(G, Column(k), RowOwners)
    <3> HIDE DEF Adds
    <3> QED BY <2>1, <2>2
  <2>4. MapThenSumSet(LAMBDA o : rows[o][k], RowOwners) = G[RowOwners]
    BY DEF MapThenSumSet, MapThenFoldSet, Taken
  <2>5. SumOver(Column(k), RowOwners) = G[RowOwners]
    <3> HIDE DEF G
    <3> QED BY <2>3, SumOverIs, FiniteOwners
  <2> QED BY <2>4, <2>5
<1> QED BY <1>2, <1>3, <1>4 DEF ColumnsAddUp, RowOwners

\* Whatever the threads, the scheduler and the collector do, no CPU time of
\* application code is lost to its thread and none is charged more than twice
\* (the entries and exits of VexThreadState, Timers), the estimated real time
\* of a thread that executes covers what it will commit, and as long as no two
\* commits overlapped, the statistics around the commits explain the global time,
\* per category and thread (VirtualTimelineController, TimeLogger).
THEOREM TimeStaysAccounted == TaSpec => []TimeIsAccounted
<1>1. TaInit => StatInv
  BY StatInitially
<1>2. StatInv /\ [TaNext]_taVars => StatInv'
  BY StatStep
<1>3. StatInv => TimeIsAccounted
  BY TimeSuffices, StatisticsSuffice DEF TimeIsAccounted, StatInv
<1> QED BY <1>1, <1>2, <1>3, PTL DEF TaSpec

-----------------------------------------------------------------------------
(***************************************************************************)
(* The monitors of the plain LockRegistry.                                 *)
(***************************************************************************)
InVexRequest == {"requesting", "blocking", "releasing", "handing"}

\* The strengthening of MutualExclusion that the steps preserve.
ListsHaveNoDuplicates ==
  \A l \in Locks : \A i, j \in 1 .. Len(blocked[l]) :
    blocked[l][i] = blocked[l][j] => i = j

UnregisteredIsFree == \A l \in Locks : l \notin registered => ~monitorLocked[l]

\* What each program point knows about the registry.
PointsKnow ==
  \A t \in Threads :
    /\ pc[t] \in InVexRequest => key[t] = t
    /\ pc[t] = "requesting" => t \notin owners[arg[t]]
    /\ pc[t] = "releasing" => t \in owners[arg[t]]
    /\ t \in runnable => pc[t] = "blocked" /\ t \in owners[arg[t]]
    /\ pc[t] = "handing" => next[t] \in Threads /\ next[t] \in owners[arg[next[t]]]

IndInv ==
  /\ TypeOK
  /\ MutualExclusion
  /\ LockedWhileOwned
  /\ BlockedListIsAccurate
  /\ HandOverTargetIsBlocked
  /\ ListsHaveNoDuplicates
  /\ UnregisteredIsFree
  /\ PointsKnow
-----------------------------------------------------------------------------
\* Before the first request nothing is owned and nobody is blocked.
LEMMA InitEstablishes == Init => IndInv
  BY NoThreadAssumption
     DEF Init, IndInv, TypeOK, MutualExclusion, LockedWhileOwned,
         BlockedListIsAccurate, InBlockedList, HandOverTargetIsBlocked,
         ListsHaveNoDuplicates, UnregisteredIsFree, PointsKnow, InVexRequest

\* What the last element of a blocked list and the list without it are.
LEMMA PopBack ==
  ASSUME NEW S, NEW s \in Seq(S), s # <<>>
  PROVE  /\ Len(s) \in Nat \ {0}
         /\ s[Len(s)] \in S
         /\ SubSeq(s, 1, Len(s) - 1) \in Seq(S)
         /\ Len(SubSeq(s, 1, Len(s) - 1)) = Len(s) - 1
         /\ \A i \in 1 .. (Len(s) - 1) : SubSeq(s, 1, Len(s) - 1)[i] = s[i]
  <1>1. Len(s) \in Nat \ {0}
    BY EmptySeq
  <1>2. \A i \in 1 .. Len(s) : s[i] \in S
    BY ElementOfSeq
  <1>3. Len(s) - 1 \in Int /\ 1 \in Int /\ \A i \in 1 .. (Len(s) - 1) : s[i] \in S
    BY <1>1, <1>2
  <1>4. /\ SubSeq(s, 1, Len(s) - 1) \in Seq(S)
        /\ Len(SubSeq(s, 1, Len(s) - 1)) =
             IF 1 <= (Len(s) - 1) THEN (Len(s) - 1) - 1 + 1 ELSE 0
        /\ \A i \in 1 .. ((Len(s) - 1) - 1 + 1) :
             SubSeq(s, 1, Len(s) - 1)[i] = s[1 + i - 1]
    BY <1>3, SubSeqProperties
  <1>5. Len(SubSeq(s, 1, Len(s) - 1)) = Len(s) - 1
    <2>1. \A n \in Nat \ {0}, k \in Int :
            k = (IF 1 <= (n - 1) THEN (n - 1) - 1 + 1 ELSE 0) => k = n - 1
      OBVIOUS
    <2>2. Len(SubSeq(s, 1, Len(s) - 1)) \in Int
      BY <1>4
    <2> QED BY <1>1, <1>4, <2>1, <2>2, Zenon
  <1>6. ASSUME NEW i \in 1 .. (Len(s) - 1)
        PROVE  SubSeq(s, 1, Len(s) - 1)[i] = s[i]
    <2>1. i \in 1 .. ((Len(s) - 1) - 1 + 1) /\ 1 + i - 1 = i
      BY <1>1
    <2> QED BY <1>4, <2>1
  <1>7. s[Len(s)] \in S
    BY <1>1, <1>2
  <1> QED BY <1>1, <1>4, <1>5, <1>6, <1>7

\* Entering onRequestingLock keeps the invariant.
LEMMA EnterRequestPreserves ==
  ASSUME ~reentrantLocking, IndInv, NEW t \in Threads, NEW l \in Locks, EnterRequest(t, l)
  PROVE  IndInv'
  <1> USE NoThreadAssumption DEF IndInv, info
  <1>9. \A x \in Threads, k \in Locks : InBlockedList(x, k)' <=> InBlockedList(x, k)
    BY DEF EnterRequest, InBlockedList
  <1>11. TypeOK'
    BY DEF EnterRequest, TypeOK
  <1>12. MutualExclusion'
    BY DEF EnterRequest, TypeOK, MutualExclusion
  <1>13. LockedWhileOwned'
    BY DEF EnterRequest, TypeOK, LockedWhileOwned
  <1>14. BlockedListIsAccurate'
    BY <1>9 DEF EnterRequest, TypeOK, BlockedListIsAccurate
  <1>15. HandOverTargetIsBlocked'
    BY DEF EnterRequest, TypeOK, HandOverTargetIsBlocked, PointsKnow, InVexRequest
  <1>16. ListsHaveNoDuplicates'
    BY DEF EnterRequest, TypeOK, ListsHaveNoDuplicates
  <1>17. UnregisteredIsFree'
    BY DEF EnterRequest, TypeOK, UnregisteredIsFree
  <1>18. PointsKnow'
    <2> SUFFICES ASSUME NEW x \in Threads
                 PROVE  /\ (pc[x] \in InVexRequest => key[x] = x)'
                        /\ (pc[x] = "requesting" => x \notin owners[arg[x]])'
                        /\ (pc[x] = "releasing" => x \in owners[arg[x]])'
                        /\ (x \in runnable => pc[x] = "blocked" /\ x \in owners[arg[x]])'
                        /\ (pc[x] = "handing" => next[x] \in Threads /\ next[x] \in owners[arg[next[x]]])'
      BY DEF PointsKnow
    <2>1. (pc[x] \in InVexRequest => key[x] = x)'
      BY DEF EnterRequest, TypeOK, PointsKnow, InVexRequest
    <2>2. (pc[x] = "requesting" => x \notin owners[arg[x]])'
      BY DEF EnterRequest, TypeOK, PointsKnow, InVexRequest
    <2>3. (pc[x] = "releasing" => x \in owners[arg[x]])'
      BY DEF EnterRequest, TypeOK, PointsKnow, InVexRequest
    <2>4. (x \in runnable => pc[x] = "blocked" /\ x \in owners[arg[x]])'
      BY DEF EnterRequest, TypeOK, PointsKnow, InVexRequest
    <2>5. (pc[x] = "handing" => next[x] \in Threads /\ next[x] \in owners[arg[next[x]]])'
      <3> SUFFICES ASSUME (pc[x] = "handing")'
                   PROVE  (next[x] \in Threads /\ next[x] \in owners[arg[next[x]]])'
        OBVIOUS
      <3>1. x # t /\ pc[x] = "handing" /\ next'[x] = next[x]
        BY DEF EnterRequest, TypeOK
      <3>2. /\ next[x] \in Threads /\ next[x] \in owners[arg[next[x]]]
            /\ pc[next[x]] \in {"blocking", "blocked"}
        BY <3>1 DEF PointsKnow, HandOverTargetIsBlocked
      <3> QED BY <3>1, <3>2 DEF EnterRequest, TypeOK
    <2> QED BY <2>1, <2>2, <2>3, <2>4, <2>5
  <1> QED BY <1>11, <1>12, <1>13, <1>14, <1>15, <1>16, <1>17, <1>18

\* Entering onReleasingLock keeps the invariant.
LEMMA EnterReleasePreserves ==
  ASSUME ~reentrantLocking, IndInv, NEW t \in Threads, NEW l \in Locks, EnterRelease(t, l)
  PROVE  IndInv'
  <1> USE NoThreadAssumption DEF IndInv, info
  <1>9. \A x \in Threads, k \in Locks : InBlockedList(x, k)' <=> InBlockedList(x, k)
    BY DEF EnterRelease, InBlockedList
  <1>11. TypeOK'
    BY DEF EnterRelease, TypeOK
  <1>12. MutualExclusion'
    BY DEF EnterRelease, TypeOK, MutualExclusion
  <1>13. LockedWhileOwned'
    BY DEF EnterRelease, TypeOK, LockedWhileOwned
  <1>14. BlockedListIsAccurate'
    BY <1>9 DEF EnterRelease, TypeOK, BlockedListIsAccurate
  <1>15. HandOverTargetIsBlocked'
    BY DEF EnterRelease, TypeOK, HandOverTargetIsBlocked, PointsKnow, InVexRequest
  <1>16. ListsHaveNoDuplicates'
    BY DEF EnterRelease, TypeOK, ListsHaveNoDuplicates
  <1>17. UnregisteredIsFree'
    BY DEF EnterRelease, TypeOK, UnregisteredIsFree
  <1>18. PointsKnow'
    BY DEF EnterRelease, TypeOK, PointsKnow, InVexRequest, HandOverTargetIsBlocked
  <1> QED BY <1>11, <1>12, <1>13, <1>14, <1>15, <1>16, <1>17, <1>18

\* A granted request keeps the invariant: the monitor was free, so nobody owned it.
LEMMA RequestGrantedPreserves ==
  ASSUME ~reentrantLocking, IndInv, NEW t \in Threads, RequestGranted(t)
  PROVE  IndInv'
  <1> USE NoThreadAssumption DEF IndInv, info
  <1>9. \A x \in Threads, k \in Locks : InBlockedList(x, k)' <=> InBlockedList(x, k)
    BY DEF RequestGranted, InBlockedList
  <1>1. /\ monitorLocked' = [monitorLocked EXCEPT ![arg[t]] = TRUE]
        /\ UNCHANGED <<owner, counter>>
        /\ ~monitorLocked[arg[t]]
    BY DEF RequestGranted, enterMonitor, Acquires, isMonitorFree, UnregisteredIsFree, TypeOK
  <1>2. owners[arg[t]] = {} /\ blocked[arg[t]] = <<>> /\ t \notin runnable
    BY <1>1 DEF LockedWhileOwned, TypeOK, PointsKnow, RequestGranted
  <1>11. TypeOK'
    BY <1>1, <1>2 DEF RequestGranted, TypeOK
  <1>12. MutualExclusion'
    BY <1>1, <1>2 DEF RequestGranted, TypeOK, MutualExclusion
  <1>13. LockedWhileOwned'
    BY <1>1, <1>2 DEF RequestGranted, TypeOK, LockedWhileOwned
  <1>14. BlockedListIsAccurate'
    <2>1. \A x \in Threads : ~InBlockedList(x, arg[t])
      BY <1>2, EmptySeq DEF InBlockedList
    <2> QED BY <1>1, <1>2, <1>9, <2>1 DEF RequestGranted, TypeOK, BlockedListIsAccurate
  <1>15. HandOverTargetIsBlocked'
    BY <1>1, <1>2 DEF RequestGranted, TypeOK, HandOverTargetIsBlocked, PointsKnow, InVexRequest
  <1>16. ListsHaveNoDuplicates'
    BY <1>1, <1>2 DEF RequestGranted, TypeOK, ListsHaveNoDuplicates
  <1>17. UnregisteredIsFree'
    BY <1>1, <1>2 DEF RequestGranted, TypeOK, UnregisteredIsFree
  <1>18. PointsKnow'
    BY <1>1, <1>2 DEF RequestGranted, TypeOK, PointsKnow, InVexRequest, HandOverTargetIsBlocked
  <1> QED BY <1>11, <1>12, <1>13, <1>14, <1>15, <1>16, <1>17, <1>18

\* A contended request keeps the invariant: the monitor is locked, hence owned, and the thread was in no list.
LEMMA RequestContendedPreserves ==
  ASSUME ~reentrantLocking, IndInv, NEW t \in Threads, RequestContended(t)
  PROVE  IndInv'
  <1> USE NoThreadAssumption DEF IndInv, info
  <1>1. /\ arg[t] \in Locks /\ monitorLocked[arg[t]]
        /\ blocked' = [blocked EXCEPT ![arg[t]] = Append(blocked[arg[t]], t)]
        /\ pc[t] = "requesting" /\ t \notin owners[arg[t]] /\ t \notin runnable
    BY DEF RequestContended, blockOnMonitor, Acquires, isMonitorFree, PointsKnow, TypeOK
  <1>2. \A l \in Locks : ~InBlockedList(t, l)
    BY <1>1 DEF BlockedListIsAccurate, TypeOK
  <1>3. /\ blocked' \in [Locks -> Seq(Threads)]
        /\ \A l \in Locks \ {arg[t]} : blocked'[l] = blocked[l]
        /\ Len(blocked'[arg[t]]) = Len(blocked[arg[t]]) + 1
        /\ blocked'[arg[t]][Len(blocked[arg[t]]) + 1] = t
        /\ \A i \in 1 .. Len(blocked[arg[t]]) : blocked'[arg[t]][i] = blocked[arg[t]][i]
        /\ Len(blocked[arg[t]]) \in Nat
    BY <1>1 DEF TypeOK
  <1>4. \A x \in Threads, k \in Locks :
          InBlockedList(x, k)' => InBlockedList(x, k) \/ (x = t /\ k = arg[t])
    BY <1>1, <1>3 DEF InBlockedList
  <1>5. \A i \in 1 .. Len(blocked[arg[t]]) : blocked[arg[t]][i] # t
    BY <1>1, <1>2 DEF InBlockedList
  <1>11. TypeOK'
    BY <1>1, <1>3, <1>4, <1>5 DEF RequestContended, TypeOK
  <1>12. MutualExclusion'
    BY <1>1, <1>3, <1>4, <1>5 DEF RequestContended, TypeOK, MutualExclusion
  <1>13. LockedWhileOwned'
    BY <1>1, <1>3, <1>4, <1>5 DEF RequestContended, TypeOK, LockedWhileOwned
  <1>14. BlockedListIsAccurate'
    BY <1>1, <1>3, <1>4, <1>5 DEF RequestContended, TypeOK, BlockedListIsAccurate
  <1>15. HandOverTargetIsBlocked'
    BY <1>1, <1>3, <1>4, <1>5 DEF RequestContended, TypeOK, HandOverTargetIsBlocked, PointsKnow, InVexRequest
  <1>16. ListsHaveNoDuplicates'
    BY SMTT(30), <1>1, <1>3, <1>4, <1>5 DEF RequestContended, TypeOK, ListsHaveNoDuplicates
  <1>17. UnregisteredIsFree'
    BY <1>1, <1>3, <1>4, <1>5 DEF RequestContended, TypeOK, UnregisteredIsFree
  <1>18. PointsKnow'
    BY <1>1, <1>3, <1>4, <1>5 DEF RequestContended, TypeOK, PointsKnow, InVexRequest, HandOverTargetIsBlocked
  <1> QED BY <1>11, <1>12, <1>13, <1>14, <1>15, <1>16, <1>17, <1>18

\* Going to sleep keeps the invariant.
LEMMA BlockPreserves ==
  ASSUME ~reentrantLocking, IndInv, NEW t \in Threads, Block(t)
  PROVE  IndInv'
  <1> USE NoThreadAssumption DEF IndInv, info
  <1>9. \A x \in Threads, k \in Locks : InBlockedList(x, k)' <=> InBlockedList(x, k)
    BY DEF Block, InBlockedList
  <1>11. TypeOK'
    BY DEF Block, TypeOK
  <1>12. MutualExclusion'
    BY DEF Block, TypeOK, MutualExclusion
  <1>13. LockedWhileOwned'
    BY DEF Block, TypeOK, LockedWhileOwned
  <1>14. BlockedListIsAccurate'
    BY <1>9 DEF Block, TypeOK, BlockedListIsAccurate
  <1>15. HandOverTargetIsBlocked'
    BY DEF Block, TypeOK, HandOverTargetIsBlocked, PointsKnow, InVexRequest
  <1>16. ListsHaveNoDuplicates'
    BY DEF Block, TypeOK, ListsHaveNoDuplicates
  <1>17. UnregisteredIsFree'
    BY DEF Block, TypeOK, UnregisteredIsFree
  <1>18. PointsKnow'
    BY DEF Block, TypeOK, PointsKnow, InVexRequest, HandOverTargetIsBlocked
  <1> QED BY <1>11, <1>12, <1>13, <1>14, <1>15, <1>16, <1>17, <1>18

\* Taking a thread from the queue keeps the invariant: only an owner is in the runnable queue.
LEMMA continueThreadPreserves ==
  ASSUME ~reentrantLocking, IndInv, NEW t \in Threads, continueThread(t)
  PROVE  IndInv'
  <1> USE NoThreadAssumption DEF IndInv, info
  <1>9. \A x \in Threads, k \in Locks : InBlockedList(x, k)' <=> InBlockedList(x, k)
    BY DEF continueThread, InBlockedList
  <1>1. /\ t \in runnable
        /\ \/ UNCHANGED <<pc, runnable>>
           \/ /\ pc' = [pc EXCEPT ![t] = "running"]
              /\ runnable' = runnable \ {t}
        /\ UNCHANGED <<blocked, arg, next, owners>>
    BY DEF continueThread
  <1>2. \A l \in Locks : ~InBlockedList(t, l)
    BY <1>1 DEF BlockedListIsAccurate
  <1>3. \A x \in Threads : pc[x] = "handing" => next[x] # t
    BY <1>1 DEF HandOverTargetIsBlocked
  <1>11. TypeOK'
    BY <1>1, <1>2, <1>3 DEF continueThread, TypeOK
  <1>12. MutualExclusion'
    BY <1>1, <1>2, <1>3 DEF continueThread, TypeOK, MutualExclusion
  <1>13. LockedWhileOwned'
    BY <1>1, <1>2, <1>3 DEF continueThread, TypeOK, LockedWhileOwned
  <1>14. BlockedListIsAccurate'
    BY <1>1, <1>2, <1>9 DEF BlockedListIsAccurate, TypeOK
  <1>15. HandOverTargetIsBlocked'
    BY <1>1, <1>3 DEF HandOverTargetIsBlocked, PointsKnow, TypeOK
  <1>16. ListsHaveNoDuplicates'
    BY <1>1, <1>2, <1>3 DEF continueThread, TypeOK, ListsHaveNoDuplicates
  <1>17. UnregisteredIsFree'
    BY <1>1, <1>2, <1>3 DEF continueThread, TypeOK, UnregisteredIsFree
  <1>18. PointsKnow'
    BY <1>1, <1>2, <1>3 DEF continueThread, TypeOK, PointsKnow, InVexRequest, HandOverTargetIsBlocked
  <1> QED BY <1>11, <1>12, <1>13, <1>14, <1>15, <1>16, <1>17, <1>18

\* A timeslice keeps the invariant.
LEMMA TimeslicePreserves ==
  ASSUME ~reentrantLocking, IndInv, NEW t \in Threads, Timeslice(t)
  PROVE  IndInv'
  <1> USE NoThreadAssumption DEF IndInv, info
  <1>9. \A x \in Threads, k \in Locks : InBlockedList(x, k)' <=> InBlockedList(x, k)
    BY DEF Timeslice, InBlockedList
  <1>11. TypeOK'
    BY DEF Timeslice, TypeOK
  <1>12. MutualExclusion'
    BY DEF Timeslice, TypeOK, MutualExclusion
  <1>13. LockedWhileOwned'
    BY DEF Timeslice, TypeOK, LockedWhileOwned
  <1>14. BlockedListIsAccurate'
    BY <1>9 DEF Timeslice, TypeOK, BlockedListIsAccurate
  <1>15. HandOverTargetIsBlocked'
    BY DEF Timeslice, TypeOK, HandOverTargetIsBlocked, PointsKnow, InVexRequest
  <1>16. ListsHaveNoDuplicates'
    BY DEF Timeslice, TypeOK, ListsHaveNoDuplicates
  <1>17. UnregisteredIsFree'
    BY DEF Timeslice, TypeOK, UnregisteredIsFree
  <1>18. PointsKnow'
    BY DEF Timeslice, TypeOK, PointsKnow, InVexRequest, HandOverTargetIsBlocked
  <1> QED BY <1>11, <1>12, <1>13, <1>14, <1>15, <1>16, <1>17, <1>18

\* A release with nobody blocked keeps the invariant.
LEMMA ReleaseUncontendedPreserves ==
  ASSUME ~reentrantLocking, IndInv, NEW t \in Threads, ReleaseUncontended(t)
  PROVE  IndInv'
  <1> USE NoThreadAssumption DEF IndInv, info
  <1>9. \A x \in Threads, k \in Locks : InBlockedList(x, k)' <=> InBlockedList(x, k)
    BY DEF ReleaseUncontended, InBlockedList
  <1>1. /\ monitorLocked' = [monitorLocked EXCEPT ![arg[t]] = FALSE]
        /\ UNCHANGED <<owner, counter, blocked>>
        /\ blocked[arg[t]] = <<>> /\ arg[t] \in Locks /\ pc[t] = "releasing"
        /\ owners' = [owners EXCEPT ![arg[t]] = owners[arg[t]] \ {t}]
    BY DEF ReleaseUncontended, releaseMonitor, Relinquishes, TypeOK
  <1>3. owners[arg[t]] = {t} /\ t \notin runnable
    BY <1>1 DEF PointsKnow, MutualExclusion, TypeOK
  <1>11. TypeOK'
    BY <1>1, <1>3 DEF ReleaseUncontended, TypeOK
  <1>12. MutualExclusion'
    BY <1>1, <1>3 DEF ReleaseUncontended, TypeOK, MutualExclusion
  <1>13. LockedWhileOwned'
    BY <1>1, <1>3 DEF ReleaseUncontended, TypeOK, LockedWhileOwned
  <1>14. BlockedListIsAccurate'
    BY <1>1, <1>3, <1>9 DEF ReleaseUncontended, TypeOK, BlockedListIsAccurate
  <1>15. HandOverTargetIsBlocked'
    BY <1>1, <1>3 DEF ReleaseUncontended, TypeOK, HandOverTargetIsBlocked, PointsKnow, InVexRequest
  <1>16. ListsHaveNoDuplicates'
    BY <1>1, <1>3 DEF ReleaseUncontended, TypeOK, ListsHaveNoDuplicates
  <1>17. UnregisteredIsFree'
    BY <1>1, <1>3 DEF ReleaseUncontended, TypeOK, UnregisteredIsFree
  <1>18. PointsKnow'
    <2> SUFFICES ASSUME NEW x \in Threads
                 PROVE  /\ (pc[x] \in InVexRequest => key[x] = x)'
                        /\ (pc[x] = "requesting" => x \notin owners[arg[x]])'
                        /\ (pc[x] = "releasing" => x \in owners[arg[x]])'
                        /\ (x \in runnable => pc[x] = "blocked" /\ x \in owners[arg[x]])'
                        /\ (pc[x] = "handing" => next[x] \in Threads /\ next[x] \in owners[arg[next[x]]])'
      BY DEF PointsKnow
    <2>1. (pc[x] \in InVexRequest => key[x] = x)'
      BY <1>1, <1>3 DEF ReleaseUncontended, TypeOK, PointsKnow, InVexRequest, MutualExclusion
    <2>2. (pc[x] = "requesting" => x \notin owners[arg[x]])'
      BY <1>1, <1>3 DEF ReleaseUncontended, TypeOK, PointsKnow, InVexRequest, MutualExclusion
    <2>3. (pc[x] = "releasing" => x \in owners[arg[x]])'
      BY <1>1, <1>3 DEF ReleaseUncontended, TypeOK, PointsKnow, InVexRequest, MutualExclusion
    <2>4. (x \in runnable => pc[x] = "blocked" /\ x \in owners[arg[x]])'
      BY <1>1, <1>3 DEF ReleaseUncontended, TypeOK, PointsKnow, InVexRequest, MutualExclusion
    <2>5. (pc[x] = "handing" => next[x] \in Threads /\ next[x] \in owners[arg[next[x]]])'
      <3> SUFFICES ASSUME (pc[x] = "handing")'
                   PROVE  (next[x] \in Threads /\ next[x] \in owners[arg[next[x]]])'
        OBVIOUS
      <3>1. x # t /\ pc[x] = "handing" /\ next'[x] = next[x]
        BY DEF ReleaseUncontended, TypeOK
      <3>2. /\ next[x] \in Threads /\ next[x] \in owners[arg[next[x]]]
            /\ pc[next[x]] \in {"blocking", "blocked"}
        BY <3>1 DEF PointsKnow, HandOverTargetIsBlocked
      <3> QED BY <1>1, <1>3, <3>1, <3>2 DEF ReleaseUncontended, TypeOK
    <2> QED BY <2>1, <2>2, <2>3, <2>4, <2>5
  <1> QED BY <1>11, <1>12, <1>13, <1>14, <1>15, <1>16, <1>17, <1>18

\* Handing the monitor over keeps the invariant: the next owner was blocked on this very monitor, and the flag stays set.
LEMMA ReleaseToNextPreserves ==
  ASSUME ~reentrantLocking, IndInv, NEW t \in Threads, ReleaseToNext(t)
  PROVE  IndInv'
  <1> USE NoThreadAssumption DEF IndInv, info
  <1> DEFINE list == blocked[arg[t]]
             u    == list[Len(list)]
             rest == SubSeq(list, 1, Len(list) - 1)
  <1>1. /\ arg[t] \in Locks /\ list # <<>> /\ list \in Seq(Threads) /\ pc[t] = "releasing"
        /\ blocked' = [blocked EXCEPT ![arg[t]] = rest]
        /\ UNCHANGED <<registered, monitorLocked, owner, counter, key, arg, timeout, timedOut, runnable>>
        /\ next' = [next EXCEPT ![t] = u]
        /\ pc' = [pc EXCEPT ![t] = "handing"]
        /\ owners' = [owners EXCEPT ![arg[t]] = (owners[arg[t]] \ {t}) \cup {u}]
    BY DEF ReleaseToNext, handMonitorOver, popBlocked, LastBlocked, TypeOK
  <1>2. /\ Len(list) \in Nat \ {0} /\ u \in Threads
        /\ rest \in Seq(Threads) /\ Len(rest) = Len(list) - 1
        /\ \A i \in 1 .. (Len(list) - 1) : rest[i] = list[i]
    BY <1>1, PopBack, Zenon
  <1>3. InBlockedList(u, arg[t])
    BY <1>2 DEF InBlockedList
  <1>4. /\ pc[u] \in {"blocking", "blocked"} /\ arg[u] = arg[t]
        /\ u \notin owners[arg[t]] /\ u \notin runnable
        /\ \A l \in Locks : InBlockedList(u, l) => l = arg[t]
    BY <1>1, <1>2, <1>3 DEF BlockedListIsAccurate
  <1>5. owners[arg[t]] = {t} /\ t \notin runnable /\ t # u /\ monitorLocked[arg[t]]
    BY <1>1, <1>4 DEF PointsKnow, MutualExclusion, TypeOK, LockedWhileOwned
  <1>6. /\ owners' = [owners EXCEPT ![arg[t]] = {u}]
        /\ \A l \in Locks : owners'[l] = IF l = arg[t] THEN {u} ELSE owners[l]
    BY <1>1, <1>2, <1>5 DEF TypeOK
  <1>7. /\ \A l \in Locks : blocked'[l] = IF l = arg[t] THEN rest ELSE blocked[l]
        /\ blocked' \in [Locks -> Seq(Threads)]
    BY <1>1, <1>2 DEF TypeOK
  <1>8. \A i \in 1 .. Len(rest) : rest[i] # u
    <2> SUFFICES ASSUME NEW i \in 1 .. Len(rest), rest[i] = u PROVE FALSE
      OBVIOUS
    <2>1. i \in 1 .. Len(list) /\ Len(list) \in 1 .. Len(list) /\ i # Len(list)
      BY <1>2
    <2>2. list[i] = list[Len(list)]
      BY <1>2
    <2> QED BY <1>1, <2>1, <2>2 DEF ListsHaveNoDuplicates
  <1>9. \A x \in Threads, l \in Locks :
          InBlockedList(x, l)' => InBlockedList(x, l) /\ x # u
    <2> SUFFICES ASSUME NEW x \in Threads, NEW l \in Locks, InBlockedList(x, l)'
                 PROVE  InBlockedList(x, l) /\ x # u
      OBVIOUS
    <2>1. CASE l = arg[t]
      <3>1. PICK i \in 1 .. Len(rest) : rest[i] = x
        BY <2>1, <1>7 DEF InBlockedList
      <3>2. i \in 1 .. Len(list) /\ list[i] = x
        BY <1>2, <3>1
      <3> QED BY <2>1, <1>8, <3>1, <3>2 DEF InBlockedList
    <2>2. CASE l # arg[t]
      BY <2>2, <1>4, <1>7 DEF InBlockedList
    <2> QED BY <2>1, <2>2
  <1>10. \A i, j \in 1 .. Len(rest) : rest[i] = rest[j] => i = j
    <2>1. \A i, j \in 1 .. Len(list) : list[i] = list[j] => i = j
      BY <1>1 DEF ListsHaveNoDuplicates
    <2>2. \A i \in 1 .. Len(rest) : i \in 1 .. Len(list) /\ rest[i] = list[i]
      BY <1>2
    <2> HIDE DEF list, rest
    <2> QED BY <2>1, <2>2
  <1> HIDE DEF list, u, rest
  <1>11. TypeOK'
    BY SMTT(30), <1>1, <1>2, <1>4, <1>5, <1>6, <1>7, <1>10 DEF TypeOK
  <1>12. MutualExclusion'
    BY SMTT(30), <1>1, <1>2, <1>4, <1>5, <1>6, <1>7, <1>10 DEF TypeOK, MutualExclusion
  <1>13. LockedWhileOwned'
    BY <1>1, <1>2, <1>5, <1>6, <1>7 DEF LockedWhileOwned
  <1>14. BlockedListIsAccurate'
    BY <1>1, <1>4, <1>5, <1>6, <1>9 DEF BlockedListIsAccurate, TypeOK
  <1>15. HandOverTargetIsBlocked'
    <2>1. \A x \in Threads : pc[x] = "handing" => next[x] # u
      BY <1>2, <1>4 DEF PointsKnow, TypeOK
    <2> SUFFICES ASSUME NEW x \in Threads, pc'[x] = "handing"
                 PROVE  /\ pc'[next'[x]] \in {"blocking", "blocked"}
                        /\ next'[x] \notin runnable'
                        /\ \A y \in Threads \ {x} : pc'[y] = "handing" => next'[y] # next'[x]
      BY DEF HandOverTargetIsBlocked
    <2>2. CASE x = t
      BY <1>1, <1>2, <1>4, <1>5, <2>1, <2>2 DEF TypeOK
    <2>3. CASE x # t
      <3>1. /\ pc[x] = "handing" /\ next'[x] = next[x] /\ next[x] \in Threads
            /\ pc[next[x]] \in {"blocking", "blocked"} /\ next[x] \notin runnable
        BY <1>1, <2>3 DEF HandOverTargetIsBlocked, PointsKnow, TypeOK
      <3>2. pc'[next[x]] = pc[next[x]] /\ next[x] # u
        BY <1>1, <2>1, <3>1 DEF TypeOK
      <3>3. ASSUME NEW y \in Threads \ {x}, pc'[y] = "handing" PROVE next'[y] # next'[x]
        BY <1>1, <3>1, <3>2, <3>3 DEF HandOverTargetIsBlocked, TypeOK
      <3> QED BY <1>1, <3>1, <3>2, <3>3
    <2> QED BY <2>2, <2>3
  <1>16. ListsHaveNoDuplicates'
    BY <1>7, <1>10 DEF ListsHaveNoDuplicates
  <1>17. UnregisteredIsFree'
    BY <1>1, <1>2, <1>4, <1>5, <1>6, <1>7, <1>10 DEF TypeOK, UnregisteredIsFree
  <1>18. PointsKnow'
    <2> SUFFICES ASSUME NEW x \in Threads
                 PROVE  /\ (pc[x] \in InVexRequest => key[x] = x)'
                        /\ (pc[x] = "requesting" => x \notin owners[arg[x]])'
                        /\ (pc[x] = "releasing" => x \in owners[arg[x]])'
                        /\ (x \in runnable => pc[x] = "blocked" /\ x \in owners[arg[x]])'
                        /\ (pc[x] = "handing" => next[x] \in Threads /\ next[x] \in owners[arg[next[x]]])'
      BY DEF PointsKnow
    <2>1. (pc[x] \in InVexRequest => key[x] = x)'
      BY <1>1, <1>2, <1>4, <1>5, <1>6 DEF TypeOK, PointsKnow, InVexRequest
    <2>2. (pc[x] = "requesting" => x \notin owners[arg[x]])'
      BY SMTT(30), <1>1, <1>2, <1>4, <1>5, <1>6 DEF TypeOK, PointsKnow, InVexRequest
    <2>3. (pc[x] = "releasing" => x \in owners[arg[x]])'
      BY <1>1, <1>2, <1>4, <1>5, <1>6 DEF TypeOK, PointsKnow, InVexRequest
    <2>4. (x \in runnable => pc[x] = "blocked" /\ x \in owners[arg[x]])'
      <3> SUFFICES ASSUME x \in runnable PROVE pc'[x] = "blocked" /\ x \in owners'[arg[x]]
        BY <1>1
      <3>1. pc[x] = "blocked" /\ x \in owners[arg[x]] /\ x # t /\ arg[x] \in Locks
        BY <1>1 DEF PointsKnow, TypeOK
      <3>2. arg[x] # arg[t]
        BY <1>5, <3>1
      <3> QED BY <1>1, <1>6, <3>1, <3>2 DEF TypeOK
    <2>5. (pc[x] = "handing" => next[x] \in Threads /\ next[x] \in owners[arg[next[x]]])'
      <3>1. CASE x = t
        BY <1>1, <1>2, <1>4, <1>6, <3>1 DEF TypeOK
      <3>2. CASE x # t /\ pc[x] = "handing"
        <4>1. /\ next[x] \in Threads /\ next[x] \in owners[arg[next[x]]]
              /\ pc[next[x]] \in {"blocking", "blocked"}
          BY <3>2 DEF PointsKnow, HandOverTargetIsBlocked
        <4>2. next'[x] = next[x] /\ arg[next[x]] \in Locks
          BY <1>1, <3>2, <4>1 DEF TypeOK
        <4>3. arg[next[x]] # arg[t]
          BY <1>1, <1>5, <4>1
        <4> QED BY <1>1, <1>6, <4>1, <4>2, <4>3
      <3>3. CASE x # t /\ pc[x] # "handing"
        BY <1>1, <3>3 DEF TypeOK
      <3> QED BY <3>1, <3>2, <3>3
    <2> QED BY <2>1, <2>2, <2>3, <2>4, <2>5
  <1> QED BY <1>11, <1>12, <1>13, <1>14, <1>15, <1>16, <1>17, <1>18

\* Interrupting the next owner keeps the invariant: it is asleep and in no list.
LEMMA HandOverPreserves ==
  ASSUME ~reentrantLocking, IndInv, NEW t \in Threads, HandOver(t)
  PROVE  IndInv'
  <1> USE NoThreadAssumption DEF IndInv, info
  <1>9. \A x \in Threads, k \in Locks : InBlockedList(x, k)' <=> InBlockedList(x, k)
    BY DEF HandOver, InBlockedList
  <1>1. /\ next[t] \in Threads /\ next[t] \notin runnable
        /\ runnable' = runnable \/ runnable' = runnable \cup {next[t]}
        /\ pc[next[t]] = "blocked" /\ next[t] # t
        /\ next[t] \in owners[arg[next[t]]]
    BY DEF HandOver, onAnyReplacedWaitingInterrupt, PointsKnow, HandOverTargetIsBlocked, TypeOK, InVexRequest
  <1>2. timeout' \in [Threads -> Int] /\ timedOut' \in [Threads -> BOOLEAN]
    BY <1>1 DEF HandOver, onAnyReplacedWaitingInterrupt, TypeOK
  <1>3. \A l \in Locks : ~InBlockedList(next[t], l)
    BY <1>1 DEF BlockedListIsAccurate, TypeOK
  <1>11. TypeOK'
    BY <1>1, <1>2, <1>3 DEF HandOver, TypeOK
  <1>12. MutualExclusion'
    BY <1>1, <1>2, <1>3 DEF HandOver, TypeOK, MutualExclusion
  <1>13. LockedWhileOwned'
    BY <1>1, <1>2, <1>3 DEF HandOver, TypeOK, LockedWhileOwned
  <1>14. BlockedListIsAccurate'
    BY <1>1, <1>2, <1>3, <1>9 DEF HandOver, TypeOK, BlockedListIsAccurate
  <1>15. HandOverTargetIsBlocked'
    BY SMTT(30), <1>1, <1>2, <1>3 DEF HandOver, TypeOK, HandOverTargetIsBlocked, PointsKnow, InVexRequest
  <1>16. ListsHaveNoDuplicates'
    BY <1>1, <1>2, <1>3 DEF HandOver, TypeOK, ListsHaveNoDuplicates
  <1>17. UnregisteredIsFree'
    BY <1>1, <1>2, <1>3 DEF HandOver, TypeOK, UnregisteredIsFree
  <1>18. PointsKnow'
    BY SMTT(30), <1>1, <1>2, <1>3 DEF HandOver, TypeOK, PointsKnow, InVexRequest, HandOverTargetIsBlocked
  <1> QED BY <1>11, <1>12, <1>13, <1>14, <1>15, <1>16, <1>17, <1>18

\* Every step of the plain registry keeps the invariant.
LEMMA NextPreserves ==
  ASSUME ~reentrantLocking, IndInv, [Next]_vars
  PROVE  IndInv'
  <1>1. CASE UNCHANGED vars
    BY <1>1 DEF vars, IndInv, TypeOK, MutualExclusion, LockedWhileOwned,
                BlockedListIsAccurate, InBlockedList, HandOverTargetIsBlocked,
                ListsHaveNoDuplicates, UnregisteredIsFree, PointsKnow
  <1>2. CASE Next
    BY <1>2, EnterRequestPreserves, EnterReleasePreserves, RequestGrantedPreserves,
       RequestContendedPreserves, BlockPreserves, continueThreadPreserves, TimeslicePreserves,
       ReleaseUncontendedPreserves, ReleaseToNextPreserves, HandOverPreserves, Zenon
       DEF Next
  <1> QED BY <1>1, <1>2

\* The plain LockRegistry never lets two threads own one monitor
\* (tryAcquiringLock, releaseAndGetNext), keeps its flag and its lists in step
\* with that owner, and names as next owner only a thread still blocked on it.
THEOREM LockRegistryIsSafe ==
  ASSUME ~reentrantLocking
  PROVE  Spec => []MonitorsAreExclusive
  <1>1. Init => IndInv
    BY InitEstablishes
  <1>2. IndInv /\ [Next]_vars => IndInv'
    BY NextPreserves
  <1>3. IndInv => MonitorsAreExclusive
    BY DEF IndInv, MonitorsAreExclusive
  <1> QED BY <1>1, <1>2, <1>3, PTL DEF Spec
=============================================================================
