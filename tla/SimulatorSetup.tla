--------------------------- MODULE SimulatorSetup ---------------------------
(* How the options of a simulation become its environment (VTF.cpp): the    *)
(* options are taken in order, each may be refused; setup then repairs      *)
(* combinations that do not go together, creates the timeline, the I/O      *)
(* simulator and one manager per virtual core, and starts a scheduler       *)
(* thread for each as soon as it is created, while setup goes on.           *)
(* The JVM agent reads its own flags from the same text afterwards          *)
(* (JVMTIUtil.cpp).                                                         *)
EXTENDS IoParameters

CONSTANTS MaxOptions,   \* bound: options given
          HostCores     \* processors in /proc/cpuinfo

ASSUME SetupAssumption == {MaxOptions, MaxTokens, HostCores} \subseteq Nat \ {0}

IoCategories == {"rts_block_io", "rts_char_io", "rts_syscalls"}

\* Parameters of a category, and two files of them, one with a wrong line.
SerialIo == <<Option("io", "serial"), Option("iolevel", "global")>>
FilteredIo == <<Option("ioexclude", 0), Option("iobuffer", 64), Option("io", "strict"),
                Option("iolevel", "none")>>
FileLines == {<<Option("rts_block_io", SerialIo), Option("rts_char_io", FilteredIo),
                Option("rts_syscalls", <<>>)>>,
              <<Option("rts_char_io", SerialIo), Option("rts_io", SerialIo)>>}

\* The options told apart: name and value, the value "" where none is given.
Options ==
  {Option("cpus", n) : n \in 0..2}
  \cup {Option(a, 1) : a \in {"no_scheduling", "spex", "stack_trace_mode", "poll_nw",
                             "no_gc_time", "no_jvmti"}}
  \cup {Option("output_format", v) : v \in {1, 2}}   \* hprof, not a format
  \cup {Option("time_stats", v) : v \in {0, 3}}      \* other, samples
  \cup {Option("timeslot", v) : v \in {0, 10, 20000}}
  \cup {Option("client", 9000), Option("server", 0), Option("server", 9000)}
  \cup {Option("rts_block_io", FilteredIo)} \cup {Option("rts_file", f) : f \in FileLines}
  \cup {Option("io", v) : v \in {"lax", "other"}}
  \cup {Option("iopred", "other"), Option("iolevel", "ioop"), Option("iobuffer", 0)}
  \cup {Option("ioexclude", 50), Option("iomodel", "disk"), Option("iostats", "all")}

VARIABLES given,      \* the options of the command line
          stage,      \* how far initializeSimulator has come
          seen,       \* options parsed so far
          config,     \* the global variables of VTF.cpp
          timeline,   \* the kind of virtualTimeline
          simulators, \* how many I/O simulators were created; the last is in use
          ioSimulator, \* that one, with what it is built from
          managers,   \* the managers registered, in order
          schedulers, \* what every scheduler thread took as its time slot, 0 before it runs
          jine,       \* the flags of the JVM agent that are set
          agent       \* the JVMTI capabilities, callbacks and events it asked for

suVars == <<given, stage, seen, config, timeline, simulators, ioSimulator, managers,
            schedulers, jine, agent>>

\* setDefaultValues.
setDefaultValues ==
  [cpus |-> 1, scheduling |-> TRUE, strict |-> FALSE, hprof |-> FALSE, stackTraces |-> FALSE,
   timeStats |-> 0, timeslot |-> 100000000, host |-> FALSE, port |-> 0, server |-> FALSE,
   polling |-> FALSE, combined |-> FALSE, printGlobal |-> FALSE, printLocal |-> FALSE,
   globalIo |-> setIoDefaults, rts |-> [c \in {} |-> setIoDefaults]]

SuInit ==
  /\ given \in UNION {[1..n -> Options] : n \in 0..MaxOptions}
  /\ stage = "parse" /\ seen = 0
  /\ config = setDefaultValues
  /\ timeline = "none" /\ simulators = 0 /\ ioSimulator = [kind |-> "none"]
  /\ managers = <<>> /\ schedulers = <<>>
  /\ jine = {} /\ agent = [caps |-> {}, callbacks |-> {}, events |-> {}]

(***************************************************************************)
(* Options                                                                 *)
(***************************************************************************)
\* Below 10000 the value is in milliseconds.
SlotOf(v) == IF v < 10000 THEN v * 1000000 ELSE v

\* printTimeBuffers is a bool: whatever aggregation is asked for is stored as 1.
parseTimeStats(v, c) == [c EXCEPT !.timeStats = IF v = 0 THEN @ ELSE 1]

parseClientOptions(v, c) == [c EXCEPT !.host = TRUE, !.port = v]

\* The parameters of a category replace those it had.
SetCategory(rts, line) ==
  [c \in DOMAIN rts \cup {line.attr} |->
     IF c = line.attr THEN IoParametersFrom(line.value) ELSE rts[c]]

\* The lines of a file are taken until one names no category.
GoodLines(lines) ==
  LET good == {n \in 0..Len(lines) : \A i \in 1..n : lines[i].attr \in IoCategories}
  IN SubSeq(lines, 1, CHOOSE n \in good : \A m \in good : m <= n)

\* One category of I/O at a time, or the three of them from a file.
parseRTS(o, c) ==
  [c EXCEPT !.rts = FoldLeft(SetCategory, @,
                             IF o.attr = "rts_file" THEN GoodLines(o.value) ELSE <<o>>)]

\* Statistics of all I/O together, of each predictor, or of both.
parseIoStats(v, c) ==
  [c EXCEPT !.printGlobal = (@ \/ v \in {"all", "global"}),
            !.printLocal = (@ \/ v \in {"all", "invpoint"})]

\* What an option changes; an unknown one changes nothing.
setValue(o, c) ==
  CASE o.attr = "cpus" -> [c EXCEPT !.cpus = o.value]
    [] o.attr = "no_scheduling" -> [c EXCEPT !.scheduling = FALSE]
    [] o.attr = "spex" -> [c EXCEPT !.strict = TRUE]
    [] o.attr = "stack_trace_mode" -> [c EXCEPT !.stackTraces = TRUE]
    [] o.attr = "poll_nw" -> [c EXCEPT !.polling = TRUE]
    [] o.attr = "output_format" -> [c EXCEPT !.hprof = (@ \/ o.value = 1)]
    [] o.attr = "time_stats" -> parseTimeStats(o.value, c)
    [] o.attr = "timeslot" -> [c EXCEPT !.timeslot = SlotOf(o.value)]
    [] o.attr = "client" -> parseClientOptions(o.value, c)
    [] o.attr = "server" -> [parseClientOptions(o.value, c) EXCEPT !.server = TRUE]
    [] o.attr \in IoCategories \cup {"rts_file"} -> parseRTS(o, c)
    [] o.attr = "iostats" -> parseIoStats(o.value, c)
    [] o.attr \in IoAttributes -> [c EXCEPT !.globalIo = setIoValue(@, o)]
    [] OTHER -> c

\* What setValue returns. Bad time statistics are ignored, bad formats are not.
Accepted(o) ==
  /\ o.attr = "cpus" => o.value > 0
  /\ o.attr = "timeslot" => SlotOf(o.value) > 0
  /\ o.attr = "output_format" => o.value = 1
  /\ o.attr \in IoAttributes => IoAccepted(o)
  /\ o.attr = "iostats" => o.value \in {"all", "global", "invpoint", "none"}
  /\ o.attr = "rts_file" => \A i \in DOMAIN o.value : o.value[i].attr \in IoCategories

\* parseVtfOptions splits the text first.
Tokens == Pieces(given)

parseOption ==
  /\ stage = "parse" /\ seen < Tokens
  /\ seen' = seen + 1
  /\ config' = setValue(given[seen'], config)
  /\ stage' = IF Accepted(given[seen']) THEN "parse" ELSE "refused"
  /\ UNCHANGED <<given, timeline, simulators, ioSimulator, managers, schedulers, jine, agent>>

(***************************************************************************)
(* setupSimulationEnvironment                                              *)
(***************************************************************************)
\* Mutant: the combination is reported and kept.
Repaired_Kept(c) == [c EXCEPT !.combined = (@ \/ 8 * HostCores <= c.cpus)]

\* Combinations that do not go together are reported and repaired.
Repaired(c) ==
  [c EXCEPT !.scheduling = (@ \/ c.cpus > 1),
            !.stackTraces = (@ /\ ~c.hprof),
            !.combined = (@ \/ 8 * HostCores <= c.cpus)]

selectVirtualTime(c) ==
  IF c.cpus = 1 THEN "single" ELSE IF c.strict THEN "disabling" ELSE "multicore"

usingRealTimeSimulationByCategories(c) == DOMAIN c.rts = IoCategories

\* The parameters know where their simulators are to log.
Logging(c) ==
  IF usingRealTimeSimulationByCategories(c)
  THEN [c EXCEPT !.rts = [k \in IoCategories |->
                            setLoggingBehaviour(@[k], c.printGlobal, c.printLocal)]]
  ELSE [c EXCEPT !.globalIo = setLoggingBehaviour(@, c.printGlobal, c.printLocal)]

\* One simulator for every method, or one per category.
FirstIoSimulator(c) ==
  IF usingRealTimeSimulationByCategories(c)
  THEN [kind |-> "categories", block |-> create(c.rts["rts_block_io"]),
        char |-> create(c.rts["rts_char_io"]), calls |-> create(c.rts["rts_syscalls"])]
  ELSE create(c.globalIo)

\* The predictors of what was created stay with the parameters.
Keeping(c) ==
  IF usingRealTimeSimulationByCategories(c)
  THEN [c EXCEPT !.rts = [k \in IoCategories |-> Created(@[k])]]
  ELSE [c EXCEPT !.globalIo = Created(@)]

setupSimulationEnvironment ==
  /\ stage = "parse" /\ seen = Tokens
  /\ stage' = "managers"
  /\ config' = Keeping(Logging(Repaired(config)))
  /\ timeline' = selectVirtualTime(config')
  /\ simulators' = IF usingRealTimeSimulationByCategories(config) THEN 4 ELSE 1
  /\ ioSimulator' = FirstIoSimulator(Logging(Repaired(config)))
  /\ UNCHANGED <<given, seen, managers, schedulers, jine, agent>>

Controller(c) ==
  IF c.cpus > 1 THEN "multiple" ELSE IF c.scheduling THEN "single" ELSE "passive"

ManagerKind(c) ==
  CASE ~c.scheduling -> "passive"
    [] c.scheduling /\ c.host -> IF c.server THEN "server" ELSE "client"
    [] c.scheduling /\ ~c.host /\ c.cpus = 1 -> "plain"
    [] OTHER -> IF c.strict THEN "strict" ELSE "loose"

\* What is logged of the times a manager adds: the kind asked for was stored as 1.
LoggedTimes(c) == IF c.timeStats = 1 THEN "total" ELSE "nothing"

\* A server without a port is no manager.
SelectionFails(c) == c.scheduling /\ c.host /\ c.server /\ c.port = 0

\* A passive manager replaces the I/O simulator by one with the protocol that
\* does nothing; a model, a filter or a predictor kept from before stays.
selectManager(c, n) == IF c.scheduling THEN n ELSE n + 1

PassiveIo(p) == setIoValue(setIoValue(p, Option("io", "none")), Option("iopred", "none"))

\* One round of the loop that creates the managers: the scheduler thread starts
\* with the time slot of ThreadManager::init.
addThreadManager ==
  /\ stage = "managers" /\ Len(managers) < config.cpus /\ ~SelectionFails(config)
  /\ simulators' = selectManager(config, simulators)
  /\ IF config.scheduling THEN UNCHANGED <<config, ioSimulator>>
     ELSE /\ config' = [config EXCEPT !.globalIo = Created(PassiveIo(@))]
          /\ ioSimulator' = create(PassiveIo(config.globalIo))
  /\ managers' = Append(managers, [kind |-> ManagerKind(config), controller |-> Controller(config),
                                   simulator |-> simulators', times |-> LoggedTimes(config),
                                   slot |-> 100000000])
  /\ schedulers' = Append(schedulers, 0)
  /\ UNCHANGED <<given, stage, seen, timeline, jine, agent>>

NoManager ==
  /\ stage = "managers" /\ Len(managers) < config.cpus /\ SelectionFails(config)
  /\ stage' = "refused"
  /\ UNCHANGED <<given, seen, config, timeline, simulators, ioSimulator, managers,
                 schedulers, jine, agent>>

setDefaultSchedulerTimeslot(ms, slot) == [i \in DOMAIN ms |-> [ms[i] EXCEPT !.slot = slot]]

\* The rest of setup.
finishSetup ==
  /\ stage = "managers" /\ Len(managers) = config.cpus
  /\ managers' = setDefaultSchedulerTimeslot(managers, config.timeslot)
  /\ stage' = "ready"
  /\ UNCHANGED <<given, seen, config, timeline, simulators, ioSimulator, schedulers, jine, agent>>

\* A scheduler thread enters its loop; a passive manager has none.
startScheduler(i) ==
  /\ i \in DOMAIN managers /\ schedulers[i] = 0 /\ managers[i].kind # "passive"
  /\ schedulers' = [schedulers EXCEPT ![i] = managers[i].slot]
  /\ UNCHANGED <<given, stage, seen, config, timeline, simulators, ioSimulator, managers,
                 jine, agent>>

\* A later time slice of that scheduler.
doControllerWait(i) ==
  /\ i \in DOMAIN managers /\ schedulers[i] \notin {0, managers[i].slot}
  /\ schedulers' = [schedulers EXCEPT ![i] = managers[i].slot]
  /\ UNCHANGED <<given, stage, seen, config, timeline, simulators, ioSimulator, managers,
                 jine, agent>>

JineFlags == {"usingJvmtiForMonitorControl", "includeGcTime"}

\* The option that turns a flag off.
getOptionValue == [f \in JineFlags |-> IF f = "includeGcTime" THEN "no_gc_time" ELSE "no_jvmti"]

\* strtok has put a zero after the name of the first option: that is all the
\* agent sees of the text. Without any text its flags keep the value false.
initializeJineLowerLayer ==
  /\ stage = "ready"
  /\ stage' = "loading"
  /\ jine' = {f \in JineFlags : given # <<>> /\ given[1].attr # getOptionValue[f]}
  /\ UNCHANGED <<given, seen, config, timeline, simulators, ioSimulator, managers,
                 schedulers, agent>>

MonitorEvents(c) == IF c.scheduling THEN {"monitor"} ELSE {}

GcEvents == IF "includeGcTime" \in jine THEN {"collection"} ELSE {}

Requested(c) == [caps |-> MonitorEvents(c) \cup GcEvents, events |-> MonitorEvents(c) \cup GcEvents]

\* What the agent asks of the JVM: capabilities, callbacks, events.
Agent_OnLoad ==
  /\ stage = "loading"
  /\ stage' = "loaded"
  /\ agent' = [caps |-> Requested(config).caps,
               callbacks |-> GcEvents \cup
                 IF "usingJvmtiForMonitorControl" \in jine THEN {"monitor"} ELSE {},
               events |-> Requested(config).events]
  /\ UNCHANGED <<given, seen, config, timeline, simulators, ioSimulator, managers,
                 schedulers, jine>>

SuNext ==
  \/ parseOption \/ setupSimulationEnvironment \/ addThreadManager \/ NoManager
  \/ finishSetup \/ initializeJineLowerLayer \/ Agent_OnLoad
  \/ \E i \in 1..2 : startScheduler(i) \/ doControllerWait(i)

SuSpec == SuInit /\ [][SuNext]_suVars

(***************************************************************************)
(* Properties                                                              *)
(***************************************************************************)
\* The managers fit the timeline they are cast to: several timelines only for
\* several cores, strict schedulers only on the timeline that can disable cores,
\* and a passive manager only where its controller is the passive one.
ManagersFitTheTimeline ==
  \A i \in DOMAIN managers : LET m == managers[i] IN
    /\ m.controller = "multiple" <=> timeline # "single"
    /\ m.kind = "strict" => timeline = "disabling"
    /\ m.kind = "loose" => timeline = "multicore"
    /\ m.kind = "passive" <=> m.controller = "passive"

\* The method events are given the I/O simulator all the managers use, and a
\* profiling run has one of its own.
OneIoSimulator ==
  stage \in {"ready", "loading", "loaded"} =>
    \A i \in DOMAIN managers :
      /\ managers[i].simulator = simulators
      /\ managers[i].kind = "passive" => simulators > 1

\* The value of the last option of that name among those taken, or its default.
LastOf(a, default, v) ==
  \/ /\ \A i \in 1..seen : given[i].attr # a
     /\ v = default
  \/ \E i \in 1..seen :
       /\ given[i] = Option(a, v)
       /\ \A j \in (i + 1)..seen : given[j].attr # a

\* The simulator in use has the protocol, the level and the filter asked for,
\* whatever came between and in whatever order; in a profiling run it has the
\* protocol that charges nothing.
OptionsReachTheSimulator ==
  stage \in {"ready", "loading", "loaded"} /\ ioSimulator.kind = "simple" =>
    /\ ioSimulator.protocol[Len(ioSimulator.protocol)] # "NULL"
    /\ ioSimulator.predictor.factory.buffer > 0
    /\ Len(ioSimulator.protocol) = 1 <=> \A i \in 1..seen : given[i].attr # "ioexclude"
    /\ config.scheduling =>
         /\ LastOf("io", "normal", ioSimulator.protocol[Len(ioSimulator.protocol)])
         /\ LastOf("iolevel", "invpoint", ioSimulator.predictor.level)
         /\ ioSimulator.predictor.logging <=> \E i \in 1..seen : given[i].attr = "iostats"
    /\ ~config.scheduling => ioSimulator.protocol[Len(ioSimulator.protocol)] = "none"

\* Once setup is over every scheduler sleeps for the time slot of the options, but
\* for the slice in which it is when its thread was started before that.
SlotReachesEveryScheduler ==
  stage \in {"ready", "loading", "loaded"} =>
    \A i \in DOMAIN managers :
      /\ managers[i].slot = config.timeslot
      /\ schedulers[i] \in {0, 100000000, config.timeslot}

\* The handlers of monitor events run (the JVM delivers what the agent may, and
\* did, ask for) in a scheduled simulation, and never in a profiling run, which has
\* no scheduler to block in.
MonitorsAreHeard ==
  stage = "loaded" =>
    LET heard == agent.caps \cap agent.callbacks \cap agent.events IN
    /\ "monitor" \in heard => config.scheduling
    /\ config.scheduling /\ given # <<>> /\ given[1].attr # "no_jvmti" => "monitor" \in heard

\* Whatever options are given in whatever order, the managers fit the timeline,
\* one I/O simulator is shared by all, every scheduler works with the slot
\* asked for, and monitor events are enabled when somebody listens.
SetUpIsConsistent ==
  /\ ManagersFitTheTimeline
  /\ OneIoSimulator
  /\ OptionsReachTheSimulator
  /\ SlotReachesEveryScheduler
  /\ MonitorsAreHeard

=============================================================================
