---------------------------- MODULE MCServices ----------------------------
(* The registries, queues, logs and reports that share no state with one    *)
(* another in these models, checked in one run: `part` says which of them   *)
(* moves, the others stay in one of their initial states.                   *)
EXTENDS LockRegistry, TimeScaledThreads, IoLogging, PassiveProfiling, TimeSamples,
        StateStatistics, ModelParser, ProfileReport, HardwareCounters, TLC

CONSTANTS m1, m2, m3, m4

VARIABLE part

(***************************************************************************)
(* Values of the constants                                                 *)
(***************************************************************************)

TheOutcomes == {0, 1} \X {"io", "cached", "ignored"}

\* m1 calls m3, m2 calls m4; m2 is a root or called by m1.
TheTrees ==
  {[m \in Measures |-> CASE m = m1 -> Top [] m = m2 -> caller
                         [] m = m3 -> m1 [] m = m4 -> m2] : caller \in {Top, m1}}

\* Model files: a source, two stations and a sink, with what may be wrong in
\* each; the third set of connections names a station that is not there.
Station(name, sections, strategy, local, service) ==
  [name |-> name, sections |-> sections, strategy |-> strategy, local |-> local,
   service |-> service,
   beside |-> IF local THEN <<<<"FCFSstrategy", 0>>, <<"size", 2>>>> ELSE <<>>]

TheSource == Station("in", <<"RandomSource", "Router">>, TRUE, FALSE, <<"Exp 1">>)
TheSink == Station("out", <<"JobSink">>, FALSE, FALSE, <<>>)
TheStations(name) ==
  {Station(name, <<"Queue", "Server", "Router">>, TRUE, TRUE, <<"Exp 1">>),
   Station(name, <<"Queue", "Server", "Router">>, TRUE, FALSE, <<"Exp 1", "Normal 2">>),
   Station(name, <<"Queue", "Delay", "Router">>, TRUE, FALSE, <<"unsupported">>),
   Station(name, <<"Queue", "ServiceTunnel", "Router">>, FALSE, FALSE, <<>>),
   Station(name, <<"Queue", "Server", "Router">>, FALSE, FALSE, <<>>),
   Station(name, <<"Logger">>, FALSE, FALSE, <<>>)}

TheTables ==
  {NoTable, <<<<"one", 1>>, <<"two", 2>>>>, <<<<"two", Missing>>, <<"one", 3>>>>,
   <<<<"one", 1>>, <<"two", 1>>>>, <<<<"one", 1>>, <<"two", 1>>, <<"out", 1>>>>,
   <<<<"lost", 1>>, <<"two", 2>>>>}

TheConnections ==
  {<<<<"in", "one">>, <<"in", "two">>, <<"one", "out">>, <<"two", "out">>>>,
   <<<<"in", "one">>, <<"one", "two">>, <<"two", "one">>>>,
   <<<<"one", "out">>, <<"in", "one">>, <<"two", "gone">>>>}

EmptyDocument(loads) ==
  [loads |-> loads, original |-> FALSE, classes |-> 1, stations |-> <<>>,
   connections |-> <<>>, entries |-> <<>>]

TheDocuments ==
  {[loads |-> TRUE, original |-> original, classes |-> classes, stations |-> stations,
    connections |-> connections,
    entries |-> [n \in {"in", "one", "two", "out"} |-> IF n = "in" THEN table ELSE NoTable]] :
      original \in BOOLEAN, classes \in 0..2, table \in TheTables,
      connections \in TheConnections,
      stations \in UNION {{<<TheSource, a, b, TheSink>>, <<TheSink, b, a, TheSource>>} :
                            a \in TheStations("one"), b \in TheStations("two")}}
  \cup {EmptyDocument(loads) : loads \in BOOLEAN}

(***************************************************************************)
(* The composition                                                         *)
(***************************************************************************)

servicesVars == <<part, vars, heapVars, ioLogVars, passiveVars, sampleVars,
                  statisticsVars, parserVars, reportVars, papiVars>>

\* A part that does not move starts in one state.
ServicesInit ==
  /\ part \in {"locks", "heap", "io log", "passive", "samples", "statistics",
               "parser", "report", "counters"}
  /\ arg \in IF part = "locks" THEN [Threads -> Locks]
             ELSE { [t \in Threads |-> CHOOSE l \in Locks : TRUE]}
  /\ Init
  /\ core \in IF part = "heap" THEN [HeapThreads -> CoreIds]
              ELSE {[t \in HeapThreads |-> CHOOSE c \in CoreIds : TRUE]}
  /\ HeapInit
  /\ usingExtendedStats \in IF part = "io log" THEN BOOLEAN ELSE {FALSE}
  /\ IoLogInit /\ PassiveInit /\ SampleInit /\ StatisticsInit
  /\ IF part = "report" THEN RecordedProfile
     ELSE /\ callingMethod = [m \in Measures |-> Top]
          /\ subMethods = CalleesInOrder(<<m1, m2, m3, m4>>)
          /\ inclusive = [m \in Measures |-> 0] /\ exclusive = inclusive
          /\ invocations = [m \in Measures |-> 1]
          /\ prunePercentage = 0
  /\ ReportStart
  /\ IF part = "counters" THEN TRUE
     ELSE everFailed = FALSE /\ virtNsec = [t \in CountedBy |-> 0]
  /\ PapiInit
  /\ IF part = "parser" THEN document \in Documents ELSE document = EmptyDocument(FALSE)
  /\ ParserStart

ServicesNext ==
  /\ UNCHANGED part
  /\ \/ part = "locks" /\ Next
        /\ UNCHANGED <<heapVars, ioLogVars, passiveVars, sampleVars, statisticsVars,
                       parserVars, reportVars, papiVars>>
     \/ part = "heap" /\ HeapNext
        /\ UNCHANGED <<vars, ioLogVars, passiveVars, sampleVars, statisticsVars,
                       parserVars, reportVars, papiVars>>
     \/ part = "io log" /\ IoLogNext
        /\ UNCHANGED <<vars, heapVars, passiveVars, sampleVars, statisticsVars,
                       parserVars, reportVars, papiVars>>
     \/ part = "passive" /\ PassiveNext
        /\ UNCHANGED <<vars, heapVars, ioLogVars, sampleVars, statisticsVars,
                       parserVars, reportVars, papiVars>>
     \/ part = "samples" /\ SampleNext
        /\ UNCHANGED <<vars, heapVars, ioLogVars, passiveVars, statisticsVars,
                       parserVars, reportVars, papiVars>>
     \/ part = "statistics" /\ StatisticsNext
        /\ UNCHANGED <<vars, heapVars, ioLogVars, passiveVars, sampleVars,
                       parserVars, reportVars, papiVars>>
     \/ part = "parser" /\ ParserNext
        /\ UNCHANGED <<vars, heapVars, ioLogVars, passiveVars, sampleVars,
                       statisticsVars, reportVars, papiVars>>
     \/ part = "report" /\ ReportNext
        /\ UNCHANGED <<vars, heapVars, ioLogVars, passiveVars, sampleVars,
                       statisticsVars, parserVars, papiVars>>
     \/ part = "counters" /\ PapiNext
        /\ UNCHANGED <<vars, heapVars, ioLogVars, passiveVars, sampleVars,
                       statisticsVars, parserVars, reportVars>>

ServicesSpec == ServicesInit /\ [][ServicesNext]_servicesVars

\* The callers of the I/O log and the threads of the statistics are
\* interchangeable.
Symmetry == Permutations(IoCallers) \cup Permutations(CountedThreads)
=============================================================================
