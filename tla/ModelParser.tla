---------------------------- MODULE ModelParser ----------------------------
(* The parser of the queueing network files that replace methods by a        *)
(* performance model (models/parser/Jmt*Parser), and the routing of the      *)
(* network it builds.                                                        *)
(*                                                                           *)
(* A file is a record of what the parser looks up in it:                     *)
(*   loads      it is XML, with an archive and a sim element;                *)
(*   classes    the number of its userClass elements;                        *)
(*   stations   its node elements in order, each with a name, the class      *)
(*              names of its sections (the first one first), whether the     *)
(*              service section has a ServiceStrategy parameter and is       *)
(*              marked Local, the distributions of its                       *)
(*              ServiceTimeStrategy elements, and the parameter elements     *)
(*              that stand beside its sections, <<name, value>>;             *)
(*   connections  its connection elements, <<source, target>>;               *)
(*   entries    the EmpiricalEntryArray of a station: <<station,             *)
(*              probability>> in order, or NoTable.                          *)
(* Probabilities are in units of 1/Whole. The parser checks none of what it  *)
(* finds: where it follows a null pointer, an end iterator or an index       *)
(* outside an array, the model stops in stage "fault".                       *)
EXTENDS Naturals, Sequences, FiniteSets

CONSTANTS
  Documents,        \* the files
  NoTable,          \* a station without an EmpiricalEntryArray
  Missing,          \* an entry without a probability element
  Whole             \* a probability of one

ASSUME WholeAssumption == Whole \in Nat \ {0}

VARIABLES
  document,         \* the file, and useOriginalCinqsDataStructures
  stage,            \* "nodes", "links", "ready", "null", "fault"
  read,             \* node elements read so far
  nodeNamesToNodes, \* the map of names to nodes
  linkOf,           \* the link of each linked node: "earth" before setLink
  job,              \* where a customer is, with its class; or NoJob
  hop               \* its last move <<from, to>>, or <<>>

parserVars == <<document, stage, read, nodeNamesToNodes, linkOf, job, hop>>

(* Link::earth, the link of a node without connections.                      *)
Earth == [nodes |-> <<>>, probs |-> <<>>]

NoJob == [node |-> "outside", class |-> 0]

(* The samplers of the parser: Exp and Normal with their parameters are      *)
(* model values of the file, "unsupported" is any other distribution, for    *)
(* which getDistribution returns NULL, and "garbage" an uninitialised slot.  *)
getDistribution(d) == IF d = "unsupported" THEN "NULL" ELSE d

Usable(sampler) == sampler \notin {"NULL", "garbage"}

getServiceTimeDistribution(station) ==
  IF station.strategy /\ station.service # <<>>
  THEN getDistribution(station.service[1]) ELSE "Exp 200"

Has(station, section) == \E i \in DOMAIN station.sections : station.sections[i] = section

isServer(station) == Has(station, "Server")
isDelay(station) == Has(station, "Delay")

isRoutingStation(station) == Has(station, "Router") /\ ~isServer(station)

(* The outcomes of getDelay: a sequence with one sampler for all classes or  *)
(* one for each, or {} when it faults. Two samplers are compared by the      *)
(* strings of getDistributionSampleType, which point into streams that are   *)
(* gone: whether they agree is any answer.                                   *)
getDelay(station, classes) ==
  IF classes = 1 THEN {<<getServiceTimeDistribution(station)>>}
  ELSE LET given == IF station.strategy THEN station.service ELSE <<>>
           samplers == [c \in 1..Len(given) |-> getDistribution(given[c])]
       IN IF Len(given) > classes THEN {}
          ELSE IF classes = 0 THEN {<<"garbage">>}
          ELSE IF Len(given) < classes \/ \E c \in 1..classes : ~Usable(samplers[c])
          THEN {}
          ELSE {<<samplers[1]>>, samplers}

(* The capacity of a queue, 0 for unlimited. The size and the strategy are   *)
(* looked up among the siblings of the Queue section; where JMT writes them, *)
(* inside the section, the parser does not find them.                        *)
getCinqsQueue(station) ==
  LET Beside(name) == {i \in DOMAIN station.beside : station.beside[i][1] = name}
      size == {station.beside[i][2] : i \in {j \in Beside("size") :
                                               \A k \in Beside("size") : j <= k}}
  IN IF Beside("FCFSstrategy") # {} /\ size # {} /\ size # {Missing}
     THEN CHOOSE n \in size : TRUE ELSE 0

(* isResourceConsumptionLocal follows a null pointer when the service        *)
(* section, or its ServiceStrategy parameter, is missing.                    *)
LocalIsKnown(station) == station.strategy /\ (isServer(station) \/ isDelay(station))

ServiceNode(kind, station, classes, original) ==
  IF ~original /\ ~LocalIsKnown(station) THEN {}
  ELSE {[kind |-> kind, local |-> ~original /\ station.local, delay |-> d,
         capacity |-> IF kind = "Queueing" THEN getCinqsQueue(station) ELSE 0] :
          d \in getDelay(station, classes)}

(* The nodes that nodeFactory may return; {} when it, or its caller on the   *)
(* NULL it returns for a section it does not know, faults.                   *)
nodeFactory(station, classes, original) ==
  LET plain(kind, delay) == [kind |-> kind, local |-> FALSE, delay |-> delay,
                             capacity |-> getCinqsQueue(station)]
  IN IF station.sections = <<>> THEN {}
     ELSE CASE station.sections[1] = "Queue" /\ isDelay(station) ->
                 ServiceNode("InfiniteServer", station, classes, original)
            [] station.sections[1] = "Queue" /\ ~isDelay(station)
                 /\ isRoutingStation(station) ->
                 {[plain("Queueing", <<"Normal 0">>) EXCEPT !.local = TRUE]}
            [] station.sections[1] = "Queue" /\ ~isDelay(station)
                 /\ ~isRoutingStation(station) ->
                 ServiceNode("Queueing", station, classes, original)
            [] station.sections[1] = "RandomSource" ->
                 {plain("Source", <<getServiceTimeDistribution(station)>>)}
            [] station.sections[1] = "JobSink" -> {plain("Sink", <<>>)}
            [] OTHER -> {}

(***************************************************************************)
(* parseNetwork                                                            *)
(***************************************************************************)

parseNetwork ==
  /\ stage = "start"
  /\ stage' = IF ~document.loads THEN "null"
              ELSE IF document.stations = <<>> THEN "fault" ELSE "nodes"
  /\ UNCHANGED <<document, read, nodeNamesToNodes, linkOf, job, hop>>

Names == {document.stations[i].name : i \in DOMAIN document.stations}

(* One round of the first loop: the node is built in the network, and        *)
(* inserted in the map unless its name is there.                             *)
extractCinqsNodeTo ==
  /\ stage = "nodes"
  /\ LET station == document.stations[read + 1]
         found == nodeFactory(station, document.classes, document.original)
     IN IF found = {}
        THEN stage' = "fault" /\ UNCHANGED <<read, nodeNamesToNodes>>
        ELSE \E node \in found :
               /\ nodeNamesToNodes' =
                    IF station.name \in DOMAIN nodeNamesToNodes THEN nodeNamesToNodes
                    ELSE [n \in DOMAIN nodeNamesToNodes \cup {station.name} |->
                            IF n = station.name THEN node ELSE nodeNamesToNodes[n]]
               /\ read' = read + 1
               /\ stage' = IF read' = Len(document.stations) THEN "links" ELSE "nodes"
  /\ UNCHANGED <<document, linkOf, job, hop>>

(* The connections of a node, counted in targetNodesTotal.                    *)
ConnectionsFrom(name) == {i \in DOMAIN document.connections : document.connections[i][1] = name}

(* The node that targetNodeFinder looks up for a connection.                 *)
TargetOf(i) == document.connections[i][2]

(* parseProbabilisticBranch fills nodes and probs, which have a slot for     *)
(* each connection, from the entries of the table. An entry without          *)
(* probability leaves its node in a slot the next entry takes. The result is *)
(* the branch, as a set; {} for the NULL it returns without a table, which   *)
(* setLink follows, and when an entry names an unknown station or lies       *)
(* beyond the arrays.                                                        *)
parseProbabilisticBranch(table, slots, known) ==
  IF table = NoTable THEN {}
  ELSE LET Complete(e) == e[2] # Missing
           counted == SelectSeq(table, Complete)
           count(i) == Len(SelectSeq(SubSeq(table, 1, i - 1), Complete))
       IN IF \E i \in DOMAIN table : table[i][1] \notin known \/ count(i) >= slots
          THEN {}
          ELSE {[nodes |-> [i \in DOMAIN counted |-> counted[i][1]],
                 probs |-> [i \in DOMAIN counted |-> counted[i][2]]]}

(* One round of the second loop: one connection is a link, several are a     *)
(* probabilistic branch, none leaves the link that CinqsNode starts with.    *)
setLink(name) ==
  /\ stage = "links"
  /\ name \in DOMAIN nodeNamesToNodes \ DOMAIN linkOf
  /\ LET known == DOMAIN nodeNamesToNodes
         from == ConnectionsFrom(name)
         links == IF from = {} THEN {Earth}
                  ELSE IF \E i \in from : TargetOf(i) \notin known THEN {}
                  ELSE IF \E i \in from : from = {i}
                  THEN {[nodes |-> <<TargetOf(i)>>, probs |-> <<Whole>>] : i \in from}
                  ELSE parseProbabilisticBranch(document.entries[name],
                                                Cardinality(from), known)
     IN IF links = {}
        THEN stage' = "fault" /\ UNCHANGED linkOf
        ELSE /\ \E link \in links :
                  linkOf' = [n \in DOMAIN linkOf \cup {name} |->
                               IF n = name THEN link ELSE linkOf[n]]
             /\ stage' = IF DOMAIN linkOf' = known THEN "ready" ELSE "links"
  /\ UNCHANGED <<document, read, nodeNamesToNodes, job, hop>>

(***************************************************************************)
(* Customers of the network                                                *)
(***************************************************************************)

(* A customer of some class starts at a source.                              *)
injectCustomer ==
  /\ stage = "ready" /\ job = NoJob
  /\ \E n \in DOMAIN nodeNamesToNodes, c \in 1..document.classes :
       /\ nodeNamesToNodes[n].kind = "Source"
       /\ job' = [node |-> n, class |-> c]
  /\ hop' = <<>>
  /\ UNCHANGED <<document, stage, read, nodeNamesToNodes, linkOf>>

(* A mutant: the sampler looks for a probability above the random number.    *)
discreteNext_Above(probs, r) ==
  LET acc[i \in 0..Len(probs)] == IF i = 0 THEN 0 ELSE acc[i - 1] + probs[i]
      reached == {i \in 1..Len(probs) : acc[i] > r}
  IN {i \in reached : \A j \in reached : i <= j}

(* DiscreteSampler::next: the first index at which the accumulated           *)
(* probability reaches the random number r; {} beyond the last one.          *)
discreteNext(probs, r) ==
  LET acc[i \in 0..Len(probs)] == IF i = 0 THEN 0 ELSE acc[i - 1] + probs[i]
      reached == {i \in 1..Len(probs) : acc[i] >= r}
  IN {i \in reached : \A j \in reached : i <= j}

(* The service of a customer samples the distribution of its class.          *)
CanServe(node) ==
  node.kind \notin {"Source", "Sink"} =>
    Usable(IF Len(node.delay) = 1 THEN node.delay[1] ELSE node.delay[job.class])

(* The service of a node and the move that follows: a sampler that is not    *)
(* there faults, and so does a random number above all the probabilities.    *)
forwardCustomer ==
  /\ stage = "ready" /\ job # NoJob
  /\ LET node == nodeNamesToNodes[job.node]
         link == linkOf[job.node]
     IN \/ /\ ~CanServe(node)
           /\ stage' = "fault" /\ UNCHANGED <<job, hop>>
        \/ /\ CanServe(node) /\ (node.kind = "Sink" \/ link = Earth)
           /\ job' = NoJob /\ hop' = <<>> /\ UNCHANGED stage
        \/ /\ CanServe(node) /\ node.kind # "Sink" /\ link # Earth
           /\ \E r \in 0..Whole :
                LET next == discreteNext(link.probs, r)
                IN \/ next = {} /\ stage' = "fault" /\ UNCHANGED <<job, hop>>
                   \/ \E i \in next :
                        /\ job' = [job EXCEPT !.node = link.nodes[i]]
                        /\ hop' = <<job.node, link.nodes[i]>>
                        /\ UNCHANGED stage
  /\ UNCHANGED <<document, read, nodeNamesToNodes, linkOf>>

ParserStart ==
  /\ stage = "start"
  /\ read = 0
  /\ nodeNamesToNodes = <<>>
  /\ linkOf = <<>>
  /\ job = NoJob
  /\ hop = <<>>

ParserInit == document \in Documents /\ ParserStart

ParserNext ==
  \/ parseNetwork
  \/ extractCinqsNodeTo
  \/ \E name \in Names : setLink(name)
  \/ injectCustomer
  \/ forwardCustomer

ParserSpec == ParserInit /\ [][ParserNext]_parserVars

(***************************************************************************)
(* Properties                                                              *)
(***************************************************************************)

(* What the parser relies on: names are unique, every connection joins       *)
(* stations of the file, a station has a section for what it does, with a    *)
(* supported distribution for each class, and a station with several         *)
(* connections has a table with one entry for each, that adds up to one.     *)
Served(station) ==
  /\ station.strategy
  /\ Len(station.service) = document.classes
  /\ \A c \in DOMAIN station.service : station.service[c] # "unsupported"

TableFits(name) ==
  LET targets == {document.connections[i][2] : i \in {j \in DOMAIN document.connections :
                                          document.connections[j][1] = name}}
      table == document.entries[name]
      total[i \in 0..Len(table)] == IF i = 0 THEN 0 ELSE total[i - 1] + table[i][2]
  IN /\ table # NoTable
     /\ \A i \in DOMAIN table : table[i][2] # Missing
     /\ {table[i][1] : i \in DOMAIN table} = targets
     /\ \A i, j \in DOMAIN table : table[i][1] = table[j][1] => i = j
     /\ total[Len(table)] = Whole

WellFormed ==
  /\ document.loads /\ document.classes > 0 /\ document.stations # <<>>
  /\ \A i, j \in DOMAIN document.stations :
       document.stations[i].name = document.stations[j].name => i = j
  /\ \A i \in DOMAIN document.connections :
       document.connections[i][1] \in Names /\ document.connections[i][2] \in Names
  /\ \A i, j \in DOMAIN document.connections :
       document.connections[i] = document.connections[j] => i = j
  /\ \A i \in DOMAIN document.stations :
       LET s == document.stations[i]
       IN /\ s.sections # <<>>
          /\ s.sections[1] \in {"Queue", "RandomSource", "JobSink"}
          /\ s.sections[1] = "Queue" =>
               \/ (isServer(s) \/ isDelay(s)) /\ Served(s)
               \/ isRoutingStation(s) /\ ~isDelay(s)
          /\ (\E a, b \in DOMAIN document.connections :
                a # b /\ document.connections[a][1] = s.name
                      /\ document.connections[b][1] = s.name)
               => TableFits(s.name)

(* The parser builds a network from every well formed file, and no customer  *)
(* that travels through it meets a null sampler, an end iterator or an index *)
(* outside the arrays of a branch.                                           *)
WellFormedFilesAreSafe == WellFormed => stage \notin {"fault", "null"}

(* A customer only ever moves along a connection of the file, whatever the   *)
(* random numbers of the branch and the order of its stations.               *)
CustomersFollowConnections ==
  (WellFormed /\ hop # <<>>) =>
    \E i \in DOMAIN document.connections : document.connections[i] = hop

\* A well-formed model file is parsed and simulated without a NULL or an index
\* outside a table being followed, and customers move along the connections of
\* the file only.
NetworkIsTheOneInTheFile ==
  /\ WellFormedFilesAreSafe
  /\ CustomersFollowConnections
============================================================================
