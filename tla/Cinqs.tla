------------------------------- MODULE Cinqs -------------------------------
(***************************************************************************)
(* The discrete-event queueing simulator that the performance models are   *)
(* built on: the diary of events and its linked list, the nodes with their *)
(* queues and resources, and the routes between them.                      *)
(*                                                                         *)
(* Sources: cinqs/tools (List, OrderedList, Diary, Sim, Resource and the   *)
(* measures) and cinqs/network (nodes, queues, links, Customer).           *)
(*                                                                         *)
(* The simulator is sequential: `stack` holds the calls an event still has *)
(* to make, innermost first, and a step is one of them.  A list node is    *)
(* identified with the object it holds; the end-of-service event of a      *)
(* customer with the customer and the event of a source or of a            *)
(* processor-sharing node with the node.                                   *)
(***************************************************************************)
EXTENDS Integers, Sequences, FiniteSets, SequencesExt, FiniteSetsExt

CONSTANTS
  Customers,    \* identities 1, 2, ... in the order of their creation
  NULL,
  Nodes,
  Kind,         \* node -> "source", "node", "delay", "queueing", "preemptive", "sharing", "sink" or "null"
  Links,        \* node -> the nodes its link may move a customer to
  Servers,      \* node -> nresources of its Resource
  Capacity,     \* node -> capacity of its Queue
  LossNode,     \* node -> where a customer goes that finds the queue full
  Rank,         \* customer -> its priority
  Demands,      \* what serviceTime->sample may return
  Gaps,         \* inter-arrival times
  Batches,      \* batch sizes
  Disciplines,  \* the disciplines the queueing nodes may have
  MaxVisits     \* bound: arrivals at a node that is linked to itself

Kinds == {"source", "node", "delay", "queueing", "preemptive", "sharing", "sink", "null"}

\* A customer that leaves n is not back before the rest of that event is done:
\* it passes through plain nodes and full queues in no time.
NoInstantReturn(n) ==
  \E Z \in SUBSET (Nodes \ {n}) :
    /\ Links[n] \subseteq Z
    /\ \A m \in Z : /\ Kind[m] = "node" => Links[m] \subseteq Z
                    /\ Kind[m] = "queueing" => LossNode[m] \in Z

ASSUME NetworkAssumption ==
  /\ IsFiniteSet(Customers) /\ Customers = 1..Cardinality(Customers) /\ IsFiniteSet(Nodes)
  /\ NULL \notin Customers \cup Nodes /\ Customers \cap Nodes = {}
  /\ Kind \in [Nodes -> Kinds] /\ Links \in [Nodes -> SUBSET Nodes] /\ LossNode \in [Nodes -> Nodes]
  /\ \A n \in Nodes : n \in Links[n] => Kind[n] = "queueing"
  /\ Servers \in [Nodes -> Nat \ {0}] /\ Capacity \in [Nodes -> Nat]
  /\ \A n \in Nodes : Kind[n] \in {"preemptive", "sharing"} =>
       Servers[n] = 1 /\ Capacity[n] >= Cardinality(Customers) /\ NoInstantReturn(n)
  /\ Rank \in [Customers -> Nat]
  /\ Demands \subseteq Nat /\ Gaps \subseteq Nat /\ Batches \subseteq Nat
  /\ Disciplines \subseteq {"FIFO", "LIFO", "random", "priority", "finish"}

VARIABLES
  now,          \* Sim::vtime
  diary,        \* Sim::diary, a list of events
  due,          \* event -> its invokeTime
  stack,        \* the calls under way, innermost first
  nodes,        \* node -> its fields
  discipline,   \* node -> how its queue is ordered
  location,     \* customer -> its location
  demand,       \* customer -> serviceDemand
  inserted,     \* customer -> queueInsertionTime
  finish,       \* customer -> time of its OrderedQueueEntry
  arrived,      \* customer -> arrivalTime
  completions, responseTime,
  fate,         \* customer -> "unborn", "inside", "done" or "lost" (history)
  asked, served \* customer -> service it asked for and has had at its node (history)

attributes == <<demand, inserted, finish, arrived>>
results == <<completions, responseTime>>
history == <<fate, asked, served>>
vars == <<now, diary, due, stack, nodes, discipline, location, demand, inserted, finish,
          arrived, completions, responseTime, fate, asked, served>>

\* What may be in a list: customers, and the nodes that stand for events.
Objects == Customers \cup {n \in Nodes : Kind[n] \in {"source", "sharing"}}
-----------------------------------------------------------------------------
\* List and ListIterator.  An iterator is the pair p, q of the node it passed
\* last and the one it stands at.
EmptyList == [first |-> NULL, last |-> NULL, next |-> [o \in Objects \cup {NULL} |-> NULL]]

\* The objects met when the list is walked from firstNode.
Hops == 1..Cardinality(Objects)
Walk(l) == LET hop[i \in Hops] == IF i = 1 THEN l.first ELSE l.next[hop[i - 1]] IN hop
Members(l) == LET hop == Walk(l) IN {hop[i] : i \in Hops} \ {NULL}
Chain(l) == LET hop == Walk(l) IN [i \in {j \in Hops : hop[j] # NULL} |-> hop[i]]

Passed(l, k) == IF k = 0 THEN NULL ELSE Chain(l)[k]
StandsAt(l, k) == IF k = Len(Chain(l)) THEN NULL ELSE Chain(l)[k + 1]

insertAtFront(l, o) ==
  IF l.first = NULL THEN [l EXCEPT !.first = o, !.last = o, !.next[o] = NULL]
  ELSE [l EXCEPT !.first = o, !.next[o] = l.first]

insertAtBack(l, o) ==
  IF l.first = NULL THEN [l EXCEPT !.first = o, !.last = o, !.next[o] = NULL]
  ELSE [l EXCEPT !.last = o, !.next = [@ EXCEPT ![l.last] = o, ![o] = NULL]]

removeFromFront(l) ==
  IF l.first = l.last THEN [l EXCEPT !.first = NULL, !.last = NULL]
  ELSE [l EXCEPT !.first = l.next[l.first]]

\* ListIterator::add, after k advances.
add(l, k, o) ==
  LET p == Passed(l, k)
      q == StandsAt(l, k)
  IN [first |-> IF p = NULL THEN o ELSE l.first,
      last |-> IF q = NULL THEN o ELSE l.last,
      next |-> [x \in DOMAIN l.next |->
                 IF x = o THEN q ELSE IF x = p /\ p # NULL THEN o ELSE l.next[x]]]

\* ListIterator::remove, after k advances.
removeAt(l, k) ==
  LET p == Passed(l, k)
      q == StandsAt(l, k)
  IN [first |-> IF p = NULL THEN l.next[q] ELSE l.first,
      last |-> IF l.next[q] = NULL THEN p ELSE l.last,
      next |-> IF p = NULL THEN l.next ELSE [l.next EXCEPT ![p] = l.next[q]]]

\* a mutant: the object stays in the list
remove_Not(l, o) == l

\* List::remove.  For an absent object the iterator dereferences the end.
remove(l, o) ==
  IF o \in Members(l)
  THEN removeAt(l, CHOOSE k \in 0..Len(Chain(l)) - 1 : StandsAt(l, k) = o)
  ELSE l

\* OrderedList::insertInOrder, for elements ordered by their values.
insertInOrder(l, o, value) ==
  LET s == Chain(l)
  IN add(l, Max({0} \cup {k \in DOMAIN s : \A i \in 1..k : value[s[i]] <= value[o]}), o)
-----------------------------------------------------------------------------
\* SystemMeasure::add: the time the value was held, weighted by it.
measure(m, x) ==
  [moment |-> m.moment + m.current * (now - m.lastChange), current |-> x, lastChange |-> now]

NoMeasure == [moment |-> 0, current |-> 0, lastChange |-> 0]

\* Check::check: the program aborts when the condition is false.
check(N, condition) == [N EXCEPT !.failed = @ \/ ~condition]

claim(n, N) ==
  check([N EXCEPT !.resources = @ - 1, !.count = measure(@, Servers[n] - N.resources + 1)],
        N.resources > 0)

release(n, N) ==
  check([N EXCEPT !.resources = @ + 1, !.count = measure(@, Servers[n] - N.resources - 1)],
        N.resources < Servers[n])

canAccept(n) == nodes[n].pop < Capacity[n]

\* The disciplines: the lists that may result from an insertion.
FIFOQueue(l, c) == {insertAtBack(l, c)}
LIFOQueue(l, c) == {insertAtFront(l, c)}
RandomQueue(l, c) == {add(l, k, c) : k \in 0..Len(Chain(l))}
\* its FIFO queues of one priority each, one after the other
PriorityQueue(l, c) == {insertInOrder(l, c, Rank)}
\* entries ordered by the time at which they finish
OrderedQueue(l, c) == {insertInOrder(l, c, finish')}

insertIntoQueue(n, l, c) ==
  CASE discipline[n] = "FIFO" -> FIFOQueue(l, c)
    [] discipline[n] = "LIFO" -> LIFOQueue(l, c)
    [] discipline[n] = "random" -> RandomQueue(l, c)
    [] discipline[n] = "priority" -> PriorityQueue(l, c)
    [] discipline[n] = "finish" -> OrderedQueue(l, c)

\* Queue::enqueue and enqueueAtHead: the customer is in the list already.
enqueued(n, N, l) ==
  check([N EXCEPT !.queue = l, !.pop = @ + 1, !.popMeasure = measure(@, N.pop + 1)],
        N.pop < Capacity[n])

dequeued(N) ==
  check([N EXCEPT !.queue = removeFromFront(@), !.pop = @ - 1,
                  !.popMeasure = measure(@, N.pop - 1),
                  !.queueingTime = @ + now - inserted[N.queue.first]],
        N.pop > 0)

head(n) == nodes[n].queue.first
-----------------------------------------------------------------------------
TypeOK ==
  /\ now \in Nat /\ due \in [Objects -> Nat]
  /\ nodes \in [Nodes -> [resources : Nat, count : [moment : Nat, current : Nat, lastChange : Nat],
                          pop : Nat, popMeasure : [moment : Nat, current : Nat, lastChange : Nat],
                          queue : [first : Objects \cup {NULL}, last : Objects \cup {NULL},
                                   next : [Objects \cup {NULL} -> Objects \cup {NULL}]],
                          queueingTime : Nat, lastEnd : Customers \cup {NULL}, vtime : Nat,
                          lastSchedule : Nat, arrivals : Nat, losses : Nat, failed : BOOLEAN]]
  /\ \A i \in DOMAIN stack : stack[i].op \in {"enter", "forward", "release", "next", "inject",
                                               "schedule", "endOfService"}
  /\ location \in [Customers -> Nodes \cup {NULL}]
  /\ demand \in [Customers -> Nat] /\ finish \in [Customers -> Nat]
  /\ inserted \in [Customers -> Nat] /\ arrived \in [Customers -> Nat]
  /\ completions \in Nat /\ responseTime \in Nat
  /\ fate \in [Customers -> {"unborn", "inside", "done", "lost"}]
  /\ asked \in [Customers -> Nat] /\ served \in [Customers -> Nat]

newNode(n) ==
  [resources |-> Servers[n], count |-> NoMeasure, pop |-> 0, popMeasure |-> NoMeasure,
   queue |-> EmptyList, queueingTime |-> 0, lastEnd |-> NULL, vtime |-> 0, lastSchedule |-> 0,
   arrivals |-> 0, losses |-> 0, failed |-> FALSE]

call(f, n, c) == [op |-> f, node |-> n, customer |-> c]

\* Network::init, ResourcePool and Sim: every source has its first arrival in
\* the diary.
Init ==
  /\ now = 0 /\ stack = <<>> /\ completions = 0 /\ responseTime = 0
  /\ due \in [Objects -> Gaps] /\ \A c \in Customers : due[c] = Min(Gaps)
  /\ \A n \in Objects \cap Nodes : Kind[n] = "sharing" => due[n] = Min(Gaps)
  /\ diary = FoldSet(LAMBDA n, l : insertInOrder(l, n, due), EmptyList,
                     {n \in Nodes : Kind[n] = "source"})
  /\ nodes = [n \in Nodes |-> newNode(n)]
  /\ discipline \in [Nodes -> Disciplines \cup {"LIFO", "finish"}]
  /\ \A n \in Nodes : /\ Kind[n] = "queueing" => discipline[n] \in Disciplines
                      /\ Kind[n] = "sharing" => discipline[n] = "finish"
                      /\ Kind[n] \notin {"queueing", "sharing"} => discipline[n] = "LIFO"
  /\ location = [c \in Customers |-> NULL]
  /\ demand = [c \in Customers |-> 0] /\ inserted = demand /\ finish = demand /\ arrived = demand
  /\ asked = demand /\ served = demand
  /\ fate = [c \in Customers |-> "unborn"]
-----------------------------------------------------------------------------
\* a mutant: the diary is not kept in order
schedule_Back(l, e) == insertAtBack(l, e)

schedule(l, e) == insertInOrder(l, e, due')

Now(o) == stack # <<>> /\ stack[1].op = o
Here == stack[1].node
Cust == stack[1].customer
return(calls) == stack' = calls \o Tail(stack)
node(n, N) == nodes' = [nodes EXCEPT ![n] = N]

\* Service received while the clock moves to t (history).
inService(c) == c \in Members(diary)
sharing(c) == location[c] # NULL /\ Kind[location[c]] = "sharing" /\ c \in Members(nodes[location[c]].queue)
serve(t) ==
  served' = [c \in Customers |->
    IF inService(c) THEN served[c] + t - now
    ELSE IF sharing(c) THEN served[c] + (t - now) \div nodes[location[c]].pop
    ELSE served[c]]

\* The invoke methods of EndServiceEvent, Arrival and EndOfService.
invoke(e) ==
  CASE e \in Customers -> <<call("forward", location[e], e)>>
    [] e \in Nodes /\ Kind[e] = "source" -> <<call("inject", e, NULL), call("schedule", e, NULL)>>
    [] e \in Nodes /\ Kind[e] = "sharing" -> <<call("endOfService", e, NULL)>>

\* Sim::go: the next event of the diary is invoked.
go ==
  /\ stack = <<>> /\ diary.first # NULL
  /\ LET e == diary.first
     IN /\ now' = due[e]
        /\ diary' = removeFromFront(diary)
        /\ serve(due[e])
        /\ stack' = invoke(e)
  /\ UNCHANGED <<due, nodes, discipline, location, attributes, results, fate, asked>>

Unborn == {c \in Customers : fate[c] = "unborn"}

\* Source::injectCustomers: the customers of the batch, one after the other.
injectCustomers ==
  /\ Now("inject")
  /\ \E batch \in Batches :
       LET size == Min({batch, Cardinality(Unborn)})
           born == Cardinality(Customers \ Unborn)
           cs == born + 1 .. born + size
       IN /\ return([i \in 1..size |-> call("forward", Here, born + i)])
          /\ location' = [c \in Customers |-> IF c \in cs THEN Here ELSE location[c]]
          /\ arrived' = [c \in Customers |-> IF c \in cs THEN now ELSE arrived[c]]
          /\ fate' = [c \in Customers |-> IF c \in cs THEN "inside" ELSE fate[c]]
  /\ UNCHANGED <<now, diary, due, nodes, discipline, demand, inserted, finish, results, asked, served>>

\* Source::schedule, while there are customers left.
scheduleArrival ==
  /\ Now("schedule")
  /\ IF Unborn = {} THEN UNCHANGED <<due, diary>>
     ELSE \E gap \in Gaps \ {0} :
            /\ due' = [due EXCEPT ![Here] = now + gap]
            /\ diary' = schedule(diary, Here)
  /\ return(<<>>)
  /\ UNCHANGED <<now, nodes, discipline, location, attributes, results, history>>

\* Link::move and ProbabilisticBranch::move.
move(n) == {m \in Links[n] : m = n => nodes[n].arrivals < MaxVisits}

\* CinqsNode::forward and QueueingNode::forward; a queueing node then releases a resource.
forward ==
  /\ Now("forward")
  /\ \E n \in move(Here) :
       return(<<call("enter", n, Cust)>> \o
                 (IF Kind[Here] \in {"queueing", "preemptive"} THEN <<call("release", Here, NULL)>>
                  ELSE <<>>))
  /\ UNCHANGED <<now, diary, due, nodes, discipline, location, attributes, results, history>>

\* InfiniteServerNode::invokeService, given the fields of the node so far.
invokeService(n, N, c) ==
  /\ due' = [due EXCEPT ![c] = now + demand'[c]]
  /\ node(n, [N EXCEPT !.lastEnd = c])

\* CinqsNode::enter and, for a node with a delay, InfiniteServerNode::enter.
arrivesAt(n) == [nodes[n] EXCEPT !.arrivals = @ + 1]
enters(kinds) ==
  /\ Now("enter") /\ Kind[Here] \in kinds
  /\ location' = [location EXCEPT ![Cust] = Here]
setServiceDemand ==
  \E d \in Demands :
    /\ demand' = [demand EXCEPT ![Cust] = d]
    /\ asked' = [asked EXCEPT ![Cust] = d]
    /\ served' = [served EXCEPT ![Cust] = 0]

\* CinqsNode::accept of a plain node.
accept_node ==
  /\ enters({"node"})
  /\ node(Here, arrivesAt(Here))
  /\ return(<<call("forward", Here, Cust)>>)
  /\ UNCHANGED <<now, diary, due, discipline, attributes, results, history>>

accept_delay ==
  /\ enters({"delay"}) /\ setServiceDemand
  /\ invokeService(Here, arrivesAt(Here), Cust)
  /\ diary' = schedule(diary, Cust)
  /\ return(<<>>)
  /\ UNCHANGED <<now, discipline, inserted, finish, arrived, results, fate>>

\* ResourcePool::accept, for a customer that is served at once, that waits, and
\* that is sent to the loss node.
accept_served ==
  /\ enters({"queueing"}) /\ setServiceDemand
  /\ nodes[Here].resources > 0
  /\ invokeService(Here, claim(Here, arrivesAt(Here)), Cust)
  /\ diary' = schedule(diary, Cust)
  /\ return(<<>>)
  /\ UNCHANGED <<now, discipline, inserted, finish, arrived, results, fate>>

accept_queued ==
  /\ enters({"queueing"}) /\ setServiceDemand
  /\ nodes[Here].resources = 0 /\ canAccept(Here)
  /\ inserted' = [inserted EXCEPT ![Cust] = now]
  /\ \E l \in insertIntoQueue(Here, nodes[Here].queue, Cust) :
       node(Here, enqueued(Here, arrivesAt(Here), l))
  /\ return(<<>>)
  /\ UNCHANGED <<now, diary, due, discipline, finish, arrived, results, fate>>

accept_lost ==
  /\ enters({"queueing"}) /\ setServiceDemand
  /\ nodes[Here].resources = 0 /\ ~canAccept(Here)
  /\ node(Here, [arrivesAt(Here) EXCEPT !.losses = @ + 1])
  /\ return(<<call("enter", LossNode[Here], Cust)>>)
  /\ UNCHANGED <<now, diary, due, discipline, inserted, finish, arrived, results, fate>>

\* a mutant: a released resource is not handed to a waiting customer
releaseResource_Free ==
  /\ Now("release")
  /\ node(Here, release(Here, nodes[Here]))
  /\ return(<<>>)
  /\ UNCHANGED <<now, due, diary, discipline, location, attributes, results, history>>

\* ResourcePool::releaseResource.
releaseResource ==
  /\ Now("release")
  /\ LET c == head(Here)
     IN IF nodes[Here].pop > 0
        THEN /\ demand' = demand
             /\ invokeService(Here, dequeued(nodes[Here]), c)
             /\ diary' = schedule(diary, c)
        ELSE /\ node(Here, release(Here, nodes[Here]))
             /\ UNCHANGED <<due, diary, demand>>
  /\ return(<<>>)
  /\ UNCHANGED <<now, discipline, location, inserted, finish, arrived, results, history>>

\* a mutant: a preempted customer starts again
remainingServiceTime_Restart(c) == demand[c]
\* remainingServiceTime: PreemptiveRestartNode's is not virtual and never called.
remainingServiceTime(c) == due[c] - now

\* PreemptiveResumeNode::accept.
accept_preemptive ==
  /\ enters({"preemptive"})
  /\ \E d \in Demands :
       LET N == arrivesAt(Here)
           out == N.lastEnd
       IN /\ asked' = [asked EXCEPT ![Cust] = d]
          /\ served' = [served EXCEPT ![Cust] = 0]
          /\ IF N.resources > 0
             THEN /\ demand' = [demand EXCEPT ![Cust] = d]
                  /\ invokeService(Here, claim(Here, N), Cust)
                  /\ diary' = schedule(diary, Cust)
                  /\ UNCHANGED inserted
             ELSE /\ demand' = [demand EXCEPT ![Cust] = d, ![out] = remainingServiceTime(out)]
                  /\ inserted' = [inserted EXCEPT ![out] = now]
                  /\ invokeService(Here, check(enqueued(Here, N, insertAtFront(N.queue, out)), inService(out)), Cust)
                  /\ diary' = schedule(remove(diary, out), Cust)
  /\ return(<<>>)
  /\ UNCHANGED <<now, discipline, finish, arrived, results, fate>>

\* ProcessorSharingNode::serviceNextCustomer: when the first entry will finish.
serviceNextCustomer(n, N, l) ==
  /\ due' = [due EXCEPT ![n] = now + (finish'[N.queue.first] - N.vtime) * N.pop]
  /\ node(n, [N EXCEPT !.lastSchedule = now])
  /\ diary' = schedule(l, n)

progress(N) == [N EXCEPT !.vtime = @ + (now - N.lastSchedule) \div N.pop]

\* ProcessorSharingNode::accept.
accept_sharing ==
  /\ enters({"sharing"}) /\ setServiceDemand
  /\ inserted' = [inserted EXCEPT ![Cust] = now]
  /\ LET idle == nodes[Here].resources > 0
         N == IF idle THEN claim(Here, arrivesAt(Here))
              ELSE check(progress(arrivesAt(Here)), Here \in Members(diary))
     IN /\ finish' = [finish EXCEPT ![Cust] = N.vtime + demand'[Cust]]
        /\ \E q \in insertIntoQueue(Here, N.queue, Cust) :
             serviceNextCustomer(Here, enqueued(Here, N, q), IF idle THEN diary ELSE remove(diary, Here))
  /\ return(<<>>)
  /\ UNCHANGED <<now, discipline, arrived, results, fate>>

\* ProcessorSharingNode::invoke, up to and after the customer is forwarded.
endOfService ==
  /\ Now("endOfService")
  /\ node(Here, dequeued(progress(nodes[Here])))
  /\ return(<<call("forward", Here, head(Here)), call("next", Here, NULL)>>)
  /\ UNCHANGED <<now, diary, due, discipline, location, attributes, results, history>>

nextShare ==
  /\ Now("next")
  /\ finish' = finish
  /\ IF nodes[Here].pop = 0
     THEN node(Here, release(Here, nodes[Here])) /\ UNCHANGED <<due, diary>>
     ELSE serviceNextCustomer(Here, nodes[Here], diary)
  /\ return(<<>>)
  /\ UNCHANGED <<now, discipline, location, demand, inserted, arrived, results, history>>

\* Sink::accept.
accept_sink ==
  /\ enters({"sink"})
  /\ node(Here, arrivesAt(Here))
  /\ completions' = completions + 1
  /\ responseTime' = responseTime + now - arrived[Cust]
  /\ fate' = [fate EXCEPT ![Cust] = "done"]
  /\ return(<<>>)
  /\ UNCHANGED <<now, diary, due, discipline, attributes, asked, served>>

\* NullNode::enter.
enter_null ==
  /\ Now("enter") /\ Kind[Here] = "null"
  /\ fate' = [fate EXCEPT ![Cust] = "lost"]
  /\ return(<<>>)
  /\ UNCHANGED <<now, diary, due, nodes, discipline, location, attributes, results, asked, served>>

Next ==
  \/ go \/ injectCustomers \/ scheduleArrival \/ forward \/ accept_node \/ accept_delay
  \/ accept_served \/ accept_queued \/ accept_lost \/ releaseResource \/ accept_preemptive
  \/ accept_sharing \/ endOfService \/ nextShare \/ accept_sink \/ enter_null

\* The simulation runs in one thread that takes every step it can.
Spec == Init /\ [][Next]_vars /\ WF_vars(Next)
-----------------------------------------------------------------------------
\* Conservation: a customer in the network is at exactly one place: it waits in
\* one queue, has its end of service in the diary, or is being moved.
CustomersAreConserved ==
  \A c \in Customers :
    LET moving == Cardinality({i \in DOMAIN stack : stack[i].customer = c})
        waiting == Cardinality({n \in Nodes : c \in Members(nodes[n].queue)})
        ending == IF inService(c) THEN 1 ELSE 0
    IN moving + waiting + ending = IF fate[c] = "inside" THEN 1 ELSE 0

\* The linked lists: walking from firstNode visits pop entries and ends at
\* lastNode, for the queues; the diary ends at its lastNode too.
WellFormed(l, size) ==
  \E s \in {Chain(l)} :
    /\ Len(s) = Cardinality(Members(l)) /\ Len(s) = size
    /\ s # <<>> => l.last = Last(s) /\ l.next[l.last] = NULL
ListsAreWellFormed ==
  /\ \A n \in Nodes : WellFormed(nodes[n].queue, nodes[n].pop)
  /\ WellFormed(diary, Cardinality(Members(diary)))

\* The checks of the source hold (Check::check, and List::remove of an event
\* that is in the diary).
ChecksHold == \A n \in Nodes : ~nodes[n].failed

\* A resource is claimed for each customer in service, or still held by one on
\* its way out.
ResourcesMatchCustomers ==
  \A n \in Nodes :
    LET leaving == {i \in DOMAIN stack :
                      /\ stack[i].node = n
                      /\ stack[i].op \in {"release", "next", "endOfService"}
                         \cup (IF Kind[n] = "sharing" THEN {} ELSE {"forward"})}
        inside == {c \in Customers : inService(c) /\ location[c] = n}
    IN /\ Kind[n] \in {"queueing", "preemptive"} =>
            Servers[n] - nodes[n].resources = Cardinality(inside) + Cardinality(leaving)
       /\ Kind[n] = "sharing" =>
            (nodes[n].resources = 0) = (nodes[n].pop > 0 \/ leaving # {})

\* Between events nobody waits at a node that has a free resource.
NoIdleServerWithAQueue ==
  stack = <<>> => \A n \in Nodes : nodes[n].pop > 0 => nodes[n].resources = 0

\* A customer that leaves a node was served for what it asked, under waiting,
\* preemption and sharing.
ServiceIsTheDemand ==
  \A i \in DOMAIN stack :
    stack[i].op = "forward" /\ Kind[stack[i].node] \in {"delay", "queueing", "preemptive", "sharing"} =>
      served[stack[i].customer] = asked[stack[i].customer]

\* The two measures of a queue agree (Little's law): the area under its length
\* is the time spent in it by those who left and those who are there.
QueueAreaIsQueueingTime ==
  \A n \in Nodes :
    LET N == nodes[n]
    IN N.popMeasure.moment + N.popMeasure.current * (now - N.popMeasure.lastChange)
       = N.queueingTime + MapThenSumSet(LAMBDA c : now - inserted[c], Members(N.queue))

\* What preemption, sharing and queueing do to a customer, it is served for its
\* demand, and the area under the queue length is the time spent queueing.
DemandsAreServed ==
  /\ ServiceIsTheDemand
  /\ QueueAreaIsQueueingTime

\* A queue ordered by priority is sorted at all times, and the entries
\* of a sharing node by the time at which they finish.
QueuesAreSorted ==
  \A n \in Nodes : \A s \in {Chain(nodes[n].queue)} : \A i \in 1..Len(s) - 1 :
    /\ discipline[n] = "priority" => Rank[s[i]] <= Rank[s[i + 1]]
    /\ discipline[n] = "finish" => finish[s[i]] <= finish[s[i + 1]]

\* Customers are in one place each and none is lost, servers are claimed
\* exactly for the customers in service and none idles before a queue, lists
\* and queues keep their order, and no check of the code fails.
NetworkIsConsistent ==
  /\ TypeOK
  /\ CustomersAreConserved
  /\ ListsAreWellFormed
  /\ ChecksHold
  /\ ResourcesMatchCustomers
  /\ NoIdleServerWithAQueue
  /\ QueuesAreSorted

\* The diary implements an event calendar.
Calendar == INSTANCE EventCalendar WITH
  Events <- Objects,
  pending <- {<<o, due[o]>> : o \in Members(diary)}

\* Refinement: events are taken in the order of their times.
DiaryIsACalendar == Calendar!Spec

\* Every customer injected in the network leaves it.
EveryCustomerLeaves ==
  \A c \in Customers : [](fate[c] = "inside" => <>(fate[c] \in {"done", "lost"}))
=============================================================================
