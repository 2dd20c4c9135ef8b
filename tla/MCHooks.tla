------------------------------ MODULE MCHooks ------------------------------
(* What VEX does when a thread calls one of its hooks: the thread events and *)
(* the prediction of I/O calls.  In these models the two share no state;     *)
(* `part` says which of them moves, the other stays where it begins.         *)
EXTENDS ThreadEvents, IoPrediction, TLC

CONSTANTS m, a, x

VARIABLE part

\* Who does what: m creates, joins and wakes the other and may be recognised as
\* native waiting, a waits and parks; x is not simulated.
Roles == (m :> {"create", "join", "timedWait", "notify", "broadcast", "interrupt", "unpark",
                "native"})
      @@ (a :> {"wait", "timedWait", "sleep", "notify", "park", "timedPark", "unpark", "end"})
      @@ (x :> {})

ThePredictors ==
  {<<"global", "avg">>, <<"global", "cmean">>, <<"state", "median">>, <<"state", "replay">>,
   <<"operation", "min">>, <<"state", "max">>, <<"operation", "markov">>}

\* The smallest tables the threads of the instance allow; the state-aware one is
\* too small for them and truncates the index.
TheTables ==
  [l \in {"global", "state", "operation"} |->
     CASE l = "state" -> 1
       [] l = "global" -> Cardinality(IoThreads)
       [] l = "operation" -> Cardinality(IoThreads) + 1]

HooksInit ==
  /\ part \in {"events", "prediction"}
  /\ Init /\ PredictionInit
  /\ part = "events" => <<level, method>> = <<"global", "avg">>

HooksNext ==
  /\ UNCHANGED part
  /\ \/ part = "events" /\ Next /\ UNCHANGED predictionVars
     \/ part = "prediction" /\ PredictionNext /\ UNCHANGED vars

HooksSpec == HooksInit /\ [][HooksNext]_<<part, vars, predictionVars>>

\* The threads in I/O are interchangeable.
Symmetry == Permutations(IoThreads)
=============================================================================
