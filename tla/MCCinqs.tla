------------------------------ MODULE MCCinqs ------------------------------
(* An instance of Cinqs for TLC: a branch to a queueing node with a bounded   *)
(* queue and a link back to itself, a preemptive node and a sharing node     *)
(* whose customers go on through a plain node and a delay.                   *)
EXTENDS Cinqs, TLC

CONSTANTS src, queueing, preemptive, sharer, plain, delay, snk, nil

TheNodes == {src, queueing, preemptive, sharer, plain, delay, snk, nil}
TheKinds == src :> "source" @@ queueing :> "queueing" @@ preemptive :> "preemptive"
            @@ sharer :> "sharing" @@ plain :> "node" @@ delay :> "delay" @@ snk :> "sink"
            @@ nil :> "null"
TheLinks == src :> {queueing, preemptive, sharer} @@ queueing :> {queueing, snk}
            @@ preemptive :> {snk} @@ sharer :> {plain} @@ plain :> {delay} @@ delay :> {snk}
            @@ snk :> {} @@ nil :> {}
TheServers == [n \in TheNodes |-> 1]
TheCapacities == [n \in TheNodes |-> IF n = queueing THEN 2 ELSE 4]
TheLossNodes == [n \in TheNodes |-> nil]
TheRanks == [c \in Customers |-> IF c = 1 THEN 1 ELSE IF c = 2 THEN 2 ELSE 0]
=============================================================================
