------------------------- MODULE MCModelSimulation -------------------------
(* An instance of ModelSimulation for TLC: source, a remote queueing node, a  *)
(* local delay, sink; a customer may skip the delay.                         *)
EXTENDS ModelSimulation, TLC

TheNodes == {"src", "q", "d", "snk"}
TheKinds == [src |-> "source", q |-> "queue", d |-> "localDelay", snk |-> "sink"]
TheLinks == [src |-> {"q"}, q |-> {"d", "snk"}, d |-> {"snk"}, snk |-> {}]
TheServers == [n \in {"q"} |-> 1]
=============================================================================
