--------------------------- MODULE MCIoSimulation ---------------------------
EXTENDS IoSimulation

\* Configurations: predictions with the normal protocol, the recognition of
\* cached calls without a protocol.
MCPredictions == [p \in Protocols |-> IF p \in {"none", "normal"} THEN {0, 1} ELSE {0}]
MCThreshold == [p \in Protocols |-> IF p = "none" THEN 1 ELSE 0]
=============================================================================
