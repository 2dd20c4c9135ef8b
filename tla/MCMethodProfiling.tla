-------------------------- MODULE MCMethodProfiling --------------------------
EXTENDS MethodProfiling, TLC

CONSTANTS a, i, m

\* a is an ordinary method with a scaling factor, i an I/O call, and m has a
\* performance model and is not registered.
MCScaling == (a :> 2) @@ (i :> 1) @@ (m :> 3)

MCConfigurations == {<<TRUE, "absolute">>, <<FALSE, "relative">>}
=============================================================================
