--------------------- MODULE MCMulticoreVirtualTimeline ---------------------
(* Small instances of MulticoreVirtualTimeline for TLC. *)
EXTENDS MulticoreVirtualTimeline, TLC

\* Threads are interchangeable; cores are not, the first oldest one is chosen.
Symmetry == Permutations(Threads)
=============================================================================
