--------------------------- MODULE MCThreadManager ---------------------------
(* Small instances of ThreadManager for TLC. *)
EXTENDS ThreadManager, TLC

\* Threads are interchangeable.
Symmetry == Permutations(Threads)
=============================================================================
