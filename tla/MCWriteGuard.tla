---------------------------- MODULE MCWriteGuard ----------------------------
(* Small instances of WriteGuard for TLC. *)
EXTENDS WriteGuard, TLC

\* Requests are interchangeable, and so are processes.
Symmetry == Permutations(Requests) \cup Permutations(Procs)
=============================================================================
