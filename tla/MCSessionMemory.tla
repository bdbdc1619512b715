--------------------------- MODULE MCSessionMemory ---------------------------
(* Small instances of SessionMemory for TLC. *)
EXTENDS SessionMemory, TLC

\* Saves are interchangeable, and so are processes.
Symmetry == Permutations(Saves) \cup Permutations(Procs)
=============================================================================
