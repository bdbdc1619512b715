------------------------- MODULE MCEvolutionVersion -------------------------
(* Small instances of EvolutionVersion for TLC. *)
EXTENDS EvolutionVersion, TLC

\* Clients are interchangeable; versions are not, they are ordered by their id.
Symmetry == Permutations(Clients)
=============================================================================
