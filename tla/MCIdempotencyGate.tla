-------------------------- MODULE MCIdempotencyGate --------------------------
(* Small instances of IdempotencyGate for TLC. *)
EXTENDS IdempotencyGate, TLC

\* Calls are interchangeable: no safety property singles one out.
Symmetry == Permutations(Calls)
=============================================================================
