---------------------------- MODULE MCDeadLetters ----------------------------
(* Small instances of DeadLetters for TLC. *)
EXTENDS DeadLetters, TLC

CONSTANTS r1, r2, r3, i1, i2

\* Two rounds of one process and one of another.
Overlapping == r1 :> i1 @@ r2 :> i1 @@ r3 :> i2
Alone       == r1 :> i1
=============================================================================
