-------------------------- MODULE MCExecutionPlan --------------------------
(* Small instances of ExecutionPlan for TLC. *)
EXTENDS ExecutionPlan, TLC

Symmetry == Permutations(Procs) \cup Permutations(Tokens)

\* A write with something to do after it, and the other kinds of steps.
Mixed == {<<"write", "read">>, <<"agent", "write">>, <<"condition", "broken">>, <<"write", "end">>,
          <<"direct", "write">>}
=============================================================================
