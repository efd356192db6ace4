------------------------- MODULE MCExecutionService -------------------------
(* Small instances of ExecutionService for TLC. *)
EXTENDS ExecutionService, TLC

MCTime == 0..MaxTime

CONSTANTS e1, e2, r1, r2

OneTarget == {e1}

\* Runner processes are interchangeable; executions are not, one of them is for R4.
Symmetric == Permutations(Runner)
=============================================================================
