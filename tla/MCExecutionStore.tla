-------------------------- MODULE MCExecutionStore --------------------------
(* Small instances of ExecutionStore for TLC. *)
EXTENDS ExecutionStore, TLC

CONSTANT MaxTime

MCTime == 0..MaxTime

\* Executions, keys, runners and journeys are interchangeable.
Symmetric == Permutations(Execution) \cup Permutations(Key) \cup Permutations(Runner)
               \cup Permutations(Journey)
=============================================================================
