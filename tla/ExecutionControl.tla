-------------------------- MODULE ExecutionControl --------------------------
(***************************************************************************)
(* What the execution store promises its callers, without leases, fences,  *)
(* clocks or logs: requests wait in a bounded queue, one at a time runs in *)
(* the order of acceptance, and every execution ends once.  The statuses   *)
(* and their order are those of ExecutionStatus in execution/contracts.py, *)
(* guarded in SQL by executions_transition_guard in execution/store.py.    *)
(***************************************************************************)
EXTENDS Integers, FiniteSets

CONSTANTS Execution, MaxQueued

VARIABLES
  status,   \* what a client reads of each execution
  ticket    \* its place in the order of acceptance, 0 before

controlVars == <<status, ticket>>

Waiting == {e \in Execution : status[e] = "queued"}
Running == {e \in Execution : status[e] \in {"running", "cancellation_requested"}}

Moves(e, to) == status' = [status EXCEPT ![e] = to]

Accept(e) ==
  /\ status[e] = "absent"
  /\ Cardinality(Waiting) < MaxQueued
  /\ Moves(e, "queued")
  /\ \A f \in Execution \ {e} : ticket'[e] > ticket[f]
  /\ ticket' = [ticket EXCEPT ![e] = ticket'[e]]

\* The first waiting request runs, if nothing runs or what ran lost its runner.
Start(e) ==
  /\ e \in Waiting
  /\ \A f \in Waiting : ticket[e] <= ticket[f]
  /\ status' = [f \in Execution |-> IF f = e THEN "running"
                                    ELSE IF f \in Running THEN "interrupted"
                                    ELSE status[f]]
  /\ UNCHANGED ticket

CancelWaiting(e) == e \in Waiting /\ Moves(e, "cancelled") /\ UNCHANGED ticket

CancelRun(e) ==
  /\ status[e] = "running"
  /\ Moves(e, "cancellation_requested")
  /\ UNCHANGED ticket

\* A run that was asked to stop can no longer succeed, and only such a run is
\* reported cancelled.
End(e) ==
  /\ \/ /\ status[e] = "running"
        /\ \E to \in {"succeeded", "failed", "interrupted"} : Moves(e, to)
     \/ /\ status[e] = "cancellation_requested"
        /\ \E to \in {"cancelled", "failed", "interrupted"} : Moves(e, to)
  /\ UNCHANGED ticket

Init ==
  /\ status = [e \in Execution |-> "absent"]
  /\ ticket = [e \in Execution |-> 0]

Next == \E e \in Execution :
  Accept(e) \/ Start(e) \/ CancelWaiting(e) \/ CancelRun(e) \/ End(e)

Spec == Init /\ [][Next]_controlVars
=============================================================================
