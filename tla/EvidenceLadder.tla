---------------------------- MODULE EvidenceLadder ----------------------------
(* What a revision on disk claims, for whoever reads it: a confirmed Brief, a    *)
(* verified design, a finished package, or a failure that says how far it came.  *)
(* There is nothing in between, and a failure or a package is final.             *)
EXTENDS Integers

VARIABLES level,    \* the highest evidence level on disk, -1 for none
          outcome   \* what the job says of itself

ladder == <<level, outcome>>

Init == level = -1 /\ outcome = "none"

ConfirmBrief ==
  outcome = "none" /\ outcome' = "brief" /\ level' = 0

Verify ==
  outcome = "none" /\ outcome' = "verified" /\ level' = 2

FailDesign ==
  outcome = "none" /\ outcome' = "failed" /\ level' \in {0, 1}

Complete ==
  outcome = "verified" /\ outcome' = "complete" /\ level' = 4

FailFabrication ==
  outcome = "verified" /\ outcome' = "failed" /\ level' \in {2, 3}

Next == ConfirmBrief \/ Verify \/ FailDesign \/ Complete \/ FailFabrication

Spec == Init /\ [][Next]_ladder
=============================================================================
