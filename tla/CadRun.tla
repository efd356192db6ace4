-------------------------------- MODULE CadRun --------------------------------
(* The CAD worker (cad/worker.py), a process of its own, and the runner that     *)
(* starts it, waits for it with a timeout and judges what it left                *)
(* (cad/runner.py).  The design directory is built aside and renamed into place; *)
(* the result file is written in place by the worker and, when the runner does   *)
(* not believe it, once more by the runner.  Geometry is an outcome: R2 when     *)
(* every check of the report passed, R1 when one failed.                         *)
CONSTANT Edits   \* what may become of a published file

VARIABLE cad   \* the worker, and what is in the revision directory because of it

\* CadBuildResult, by what it says.  "foreign" has another identity than the request.
Failed == {"failure", "foreign"}
Successes == {"R1", "R2"}

NoRun == [worker |-> "none", report |-> "none", result |-> "none", design |-> "none"]

Building == {"opening", "building", "exporting"}
Running == Building \cup {"reporting", "writing", "leaving"}

Worker(next) == cad' = [cad EXCEPT !.worker = next]

\* CadBuildResult as the worker has it in memory.
Reports(result) == cad' = [cad EXCEPT !.worker = "reporting", !.report = result]

-----------------------------------------------------------------------------
(* The worker                                                                    *)

\* CadWorkerRunner.run refuses files of an earlier run, writes the request and starts it.
StartWorker ==
  /\ cad.worker = "none"
  /\ cad.result = "none" /\ cad.design = "none"
  /\ Worker("opening")

\* The request is read and staging is made anew, unless there is a design already.
OpenStaging ==
  /\ cad.worker = "opening"
  /\ IF cad.design = "none" THEN Worker("building") ELSE Reports("failure")

\* The part is built in staging, measured there and exported.
BuildPart == cad.worker = "building" /\ Worker("exporting")

\* An exception.  Staging is removed; when that fails too, or the request could not be
\* read, main answers for a request it does not name.
BuildFails ==
  /\ cad.worker \in Building
  /\ \E result \in Failed : Reports(result)

\* The rename is the last thing that can fail.
PublishDesign ==
  /\ cad.worker = "exporting" /\ cad.design = "none"
  /\ \E result \in Successes :
       cad' = [cad EXCEPT !.worker = "reporting", !.report = result, !.design = "whole"]

OpenResult ==
  /\ cad.worker = "reporting"
  /\ cad' = [cad EXCEPT !.worker = "writing", !.result = "torn"]

WriteResult ==
  /\ cad.worker = "writing"
  /\ cad' = [cad EXCEPT !.worker = "leaving", !.result = cad.report]

\* The exit code says what the report says.
LeaveWorker == cad.worker = "leaving" /\ Worker("exited")

\* It crashes, while the interpreter is taken down at the latest: any other exit code.
WorkerDies == cad.worker \in Running /\ Worker("died")

WorkerStep ==
  \/ OpenStaging \/ BuildPart \/ BuildFails \/ PublishDesign
  \/ OpenResult \/ WriteResult \/ LeaveWorker \/ WorkerDies

-----------------------------------------------------------------------------
(* The runner                                                                    *)

\* A file of the design is not, or no longer, what the result says of it: before the
\* runner has looked at it, or after.
DesignAltered ==
  /\ cad.design = "whole" /\ cad.worker # "none"
  /\ \E design \in IF cad.worker = "gone" THEN Edits ELSE {"wrong"} :
       cad' = [cad EXCEPT !.design = design]

DesignEdited == cad.design \in Edits

\* The run is over, with the files it left.
Ended(result, design) ==
  cad' = [worker |-> "gone", report |-> "none", result |-> result, design |-> design]

\* The worker is killed, wherever it is.  What it has published stays.
WorkerTimesOut == cad.worker \in Running /\ Ended("failure", cad.design)

\* subprocess.run, or a log of the worker, raises: no result is read or written.
WorkerAbandoned ==
  cad.worker \in Running \cup {"exited", "died"} /\ Ended(cad.result, cad.design)

ReadResult == IF cad.result \in Successes THEN cad.result ELSE "failure"

\* Mutant: what the result says of the files is believed.
BelieveResult ==
  /\ cad.worker \in {"exited", "died"}
  /\ Ended(IF cad.worker = "died" THEN "failure" ELSE ReadResult, cad.design)

\* No result, a torn or a foreign one is a failure.  So is a success whose files are
\* not the described ones, which are moved aside if they can be, and a success of a
\* worker that exits with an error, whose files stay.
JudgeResult ==
  /\ cad.worker \in {"exited", "died"}
  /\ IF ReadResult \in Successes /\ cad.design # "whole"
     THEN \E design \in {cad.design, "rejected"} : Ended("failure", design)
     ELSE Ended(IF cad.worker = "died" THEN "failure" ELSE ReadResult, cad.design)
=============================================================================
