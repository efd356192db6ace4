--------------------------- MODULE JourneyPipeline ---------------------------
(* How one job comes to its evidence: the Brief gate (orchestrator.py), the CAD *)
(* pipeline (cad/pipeline.py) and the slicing pipeline (slicing/pipeline.py),   *)
(* which build a journey in memory and write it to the revision directory.      *)
(*                                                                              *)
(* The process may stop at every step: it dies, or an exception that no handler *)
(* of the pipelines catches throws its journey away.  What is on disk stays.    *)
EXTENDS Journey, CadRun, SlicerRun

CONSTANTS MaxTime,      \* bound of the clock
          MaxAttempts   \* PipelineOrchestrator.max_attempts

ASSUME PipelineAssumption == MaxTime \in Nat /\ MaxAttempts \in Nat \ {0}

\* package.json, by what it says and whether it is whole.
Package == [warned : BOOLEAN, inputs : SUBSET Artifact, whole : BOOLEAN]

ASSUME PackageAssumption == None \notin Package

VARIABLES clock,      \* the wall clock, which never steps back
          pc,         \* where the process is
          journey,    \* the FabricationJourney in memory
          disk        \* journey.json, manifest.json and fabrication/package.json

pipelineVars == <<clock, pc, journey, disk, cad>>

\* What a package.json cut short by the end of the process reads as.
Torn == [warned |-> FALSE, inputs |-> {}, whole |-> FALSE]

EmptyDisk == [journey |-> None, manifest |-> None, package |-> None]

\* Where a caller of the pipelines has its outcome.
Settled == {"briefed", "designed", "fabricated"}

\* The next n readings of the clock.
Stamps(n) ==
  {[i \in 1..n |-> clock + Cardinality({late \in clock + 1..MaxTime : before[late] < i})] :
     before \in [clock + 1..MaxTime -> 0..n]}

\* The process did something to its journey, the last of it at time t.
Moves(next, j, t) ==
  /\ pc' = next /\ journey' = j /\ clock' = t
  /\ WellFormed(journey')
  /\ UNCHANGED disk

Do(next, j, t) == Moves(next, j, t) /\ UNCHANGED cad

-----------------------------------------------------------------------------
(* A stage                                                                      *)

StartStage(j, stage, attempt, inputs, t) ==
  LET queued == Emit(SetInputs(AddStageRun(j, stage, attempt), inputs), t[1])
  IN Emit(Transition(queued, "running", None, t[2]), t[3])

PassStage(j, warned, level, status, t) ==
  LET passed == Transition(j, IF warned THEN "passed_with_warnings" ELSE "passed", level, t[1])
  IN UpdateStatus(Emit(passed, t[2]), status, t[3])

\* Mutant: the failure supersedes the run before it.
FailStageSuperseding(j, t) ==
  LET failed == Emit(Transition(Note(j, "error", t[1]), "failed", None, t[2]), t[3])
  IN UpdateStatus([failed EXCEPT !.runs =
                     [i \in DOMAIN @ |-> IF i = Len(@) - 1 THEN [@[i] EXCEPT !.status = "superseded"]
                                                           ELSE @[i]]],
                  "failed", t[4])

\* _record_design_failure, _record_geometry_failure, _fail_stage.
FailStage(j, t) ==
  UpdateStatus(Emit(Transition(Note(j, "error", t[1]), "failed", None, t[2]), t[3]),
               "failed", t[4])

-----------------------------------------------------------------------------
(* The Brief gate                                                               *)

\* Who comes to the gate: the command line with a request, which it only answers; a
\* project with a complete draft, which confirm_brief publishes; and the callers of the
\* CAD pipeline, with a specification that was confirmed before.
Gate == {"request", "draft", "spec"}

StartBrief ==
  /\ pc = "start"
  /\ \E t \in Stamps(4), gate \in Gate :
       Do(gate, StartStage(NewJourney(t[1]), "brief", 1, {}, [i \in 1..3 |-> t[i + 1]]), t[4])

\* The parser raises; the next attempt is a run of its own.
ParseFails ==
  /\ pc = "request" /\ CanTransition(journey, "failed")
  /\ \E t \in Stamps(8) :
       LET attempt == Last(journey).attempt
           failed  == Emit(Transition(Note(journey, "error", t[1]), "failed", None, t[2]), t[3])
       IN IF attempt < MaxAttempts
          THEN Do("request",
                  StartStage(Emit(failed, t[4]), "brief", attempt + 1, {},
                             [i \in 1..3 |-> t[i + 4]]), t[8])
          ELSE Do("answered", UpdateStatus(failed, "failed", t[4]), t[8])

\* Whether the specification was a draft that the user confirms, which is refused when a
\* requirement is open.
Confirmations(ready) ==
  {confirmed \in BOOLEAN : /\ confirmed => ready /\ pc # "spec"
                           /\ pc = "draft" => confirmed = ready}

CompleteBrief ==
  /\ pc \in Gate
  /\ \E t \in Stamps(7), ready \in BOOLEAN : \E confirmed \in Confirmations(ready) :
       LET parsed  == Emit(AddRevision(journey, t[1]), t[2])
           decided == NoteIf(confirmed, parsed, "decision", t[3])
           asked   == Emit(Transition(Note(decided, "warning", t[4]), "needs_input", None, t[5]),
                           t[6])
       IN IF ready
          THEN /\ CanTransition(journey, "passed")
               /\ Do([request |-> "answered", draft |-> "confirmed", spec |-> "ready"][pc],
                     PassStage(decided, FALSE, 0, "ready_for_design", <<t[4], t[5], t[6]>>), t[7])
          ELSE /\ CanTransition(journey, "needs_input")
               /\ Do(IF pc = "request" THEN "answered" ELSE "refused",
                     UpdateStatus(asked, "needs_input", t[7]), t[7])

\* confirm_brief writes both files to a staging directory and renames it into place.
PublishBrief ==
  /\ pc = "confirmed"
  /\ \E t \in Stamps(1) :
       /\ disk' = [disk EXCEPT !.journey = journey, !.manifest = Manifest(journey, t[1])]
       /\ ManifestWellFormed(disk'.manifest)
       /\ clock' = t[1]
  /\ pc' = "briefed"
  /\ UNCHANGED <<journey, cad>>

-----------------------------------------------------------------------------
(* The CAD pipeline                                                             *)

RequireReady(j) ==
  /\ j.status = "ready_for_design"
  /\ \E i \in PassedRuns(j, "brief") : j.runs[i].level = 0
  /\ ~HasRun(j, {"design", "geometry_validation"})

StartDesign ==
  /\ pc \in {"ready", "refused", "designed"} /\ RequireReady(journey)
  /\ \E t \in Stamps(3) : Do("designing", StartStage(journey, "design", 1, {}, t), t[3])

\* CadWorkerRunner.run.
BeginRun ==
  /\ pc = "designing" /\ StartWorker
  /\ pc' = "waiting"
  /\ UNCHANGED <<clock, journey, disk>>

FinishRun ==
  /\ pc = "waiting" /\ (JudgeResult \/ WorkerTimesOut)
  /\ pc' = "worked"
  /\ UNCHANGED <<clock, journey, disk>>

\* The runner raises: nothing of the worker is recorded.
RunnerRaises ==
  /\ pc \in {"designing", "waiting"} /\ CanTransition(journey, "failed")
  /\ IF pc = "waiting" THEN WorkerAbandoned ELSE UNCHANGED cad
  /\ \E t \in Stamps(4) : Moves("indexing", FailStage(journey, t), t[4])

\* The worker failed, or its files cannot be recorded, or its result lacks a role: some
\* of the control and design artifacts are recorded by then.
DesignFails ==
  /\ pc = "worked" /\ CanTransition(journey, "failed")
  /\ \E t \in Stamps(5), roles \in {{}, {"control"}, {"control", "design"}} :
       /\ "design" \in roles => cad.result \in Successes
       /\ LET recorded == SetInputs(Record(journey, roles, t[1]), roles \cap {"control"})
          IN Do("indexing", FailStage(recorded, [i \in 1..4 |-> t[i + 1]]), t[5])

\* R1, and the geometry stage starts with the report the worker left.
DesignPasses ==
  /\ pc = "worked" /\ cad.result \in Successes /\ CanTransition(journey, "passed")
  /\ \E t \in Stamps(9) :
       LET control  == SetInputs(Record(journey, {"control"}, t[1]), {"control"})
           designed == PassStage(Record(control, {"design"}, t[2]), FALSE, 1,
                                 "design_generated", <<t[3], t[4], t[5]>>)
           started  == StartStage(designed, "geometry_validation", 1, {"design"},
                                  <<t[6], t[7], t[8]>>)
       IN Do("checking", Record(started, {"geometry_report"}, t[9]), t[9])

\* The report cannot be trusted (no check event), or a check failed.  A report of a
\* success cannot have a failed check.
GeometryFails ==
  /\ pc = "checking" /\ CanTransition(journey, "failed")
  /\ \E t \in Stamps(5), checked \in {FALSE, cad.result = "R1"} :
       Do("indexing", FailStage(IF checked THEN Emit(journey, t[1]) ELSE journey,
                                [i \in 1..4 |-> t[i + 1]]), t[5])

GeometryPasses ==
  /\ pc = "checking" /\ cad.result = "R2" /\ CanTransition(journey, "passed")
  /\ \E t \in Stamps(4) :
       Do("indexing", PassStage(Emit(journey, t[1]), FALSE, 2, "geometry_verified",
                                <<t[2], t[3], t[4]>>), t[4])

-----------------------------------------------------------------------------
(* _persist: two files, each written aside and renamed                          *)

IndexJourney ==
  /\ pc = "indexing"
  /\ disk' = [disk EXCEPT !.journey = journey]
  /\ pc' = "indexed"
  /\ UNCHANGED <<clock, journey, cad>>

\* The manifest is made after the journey is in place, and stamped then.
IndexManifest ==
  /\ pc = "indexed"
  /\ \E t \in Stamps(1) :
       /\ disk' = [disk EXCEPT !.manifest = Manifest(journey, t[1])]
       /\ ManifestWellFormed(disk'.manifest)
       /\ clock' = t[1]
  /\ pc' = IF HasRun(journey, {"printability_validation"}) THEN "fabricated" ELSE "designed"
  /\ UNCHANGED <<journey, cad>>

-----------------------------------------------------------------------------
(* The slicing pipeline                                                         *)

\* Mutant: the status of the job and the runs it already has are not looked at.
RequireR2Lax(j) ==
  /\ PassedRuns(j, "design") # {}
  /\ {"design", "geometry_report"} \subseteq RolesOf(j)

RequireR2(j) ==
  /\ j.status = "geometry_verified"
  /\ \E i \in PassedRuns(j, "geometry_validation") :
       /\ j.runs[i].level = 2
       /\ PassedRuns(j, "geometry_validation") = {i}
  /\ ~HasRun(j, {"printability_validation", "slicing", "fabrication_package"})
  /\ {"design", "geometry_report"} \subseteq RolesOf(j)

StartPrintability ==
  /\ pc \in {"designed", "fabricated"} /\ RequireR2(journey)
  /\ ~DesignEdited
  /\ \E t \in Stamps(3) :
       Do("assessing", StartStage(journey, "printability_validation", 1, {}, t), t[3])

\* An exception between any two of the files of the stage.
PrintabilityRaises ==
  /\ pc = "assessing" /\ CanTransition(journey, "failed")
  /\ \E t \in Stamps(5),
        roles \in {{}, {"profiles"}, {"profiles", "policy"}, {"profiles", "policy", "oriented"},
                   {"profiles", "policy", "oriented", "printability_report"}} :
       Do("indexing", FailStage(Record(journey, roles, t[1]), [i \in 1..4 |-> t[i + 1]]), t[5])

\* Mutant: the policy of the run is not recorded.
AssessedWithoutPolicy(failed, t) ==
  LET files    == Record(Record(journey, {"profiles"}, t[1]), {"oriented"}, t[2])
      reported == SetInputs(Record(files, {"printability_report"}, t[3]),
                            {"profiles", "design", "geometry_report"})
  IN Note(NoteIf(failed, Emit(reported, t[4]), "error", t[5]), "warning", t[6])

\* The checks of the report are events; its failures are findings, and so are the
\* physical unknowns that every report lists.
Assessed(failed, t) ==
  LET inputs   == {"profiles", "policy"}
      files    == Record(Record(journey, inputs, t[1]), {"oriented"}, t[2])
      reported == SetInputs(Record(files, {"printability_report"}, t[3]),
                            inputs \cup {"design", "geometry_report"})
  IN Note(NoteIf(failed, Emit(reported, t[4]), "error", t[5]), "warning", t[6])

PrintabilityFails ==
  /\ pc = "assessing" /\ CanTransition(journey, "failed")
  /\ \E t \in Stamps(9) :
       LET failed == Emit(Transition(Assessed(TRUE, t), "failed", None, t[7]), t[8])
       IN Do("indexing", UpdateStatus(failed, "failed", t[9]), t[9])

\* R3, and the slicing stage starts.
PrintabilityPasses ==
  /\ pc = "assessing" /\ CanTransition(journey, "passed")
  /\ \E t \in Stamps(12) :
       LET passed == PassStage(Assessed(FALSE, t), TRUE, 3, "printability_assessed",
                               <<t[7], t[8], t[9]>>)
       IN Do("slicing", StartStage(passed, "slicing", 1, SliceInput, <<t[10], t[11], t[12]>>),
             t[12])

\* Files of the slicer already recorded keep their artifact; the others become attempts.
Attempts(j, written) ==
  {r \in AttemptRole : Path(r) \in written /\ Path(r) \notin {Path(q) : q \in RolesOf(j)}}

\* The slicer raises after some of its files, or one of them cannot be recorded.
SlicingRaises ==
  /\ pc = "slicing" /\ CanTransition(journey, "failed")
  /\ \E t \in Stamps(6), n \in 0..Len(RecordOrder) - 1, written \in FailedRunFiles \cup {AllFiles} :
       /\ n > 0 => written = AllFiles
       /\ LET kept  == Record(journey, RecordedUpTo(n), t[1])
              tried == Record(kept, Attempts(kept, written), t[2])
          IN Do("indexing", FailStage(tried, [i \in 1..4 |-> t[i + 2]]), t[6])

\* The G-code preflight and the warning policy: advisories stay visible, blockers fail R4.
SlicerGate(gate, t) ==
  LET files == Record(Record(journey, RecordedUpTo(4), t[1]), AllFiles \ RecordedUpTo(4), t[2])
  IN Emit(NoteIf(gate.blocked, NoteIf(gate.advised, files, "warning", t[3]), "error", t[4]), t[5])

SlicingBlocked ==
  /\ pc = "slicing" /\ CanTransition(journey, "failed")
  /\ \E t \in Stamps(8), gate \in {g \in GateOutcomes : g.blocked} :
       LET failed == Emit(Transition(SlicerGate(gate, t), "failed", None, t[6]), t[7])
       IN Do("indexing", UpdateStatus(failed, "failed", t[8]), t[8])

\* R4; nothing is written yet.
SlicingPasses ==
  /\ pc = "slicing" /\ CanTransition(journey, "passed")
  /\ \E t \in Stamps(8), gate \in {g \in GateOutcomes : ~g.blocked} :
       Do("packaging", PassStage(SlicerGate(gate, t), gate.advised, 4, "slicer_verified",
                                 <<t[6], t[7], t[8]>>), t[8])

\* The package stage: package.json is written in place, not renamed.
CanPackage ==
  RequiredRole \subseteq RolesOf(journey) /\ disk.package = None /\ ~DesignEdited

StartPackage ==
  /\ pc = "packaging" /\ CanPackage
  /\ \E t \in Stamps(2) :
       LET queued  == Emit(AddStageRun(journey, "fabrication_package", 1), t[1])
           running == Transition(queued, "running", None, t[2])
       IN /\ journey' = SetInputs(running, RequiredRole)
          /\ clock' = t[2]
  /\ disk' = [disk EXCEPT !.package = Torn]
  /\ pc' = "writing"
  /\ UNCHANGED cad

\* An exception that leaves the pipeline: R3 and R4 are thrown away.
PackageRefused ==
  /\ pc = "packaging" /\ ~CanPackage
  /\ pc' = "unpackaged" /\ journey' = None
  /\ UNCHANGED <<clock, disk, cad>>

WritePackage ==
  /\ pc = "writing"
  /\ disk' = [disk EXCEPT !.package =
                [warned |-> Warned(journey), whole |-> TRUE,
                 inputs |-> {a \in journey.artifacts : a.role \in RequiredRole}]]
  /\ pc' = "written"
  /\ UNCHANGED <<clock, journey, cad>>

CompletePackage ==
  /\ pc = "written" /\ CanTransition(journey, "passed")
  /\ \E t \in Stamps(4) :
       Do("indexing", PassStage(Record(journey, {"package_report"}, t[1]), Warned(journey), 4,
                                "completed", <<t[2], t[3], t[4]>>), t[4])

-----------------------------------------------------------------------------
(* The end of the process, or an exception that leaves the pipelines            *)

Stop ==
  /\ pc \notin {"start", "answered", "stopped", "unpackaged"} \cup Settled
  /\ pc' = "stopped"
  /\ journey' = None
  /\ UNCHANGED <<clock, disk, cad>>

\* The worker is not stopped with it.
Beside(step) == step /\ UNCHANGED <<clock, pc, journey, disk>>

\* The design is changed, by whatever means, while the worker runs or later.  A later
\* change counts from the moment somebody may look at the design again.
DesignTouched ==
  /\ pc \in {"waiting", "packaging"} \cup Settled
  /\ Beside(DesignAltered)

-----------------------------------------------------------------------------

PipelineInit ==
  /\ clock = 0 /\ pc = "start" /\ journey = None /\ disk = EmptyDisk
  /\ cad = NoRun

BriefStep == StartBrief \/ ParseFails \/ CompleteBrief \/ PublishBrief

CadStep ==
  \/ StartDesign \/ BeginRun \/ FinishRun \/ RunnerRaises
  \/ DesignFails \/ DesignPasses \/ GeometryFails \/ GeometryPasses

Persist == IndexJourney \/ IndexManifest

SlicingStep ==
  \/ StartPrintability \/ PrintabilityRaises \/ PrintabilityFails \/ PrintabilityPasses
  \/ SlicingRaises \/ SlicingBlocked \/ SlicingPasses
  \/ StartPackage \/ PackageRefused \/ WritePackage \/ CompletePackage

PipelineStep == BriefStep \/ CadStep \/ Persist \/ SlicingStep \/ Beside(WorkerStep)
=============================================================================
