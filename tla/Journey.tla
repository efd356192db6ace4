------------------------------- MODULE Journey -------------------------------
(* The aggregate of one fabrication job (domain/journey.py) and the status      *)
(* table of its stage runs (domain/lifecycle.py), as operators on a record.     *)
(*                                                                              *)
(* A run is named by its position in `runs`, an event by its position in        *)
(* `events` (its sequence number), an artifact by its role.  Roles that are     *)
(* recorded together are one role here.  Every operation of the pipelines works *)
(* on the run added last.                                                       *)
EXTENDS Naturals, Sequences, FiniteSets

CONSTANT None

FabricationStage ==
  {"brief", "design", "geometry_validation", "printability_validation", "slicing",
   "fabrication_package"}

StageStatus ==
  {"waiting", "running", "needs_input", "passed", "passed_with_warnings", "failed",
   "cancelled", "superseded"}

Successful == {"passed", "passed_with_warnings"}

JobStatus ==
  {"active", "failed", "needs_input", "ready_for_design", "design_generated",
   "geometry_verified", "printability_assessed", "slicer_verified", "completed"}

AllowedTransitions ==
  [waiting              |-> {"running", "cancelled", "superseded"},
   running              |-> {"needs_input", "cancelled", "failed"} \cup Successful,
   needs_input          |-> {"running", "cancelled", "superseded"},
   passed               |-> {"superseded"},
   passed_with_warnings |-> {"superseded"},
   failed               |-> {},
   cancelled            |-> {},
   superseded           |-> {}]

-----------------------------------------------------------------------------
(* Artifacts.  The files of a slicer run keep their path whether the run        *)
(* succeeded or is recorded as an attempt.                                      *)

LogRole == {"info_logs", "project_logs", "slice_logs"}
SlicerRole == {"installation", "sliced", "preflight"} \cup LogRole
AttemptRole ==
  {"installation_attempt", "info_logs_attempt", "project_logs_attempt", "slice_logs_attempt"}

\* PRODUCTION_PACKAGE_REQUIRED_ROLES
RequiredRole ==
  {"design", "geometry_report", "profiles", "policy", "oriented", "printability_report",
   "installation", "sliced", "preflight"}

Role ==
  RequiredRole \cup SlicerRole \cup AttemptRole \cup {"control", "package_report"}

Path(role) ==
  CASE role = "installation_attempt" -> "installation"
    [] role = "info_logs_attempt"    -> "info_logs"
    [] role = "project_logs_attempt" -> "project_logs"
    [] role = "slice_logs_attempt"   -> "slice_logs"
    [] OTHER                         -> role

\* parent_artifact_ids, by role.
SliceInput == {"oriented", "profiles", "printability_report"}

Parents(role) ==
  CASE role = "design"              -> {"control"}
    [] role = "geometry_report"     -> {"design"}
    [] role = "oriented"            -> {"design", "profiles"}
    [] role = "printability_report" ->
         {"design", "geometry_report", "profiles", "policy", "oriented"}
    [] role = "sliced"              -> SliceInput \cup {"installation"}
    [] role = "preflight"           -> {"sliced", "profiles", "installation"}
    [] role \in LogRole \cup AttemptRole -> SliceInput
    [] role = "package_report"      -> RequiredRole
    [] OTHER                        -> {}

-----------------------------------------------------------------------------
(* The journey                                                                  *)

StageRun ==
  [stage : FabricationStage, attempt : Nat, owned : BOOLEAN, status : StageStatus,
   level : Nat \cup {None}, started : Nat \cup {None}, completed : Nat \cup {None},
   inputs : SUBSET Role]

StageEvent == [run : Nat, status : StageStatus, at : Nat]
Artifact == [role : Role, run : Nat, at : Nat]
Finding == [kind : {"error", "warning", "decision"}, run : Nat, at : Nat]

FabricationJourney ==
  [status : JobStatus, created : Nat, updated : Nat, revision : Nat \cup {None},
   runs : Seq(StageRun), events : Seq(StageEvent), artifacts : SUBSET Artifact,
   findings : SUBSET Finding]

ArtifactManifest ==
  [runs : SUBSET Nat, artifacts : SUBSET Artifact, findings : SUBSET Finding,
   generated : Nat]

\* None is no number, no journey and no manifest.
ASSUME NoneAssumption == None \notin Nat \cup FabricationJourney \cup ArtifactManifest

NewJourney(t) ==
  [status |-> "active", created |-> t, updated |-> t, revision |-> None,
   runs |-> <<>>, events |-> <<>>, artifacts |-> {}, findings |-> {}]

Last(j) == j.runs[Len(j.runs)]
RolesOf(j) == {a.role : a \in j.artifacts}

UpdateStatus(j, status, t) == [j EXCEPT !.status = status, !.updated = t]

\* The first revision; it takes over the run that produced its specification.
AddRevision(j, t) ==
  [j EXCEPT !.revision = t, !.updated = t, !.runs[Len(j.runs)].owned = TRUE]

AddStageRun(j, stage, attempt) ==
  [j EXCEPT !.runs = Append(@,
     [stage |-> stage, attempt |-> attempt, owned |-> j.revision # None,
      status |-> "waiting", level |-> None, started |-> None, completed |-> None,
      inputs |-> {}])]

CanTransition(j, status) == status \in AllowedTransitions[Last(j).status]

Transition(j, status, level, t) ==
  LET run == Last(j)
  IN [j EXCEPT !.runs[Len(j.runs)] =
       [run EXCEPT !.status = status,
                   !.level = IF level = None THEN run.level ELSE level,
                   !.started = IF status = "running" /\ run.started = None THEN t
                               ELSE run.started,
                   !.completed = IF status \in {"running", "needs_input"} THEN None ELSE t]]

SetInputs(j, roles) == [j EXCEPT !.runs[Len(j.runs)].inputs = roles]

\* Mutant: every event is stamped when it is emitted.
EmitAtClock(j, t) ==
  [j EXCEPT !.events = Append(@, [run |-> Len(j.runs), status |-> Last(j).status, at |-> t])]

\* A terminal event carries the time of the transition it describes.
Emit(j, t) ==
  [j EXCEPT !.events = Append(@,
     [run |-> Len(j.runs), status |-> Last(j).status,
      at |-> IF Last(j).completed # None THEN Last(j).completed ELSE t])]

Record(j, roles, t) ==
  [j EXCEPT !.artifacts = @ \cup {[role |-> r, run |-> Len(j.runs), at |-> t] : r \in roles}]

\* A finding, or the decision to confirm the specification.
Note(j, kind, t) ==
  [j EXCEPT !.findings = @ \cup {[kind |-> kind, run |-> Len(j.runs), at |-> t]}]

NoteIf(condition, j, kind, t) == IF condition THEN Note(j, kind, t) ELSE j

OwnedRuns(j) == {i \in DOMAIN j.runs : j.runs[i].owned}
OwnedFindings(j) == {f \in j.findings : j.runs[f.run].owned}
Warned(j) == \E f \in OwnedFindings(j) : f.kind = "warning"

\* manifest_for_revision
Manifest(j, t) ==
  [runs |-> OwnedRuns(j), artifacts |-> j.artifacts, findings |-> OwnedFindings(j),
   generated |-> t]

\* The runs of a stage that succeeded.
PassedRuns(j, stage) ==
  {i \in OwnedRuns(j) : j.runs[i].stage = stage /\ j.runs[i].status \in Successful}

HasRun(j, stages) == \E i \in OwnedRuns(j) : j.runs[i].stage \in stages

-----------------------------------------------------------------------------
(* What the constructors accept: a ValueError otherwise.                        *)

\* StageRun.__post_init__
RunWellFormed(run) ==
  /\ run.status = "waiting" => run.started = None /\ run.completed = None
  /\ run.status \in {"running", "needs_input"} => run.started # None /\ run.completed = None
  /\ run.status \in Successful \cup {"failed"} => run.started # None /\ run.completed # None
  /\ run.status \in {"cancelled", "superseded"} => run.completed # None
  /\ run.started # None /\ run.completed # None => run.started <= run.completed
  /\ run.status \in Successful => run.level # None

\* Job.__post_init__
JobWellFormed(j) == j.status \in JobStatus /\ j.created <= j.updated

\* _validate_child, _attach_to_run and _record_file: a record belongs to a run of the
\* revision, or to one before there was a revision, and no role is recorded twice.
ChildrenWellFormed(j) ==
  /\ \A f \in j.findings : f.run \in DOMAIN j.runs
  /\ {a.run : a \in j.artifacts} \subseteq OwnedRuns(j)
  /\ Cardinality(RolesOf(j)) = Cardinality(j.artifacts)

WellFormed(j) ==
  /\ JobWellFormed(j)
  /\ \A i \in DOMAIN j.runs : RunWellFormed(j.runs[i])
  /\ ChildrenWellFormed(j)

\* ArtifactManifest.__post_init__
ManifestWellFormed(m) ==
  \A x \in m.artifacts \cup m.findings : x.run \in m.runs /\ x.at <= m.generated
=============================================================================
