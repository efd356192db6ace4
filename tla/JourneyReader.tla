---------------------------- MODULE JourneyReader ----------------------------
(* The read API (api/repository.py) beside the pipelines that write: a request  *)
(* reads journey.json, then manifest.json, then package.json, and shows them    *)
(* only when all its checks hold.  Checks of single fields against their type   *)
(* or vocabulary are left out.                                                  *)
EXTENDS JourneyPipeline, RevisionViews, Integers

CONSTANT Reader

ASSUME EditsAssumption == Edits \subseteq Faults

VARIABLES reader,     \* what each request has read so far, and its answer
          published   \* history: the disk at each outcome that was gone on from

vars == <<clock, pc, journey, disk, cad, reader, published>>

Waiting ==
  [pc |-> "journey", journey |-> None, manifest |-> None, package |-> None,
   fault |-> "recorded"]

-----------------------------------------------------------------------------
(* _validate_revision_state                                                     *)

Within(t, low, high) == low <= t /\ t <= high

\* A revision and its records fall between its creation and the last job update, and
\* its records belong to its runs.
RecordTimesValid(j) ==
  /\ {a.run : a \in j.artifacts} \subseteq OwnedRuns(j)
  /\ j.created <= j.revision /\ j.revision <= j.updated
  /\ \A a \in j.artifacts : Within(a.at, j.revision, j.updated)
  /\ \A f \in OwnedFindings(j) : Within(f.at, j.revision, j.updated)

\* The conditions of its constructor once more, and times within those of the job.
RunValid(j, run) ==
  /\ RunWellFormed(run)
  /\ run.started # None => Within(run.started, j.created, j.updated)
  /\ run.completed # None => Within(run.completed, j.created, j.updated)

\* A run starts after those before it in the revision have ended, or started.
RunsFollow(j) ==
  LET owned == OwnedRuns(j)
  IN \A i, k \in owned :
       /\ i < k /\ \A m \in owned : ~(i < m /\ m < k)
       /\ j.runs[i].started # None /\ j.runs[k].started # None
       => j.runs[k].started >= IF j.runs[i].completed # None THEN j.runs[i].completed
                                                             ELSE j.runs[i].started

OwnedEvents(j) ==
  LET owned == OwnedRuns(j) IN {n \in DOMAIN j.events : j.events[n].run \in owned}

EventValid(j, event) ==
  LET run == j.runs[event.run]
  IN /\ Within(event.at, j.created, j.updated)
     /\ run.started # None => IF event.status = "waiting" THEN event.at <= run.started
                                                         ELSE event.at >= run.started
     /\ run.completed # None => event.at <= run.completed

\* The last event of a run has its status; sequence order is time order.
EventsValid(j) ==
  LET events == OwnedEvents(j)
  IN /\ \A n \in events : EventValid(j, j.events[n])
     /\ \A n \in events :
          \/ j.events[n].status = j.runs[j.events[n].run].status
          \/ \E m \in events : m > n /\ j.events[m].run = j.events[n].run
     /\ \A n, m \in events : n < m => j.events[n].at <= j.events[m].at

-----------------------------------------------------------------------------
(* _validate_record_graph                                                       *)

\* Inputs and parents come from this run or an earlier one, parents were made first,
\* and no two artifacts share a path.
LineageValid(j) ==
  /\ \A i \in OwnedRuns(j) : \A r \in j.runs[i].inputs :
       \E a \in j.artifacts : a.role = r /\ a.run <= i
  /\ \A a \in j.artifacts : \A r \in Parents(a.role) :
       \E b \in j.artifacts : b.role = r /\ b.run <= a.run /\ b.at <= a.at
  /\ Cardinality({Path(a.role) : a \in j.artifacts}) = Cardinality(j.artifacts)

-----------------------------------------------------------------------------
(* _load, _validate_package_consistency                                         *)

\* Mutant: only the time of the manifest is compared.
ManifestLaterThan(j, m) == m # None => m.generated >= j.updated

\* A missing manifest is allowed.
ManifestAgrees(j, m) ==
  m # None =>
    /\ m.runs = OwnedRuns(j)
    /\ m.artifacts = j.artifacts
    /\ m.findings = OwnedFindings(j)
    /\ m.generated >= j.updated

PackageRuns(j) == {i \in OwnedRuns(j) : j.runs[i].stage = "fabrication_package"}

PackageConsistent(j, m, p) ==
  IF p = None
  THEN PassedRuns(j, "fabrication_package") = {}
  ELSE /\ m # None /\ p.whole
       /\ \E i \in PassedRuns(j, "fabrication_package") :
            /\ PassedRuns(j, "fabrication_package") = {i}
            /\ \A k \in PackageRuns(j) : k <= i
            /\ j.runs[i].level = 4
            /\ j.runs[i].status = IF Warned(j) THEN "passed_with_warnings" ELSE "passed"
            /\ p.warned = Warned(j)
            /\ p.inputs = {a \in j.artifacts : a.role \in RequiredRole}
            /\ j.runs[i].inputs = RequiredRole /\ RequiredRole \subseteq RolesOf(j)
            /\ \E a \in j.artifacts : a.role = "package_report" /\ a.run = i

Accepts(j, m, p) ==
  /\ j # None /\ j.revision # None
  /\ ManifestAgrees(j, m)
  /\ RecordTimesValid(j) /\ \A i \in OwnedRuns(j) : RunValid(j, j.runs[i])
  /\ RunsFollow(j) /\ EventsValid(j)
  /\ LineageValid(j)
  /\ PackageConsistent(j, m, p)

-----------------------------------------------------------------------------
(* A request                                                                    *)

ReadJourney(r) ==
  /\ reader[r].pc = "journey" /\ disk.journey # None
  /\ reader' = [reader EXCEPT ![r].pc = "manifest", ![r].journey = disk.journey]
  /\ UNCHANGED <<pipelineVars, published>>

ReadManifest(r) ==
  /\ reader[r].pc = "manifest"
  /\ reader' = [reader EXCEPT ![r].pc = "package", ![r].manifest = disk.manifest]
  /\ UNCHANGED <<pipelineVars, published>>

\* What has become of the design files by now.
Fault == IF DesignEdited THEN cad.design ELSE "recorded"

\* The files of the reports are read next.  They never change, but for an edit, so that
\* they are read with the package here.
ReadPackage(r) ==
  /\ reader[r].pc = "package"
  /\ LET j == reader[r].journey
         p == disk.package
     IN reader' = [reader EXCEPT ![r] =
          IF Accepts(j, @.manifest, p) /\ ContentIdentity(j, p, Verified(j, p, Fault))
          THEN [@ EXCEPT !.pc = "shown", !.package = p, !.fault = Fault]
          ELSE Waiting]
  /\ UNCHANGED <<pipelineVars, published>>

NextRequest(r) ==
  /\ reader[r].pc = "shown"
  /\ reader' = [reader EXCEPT ![r] = Waiting]
  /\ UNCHANGED <<pipelineVars, published>>

ReaderStep(r) == ReadJourney(r) \/ ReadManifest(r) \/ ReadPackage(r) \/ NextRequest(r)

-----------------------------------------------------------------------------
(* The specification                                                            *)

Init ==
  /\ PipelineInit
  /\ reader = [r \in Reader |-> Waiting]
  /\ published = {}

\* What the callers of the pipelines, the execution service among them, were given.
Publications == published \cup IF pc \in Settled THEN {disk} ELSE {}

Publication == published' = IF pc' \in Settled THEN published ELSE Publications

Next ==
  \/ UNCHANGED reader /\ (PipelineStep \/ Stop \/ DesignTouched) /\ Publication
  \/ \E r \in Reader : ReaderStep(r)

\* A process that does not die goes on, whatever the readers do.
Spec == Init /\ [][Next]_vars
FairSpec == Spec /\ WF_vars(UNCHANGED reader /\ PipelineStep /\ Publication)

-----------------------------------------------------------------------------
(* Properties                                                                   *)

View(r) ==
  [journey |-> reader[r].journey, manifest |-> reader[r].manifest,
   package |-> reader[r].package]

\* However its three reads fall between the writes of a pipeline, and wherever that
\* pipeline stopped, a request shows the files of one publication, or a first
\* journey whose manifest had not been made.
ShowsOnePublication ==
  \A r \in Reader : reader[r].pc = "shown" =>
    \/ View(r) \in Publications
    \/ /\ reader[r].manifest = None /\ reader[r].package = None
       /\ ~HasRun(reader[r].journey, {"printability_validation"})

\* Evidence the pipelines wrote can be read again.  There are two windows in which
\* it cannot, and in which a process that stops leaves it so for good: between
\* journey.json and manifest.json of a later stage, and from package.json to them.
IndexTorn ==
  disk.manifest # None /\ disk.manifest.runs # OwnedRuns(disk.journey)

PackageOrphaned ==
  disk.package # None /\ PackageRuns(disk.journey) = {}

EvidenceReadable ==
  disk.journey # None =>
    \/ Accepts(disk.journey, disk.manifest, disk.package)
    \/ pc \notin Settled /\ (IndexTorn \/ PackageOrphaned)

\* A journey on disk is only extended: no later stage, failed or not, changes or
\* drops a run, an event, an artifact or a finding that was published.
Extends(new, old) ==
  /\ new.created = old.created /\ new.revision = old.revision
  /\ SubSeq(new.runs, 1, Len(old.runs)) = old.runs
  /\ SubSeq(new.events, 1, Len(old.events)) = old.events
  /\ old.artifacts \subseteq new.artifacts /\ old.findings \subseteq new.findings

PublishedHistoryKept ==
  [][disk.journey # None => Extends(disk'.journey, disk.journey)]_vars

\* What is on disk climbs the ladder of EvidenceLadder: no level before its gate, no
\* half-way level except in a failure, and no step after a failure or a package.
LevelOf(j) ==
  CHOOSE n \in -1..4 :
    /\ \A i \in DOMAIN j.runs : j.runs[i].status \in Successful => j.runs[i].level <= n
    /\ n = -1 \/ \E i \in DOMAIN j.runs : j.runs[i].status \in Successful /\ j.runs[i].level = n

Ladder ==
  INSTANCE EvidenceLadder WITH
    level <- IF disk.journey = None THEN -1 ELSE LevelOf(disk.journey),
    outcome <-
      IF disk.journey = None THEN "none"
      ELSE CASE disk.journey.status = "ready_for_design"  -> "brief"
             [] disk.journey.status = "geometry_verified" -> "verified"
             [] disk.journey.status = "completed"         -> "complete"
             [] OTHER                                     -> disk.journey.status

ImplementsLadder == Ladder!Spec

\* The report that a level rests on.
ReportOf == <<"control", "geometry_report", "printability_report", "preflight">>

\* The level a request shows is one that the journey reached and that the files bear
\* out: the design was as the worker described it, the worker said R2 itself, and the
\* report of every gate passed is there.
LevelBorneOut(j, fault) ==
  LET level == Summary(j, fault).achieved
  IN /\ level = LevelOf(j)
     /\ \A n \in 1..level : ReportOf[n] \in RolesOf(j)
     /\ level >= 1 => cad.result \in Successes /\ cad.design \in {"whole"} \cup Edits
     /\ level >= 2 => cad.result = "R2"

\* A completed job, its package and its unresolved warnings are shown together.
PackageBorneOut(j, p, fault) ==
  /\ j.status = "completed" <=> PackageView(p) # None
  /\ p # None => (PackageView(p).warned <=> Summary(j, fault).warned)

\* What is shown as verified, or served, is what was recorded.
ContentBorneOut(j, p, fault) ==
  /\ fault # "recorded" => DesignFile \cap InspectionView(j, p, fault).reports = {}
  /\ \A role \in Role :
       Download(j, p, role, fault) = "served" => FileState(role, fault) = "recorded"

\* Comparing it with what the revision shows by now finds more, and nothing gone or
\* otherwise but for the reports of a design that was edited since.
ShownStays(j, p, fault) ==
  Accepts(disk.journey, disk.manifest, disk.package) =>
    LET changes == Changes(Detail(j, p, fault), Detail(disk.journey, disk.package, Fault))
    IN \A x \in changes.removed \cup changes.changed :
         x.area = "report" /\ fault = "recorded" /\ DesignEdited

ClaimsAreBacked ==
  \A r \in Reader : reader[r].pc = "shown" =>
    LET j == reader[r].journey
        p == reader[r].package
        fault == reader[r].fault
    IN /\ LevelBorneOut(j, fault) /\ PackageBorneOut(j, p, fault)
       /\ ContentBorneOut(j, p, fault) /\ ShownStays(j, p, fault)

\* Every stage the process does not drop comes to an outcome or a refusal: no stage is
\* left waiting for a run, an artifact or a status that the one before did not leave, and
\* a package is refused only when the evidence was changed.
AtRest ==
  \/ pc \in Settled \cup {"answered", "refused", "stopped"}
  \/ pc = "unpackaged" /\ DesignEdited

JobsSettle == ~AtRest ~> AtRest
=============================================================================
