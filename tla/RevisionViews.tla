---------------------------- MODULE RevisionViews ----------------------------
(* What the read API makes of a revision it has accepted: the row of the list,   *)
(* the detail with its stages, reports and package, the download of an artifact  *)
(* (api/repository.py) and the comparison of two details (api/comparison.py).    *)
(* Left out are limits of size and number, schemas, and fixtures.                *)
EXTENDS Journey

\* The files that the environment may change, and what became of them.
DesignFile == {"design", "geometry_report"}
Faults == {"missing", "resized", "changed"}

FileState(role, fault) == IF role \in DesignFile THEN fault ELSE "recorded"

\* The members of a set of numbers, from the least.
InOrder(S) ==
  [n \in 1..Cardinality(S) |-> CHOOSE x \in S : Cardinality({y \in S : y < x}) = n - 1]

-----------------------------------------------------------------------------
(* Stages                                                                        *)

\* _records: those a stage names are those that name it.
RecordsOfRun(records, i) == {x \in records : x.run = i}

\* Whether a file can be had is told by its size alone.
ArtifactView(a, fault) ==
  [role |-> a.role, available |-> FileState(a.role, fault) \notin {"missing", "resized"}]

\* The events of a run, in the order of their numbers.
EventsOfRun(j, i) ==
  LET own == InOrder({n \in DOMAIN j.events : j.events[n].run = i})
  IN [m \in DOMAIN own |-> j.events[own[m]]]

StageView(j, i, fault) ==
  [stage |-> j.runs[i].stage, attempt |-> j.runs[i].attempt,
   status |-> j.runs[i].status, level |-> j.runs[i].level,
   events |-> EventsOfRun(j, i),
   findings |-> RecordsOfRun(j.findings, i),
   artifacts |-> {ArtifactView(a, fault) : a \in RecordsOfRun(j.artifacts, i)}]

StageViews(j, fault) ==
  LET owned == InOrder(OwnedRuns(j))
  IN [n \in DOMAIN owned |-> StageView(j, owned[n], fault)]

\* The level of the last stage that has one, whether later ones failed or not.
AchievedLevel(stages) ==
  LET levelled == {n \in DOMAIN stages : stages[n].level # None}
  IN IF levelled = {} THEN None ELSE stages[InOrder(levelled)[Cardinality(levelled)]].level

\* The row of the list; what is wrong with a revision counts, and not its decisions.
Summary(j, fault) ==
  LET stages == StageViews(j, fault)
  IN [status |-> j.status, count |-> Len(stages),
      latest |-> [stage |-> stages[Len(stages)].stage, status |-> stages[Len(stages)].status],
      achieved |-> AchievedLevel(stages),
      warned |-> \E n \in DOMAIN stages :
                   \E f \in stages[n].findings : f.kind \in {"warning", "error"}]

-----------------------------------------------------------------------------
(* Contents                                                                      *)

\* _read_inspection_json
ReadInspection(j, role, fault) ==
  LET matches == {a \in j.artifacts : a.role = role}
  IN IF matches = {} THEN "absent"
     ELSE IF Cardinality(matches) > 1 THEN "multiple_records"
     ELSE [missing |-> "file_missing", resized |-> "size_mismatch",
           changed |-> "checksum_mismatch", recorded |-> "read"][FileState(role, fault)]

ReportRole == {"geometry_report", "printability_report", "preflight"}

\* The PartSpec among the design files is read only beside a package.
InspectedRole(p) ==
  ReportRole \cup {"profiles"} \cup IF p = None THEN {} ELSE {"design"}

Verified(j, p, fault) ==
  {role \in InspectedRole(p) : ReadInspection(j, role, fault) = "read"}

\* _validate_inspection_content_identity: the files read are those the package was made
\* of, and so are the files that the printability report says it is about.
ContentIdentity(j, p, values) ==
  LET about == (values \cap {"design", "profiles", "preflight"})
               \cup IF "printability_report" \in values
                    THEN {"profiles", "design", "oriented"} ELSE {}
  IN p # None => {a \in j.artifacts : a.role \in about} \subseteq p.inputs

\* The reports and profiles that can be trusted, and why the others cannot.
InspectionView(j, p, fault) ==
  [reports |-> Verified(j, p, fault) \cap ReportRole,
   profiles |-> Verified(j, p, fault) \cap {"profiles"},
   unavailable |-> {[role |-> role, reason |-> ReadInspection(j, role, fault)] :
      role \in {r \in InspectedRole(p) : ReadInspection(j, r, fault) \notin {"absent", "read"}}}]

\* What the detail says of a package, if there is one.
PackageSummary == [level : {4}, warned : BOOLEAN]

ASSUME ViewAssumption == None \notin PackageSummary

PackageView(p) == IF p = None THEN None ELSE [level |-> 4, warned |-> p.warned]

\* get_artifact: a report or profile is read once more as the detail reads it.
Download(j, p, role, fault) ==
  IF role \notin RolesOf(j) \/ FileState(role, fault) = "missing" THEN "unavailable"
  ELSE IF /\ FileState(role, fault) = "recorded"
          /\ role \in InspectedRole(p) =>
               ReadInspection(j, role, fault) = "read" /\ ContentIdentity(j, p, {role})
       THEN "served" ELSE "damaged"

\* _get_revision
Detail(j, p, fault) ==
  [status |-> j.status, stages |-> StageViews(j, fault), package |-> PackageView(p),
   inspection |-> InspectionView(j, p, fault)]

-----------------------------------------------------------------------------
(* Comparison                                                                    *)

\* _comparison_records: what is compared, under keys that two revisions can share.
ComparisonRecords(d) ==
  LET stages == {d.stages[n] : n \in DOMAIN d.stages}
  IN {[area |-> "stage", key |-> <<s.stage, s.attempt>>,
       value |-> [status |-> s.status, level |-> s.level,
                  events |-> [n \in DOMAIN s.events |-> s.events[n].status],
                  decided |-> \E f \in s.findings : f.kind = "decision"]] : s \in stages}
     \cup {[area |-> "report", key |-> <<role>>, value |-> "read"] :
             role \in d.inspection.reports}
     \cup {[area |-> "report", key |-> <<"unavailable", u.role>>, value |-> u.reason] :
             u \in d.inspection.unavailable}
     \cup (UNION {{[area |-> "finding", key |-> <<s.stage, f.kind>>, value |-> f.kind] :
                     f \in {f \in s.findings : f.kind # "decision"}} : s \in stages})
     \cup {[area |-> "profile", key |-> <<role>>, value |-> "read"] :
             role \in d.inspection.profiles}
     \cup (UNION {{[area |-> "artifact", key |-> <<a.role>>, value |-> s.stage] :
                     a \in s.artifacts} : s \in stages})
     \cup IF d.package = None THEN {}
          ELSE {[area |-> "package", key |-> <<"package">>, value |-> d.package]}

\* compare_revision_details
Changes(base, candidate) ==
  LET before == ComparisonRecords(base)
      after  == ComparisonRecords(candidate)
      In(records, x) == \E y \in records : y.area = x.area /\ y.key = x.key
  IN [added   |-> {x \in after : ~In(before, x)},
      removed |-> {x \in before : ~In(after, x)},
      changed |-> {x \in after : In(before, x) /\ x \notin before}]
=============================================================================
