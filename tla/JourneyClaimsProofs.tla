------------------------- MODULE JourneyClaimsProofs -------------------------
(* Proofs about what a request shows of a revision: the level it claims, the    *)
(* package, the files and the comparison with a later look are borne out by     *)
(* what the pipelines and the worker did.                                       *)
EXTENDS JourneyReaderProofs

-----------------------------------------------------------------------------
(* How the stages of a job follow each other                                    *)

\* The stages in their order, and the level that each one gives.
Order ==
  <<"brief", "design", "geometry_validation", "printability_validation", "slicing",
    "fabrication_package">>

Rung == <<0, 1, 2, 3, 4, 4>>

\* The i-th run of a job that has passed some stages.
RunAt(run, i, passed, revised) ==
  /\ run.stage = Order[i]
  /\ run.owned <=> revised
  /\ run.status \in Successful <=> i <= passed
  /\ run.level = IF i <= passed THEN Rung[i] ELSE None

\* The first n stages, each run once; those up to `passed` succeeded.
Stages(j, passed, n) ==
  /\ passed \in 0..6 /\ n \in 1..6 /\ (n = passed \/ n = passed + 1)
  /\ Len(j.runs) = n
  /\ \A i \in 1..n : RunAt(j.runs[i], i, passed, j.revision # None)

Blameless(j) == \A f \in j.findings : f.kind # "error"

\* The worker is done, and has left a success with its design.
Delivered(run) ==
  run.worker = "gone" /\ run.result \in Successes /\ run.design \in {"whole"} \cup Edits

\* What the worker and its files have to say for it.
BorneByCad(passed, run) ==
  /\ passed >= 2 => Delivered(run)
  /\ passed >= 3 => run.result = "R2"

\* A journey that is on its way to the disk, or has been there.
Claim(j, passed, n) ==
  /\ Stages(j, passed, n) /\ 1 <= passed
  /\ \A level \in 1..Rung[passed] : ReportOf[level] \in RolesOf(j)
  /\ (j.status = "completed") <=> (passed = 6)
  /\ j.status = "geometry_verified" => n = 3 /\ passed = 3

Claims(j, run) ==
  /\ j \in FabricationJourney /\ j.revision # None
  /\ j.status # "failed" => Blameless(j)
  /\ \E passed, n \in 1..6 : Claim(j, passed, n) /\ BorneByCad(passed, run)

-----------------------------------------------------------------------------
(* What is added to a journey                                                   *)

\* All that k has besides j belongs to the runs from the n-th on.
After(k, j, n, kinds) ==
  /\ Holds(k, j)
  /\ \A e \in Len(j.events) + 1..Len(k.events) : k.events[e].run >= n
  /\ \A a \in k.artifacts : a \in j.artifacts \/ a.run >= n
  /\ \A f \in k.findings : f \in j.findings \/ (f.run >= n /\ f.kind \in kinds)

Kinds == {"error", "warning", "decision"}

Since(k, j) ==
  /\ Prefix(k.runs, j.runs)
  /\ After(k, j, Len(j.runs) + 1, Kinds)

LEMMA HoldsLengths ==
  ASSUME NEW j, NEW k, Holds(k, j), j \in FabricationJourney
  PROVE  /\ Len(j.events) \in Nat /\ Len(k.events) \in Nat /\ Len(j.events) <= Len(k.events)
         /\ Len(j.runs) \in Nat /\ Len(k.runs) \in Nat
         /\ k \in FabricationJourney
         /\ \A n \in 1..Len(k.events) : k.events[n].run \in Nat
         /\ \A a \in k.artifacts : a.run \in Nat
         /\ \A f \in k.findings : f.run \in Nat
<1>1. k \in FabricationJourney /\ Len(j.events) <= Len(k.events)
  BY DEF Holds, Prefix
<1>2. \A n \in 1..Len(k.events) : k.events[n].run \in Nat
  BY <1>1, RecordTypes
<1>3. (\A a \in k.artifacts : a.run \in Nat) /\ (\A f \in k.findings : f.run \in Nat)
  BY <1>1, RecordTypes
<1>5. Len(j.events) \in Nat /\ Len(k.events) \in Nat /\ Len(j.runs) \in Nat /\ Len(k.runs) \in Nat
  BY <1>1, JourneyParts
<1> QED
  BY <1>1, <1>2, <1>3, <1>5

LEMMA AfterWeaker ==
  ASSUME NEW j, NEW k, NEW n \in Nat, NEW kinds, After(k, j, n, kinds), j \in FabricationJourney,
         NEW m \in Nat, m <= n, NEW more, kinds \subseteq more
  PROVE  After(k, j, m, more)
<1>1. Holds(k, j)
  BY DEF After
<1>2. \A e \in Len(j.events) + 1..Len(k.events) : k.events[e].run \in Nat
  <2>1. /\ Len(j.events) \in Nat /\ Len(k.events) \in Nat
        /\ \A e \in 1..Len(k.events) : k.events[e].run \in Nat
    BY <1>1, HoldsLengths
  <2> QED
    BY <2>1
<1>3. (\A a \in k.artifacts : a.run \in Nat) /\ (\A f \in k.findings : f.run \in Nat)
  BY <1>1, HoldsLengths
<1> QED
  BY <1>2, <1>3 DEF After

LEMMA AfterOn ==
  ASSUME NEW j \in FabricationJourney, NEW k, NEW m, NEW n, NEW kinds,
         After(k, j, n, kinds), After(m, k, n, kinds)
  PROVE  After(m, j, n, kinds)
<1>1. Holds(k, j) /\ Holds(m, k) /\ Holds(m, j) /\ k \in FabricationJourney
  BY HoldsStays, HoldsLengths DEF After
<1>2. \A e \in Len(j.events) + 1..Len(m.events) : m.events[e].run >= n
  <2>1. /\ Len(j.events) \in Nat /\ Len(k.events) \in Nat /\ Len(m.events) \in Nat
        /\ Len(j.events) <= Len(k.events) /\ Len(k.events) <= Len(m.events)
    BY <1>1, HoldsLengths
  <2>2. \A e \in 1..Len(k.events) : m.events[e] = k.events[e]
    BY <1>1 DEF Holds, Prefix
  <2> QED
    BY <2>1, <2>2 DEF After
<1> QED
  BY <1>1, <1>2 DEF After

\* An operation that adds no record.
LEMMA NothingAdded ==
  ASSUME NEW j \in FabricationJourney, NEW k, Holds(k, j), k.events = j.events,
         k.artifacts = j.artifacts, k.findings = j.findings, NEW n, NEW kinds
  PROVE  After(k, j, n, kinds)
<1>1. Len(j.events) \in Nat
  BY JourneyParts
<1> QED
  BY <1>1 DEF After

\* Records of the last run were added, of findings only some kinds; its stage, status
\* and level are as they were, or come to others.
Keeps(k, j, kinds) == Works(k, j) /\ After(k, j, Len(j.runs), kinds)

Closes(k, j, status, level, kinds) ==
  Carries(k, j, status, level) /\ After(k, j, Len(j.runs), kinds)

Begins(k, j, stage, status, kinds) ==
  Adds(k, j, stage, status) /\ After(k, j, Len(j.runs) + 1, kinds)

LEMMA KeepsOpen ==
  ASSUME NEW j, NEW k, NEW kinds, Keeps(k, j, kinds)
  PROVE  Open(k) /\ Works(k, j) /\ Len(k.runs) = Len(j.runs)
BY WorksOpen DEF Keeps, Works, Carries

LEMMA KeepsOn ==
  ASSUME NEW j, Open(j), NEW k, NEW m, NEW kinds, Keeps(k, j, kinds), Keeps(m, k, kinds)
  PROVE  Keeps(m, j, kinds)
<1>1. Works(m, j) /\ Len(k.runs) = Len(j.runs)
  BY KeepsOpen, WorksOn
<1>2. After(k, j, Len(j.runs), kinds) /\ After(m, k, Len(j.runs), kinds)
  BY <1>1 DEF Keeps
<1>3. After(m, j, Len(j.runs), kinds)
  BY <1>2, AfterOn DEF Open
<1> QED
  BY <1>1, <1>3 DEF Keeps

LEMMA KeepsThenEnds ==
  ASSUME NEW j, Open(j), NEW k, NEW m, NEW kinds, Keeps(k, j, kinds),
         NEW status, NEW level, Closes(m, k, status, level, kinds)
  PROVE  Closes(m, j, status, level, kinds)
<1>1. Carries(m, j, status, level) /\ Len(k.runs) = Len(j.runs)
  BY KeepsOpen, WorksThenCarries DEF Closes
<1>2. After(k, j, Len(j.runs), kinds) /\ After(m, k, Len(j.runs), kinds)
  BY <1>1 DEF Keeps, Closes
<1>3. After(m, j, Len(j.runs), kinds)
  BY <1>2, AfterOn DEF Open
<1> QED
  BY <1>1, <1>3 DEF Closes

LEMMA EndsThenKeeps ==
  ASSUME NEW j, Open(j), NEW k, NEW m, NEW kinds, NEW status, NEW level,
         Closes(k, j, status, level, kinds), Closes(m, k, status, level, kinds)
  PROVE  Closes(m, j, status, level, kinds)
<1>1. Carries(m, j, status, level) /\ Len(k.runs) = Len(j.runs)
  BY CarriesOn DEF Closes, Carries
<1>2. After(k, j, Len(j.runs), kinds) /\ After(m, k, Len(j.runs), kinds)
  BY <1>1 DEF Closes
<1>3. After(m, j, Len(j.runs), kinds)
  BY <1>2, AfterOn DEF Open
<1> QED
  BY <1>1, <1>3 DEF Closes

LEMMA KeepsNothing == ASSUME NEW j, Open(j), NEW kinds PROVE Keeps(j, j, kinds)
<1>1. Works(j, j)
  BY WorksNothing
<1> QED
  BY <1>1, NothingAdded DEF Keeps, Works, Carries, Open

LEMMA EmitKeeps ==
  ASSUME NEW j, Open(j), NEW t \in Nat, NEW kinds
  PROVE  Keeps(Emit(j, t), j, kinds)
<1> DEFINE k == Emit(j, t)
           e == [run |-> Len(j.runs), status |-> Last(j).status,
                 at |-> IF Last(j).completed # None THEN Last(j).completed ELSE t]
           n == Len(j.runs)
<1>1. Works(k, j)
  BY EmitCarries DEF Works
<1>2. k.events = Append(j.events, e) /\ e \in StageEvent /\ Like(k, j)
  BY EmitParts
<1>3. e.run = n /\ n \in Nat
  BY LastRun
<1>4. j.events \in Seq(StageEvent) /\ Len(j.events) \in Nat
  BY JourneyParts DEF Open
<1> HIDE DEF k, e, n
<1>5. Len(k.events) = Len(j.events) + 1 /\ k.events[Len(j.events) + 1] = e
  BY <1>2, <1>4, AppendFacts
<1>6. \A i \in Len(j.events) + 1..Len(k.events) : k.events[i].run >= n
  BY <1>3, <1>4, <1>5
<1>7. After(k, j, n, kinds)
  BY <1>1, <1>2, <1>6 DEF After, Works, Carries, Like
<1> QED
  BY <1>1, <1>7 DEF Keeps, k, n

LEMMA NoteKeeps ==
  ASSUME NEW j, Open(j), NEW kind \in Kinds, NEW t \in Nat, NEW kinds, kind \in kinds
  PROVE  Keeps(Note(j, kind, t), j, kinds)
<1> DEFINE k == Note(j, kind, t)
           f == [kind |-> kind, run |-> Len(j.runs), at |-> t]
<1>1. Works(k, j)
  BY NoteCarries DEF Works, Kinds
<1>2. k.events = j.events /\ k.artifacts = j.artifacts /\ k.findings = j.findings \cup {f}
  BY DEF Note, Open, FabricationJourney
<1>3. Len(j.runs) \in Nat /\ Len(j.events) \in Nat
  BY LastRun, JourneyParts DEF Open
<1>4. f.run >= Len(j.runs) /\ f.kind \in kinds
  BY <1>3
<1>5. After(k, j, Len(j.runs), kinds)
  <2> HIDE DEF k, f
  <2> QED
    BY <1>1, <1>2, <1>3, <1>4 DEF After, Works, Carries
<1> QED
  BY <1>1, <1>5 DEF Keeps

LEMMA NoteIfKeeps ==
  ASSUME NEW j, Open(j), NEW condition \in BOOLEAN, NEW kind \in Kinds, NEW t \in Nat, NEW kinds,
         condition => kind \in kinds
  PROVE  Keeps(NoteIf(condition, j, kind, t), j, kinds)
<1>1. CASE condition
  BY <1>1, NoteKeeps DEF NoteIf
<1>2. CASE ~condition
  BY <1>2, KeepsNothing DEF NoteIf
<1> QED
  BY <1>1, <1>2

LEMMA RecordKeeps ==
  ASSUME NEW j, Open(j), NEW roles \in SUBSET Role, NEW t \in Nat, NEW kinds
  PROVE  Keeps(Record(j, roles, t), j, kinds)
<1> DEFINE k == Record(j, roles, t)
           A == {[role |-> r, run |-> Len(j.runs), at |-> t] : r \in roles}
<1>1. Works(k, j)
  BY RecordCarries DEF Works
<1>2. k.events = j.events /\ k.artifacts = j.artifacts \cup A /\ k.findings = j.findings
  BY DEF Record, Open, FabricationJourney
<1>3. Len(j.runs) \in Nat /\ Len(j.events) \in Nat
  BY LastRun, JourneyParts DEF Open
<1>4. \A a \in A : a.run >= Len(j.runs)
  BY <1>3
<1>5. After(k, j, Len(j.runs), kinds)
  <2> HIDE DEF k, A
  <2> QED
    BY <1>1, <1>2, <1>3, <1>4 DEF After, Works, Carries
<1> QED
  BY <1>1, <1>5 DEF Keeps

LEMMA InputsKeeps ==
  ASSUME NEW j, Open(j), NEW roles \in SUBSET Role, NEW kinds
  PROVE  Keeps(SetInputs(j, roles), j, kinds)
<1> DEFINE k == SetInputs(j, roles)
<1>1. Works(k, j)
  BY SetInputsCarries DEF Works
<1>2. k.events = j.events /\ k.artifacts = j.artifacts /\ k.findings = j.findings
  BY DEF SetInputs, Open, FabricationJourney
<1> HIDE DEF k
<1>3. After(k, j, Len(j.runs), kinds)
  BY <1>1, <1>2, NothingAdded DEF Works, Carries, Open
<1> QED
  BY <1>1, <1>3 DEF Keeps, k

LEMMA TransitionEnds ==
  ASSUME NEW j, Open(j), NEW status \in StageStatus, NEW level \in Nat \cup {None}, NEW t \in Nat,
         NEW l, l = IF level = None THEN Last(j).level ELSE level, NEW kinds
  PROVE  Closes(Transition(j, status, level, t), j, status, l, kinds)
<1> DEFINE k == Transition(j, status, level, t)
<1>1. Carries(k, j, status, l)
  BY TransitionCarries
<1>2. k.events = j.events /\ k.artifacts = j.artifacts /\ k.findings = j.findings
  BY DEF Transition, Open, FabricationJourney
<1> HIDE DEF k
<1>3. After(k, j, Len(j.runs), kinds)
  BY <1>1, <1>2, NothingAdded DEF Carries, Open
<1> QED
  BY <1>1, <1>3 DEF Closes, k

LEMMA UpdateEnds ==
  ASSUME NEW j, Open(j), NEW status \in JobStatus, NEW t \in Nat, NEW kinds
  PROVE  /\ Closes(UpdateStatus(j, status, t), j, Last(j).status, Last(j).level, kinds)
         /\ UpdateStatus(j, status, t).status = status
<1> DEFINE k == UpdateStatus(j, status, t)
<1>1. Carries(k, j, Last(j).status, Last(j).level) /\ k.status = status
  BY UpdateStatusCarries
<1>2. k.events = j.events /\ k.artifacts = j.artifacts /\ k.findings = j.findings
  BY DEF UpdateStatus, Open, FabricationJourney
<1> HIDE DEF k
<1>3. After(k, j, Len(j.runs), kinds)
  BY <1>1, <1>2, NothingAdded DEF Carries, Open
<1> QED
  BY <1>1, <1>3 DEF Closes, k

\* A stage that comes to its end, and the job with it.
LEMMA MoveEnds ==
  ASSUME NEW j, Open(j), NEW status \in StageStatus, NEW t \in Nat, NEW kinds
  PROVE  Closes(Transition(j, status, None, t), j, status, Last(j).level, kinds)
<1> DEFINE l == Last(j).level
<1>1. l = IF None = None THEN Last(j).level ELSE None
  OBVIOUS
<1> HIDE DEF l
<1>2. None \in Nat \cup {None}
  OBVIOUS
<1>3. Closes(Transition(j, status, None, t), j, status, l, kinds)
  BY <1>1, <1>2, TransitionEnds, Zenon
<1> QED
  BY <1>3 DEF l

LEMMA RaiseEnds ==
  ASSUME NEW j, Open(j), NEW status \in StageStatus, NEW level \in Nat, NEW t \in Nat, NEW kinds
  PROVE  Closes(Transition(j, status, level, t), j, status, level, kinds)
<1>1. level \in Nat \cup {None} /\ level # None
  BY NoneFacts
<1>2. level = IF level = None THEN Last(j).level ELSE level
  BY <1>1
<1> QED
  BY <1>1, <1>2, TransitionEnds, Zenon

LEMMA EmittedEnds ==
  ASSUME NEW j, Open(j), NEW k, NEW s, NEW l, NEW kinds, Closes(k, j, s, l, kinds), NEW t \in Nat
  PROVE  Closes(Emit(k, t), j, s, l, kinds)
<1> DEFINE m == Emit(k, t)
<1>1. Open(k) /\ Last(k).status = s /\ Last(k).level = l
  BY CarriesOpen DEF Closes, Carries
<1>2. Keeps(m, k, kinds)
  BY <1>1, EmitKeeps
<1> HIDE DEF m
<1>3. Closes(m, k, s, l, kinds)
  BY <1>1, <1>2 DEF Keeps, Works, Closes
<1>4. Closes(m, j, s, l, kinds)
  BY <1>3, EndsThenKeeps
<1> QED
  BY <1>4 DEF m

LEMMA SettledEnds ==
  ASSUME NEW j, Open(j), NEW k, NEW s, NEW l, NEW kinds, Closes(k, j, s, l, kinds),
         NEW job \in JobStatus, NEW t \in Nat
  PROVE  Closes(UpdateStatus(k, job, t), j, s, l, kinds) /\ UpdateStatus(k, job, t).status = job
<1> DEFINE m == UpdateStatus(k, job, t)
<1>1. Open(k) /\ Last(k).status = s /\ Last(k).level = l
  BY CarriesOpen DEF Closes, Carries
<1>2. Closes(m, k, s, l, kinds) /\ m.status = job
  BY <1>1, UpdateEnds
<1> HIDE DEF m
<1>4. Closes(m, j, s, l, kinds)
  BY <1>2, EndsThenKeeps
<1> QED
  BY <1>2, <1>4 DEF m

LEMMA EndJobEnds ==
  ASSUME NEW j, Open(j), NEW status \in StageStatus, NEW job \in JobStatus,
         NEW t1 \in Nat, NEW t2 \in Nat, NEW t3 \in Nat, NEW kinds
  PROVE  LET k == UpdateStatus(Emit(Transition(j, status, None, t1), t2), job, t3)
         IN Closes(k, j, status, Last(j).level, kinds) /\ k.status = job
<1>1. Closes(Transition(j, status, None, t1), j, status, Last(j).level, kinds)
  BY MoveEnds
<1>2. Closes(Emit(Transition(j, status, None, t1), t2), j, status, Last(j).level, kinds)
  BY <1>1, EmittedEnds
<1> QED
  BY <1>2, SettledEnds

LEMMA SameEnds ==
  ASSUME NEW j, Open(j), NEW status \in {"failed"},
         NEW t1 \in Nat, NEW t2 \in Nat, NEW t3 \in Nat
  PROVE  LET k == UpdateStatus(Emit(Transition(j, status, None, t1), t2), status, t3)
         IN Closes(k, j, status, Last(j).level, Kinds) /\ k.status = status
<1>1. status \in StageStatus /\ status \in JobStatus
  BY DEF StageStatus, JobStatus
<1> QED
  BY <1>1, EndJobEnds

\* The stage, and with it the job, has failed, or has passed.
Fails(k, j) == Closes(k, j, "failed", Last(j).level, Kinds) /\ k.status = "failed"

Passes(k, j, level, job, kinds) ==
  (\E status \in Successful : Closes(k, j, status, level, kinds)) /\ k.status = job

LEMMA StopEnds ==
  ASSUME NEW j, Open(j), NEW t1 \in Nat, NEW t2 \in Nat, NEW t3 \in Nat
  PROVE  Fails(UpdateStatus(Emit(Transition(j, "failed", None, t1), t2), "failed", t3), j)
<1> DEFINE status == "failed"
<1>1. status \in {"failed"}
  OBVIOUS
<1> HIDE DEF status
<1>2. LET k == UpdateStatus(Emit(Transition(j, status, None, t1), t2), status, t3)
      IN Closes(k, j, status, Last(j).level, Kinds) /\ k.status = status
  BY <1>1, SameEnds
<1> QED
  BY <1>2 DEF status, Fails

LEMMA KeepsThenFails ==
  ASSUME NEW j, Open(j), NEW k, NEW m, NEW kinds, Keeps(k, j, kinds), kinds \subseteq Kinds,
         Fails(m, k)
  PROVE  Fails(m, j)
<1>1. Last(k).level = Last(j).level
  BY DEF Keeps, Works, Carries
<1>2. Keeps(k, j, Kinds)
  BY AfterWeaker, JourneyParts DEF Keeps, Open
<1> DEFINE l == Last(j).level
           f == "failed"
<1>3. Closes(m, k, f, l, Kinds)
  BY <1>1 DEF Fails
<1> HIDE DEF l, f
<1>4. Closes(m, j, f, l, Kinds)
  BY <1>2, <1>3, KeepsThenEnds
<1> QED
  BY <1>4 DEF Fails, l, f

LEMMA KeepsThenPasses ==
  ASSUME NEW j, Open(j), NEW k, NEW m, NEW kinds, Keeps(k, j, kinds), NEW level, NEW job,
         Passes(m, k, level, job, kinds)
  PROVE  Passes(m, j, level, job, kinds)
<1>1. PICK status \in Successful : Closes(m, k, status, level, kinds)
  BY DEF Passes
<1>2. Closes(m, j, status, level, kinds)
  BY <1>1, KeepsThenEnds
<1> QED
  BY <1>2 DEF Passes

LEMMA FailStageEnds ==
  ASSUME NEW j, Open(j), NEW t, t[1] \in Nat, t[2] \in Nat, t[3] \in Nat, t[4] \in Nat
  PROVE  Fails(FailStage(j, t), j)
<1> DEFINE a == Note(j, "error", t[1])
           k == UpdateStatus(Emit(Transition(a, "failed", None, t[2]), t[3]), "failed", t[4])
<1>1. Keeps(a, j, Kinds)
  BY NoteKeeps DEF Kinds
<1>2. Open(a)
  BY <1>1, KeepsOpen
<1>3. FailStage(j, t) = k
  BY DEF FailStage, a, k
<1> HIDE DEF a
<1>4. Fails(k, a)
  BY <1>2, StopEnds
<1> HIDE DEF k
<1>5. Fails(k, j)
  BY <1>1, <1>4, KeepsThenFails
<1> QED
  BY <1>3, <1>5

LEMMA PassStageEnds ==
  ASSUME NEW j, Open(j), NEW warned, NEW level \in Nat, NEW job \in JobStatus, NEW t,
         t[1] \in Nat, t[2] \in Nat, t[3] \in Nat, NEW kinds
  PROVE  Passes(PassStage(j, warned, level, job, t), j, level, job, kinds)
<1> DEFINE status == IF warned THEN "passed_with_warnings" ELSE "passed"
<1>1. status \in Successful /\ status \in StageStatus
  BY DEF Successful, StageStatus
<1>2. PassStage(j, warned, level, job, t) =
        UpdateStatus(Emit(Transition(j, status, level, t[1]), t[2]), job, t[3])
  BY DEF PassStage
<1> HIDE DEF status
<1>3. Closes(Transition(j, status, level, t[1]), j, status, level, kinds)
  BY <1>1, RaiseEnds
<1>4. Closes(Emit(Transition(j, status, level, t[1]), t[2]), j, status, level, kinds)
  BY <1>3, EmittedEnds
<1> QED
  BY <1>1, <1>2, <1>4, SettledEnds DEF Passes

-----------------------------------------------------------------------------
(* How a stage begins                                                           *)

LEMMA AddRunBegins ==
  ASSUME NEW j \in FabricationJourney, NEW stage \in FabricationStage, NEW attempt \in Nat,
         NEW kinds
  PROVE  Begins(AddStageRun(j, stage, attempt), j, stage, "waiting", kinds)
<1> DEFINE k == AddStageRun(j, stage, attempt)
<1>1. Adds(k, j, stage, "waiting")
  BY AddStageRunAdds
<1>2. k.events = j.events /\ k.artifacts = j.artifacts /\ k.findings = j.findings
  BY DEF AddStageRun, FabricationJourney
<1> HIDE DEF k
<1>3. After(k, j, Len(j.runs) + 1, kinds)
  BY <1>1, <1>2, NothingAdded DEF Adds
<1> QED
  BY <1>1, <1>3 DEF Begins, k

LEMMA BeginsOpen ==
  ASSUME NEW j \in FabricationJourney, NEW k, NEW stage, NEW status, NEW kinds,
         Begins(k, j, stage, status, kinds)
  PROVE  /\ Open(k) /\ Len(k.runs) = Len(j.runs) + 1 /\ Len(j.runs) \in Nat
         /\ Last(k).level = None /\ Last(k).status = status
<1>1. Len(j.runs) \in Nat
  BY JourneyParts
<1> QED
  BY <1>1 DEF Begins, Adds, Holds, Open

LEMMA BeginsThenCloses ==
  ASSUME NEW j \in FabricationJourney, NEW k, NEW m, NEW stage, NEW s1, NEW s2, NEW kinds,
         Begins(k, j, stage, s1, kinds), Closes(m, k, s2, None, kinds)
  PROVE  Begins(m, j, stage, s2, kinds)
<1>1. Adds(m, j, stage, s2)
  BY AddsCarries DEF Begins, Closes
<1>2. Len(k.runs) = Len(j.runs) + 1
  BY BeginsOpen
<1>3. After(k, j, Len(j.runs) + 1, kinds) /\ After(m, k, Len(j.runs) + 1, kinds)
  BY <1>2 DEF Begins, Closes
<1>4. After(m, j, Len(j.runs) + 1, kinds)
  BY <1>3, AfterOn
<1> QED
  BY <1>1, <1>4 DEF Begins

LEMMA BeginsThenKeeps ==
  ASSUME NEW j \in FabricationJourney, NEW k, NEW m, NEW stage, NEW s, NEW kinds,
         Begins(k, j, stage, s, kinds), Keeps(m, k, kinds)
  PROVE  Begins(m, j, stage, s, kinds)
<1>1. Last(k).level = None /\ Last(k).status = s
  BY BeginsOpen
<1>2. Closes(m, k, s, None, kinds)
  BY <1>1 DEF Keeps, Works, Closes
<1> QED
  BY <1>2, BeginsThenCloses

LEMMA StartStageBegins ==
  ASSUME NEW j \in FabricationJourney, NEW stage \in FabricationStage, NEW attempt \in Nat,
         NEW inputs \in SUBSET Role, NEW t, t[1] \in Nat, t[2] \in Nat, t[3] \in Nat, NEW kinds
  PROVE  Begins(StartStage(j, stage, attempt, inputs, t), j, stage, "running", kinds)
<1> DEFINE a == AddStageRun(j, stage, attempt)
           b == SetInputs(a, inputs)
           c == Emit(b, t[1])
           d == Transition(c, "running", None, t[2])
           e == Emit(d, t[3])
<1>1. Begins(a, j, stage, "waiting", kinds)
  BY AddRunBegins
<1> HIDE DEF a
<1>2. Keeps(b, a, kinds)
  BY <1>1, BeginsOpen, InputsKeeps
<1> HIDE DEF b
<1>3. Begins(b, j, stage, "waiting", kinds)
  BY <1>1, <1>2, BeginsThenKeeps
<1>4. Keeps(c, b, kinds)
  BY <1>3, BeginsOpen, EmitKeeps
<1> HIDE DEF c
<1>5. Begins(c, j, stage, "waiting", kinds)
  BY <1>3, <1>4, BeginsThenKeeps
<1>6. "running" \in StageStatus
  BY DEF StageStatus
<1>7. Open(c) /\ Last(c).level = None
  BY <1>5, BeginsOpen
<1>8. Closes(d, c, "running", Last(c).level, kinds)
  BY <1>6, <1>7, MoveEnds
<1> HIDE DEF d
<1>9. Closes(d, c, "running", None, kinds)
  BY <1>7, <1>8
<1>10. Begins(d, j, stage, "running", kinds)
  BY <1>5, <1>9, BeginsThenCloses
<1>11. Keeps(e, d, kinds)
  BY <1>10, BeginsOpen, EmitKeeps
<1> HIDE DEF e
<1>12. Begins(e, j, stage, "running", kinds)
  BY <1>10, <1>11, BeginsThenKeeps
<1>13. e = StartStage(j, stage, attempt, inputs, t)
  BY DEF StartStage, a, b, c, d, e
<1> QED
  BY <1>12, <1>13

-----------------------------------------------------------------------------
(* What the operations do to the stages                                         *)

LEMMA OrderFacts ==
  /\ \A i \in 1..6 : Order[i] \in FabricationStage
  /\ \A i, k \in 1..6 : Order[i] = Order[k] => i = k
  /\ \A i \in 1..6 : Rung[i] \in 0..4 /\ Rung[i] \in Nat
BY DEF Order, Rung, FabricationStage

LEMMA RunAtOther ==
  ASSUME NEW run, NEW i \in Nat, NEW p \in Nat, NEW q \in Nat, NEW revised, i <= p, i <= q,
         RunAt(run, i, p, revised)
  PROVE  RunAt(run, i, q, revised)
BY DEF RunAt

\* The run before the last is among those that passed.
LEMMA StagesParts ==
  ASSUME NEW j, NEW p, NEW n, Stages(j, p, n)
  PROVE  /\ p \in Nat /\ n \in Nat \ {0} /\ n <= 6 /\ n - 1 <= p /\ p <= n /\ Len(j.runs) = n
         /\ \A i \in 1..n : RunAt(j.runs[i], i, p, j.revision # None)
BY DEF Stages

LEMMA ClosedStages ==
  ASSUME NEW j, NEW p, NEW q, NEW n, Stages(j, p, n), NEW k, NEW status, NEW level, NEW kinds,
         Closes(k, j, status, level, kinds), q = n - 1 \/ q = n, q \in 0..6,
         status \in Successful <=> n <= q,
         level = IF n <= q THEN Rung[n] ELSE None
  PROVE  Stages(k, q, n)
<1>1. /\ p \in Nat /\ n \in Nat \ {0} /\ n <= 6 /\ n - 1 <= p /\ p <= n /\ Len(j.runs) = n
      /\ \A i \in 1..n : RunAt(j.runs[i], i, p, j.revision # None)
  BY StagesParts
<1>2. /\ Len(k.runs) = n /\ (\A i \in 1..n - 1 : k.runs[i] = j.runs[i]) /\ k.revision = j.revision
      /\ Last(k).stage = Last(j).stage /\ Last(k).owned = Last(j).owned
      /\ Last(k).status = status /\ Last(k).level = level
  BY <1>1 DEF Closes, Carries, Holds
<1>3. RunAt(Last(k), n, q, k.revision # None)
  <2>1. RunAt(Last(j), n, p, j.revision # None)
    BY <1>1 DEF Last
  <2> QED
    BY <1>2, <2>1 DEF RunAt
<1>4. ASSUME NEW i \in 1..n
      PROVE  RunAt(k.runs[i], i, q, k.revision # None)
  <2>1. CASE i = n
    BY <1>2, <1>3, <2>1 DEF Last
  <2>2. CASE i # n
    <3>1. i \in 1..n - 1
      BY <1>1, <2>2
    <3>2. i <= p /\ i <= q /\ q \in Nat /\ i \in Nat
      BY <1>1, <3>1
    <3>3. RunAt(j.runs[i], i, p, j.revision # None)
      BY <1>1
    <3> QED
      BY <1>1, <1>2, <3>1, <3>2, <3>3, RunAtOther
  <2> QED
    BY <2>1, <2>2
<1> QED
  BY <1>1, <1>2, <1>4 DEF Stages

LEMMA KeptStages ==
  ASSUME NEW j, NEW p, NEW n, Stages(j, p, n), NEW k, NEW kinds, Keeps(k, j, kinds)
  PROVE  Stages(k, p, n)
<1>1. /\ p \in Nat /\ n \in Nat \ {0} /\ n <= 6 /\ n - 1 <= p /\ p <= n /\ Len(j.runs) = n
      /\ RunAt(j.runs[n], n, p, j.revision # None)
  BY StagesParts
<1>2. Closes(k, j, Last(j).status, Last(j).level, kinds)
  BY DEF Keeps, Works, Closes
<1>3. /\ Last(j).status \in Successful <=> n <= p
      /\ Last(j).level = IF n <= p THEN Rung[n] ELSE None
  BY <1>1 DEF RunAt, Last
<1>4. (p = n - 1 \/ p = n) /\ p \in 0..6
  BY <1>1
<1> DEFINE s == Last(j).status
           l == Last(j).level
<1> HIDE DEF s, l
<1>5. /\ Closes(k, j, s, l, kinds)
      /\ s \in Successful <=> n <= p
      /\ l = IF n <= p THEN Rung[n] ELSE None
  BY <1>2, <1>3 DEF s, l
<1> QED
  BY <1>4, <1>5, ClosedStages

LEMMA FailedStages ==
  ASSUME NEW j, NEW p, Stages(j, p, p + 1), NEW k, Fails(k, j)
  PROVE  Stages(k, p, p + 1)
<1>1. p \in Nat /\ p + 1 <= 6 /\ Len(j.runs) = p + 1 /\ RunAt(j.runs[p + 1], p + 1, p, j.revision # None)
  BY StagesParts
<1>2. Last(j).level = None
  BY <1>1 DEF RunAt, Last
<1> DEFINE n == p + 1
           f == "failed"
           l == None
<1>3. Closes(k, j, f, l, Kinds) /\ Stages(j, p, n)
  BY <1>2 DEF Fails
<1>4. /\ p = n - 1 \/ p = n
      /\ p \in 0..6
      /\ f \in Successful <=> n <= p
      /\ l = IF n <= p THEN Rung[n] ELSE None
  BY <1>1 DEF Successful
<1> HIDE DEF n, f, l
<1>5. Stages(k, p, n)
  BY <1>3, <1>4, ClosedStages
<1> QED
  BY <1>5 DEF n

LEMMA PassedStages ==
  ASSUME NEW j, NEW p, Stages(j, p, p + 1), NEW k, NEW job, NEW kinds,
         Passes(k, j, Rung[p + 1], job, kinds)
  PROVE  Stages(k, p + 1, p + 1)
<1>1. p \in Nat /\ p + 1 <= 6
  BY StagesParts
<1>2. PICK s \in Successful : Closes(k, j, s, Rung[p + 1], kinds)
  BY DEF Passes
<1> DEFINE n == p + 1
           l == Rung[n]
<1>3. Closes(k, j, s, l, kinds) /\ Stages(j, p, n)
  BY <1>2
<1>4. /\ n = n - 1 \/ n = n
      /\ n \in 0..6
      /\ s \in Successful <=> n <= n
      /\ l = IF n <= n THEN Rung[n] ELSE None
  BY <1>1
<1> HIDE DEF n, l
<1>5. Stages(k, n, n)
  BY <1>3, <1>4, ClosedStages
<1> QED
  BY <1>5 DEF n

LEMMA BegunStages ==
  ASSUME NEW j \in FabricationJourney, NEW n, Stages(j, n, n), n < 6, NEW k, NEW stage,
         stage = Order[n + 1], NEW status, status \notin Successful, NEW kinds,
         Begins(k, j, stage, status, kinds)
  PROVE  Stages(k, n, n + 1)
<1>1. /\ n \in Nat \ {0} /\ Len(j.runs) = n
      /\ \A i \in 1..n : RunAt(j.runs[i], i, n, j.revision # None)
  BY StagesParts
<1>2. /\ Len(k.runs) = n + 1 /\ (\A i \in 1..n : k.runs[i] = j.runs[i]) /\ k.revision = j.revision
      /\ Last(k).stage = stage /\ (Last(k).owned <=> j.revision # None)
      /\ Last(k).status = status /\ Last(k).level = None
  BY <1>1 DEF Begins, Adds, Holds
<1>3. RunAt(Last(k), n + 1, n, k.revision # None)
  BY <1>1, <1>2 DEF RunAt
<1>4. ASSUME NEW i \in 1..n + 1
      PROVE  RunAt(k.runs[i], i, n, k.revision # None)
  <2>1. CASE i = n + 1
    BY <1>2, <1>3, <2>1 DEF Last
  <2>2. CASE i # n + 1
    BY <1>1, <1>2, <2>2
  <2> QED
    BY <2>1, <2>2
<1> QED
  BY <1>1, <1>2, <1>4 DEF Stages

\* No error is found where only other findings are.
LEMMA StaysBlameless ==
  ASSUME NEW j, NEW k, NEW n, NEW kinds, After(k, j, n, kinds), "error" \notin kinds,
         Blameless(j)
  PROVE  Blameless(k)
BY DEF After, Blameless

-----------------------------------------------------------------------------
(* What a journey has since an earlier one                                      *)

LEMMA SinceOn ==
  ASSUME NEW old \in FabricationJourney, NEW j, NEW k, NEW n \in Nat, Since(j, old),
         After(k, j, n, Kinds), Len(old.runs) + 1 <= n, Prefix(k.runs, old.runs)
  PROVE  Since(k, old)
<1>1. Len(old.runs) + 1 \in Nat /\ j \in FabricationJourney
  BY JourneyParts DEF Since, After, Holds
<1>2. After(k, j, Len(old.runs) + 1, Kinds)
  BY <1>1, AfterWeaker
<1>3. After(j, old, Len(old.runs) + 1, Kinds)
  BY DEF Since
<1>4. After(k, old, Len(old.runs) + 1, Kinds)
  BY <1>2, <1>3, AfterOn
<1> QED
  BY <1>4 DEF Since

LEMMA SinceSince ==
  ASSUME NEW old \in FabricationJourney, NEW j, NEW k, Since(j, old), Since(k, j)
  PROVE  Since(k, old)
<1>1. j \in FabricationJourney /\ k \in FabricationJourney
  BY DEF Since, After, Holds
<1>2. /\ Len(old.runs) \in Nat /\ Len(j.runs) \in Nat /\ Len(k.runs) \in Nat
      /\ Prefix(j.runs, old.runs) /\ Prefix(k.runs, j.runs)
  BY <1>1, JourneyParts DEF Since
<1>3. Prefix(k.runs, old.runs) /\ Len(old.runs) + 1 <= Len(j.runs) + 1
  BY <1>2 DEF Prefix
<1>4. After(k, j, Len(j.runs) + 1, Kinds) /\ Len(j.runs) + 1 \in Nat
  BY <1>2 DEF Since
<1> QED
  BY <1>3, <1>4, SinceOn

LEMMA SinceSelf == ASSUME NEW j \in FabricationJourney PROVE Since(j, j)
<1>1. Prefix(j.runs, j.runs) /\ Prefix(j.events, j.events)
  BY JourneyParts, PrefixSelf
<1>2. Holds(j, j)
  BY <1>1 DEF Holds
<1>3. After(j, j, Len(j.runs) + 1, Kinds)
  BY <1>2, NothingAdded
<1> QED
  BY <1>1, <1>3 DEF Since

LEMMA SinceBegins ==
  ASSUME NEW old \in FabricationJourney, NEW j, Since(j, old), NEW k, NEW stage, NEW status,
         NEW kinds \in SUBSET Kinds, Begins(k, j, stage, status, kinds)
  PROVE  Since(k, old)
<1>1. j \in FabricationJourney
  BY DEF Since, After, Holds
<1>2. Len(j.runs) \in Nat
  BY <1>1, JourneyParts
<1>3. Prefix(k.runs, j.runs)
  BY <1>2 DEF Begins, Adds, Prefix
<1>4. After(k, j, Len(j.runs) + 1, Kinds)
  BY <1>1, <1>2, AfterWeaker DEF Begins
<1> QED
  BY <1>3, <1>4, SinceSince DEF Since

\* The run worked on came after the earlier journey.
LEMMA SinceCloses ==
  ASSUME NEW old \in FabricationJourney, NEW j, Since(j, old), Len(old.runs) < Len(j.runs),
         NEW k, NEW status, NEW level, NEW kinds \in SUBSET Kinds,
         Closes(k, j, status, level, kinds)
  PROVE  Since(k, old) /\ Len(old.runs) < Len(k.runs)
<1>1. j \in FabricationJourney
  BY DEF Since, After, Holds
<1>2. Len(j.runs) \in Nat /\ Len(old.runs) \in Nat
  BY <1>1, JourneyParts
<1>3. Prefix(k.runs, old.runs)
  BY <1>2 DEF Closes, Carries, Since, Prefix
<1>4. After(k, j, Len(j.runs), Kinds)
  BY <1>1, <1>2, AfterWeaker DEF Closes
<1> QED
  BY <1>2, <1>3, <1>4, SinceOn DEF Closes, Carries

-----------------------------------------------------------------------------
(* What the gates record                                                        *)

LEMMA AssessedKeeps ==
  ASSUME Open(journey), NEW failed \in BOOLEAN, NEW t, \A i \in 1..6 : t[i] \in Nat,
         NEW kinds, "warning" \in kinds, failed => "error" \in kinds
  PROVE  Keeps(Assessed(failed, t), journey, kinds)
<1> DEFINE j == journey
           inputs == {"profiles", "policy"}
           a == Record(j, inputs, t[1])
           b == Record(a, {"oriented"}, t[2])
           c == Record(b, {"printability_report"}, t[3])
           d == SetInputs(c, inputs \cup {"design", "geometry_report"})
           e == Emit(d, t[4])
           f == NoteIf(failed, e, "error", t[5])
           g == Note(f, "warning", t[6])
<1>0. /\ t[1] \in Nat /\ t[2] \in Nat /\ t[3] \in Nat
      /\ t[4] \in Nat /\ t[5] \in Nat /\ t[6] \in Nat
      /\ "error" \in Kinds /\ "warning" \in Kinds
  BY DEF Kinds
<1> HIDE DEF j
<1>j. Open(j)
  BY DEF j
<1>1. Keeps(a, j, kinds) /\ Open(a)
  BY <1>0, <1>j, RecordKeeps, KeepsOpen, ReportRoles
<1> HIDE DEF a
<1>2. Keeps(b, a, kinds) /\ Open(b)
  BY <1>0, <1>1, RecordKeeps, KeepsOpen, ReportRoles
<1> HIDE DEF b
<1>3. Keeps(c, b, kinds) /\ Open(c)
  BY <1>0, <1>2, RecordKeeps, KeepsOpen, ReportRoles
<1> HIDE DEF c
<1>4. Keeps(d, c, kinds) /\ Open(d)
  BY <1>3, InputsKeeps, KeepsOpen, ReportRoles
<1> HIDE DEF d
<1>5. Keeps(e, d, kinds) /\ Open(e)
  BY <1>0, <1>4, EmitKeeps, KeepsOpen
<1> HIDE DEF e
<1>6. Keeps(f, e, kinds) /\ Open(f)
  BY <1>0, <1>5, NoteIfKeeps, KeepsOpen
<1> HIDE DEF f
<1>7. Keeps(g, f, kinds)
  BY <1>0, <1>6, NoteKeeps
<1> HIDE DEF g
<1>8. Keeps(g, j, kinds)
  BY <1>j, <1>1, <1>2, <1>3, <1>4, <1>5, <1>6, <1>7, KeepsOn
<1>9. g = Assessed(failed, t)
  BY DEF Assessed, a, b, c, d, e, f, g, j
<1> QED
  BY <1>8, <1>9 DEF j

LEMMA SlicerGateKeeps ==
  ASSUME Open(journey), NEW gate, gate.blocked \in BOOLEAN, gate.advised \in BOOLEAN, NEW t,
         \A i \in 1..5 : t[i] \in Nat,
         NEW kinds, "warning" \in kinds, gate.blocked => "error" \in kinds
  PROVE  Keeps(SlicerGate(gate, t), journey, kinds)
<1> DEFINE j == journey
           a == Record(j, RecordedUpTo(4), t[1])
           b == Record(a, AllFiles \ RecordedUpTo(4), t[2])
           c == NoteIf(gate.advised, b, "warning", t[3])
           d == NoteIf(gate.blocked, c, "error", t[4])
           e == Emit(d, t[5])
<1>0. /\ t[1] \in Nat /\ t[2] \in Nat /\ t[3] \in Nat /\ t[4] \in Nat /\ t[5] \in Nat
      /\ "error" \in Kinds /\ "warning" \in Kinds
  BY DEF Kinds
<1>r. RecordedUpTo(4) \subseteq Role /\ AllFiles \subseteq Role
  <2>1. \A i \in 1..6 : RecordOrder[i] \in Role
    BY DEF RecordOrder, Role, SlicerRole, LogRole
  <2>2. Len(RecordOrder) = 6
    BY DEF RecordOrder
  <2> QED
    BY <2>1, <2>2 DEF RecordedUpTo, AllFiles
<1> HIDE DEF j
<1>j. Open(j)
  BY DEF j
<1>1. Keeps(a, j, kinds) /\ Open(a)
  BY <1>0, <1>j, <1>r, RecordKeeps, KeepsOpen
<1> HIDE DEF a
<1>2. Keeps(b, a, kinds) /\ Open(b)
  BY <1>0, <1>1, <1>r, RecordKeeps, KeepsOpen
<1> HIDE DEF b
<1>3. Keeps(c, b, kinds) /\ Open(c)
  BY <1>0, <1>2, NoteIfKeeps, KeepsOpen
<1> HIDE DEF c
<1>4. Keeps(d, c, kinds) /\ Open(d)
  <2>1. Keeps(d, c, kinds)
    BY <1>0, <1>3, NoteIfKeeps
  <2> HIDE DEF d
  <2> QED
    BY <1>3, <2>1, KeepsOpen
<1> HIDE DEF d
<1>5. Keeps(e, d, kinds)
  BY <1>0, <1>4, EmitKeeps
<1> HIDE DEF e
<1>6. Keeps(e, j, kinds)
  BY <1>j, <1>1, <1>2, <1>3, <1>4, <1>5, KeepsOn
<1>7. e = SlicerGate(gate, t)
  BY DEF SlicerGate, a, b, c, d, e, j
<1> QED
  BY <1>6, <1>7 DEF j

\* The first revision takes over the run of the Brief, and adds no record.
LEMMA RevisedStages ==
  ASSUME NEW j, Open(j), Stages(j, 0, 1), NEW t \in Nat, NEW k, k = AddRevision(j, t)
  PROVE  Open(k) /\ Stages(k, 0, 1) /\ k.findings = j.findings /\ k.revision = t
<1> DEFINE run == [Last(j) EXCEPT !.owned = TRUE]
           runs == [j.runs EXCEPT ![1] = run]
<1>1. Len(j.runs) = 1 /\ RunAt(j.runs[1], 1, 0, j.revision # None)
  BY DEF Stages
<1>2. Last(j) \in StageRun /\ j \in FabricationJourney /\ Last(j) = j.runs[1]
  BY <1>1, LastRun DEF Open, Last
<1>3. /\ run \in StageRun /\ run.stage = Last(j).stage /\ run.status = Last(j).status
      /\ run.level = Last(j).level /\ run.owned = TRUE
  BY <1>2 DEF StageRun
<1>4. k = [j EXCEPT !.revision = t, !.updated = t, !.runs = runs]
  BY <1>1 DEF AddRevision, Last
<1>5. j.runs \in Seq(StageRun)
  BY <1>2, JourneyParts
<1> HIDE DEF run
<1>6. runs \in Seq(StageRun) /\ Len(runs) = 1 /\ runs[1] = run
  BY <1>1, <1>3, <1>5
<1> HIDE DEF runs
<1>7. /\ k \in FabricationJourney /\ k.findings = j.findings /\ k.revision = t /\ k.runs = runs
  BY <1>2, <1>4, <1>6 DEF FabricationJourney
<1>8. t # None
  BY NoneFacts
<1>9. RunAt(run, 1, 0, k.revision # None)
  BY <1>1, <1>2, <1>3, <1>7, <1>8 DEF RunAt
<1>10. Stages(k, 0, 1)
  BY <1>6, <1>7, <1>9 DEF Stages
<1>11. Len(k.runs) = 1
  BY <1>10 DEF Stages
<1>12. Open(k)
  BY <1>7, <1>11 DEF Open
<1> QED
  BY <1>7, <1>10, <1>12

LEMMA FirstStage ==
  ASSUME NEW j \in FabricationJourney, Len(j.runs) = 0, NEW k, NEW status,
         status \notin Successful, NEW kinds, NEW stage, stage = Order[1],
         Begins(k, j, stage, status, kinds)
  PROVE  Stages(k, 0, 1)
<1>1. /\ Len(k.runs) = 1 /\ k.revision = j.revision
      /\ Last(k).stage = stage /\ (Last(k).owned <=> j.revision # None)
      /\ Last(k).status = status /\ Last(k).level = None
  BY DEF Begins, Adds, Holds
<1>2. RunAt(Last(k), 1, 0, k.revision # None)
  BY <1>1 DEF RunAt
<1>3. k.runs[1] = Last(k)
  BY <1>1 DEF Last
<1>4. \A i \in 1..1 : RunAt(k.runs[i], i, 0, k.revision # None)
  BY <1>2, <1>3
<1> QED
  BY <1>1, <1>4 DEF Stages

-----------------------------------------------------------------------------
(* The worker and its files                                                     *)

CadRecord ==
  [worker : {"none", "gone", "exited", "died"} \cup Running,
   report : {"none"} \cup Failed \cup Successes,
   result : {"none", "torn"} \cup Failed \cup Successes,
   design : {"none", "whole", "wrong", "rejected"} \cup Edits]

\* Files are edited when the worker is done.
CadSound == cad \in CadRecord /\ (cad.design \in Edits => cad.worker = "gone")

\* What the end of the worker has settled stays so, but for an edit.
Steady(c, d) ==
  /\ c.worker = "gone" =>
       /\ d.worker = "gone" /\ d.result = c.result
       /\ c.design \in {"whole"} \cup Edits => d.design \in {"whole"} \cup Edits
  /\ c.design \in Edits => d.design = c.design

LEMMA EditFacts ==
  \A e \in Edits : e \notin {"none", "whole", "wrong", "rejected", "recorded"}
BY EditsAssumption DEF Faults

LEMMA EndedSound ==
  ASSUME CadSound, cad.worker # "gone", NEW result, NEW design, Ended(result, design),
         result \in {"none", "torn"} \cup Failed \cup Successes,
         design \in {"none", "whole", "wrong", "rejected"} \cup Edits
  PROVE  CadSound' /\ Steady(cad, cad')
BY DEF CadSound, CadRecord, Ended, Steady

LEMMA WorkerSound ==
  ASSUME CadSound, WorkerStep
  PROVE  CadSound' /\ Steady(cad, cad')
<1>1. /\ cad.worker \in {"opening", "building", "exporting", "reporting", "writing", "leaving"}
      /\ cad.design \notin Edits
  BY EditFacts
     DEF CadSound, WorkerStep, OpenStaging, BuildPart, BuildFails, PublishDesign, OpenResult,
         WriteResult, LeaveWorker, WorkerDies, Running, Building
<1>2. cad' \in CadRecord /\ cad'.design \in {cad.design, "whole"}
  <2>1. CASE OpenStaging
    BY <2>1 DEF CadSound, CadRecord, OpenStaging, Worker, Reports, Running, Building, Failed
  <2>2. CASE BuildPart
    BY <2>2 DEF CadSound, CadRecord, BuildPart, Worker, Running, Building
  <2>3. CASE BuildFails
    BY <2>3 DEF CadSound, CadRecord, BuildFails, Reports, Running, Building
  <2>4. CASE PublishDesign
    BY <2>4 DEF CadSound, CadRecord, PublishDesign, Running, Building
  <2>5. CASE OpenResult
    BY <2>5 DEF CadSound, CadRecord, OpenResult, Running, Building
  <2>6. CASE WriteResult
    BY <2>6 DEF CadSound, CadRecord, WriteResult, Running, Building
  <2>7. CASE LeaveWorker \/ WorkerDies
    BY <2>7 DEF CadSound, CadRecord, LeaveWorker, WorkerDies, Worker, Running, Building
  <2> QED
    BY <2>1, <2>2, <2>3, <2>4, <2>5, <2>6, <2>7 DEF WorkerStep
<1> QED
  BY <1>1, <1>2, EditFacts DEF CadSound, Steady

LEMMA TouchedSound ==
  ASSUME CadSound, DesignAltered
  PROVE  CadSound' /\ Steady(cad, cad')
<1>1. PICK design \in IF cad.worker = "gone" THEN Edits ELSE {"wrong"} :
        cad' = [cad EXCEPT !.design = design]
  BY DEF DesignAltered
<1>2. cad.design = "whole"
  BY DEF DesignAltered
<1> QED
  BY <1>1, <1>2, EditFacts DEF CadSound, CadRecord, Steady

LEMMA RunSteady ==
  ASSUME CadSound, StartWorker \/ JudgeResult \/ WorkerTimesOut \/ WorkerAbandoned
  PROVE  CadSound' /\ Steady(cad, cad')
<1>1. CASE StartWorker
  BY <1>1, EditFacts DEF CadSound, CadRecord, StartWorker, Worker, Steady, Running, Building
<1>2. CASE WorkerTimesOut
  <2>1. cad.worker # "gone" /\ Ended("failure", cad.design)
    BY <1>2 DEF WorkerTimesOut, Running, Building
  <2> QED
    BY <2>1, EndedSound DEF CadSound, CadRecord, Failed
<1>3. CASE WorkerAbandoned
  <2>1. cad.worker # "gone" /\ Ended(cad.result, cad.design)
    BY <1>3 DEF WorkerAbandoned, Running, Building
  <2> QED
    BY <2>1, EndedSound DEF CadSound, CadRecord
<1>4. CASE JudgeResult
  <2>1. cad.worker # "gone"
    BY <1>4 DEF JudgeResult
  <2>2. ReadResult \in Failed \cup Successes /\ "failure" \in Failed
    BY DEF ReadResult, Failed
  <2>3. PICK result \in Failed \cup Successes, design \in {cad.design, "rejected"} :
          Ended(result, design)
    BY <1>4, <2>2 DEF JudgeResult
  <2> QED
    BY <2>1, <2>3, EndedSound DEF CadSound, CadRecord
<1> QED
  BY <1>1, <1>2, <1>3, <1>4

\* The runner believes a success only with its whole design.
LEMMA JudgedWhole ==
  ASSUME CadSound, JudgeResult \/ WorkerTimesOut
  PROVE  cad'.worker = "gone" /\ (cad'.result \in Successes => cad'.design = "whole")
<1>1. "failure" \notin Successes
  BY DEF Successes
<1>2. CASE WorkerTimesOut
  BY <1>1, <1>2 DEF WorkerTimesOut, Ended
<1>3. CASE JudgeResult
  BY <1>1, <1>3 DEF JudgeResult, Ended
<1> QED
  BY <1>2, <1>3

LEMMA CadSteady ==
  ASSUME CadSound, [Next]_vars
  PROVE  CadSound' /\ Steady(cad, cad')
<1>1. CASE UNCHANGED cad
  BY <1>1 DEF CadSound, Steady
<1>2. CASE BriefStep \/ Persist \/ SlicingStep \/ Stop
  <2>1. UNCHANGED cad
    BY <1>2
       DEF BriefStep, StartBrief, ParseFails, CompleteBrief, PublishBrief, Persist, IndexJourney,
           IndexManifest, SlicingStep, StartPrintability, PrintabilityRaises, PrintabilityFails,
           PrintabilityPasses, SlicingRaises, SlicingBlocked, SlicingPasses, StartPackage,
           PackageRefused, WritePackage, CompletePackage, Stop, Do
  <2> QED
    BY <1>1, <2>1
<1>3. CASE CadStep
  <2>1. \/ UNCHANGED cad
        \/ StartWorker \/ JudgeResult \/ WorkerTimesOut \/ WorkerAbandoned
    BY <1>3
       DEF CadStep, StartDesign, BeginRun, FinishRun, RunnerRaises, DesignFails, DesignPasses,
           GeometryFails, GeometryPasses, Do
  <2> QED
    BY <1>1, <2>1, RunSteady
<1>4. CASE Beside(WorkerStep) \/ DesignTouched
  BY <1>4, WorkerSound, TouchedSound DEF Beside, DesignTouched
<1>5. CASE \E r \in Reader : ReaderStep(r)
  BY <1>1, <1>5 DEF ReaderStep, ReadJourney, ReadManifest, ReadPackage, NextRequest, pipelineVars
<1>6. CASE UNCHANGED vars
  BY <1>1, <1>6 DEF vars
<1> QED
  BY <1>2, <1>3, <1>4, <1>5, <1>6 DEF Next, PipelineStep

LEMMA BorneOn ==
  ASSUME NEW c, NEW d, Steady(c, d), NEW passed \in Nat, BorneByCad(passed, c)
  PROVE  BorneByCad(passed, d)
BY DEF BorneByCad, Delivered, Steady

LEMMA ClaimsOn ==
  ASSUME NEW c, NEW d, Steady(c, d), NEW j, Claims(j, c)
  PROVE  Claims(j, d)
<1>1. PICK passed \in 1..6, n \in 1..6 : Claim(j, passed, n) /\ BorneByCad(passed, c)
  BY DEF Claims
<1>2. BorneByCad(passed, d)
  BY <1>1, BorneOn
<1> QED
  BY <1>1, <1>2 DEF Claims

-----------------------------------------------------------------------------
(* Where the process is, and which stages it has run by then                    *)

Straight == {"draft", "spec", "ready", "confirmed"} \cup Designing \cup Slicing

PassedAt(p) ==
  CASE p \in {"draft", "spec"}                                        -> 0
    [] p \in {"ready", "confirmed", "designing", "waiting", "worked"} -> 1
    [] p = "checking"                                                 -> 2
    [] p = "assessing"                                                -> 3
    [] p = "slicing"                                                  -> 4
    [] OTHER                                                          -> 5

RunsAt(p) ==
  IF p \in {"ready", "confirmed", "packaging"} THEN PassedAt(p) ELSE PassedAt(p) + 1

\* A journey that has not failed so far, somewhere on its way.
Going(p, j, run) ==
  Stages(j, PassedAt(p), RunsAt(p)) /\ Blameless(j) /\ BorneByCad(PassedAt(p), run)

InHand ==
  /\ pc \in Straight => Going(pc, journey, cad)
  /\ pc = "worked" =>
       cad.worker = "gone" /\ (cad.result \in Successes => cad.design \in {"whole"} \cup Edits)
  /\ pc = "indexing" => Claims(journey, cad)
  /\ pc \in Slicing \cup {"indexing"} /\ disk.journey # None => Since(journey, disk.journey)

OnFile == disk.journey # None => Claims(disk.journey, cad)

Backed == CadSound /\ InHand /\ OnFile

LEMMA StageNumbers ==
  /\ \A p \in {"draft", "spec"} : PassedAt(p) = 0 /\ RunsAt(p) = 1
  /\ \A p \in {"ready", "confirmed"} : PassedAt(p) = 1 /\ RunsAt(p) = 1
  /\ \A p \in {"designing", "waiting", "worked"} : PassedAt(p) = 1 /\ RunsAt(p) = 2
  /\ PassedAt("checking") = 2 /\ RunsAt("checking") = 3
  /\ PassedAt("assessing") = 3 /\ RunsAt("assessing") = 4
  /\ PassedAt("slicing") = 4 /\ RunsAt("slicing") = 5
  /\ PassedAt("packaging") = 5 /\ RunsAt("packaging") = 5
  /\ \A p \in {"writing", "written"} : PassedAt(p) = 5 /\ RunsAt(p) = 6
BY DEF PassedAt, RunsAt

LEMMA RungNumbers ==
  /\ Rung[1] = 0 /\ Rung[2] = 1 /\ Rung[3] = 2 /\ Rung[4] = 3 /\ Rung[5] = 4 /\ Rung[6] = 4
  /\ Order[1] = "brief" /\ Order[2] = "design" /\ Order[3] = "geometry_validation"
  /\ Order[4] = "printability_validation" /\ Order[5] = "slicing"
  /\ Order[6] = "fabrication_package"
BY DEF Rung, Order

\* Going on to the next stage, or to nowhere.
LEMMA ToStage ==
  ASSUME Place, Backed, CadSound', Steady(cad, cad'), disk'.journey = disk.journey,
         NEW p \in Straight, pc' = p, Going(p, journey', cad'),
         p = "worked" => /\ cad'.worker = "gone"
                         /\ cad'.result \in Successes => cad'.design \in {"whole"} \cup Edits,
         p \in Slicing => Since(journey', disk.journey)
  PROVE  Backed'
<1>1. OnFile'
  BY ClaimsOn DEF Backed, OnFile
<1>2. p # "indexing"
  BY DEF Straight, Designing, Slicing
<1>3. InHand'
  BY <1>2 DEF InHand
<1> QED
  BY <1>1, <1>3 DEF Backed

LEMMA ToOutcome ==
  ASSUME Place, Backed, CadSound', Steady(cad, cad'), disk'.journey = disk.journey,
         pc' = "indexing", Claims(journey', cad'),
         disk.journey # None => Since(journey', disk.journey)
  PROVE  Backed'
<1>1. OnFile'
  BY ClaimsOn DEF Backed, OnFile
<1>2. pc' \notin Straight /\ pc' # "worked"
  BY DEF Straight, Designing, Slicing
<1>3. InHand'
  BY <1>2 DEF InHand
<1> QED
  BY <1>1, <1>3 DEF Backed

LEMMA ToNoStage ==
  ASSUME Place, Backed, CadSound', Steady(cad, cad'), disk'.journey = disk.journey,
         pc' \notin Straight \cup {"indexing"}
  PROVE  Backed'
<1>1. OnFile'
  BY ClaimsOn DEF Backed, OnFile
<1>2. InHand'
  BY DEF InHand, Straight, Designing, Slicing
<1> QED
  BY <1>1, <1>2 DEF Backed

\* Nothing but the worker and its files has moved.
LEMMA SameClaims ==
  ASSUME Place, Backed, CadSound', Steady(cad, cad'), UNCHANGED <<clock, pc, journey, disk>>
  PROVE  Backed'
<1>1. OnFile'
  BY ClaimsOn DEF Backed, OnFile
<1>2. pc \in Straight => Going(pc, journey, cad')
  <2> SUFFICES ASSUME pc \in Straight PROVE Going(pc, journey, cad')
    OBVIOUS
  <2>1. Going(pc, journey, cad) /\ PassedAt(pc) \in Nat
    BY DEF Backed, InHand, PassedAt
  <2> QED
    BY <2>1, BorneOn DEF Going
<1>3. pc = "worked" => /\ cad'.worker = "gone"
                       /\ cad'.result \in Successes => cad'.design \in {"whole"} \cup Edits
  BY DEF Backed, InHand, Steady
<1>4. pc = "indexing" => Claims(journey, cad')
  BY ClaimsOn DEF Backed, InHand
<1>5. InHand'
  BY <1>2, <1>3, <1>4 DEF Backed, InHand
<1> QED
  BY <1>1, <1>5 DEF Backed

-----------------------------------------------------------------------------
(* One stage after the other                                                    *)

LEMMA RolesGrow ==
  ASSUME NEW j, NEW k, Holds(k, j)
  PROVE  RolesOf(j) \subseteq RolesOf(k)
BY DEF Holds, RolesOf

\* The reports of the levels that were passed have been recorded.
LEMMA ReportsThere ==
  ASSUME Place, Evidenced, pc \in Designing \cup Slicing
  PROVE  /\ \A level \in 1..Rung[PassedAt(pc)] : ReportOf[level] \in RolesOf(journey)
         /\ pc = "checking" => \A level \in 1..2 : ReportOf[level] \in RolesOf(journey)
         /\ pc = "written" => \A level \in 1..4 : ReportOf[level] \in RolesOf(journey)
<1>1. RolesOf(journey) = RolesAt(pc)
  BY DEF Evidenced, InMemory, Making
<1>2. /\ ReportOf[1] = "control" /\ ReportOf[2] = "geometry_report"
      /\ ReportOf[3] = "printability_report" /\ ReportOf[4] = "preflight"
  BY DEF ReportOf
<1>3. CASE pc \in {"designing", "waiting", "worked"}
  <2>1. Rung[PassedAt(pc)] = 0
    BY <1>3, StageNumbers, RungNumbers
  <2> QED
    BY <1>3, <2>1
<1>4. CASE pc = "checking"
  <2>1. Rung[PassedAt(pc)] = 1 /\ RolesAt(pc) = CadRole
    BY <1>4, StageNumbers, RungNumbers DEF RolesAt
  <2> QED
    BY <1>1, <1>2, <1>4, <2>1 DEF CadRole
<1>5. CASE pc = "assessing"
  <2>1. Rung[PassedAt(pc)] = 2 /\ RolesAt(pc) = CadRole
    BY <1>5, StageNumbers, RungNumbers DEF RolesAt
  <2> QED
    BY <1>1, <1>2, <1>5, <2>1 DEF CadRole
<1>6. CASE pc = "slicing"
  <2>1. Rung[PassedAt(pc)] = 3 /\ RolesAt(pc) = CadRole \cup AssessedRole
    BY <1>6, StageNumbers, RungNumbers DEF RolesAt
  <2> QED
    BY <1>1, <1>2, <1>6, <2>1 DEF CadRole, AssessedRole
<1>7. CASE pc \in {"packaging", "writing", "written"}
  <2>1. /\ Rung[PassedAt(pc)] = 4
        /\ RolesAt(pc) = CadRole \cup AssessedRole \cup SlicerRole
    BY <1>7, StageNumbers, RungNumbers DEF RolesAt
  <2> QED
    BY <1>1, <1>2, <1>7, <2>1 DEF CadRole, AssessedRole, SlicerRole
<1> QED
  BY <1>3, <1>4, <1>5, <1>6, <1>7 DEF Designing, Slicing

\* What the stages know of the journey they work on.
LEMMA GoingFacts ==
  ASSUME Place, Backed, pc \in Designing \cup Slicing
  PROVE  /\ Open(journey) /\ journey.revision # None /\ clock \in Nat
         /\ Stages(journey, PassedAt(pc), RunsAt(pc)) /\ Blameless(journey)
         /\ BorneByCad(PassedAt(pc), cad)
         /\ pc \in Designing => disk.journey = None
         /\ pc \in Slicing =>
              /\ disk.journey \in FabricationJourney /\ disk.journey # None
              /\ Since(journey, disk.journey) /\ Len(disk.journey.runs) < Len(journey.runs)
<1>1. Going(pc, journey, cad)
  BY DEF Backed, InHand, Straight
<1>2. CASE pc \in Designing
  <2>1. pc \notin Slicing
    BY <1>2 DEF Designing, Slicing
  <2> QED
    BY <1>1, <1>2, <2>1, DesigningFacts DEF Going, EmptyDisk
<1>3. CASE pc \in Slicing
  <2>1. pc \notin Designing
    BY <1>3 DEF Designing, Slicing
  <2>2. Since(journey, disk.journey)
    BY <1>3, SlicingFacts DEF Backed, InHand
  <2>3. /\ Open(journey) /\ journey.revision # None /\ clock \in Nat
        /\ disk.journey \in FabricationJourney /\ disk.journey # None
        /\ Grown(journey, disk.journey)
    BY <1>3, SlicingFacts
  <2> QED
    BY <1>1, <1>3, <2>1, <2>2, <2>3 DEF Going, Grown
<1> QED
  BY <1>2, <1>3

\* Wherever a stage fails, the journey claims what the stages before it reached.
LEMMA FailedClaims ==
  ASSUME Place, Evidenced, Backed, CadSound', Steady(cad, cad'),
         pc \in Designing \cup {"assessing", "slicing"}, Fails(journey', journey),
         pc' = "indexing", UNCHANGED disk
  PROVE  Backed'
<1> DEFINE p == PassedAt(pc)
           k == journey'
<1>1. pc \in Designing \cup Slicing
  BY DEF Slicing
<1>2. p \in 1..4 /\ RunsAt(pc) = p + 1
  BY StageNumbers DEF Designing
<1>3. /\ Open(journey) /\ journey.revision # None /\ Stages(journey, p, p + 1)
      /\ BorneByCad(p, cad)
  BY <1>1, <1>2, GoingFacts
<1>4. \A level \in 1..Rung[p] : ReportOf[level] \in RolesOf(journey)
  BY <1>1, ReportsThere
<1> HIDE DEF p, k
<1>5. Fails(k, journey) /\ BorneByCad(p, cad')
  BY <1>2, <1>3, BorneOn DEF k
<1>6. Holds(k, journey) /\ k.status = "failed" /\ k \in FabricationJourney
      /\ k.revision = journey.revision
  BY <1>5 DEF Fails, Closes, Carries, Holds
<1>7. Stages(k, p, p + 1)
  BY <1>3, <1>5, FailedStages
<1>8. \A level \in 1..Rung[p] : ReportOf[level] \in RolesOf(k)
  BY <1>4, <1>6, RolesGrow
<1>9. Claim(k, p, p + 1)
  BY <1>2, <1>6, <1>7, <1>8 DEF Claim
<1>10. p \in 1..6 /\ p + 1 \in 1..6
  BY <1>2
<1>11. Claims(k, cad')
  <2>1. \E passed, n \in 1..6 : Claim(k, passed, n) /\ BorneByCad(passed, cad')
    BY <1>5, <1>9, <1>10
  <2> QED
    BY <1>3, <1>6, <2>1 DEF Claims
<1>12. disk.journey # None => Since(k, disk.journey)
  <2> SUFFICES ASSUME disk.journey # None PROVE Since(k, disk.journey)
    OBVIOUS
  <2>1. pc \in Slicing
    BY <1>1, GoingFacts
  <2>2. /\ disk.journey \in FabricationJourney /\ Since(journey, disk.journey)
        /\ Len(disk.journey.runs) < Len(journey.runs)
    BY <1>1, <2>1, GoingFacts
  <2>3. \E status, level : Closes(k, journey, status, level, Kinds)
    BY <1>5 DEF Fails
  <2> QED
    BY <2>2, <2>3, SinceCloses
<1> QED
  BY <1>11, <1>12, ToOutcome DEF k

\* The same after files and findings of the stage were recorded.
LEMMA FailedStageClaims ==
  ASSUME Place, Evidenced, Backed, CadSound', Steady(cad, cad'),
         pc \in Designing \cup {"assessing", "slicing"},
         NEW d, Keeps(d, journey, Kinds), NEW v,
         v[1] \in Nat, v[2] \in Nat, v[3] \in Nat, v[4] \in Nat,
         journey' = FailStage(d, v), pc' = "indexing", UNCHANGED disk
  PROVE  Backed'
<1>1. Open(journey)
  BY GoingFacts DEF Slicing
<1>2. Fails(journey', d)
  BY KeepsOpen, FailStageEnds
<1>3. Fails(journey', journey)
  BY <1>1, <1>2, KeepsThenFails
<1> QED
  BY <1>3, FailedClaims

LEMMA ReportedFailureClaims ==
  ASSUME Place, Evidenced, Backed, CadSound', Steady(cad, cad'), pc \in {"assessing", "slicing"},
         NEW d, Keeps(d, journey, Kinds), NEW t1 \in Nat, NEW t2 \in Nat, NEW t3 \in Nat,
         journey' = UpdateStatus(Emit(Transition(d, "failed", None, t1), t2), "failed", t3),
         pc' = "indexing", UNCHANGED disk
  PROVE  Backed'
<1>1. Open(journey)
  BY GoingFacts DEF Slicing
<1>2. Fails(journey', d)
  BY KeepsOpen, StopEnds
<1>3. Fails(journey', journey)
  BY <1>1, <1>2, KeepsThenFails
<1> QED
  BY <1>3, FailedClaims

-----------------------------------------------------------------------------
(* Stages that pass and begin                                                   *)

\* A stage has passed without an error.
Passed(k, j, n, job) ==
  /\ Open(k) /\ Holds(k, j) /\ k.revision = j.revision /\ k.status = job
  /\ Stages(k, n, n) /\ Blameless(k)
  /\ \E status, level, kinds : kinds \subseteq Kinds /\ Closes(k, j, status, level, kinds)

LEMMA StagePasses ==
  ASSUME NEW j, Open(j), NEW p \in 0..5, NEW n, n = p + 1, Stages(j, p, n), Blameless(j),
         NEW kinds \in SUBSET Kinds, "error" \notin kinds, NEW d, Keeps(d, j, kinds),
         NEW warned, NEW level, level = Rung[n], NEW job \in JobStatus, NEW v,
         v[1] \in Nat, v[2] \in Nat, v[3] \in Nat, NEW k, k = PassStage(d, warned, level, job, v)
  PROVE  Passed(k, j, n, job)
<1>0. level \in Nat
  BY OrderFacts
<1>1. Passes(k, d, level, job, kinds)
  BY <1>0, KeepsOpen, PassStageEnds
<1>2. Passes(k, j, level, job, kinds)
  BY <1>1, KeepsThenPasses
<1>3. PICK status \in Successful : Closes(k, j, status, level, kinds)
  BY <1>2 DEF Passes
<1>4. k.status = job
  BY <1>2 DEF Passes
<1>5. Carries(k, j, status, level) /\ After(k, j, Len(j.runs), kinds)
  BY <1>3 DEF Closes
<1>6. Open(k) /\ Holds(k, j) /\ k.revision = j.revision
  BY <1>5, CarriesOpen DEF Carries, Holds
<1>7. Passes(k, j, Rung[p + 1], job, kinds) /\ Stages(j, p, p + 1)
  BY <1>2
<1>8. Stages(k, p + 1, p + 1)
  BY <1>7, PassedStages
<1>9. Blameless(k)
  BY <1>5, StaysBlameless
<1> QED
  BY <1>3, <1>4, <1>6, <1>8, <1>9 DEF Passed

\* Another stage has begun.
Begun(k, j, n) ==
  /\ Open(k) /\ Holds(k, j) /\ k.revision = j.revision
  /\ Stages(k, n, n + 1) /\ Blameless(k)
  /\ \E stage, status : Begins(k, j, stage, status, {})

LEMMA NextStage ==
  ASSUME NEW j \in FabricationJourney, NEW n \in 1..5, Stages(j, n, n), Blameless(j),
         NEW stage, stage = Order[n + 1], NEW status, status \notin Successful,
         NEW k, Begins(k, j, stage, status, {})
  PROVE  Begun(k, j, n)
<1>1. Stages(k, n, n + 1)
  <2>1. n < 6
    OBVIOUS
  <2> DEFINE none == {}
  <2>2. Begins(k, j, stage, status, none)
    OBVIOUS
  <2> HIDE DEF none
  <2> QED
    BY <2>1, <2>2, BegunStages
<1>2. Holds(k, j) /\ After(k, j, Len(j.runs) + 1, {})
  BY DEF Begins, Adds
<1>3. Blameless(k)
  BY <1>2, StaysBlameless
<1>4. Open(k)
  BY BeginsOpen
<1> QED
  BY <1>1, <1>2, <1>3, <1>4 DEF Begun, Holds

LEMMA StageBegins ==
  ASSUME NEW j \in FabricationJourney, NEW n \in 1..5, Stages(j, n, n), Blameless(j),
         NEW stage, stage = Order[n + 1], NEW inputs \in SUBSET Role, NEW u,
         u[1] \in Nat, u[2] \in Nat, u[3] \in Nat, NEW k, k = StartStage(j, stage, 1, inputs, u)
  PROVE  Begun(k, j, n)
<1>1. stage \in FabricationStage /\ 1 \in Nat
  BY OrderFacts
<1>2. Begins(k, j, stage, "running", {})
  BY <1>1, StartStageBegins
<1> QED
  BY <1>2, NextStage, NotYetSuccessful

-----------------------------------------------------------------------------
(* The Brief gate                                                               *)

LEMMA StartBriefBacked ==
  ASSUME Place, Backed, CadSound', Steady(cad, cad'), StartBrief
  PROVE  Backed'
<1>1. PICK t \in Stamps(4), gate \in Gate :
        Do(gate, StartStage(NewJourney(t[1]), "brief", 1, {}, [i \in 1..3 |-> t[i + 1]]), t[4])
  BY DEF StartBrief
<1>2. clock \in Nat
  BY DEF Place
<1>3. t \in [1..4 -> Nat]
  BY <1>2, StampsAscend
<1> DEFINE u == [i \in 1..3 |-> t[i + 1]]
           j == NewJourney(t[1])
           k == StartStage(j, "brief", 1, {}, u)
<1>4. u[1] \in Nat /\ u[2] \in Nat /\ u[3] \in Nat /\ t[1] \in Nat
  BY <1>3
<1>5. j \in FabricationJourney /\ Len(j.runs) = 0 /\ j.findings = {}
  BY <1>4, NewJourneyFacts DEF NewJourney
<1>6. pc' = gate /\ journey' = k /\ UNCHANGED disk
  BY <1>1 DEF Do, Moves
<1> HIDE DEF u, j
<1>7. Begins(k, j, "brief", "running", {})
  BY <1>4, <1>5, StartStageBegins, NotYetSuccessful
<1> HIDE DEF k
<1>8. Stages(k, 0, 1)
  <2> DEFINE stage == "brief"
  <2>1. stage = Order[1] /\ Begins(k, j, stage, "running", {})
    BY <1>7, RungNumbers
  <2> HIDE DEF stage
  <2> QED
    BY <1>5, <2>1, FirstStage, NotYetSuccessful
<1>9. Blameless(k)
  <2>1. Blameless(j) /\ After(k, j, Len(j.runs) + 1, {})
    BY <1>5, <1>7 DEF Blameless, Begins
  <2> QED
    BY <2>1, StaysBlameless
<1>10. CASE gate = "request"
  BY <1>6, <1>10, ToNoStage DEF Straight, Designing, Slicing
<1>11. CASE gate \in {"draft", "spec"}
  <2>1. gate \in Straight /\ gate \notin Slicing /\ gate # "worked"
    BY <1>11 DEF Straight, Slicing
  <2>2. Going(gate, journey', cad')
    BY <1>6, <1>8, <1>9, <1>11, StageNumbers DEF Going, BorneByCad
  <2> QED
    BY <1>6, <2>1, <2>2, ToStage
<1> QED
  BY <1>10, <1>11 DEF Gate

LEMMA ParseFailsBacked ==
  ASSUME Place, Backed, CadSound', Steady(cad, cad'), ParseFails
  PROVE  Backed'
<1>1. pc' \in {"request", "answered"} /\ UNCHANGED disk
  BY DEF ParseFails, Do, Moves
<1> QED
  BY <1>1, ToNoStage DEF Straight, Designing, Slicing

LEMMA CompleteBriefBacked ==
  ASSUME Place, Backed, CadSound', Steady(cad, cad'), CompleteBrief
  PROVE  Backed'
<1> DEFINE Parsed(t) == Emit(AddRevision(journey, t[1]), t[2])
           Decided(t, confirmed) == NoteIf(confirmed, Parsed(t), "decision", t[3])
           Next1(p) == [request |-> "answered", draft |-> "confirmed", spec |-> "ready"][p]
<1>1. PICK t \in Stamps(7), ready \in BOOLEAN, confirmed \in BOOLEAN :
        /\ UNCHANGED disk
        /\ IF ready
           THEN /\ pc' = Next1(pc)
                /\ journey' = PassStage(Decided(t, confirmed), FALSE, 0, "ready_for_design",
                                        <<t[4], t[5], t[6]>>)
           ELSE pc' \in {"answered", "refused"}
  BY DEF CompleteBrief, Confirmations, Do, Moves
<1>2. /\ clock \in Nat /\ Open(journey) /\ pc \in Gate
  BY DEF Place, CompleteBrief, EarlyPlace, Early, Gate
<1>3. CASE ~ready \/ pc = "request"
  <2>1. Next1("request") = "answered"
    OBVIOUS
  <2> HIDE DEF Next1
  <2>2. pc' \in {"answered", "refused"}
    BY <1>1, <1>3, <2>1
  <2> QED
    BY <1>1, <2>2, ToNoStage DEF Straight, Designing, Slicing
<1>4. CASE ready /\ pc \in {"draft", "spec"}
  <2>1. t \in [1..7 -> Nat]
    BY <1>2, StampsAscend
  <2> DEFINE t1 == t[1]
             a == AddRevision(journey, t1)
             p == Emit(a, t[2])
             d == NoteIf(confirmed, p, "decision", t[3])
             v == <<t[4], t[5], t[6]>>
             kinds == {"decision"}
             k == journey'
  <2>2. /\ t1 \in Nat /\ t[2] \in Nat /\ t[3] \in Nat
        /\ v[1] \in Nat /\ v[2] \in Nat /\ v[3] \in Nat
    BY <2>1
  <2>3. k = PassStage(d, FALSE, 0, "ready_for_design", v) /\ pc' = Next1(pc)
    BY <1>1, <1>4
  <2>4. Stages(journey, 0, 1) /\ Blameless(journey)
    BY <1>4, StageNumbers DEF Backed, InHand, Straight, Going
  <2> HIDE DEF k, t1, v
  <2>5. Open(a) /\ Stages(a, 0, 1) /\ Blameless(a)
    <3>1. a = AddRevision(journey, t1)
      OBVIOUS
    <3> HIDE DEF a
    <3>2. Open(a) /\ Stages(a, 0, 1) /\ a.findings = journey.findings
      BY <1>2, <2>2, <2>4, <3>1, RevisedStages
    <3> QED
      BY <2>4, <3>2 DEF Blameless
  <2> HIDE DEF a
  <2>6. /\ "decision" \in Kinds /\ "decision" \in kinds /\ kinds \in SUBSET Kinds
        /\ "error" \notin kinds
    BY DEF Kinds
  <2> HIDE DEF kinds
  <2>7. Keeps(p, a, kinds) /\ Open(p)
    BY <2>2, <2>5, EmitKeeps, KeepsOpen
  <2> HIDE DEF p
  <2>8. Keeps(d, p, kinds)
    BY <2>2, <2>6, <2>7, NoteIfKeeps
  <2> HIDE DEF d
  <2>9. Keeps(d, a, kinds)
    BY <2>5, <2>7, <2>8, KeepsOn
  <2>10. Passed(k, a, 1, "ready_for_design")
    <3> DEFINE q == 0
               n == 1
               warned == FALSE
               level == 0
               job == "ready_for_design"
    <3>1. /\ q \in 0..5 /\ n = q + 1 /\ level = Rung[n] /\ job \in JobStatus /\ Stages(a, q, n)
          /\ k = PassStage(d, warned, level, job, v)
      BY <2>3, <2>5, RungNumbers DEF JobStatus
    <3> HIDE DEF q, n, warned, level, job
    <3>2. Passed(k, a, n, job)
      BY <2>2, <2>5, <2>6, <2>9, <3>1, StagePasses
    <3> QED
      BY <3>2 DEF n, job
  <2>11. pc' \in {"confirmed", "ready"}
    BY <1>4, <2>3
  <2>12. Going(pc', k, cad')
    BY <2>10, <2>11, StageNumbers DEF Passed, Going, BorneByCad
  <2> QED
    BY <1>1, <2>11, <2>12, ToStage DEF Straight, Slicing, k
<1> QED
  BY <1>2, <1>3, <1>4 DEF Gate

LEMMA PublishBriefBacked ==
  ASSUME Place, Backed, CadSound', Steady(cad, cad'), PublishBrief
  PROVE  Backed'
<1>1. PICK t \in Stamps(1) :
        /\ disk' = [disk EXCEPT !.journey = journey, !.manifest = Manifest(journey, t[1])]
        /\ pc' = "briefed" /\ pc = "confirmed" /\ UNCHANGED journey
  BY DEF PublishBrief
<1>2. /\ disk \in Disk /\ Open(journey) /\ journey.revision # None
      /\ journey.status = "ready_for_design"
  BY <1>1 DEF Place, EarlyPlace, Early
<1>3. Stages(journey, 1, 1) /\ Blameless(journey)
  BY <1>1, StageNumbers DEF Backed, InHand, Straight, Going
<1>4. disk'.journey = journey
  BY <1>1, <1>2 DEF Disk
<1>5. Claim(journey, 1, 1)
  <2>1. 1..Rung[1] = {}
    BY RungNumbers
  <2> QED
    BY <1>2, <1>3, <2>1 DEF Claim
<1>6. \E passed, n \in 1..6 : Claim(journey, passed, n) /\ BorneByCad(passed, cad')
  <2>1. 1 \in 1..6 /\ BorneByCad(1, cad')
    BY DEF BorneByCad
  <2> QED
    BY <1>5, <2>1
<1>7. Claims(journey, cad')
  BY <1>2, <1>3, <1>6 DEF Claims, Open
<1>8. OnFile'
  BY <1>4, <1>7 DEF OnFile
<1>9. InHand'
  BY <1>1 DEF InHand, Straight, Designing, Slicing
<1> QED
  BY <1>8, <1>9 DEF Backed

-----------------------------------------------------------------------------
(* The CAD pipeline                                                             *)

LEMMA StartDesignBacked ==
  ASSUME Place, Backed, CadSound', Steady(cad, cad'), StartDesign
  PROVE  Backed'
<1>1. PICK t \in Stamps(3) :
        Do("designing", StartStage(journey, "design", 1, {}, t), t[3])
  BY DEF StartDesign
<1>2. journey.status = "ready_for_design" /\ pc \in {"ready", "refused", "designed"}
  BY DEF StartDesign, RequireReady
<1>3. /\ pc = "ready" /\ clock \in Nat /\ Open(journey)
  BY <1>2 DEF Place, EarlyPlace, KeptPlace, Early, Kept
<1>4. t \in [1..3 -> Nat]
  BY <1>3, StampsAscend
<1>5. t[1] \in Nat /\ t[2] \in Nat /\ t[3] \in Nat
  BY <1>4
<1>6. /\ journey' = StartStage(journey, "design", 1, {}, t) /\ pc' = "designing"
      /\ UNCHANGED disk
  BY <1>1 DEF Do, Moves
<1>7. Stages(journey, 1, 1) /\ Blameless(journey)
  BY <1>3, StageNumbers DEF Backed, InHand, Straight, Going
<1>8. Begun(journey', journey, 1)
  <2> DEFINE n == 1
             stage == "design"
             k == journey'
             inputs == {}
  <2>1. /\ n \in 1..5 /\ Stages(journey, n, n) /\ stage = Order[n + 1] /\ inputs \in SUBSET Role
        /\ k = StartStage(journey, stage, 1, inputs, t)
    BY <1>6, <1>7, RungNumbers
  <2> HIDE DEF n, stage, k, inputs
  <2>2. Begun(k, journey, n)
    BY <1>3, <1>5, <1>7, <2>1, StageBegins DEF Open
  <2> QED
    BY <2>2 DEF n, k
<1>9. Going("designing", journey', cad')
  BY <1>8, StageNumbers DEF Begun, Going, BorneByCad
<1> QED
  BY <1>6, <1>9, ToStage DEF Straight, Designing, Slicing

LEMMA RunBacked ==
  ASSUME Place, Backed, CadSound', Steady(cad, cad'), BeginRun \/ FinishRun
  PROVE  Backed'
<1>1. /\ pc \in {"designing", "waiting"} /\ pc' \in {"waiting", "worked"}
      /\ UNCHANGED <<clock, journey, disk>>
  BY DEF BeginRun, FinishRun
<1>2. Going(pc, journey, cad)
  BY <1>1 DEF Backed, InHand, Straight, Designing
<1>3. Going(pc', journey', cad')
  BY <1>1, <1>2, StageNumbers DEF Going, BorneByCad
<1>4. pc' = "worked" => /\ cad'.worker = "gone"
                        /\ cad'.result \in Successes => cad'.design \in {"whole"} \cup Edits
  <2> SUFFICES ASSUME pc' = "worked"
               PROVE  /\ cad'.worker = "gone"
                      /\ cad'.result \in Successes => cad'.design \in {"whole"} \cup Edits
    OBVIOUS
  <2>1. JudgeResult \/ WorkerTimesOut
    BY DEF BeginRun, FinishRun
  <2> QED
    BY <2>1, JudgedWhole DEF Backed
<1> QED
  BY <1>1, <1>3, <1>4, ToStage DEF Straight, Designing, Slicing

LEMMA RunnerRaisesBacked ==
  ASSUME Place, Evidenced, Backed, CadSound', Steady(cad, cad'), RunnerRaises
  PROVE  Backed'
<1>1. PICK t \in Stamps(4) : Moves("indexing", FailStage(journey, t), t[4])
  BY DEF RunnerRaises
<1>2. pc \in Designing
  BY DEF RunnerRaises, Designing
<1>3. Open(journey) /\ clock \in Nat
  BY <1>2, DesigningFacts
<1>4. t \in [1..4 -> Nat]
  BY <1>3, StampsAscend
<1>5. t[1] \in Nat /\ t[2] \in Nat /\ t[3] \in Nat /\ t[4] \in Nat
  BY <1>4
<1>6. pc' = "indexing" /\ journey' = FailStage(journey, t) /\ UNCHANGED disk
  BY <1>1 DEF Moves
<1>7. Keeps(journey, journey, Kinds)
  BY <1>3, KeepsNothing
<1> QED
  BY <1>2, <1>5, <1>6, <1>7, FailedStageClaims

LEMMA DesignFailsBacked ==
  ASSUME Place, Evidenced, Backed, CadSound', Steady(cad, cad'), DesignFails
  PROVE  Backed'
<1> DEFINE Recorded(roles, t) == SetInputs(Record(journey, roles, t[1]), roles \cap {"control"})
           Rest(t) == [i \in 1..4 |-> t[i + 1]]
<1>1. PICK t \in Stamps(5), roles \in {{}, {"control"}, {"control", "design"}} :
        Do("indexing", FailStage(Recorded(roles, t), Rest(t)), t[5])
  BY DEF DesignFails
<1>2. pc \in Designing
  BY DEF DesignFails, Designing
<1>3. Open(journey) /\ clock \in Nat
  BY <1>2, DesigningFacts
<1>4. t \in [1..5 -> Nat]
  BY <1>3, StampsAscend
<1> DEFINE v == Rest(t)
           t1 == t[1]
           r == Record(journey, roles, t1)
           d == Recorded(roles, t)
<1>5. v[1] \in Nat /\ v[2] \in Nat /\ v[3] \in Nat /\ v[4] \in Nat /\ t1 \in Nat
  BY <1>4
<1>6. roles \in SUBSET Role /\ roles \cap {"control"} \in SUBSET Role
  BY ReportRoles
<1>7. pc' = "indexing" /\ journey' = FailStage(d, v) /\ UNCHANGED disk
  BY <1>1 DEF Do, Moves
<1>8. d = SetInputs(r, roles \cap {"control"})
  OBVIOUS
<1> HIDE DEF v, d, t1
<1>9. Keeps(r, journey, Kinds)
  BY <1>3, <1>5, <1>6, RecordKeeps
<1> HIDE DEF r
<1>10. Keeps(d, r, Kinds)
  BY <1>6, <1>8, <1>9, KeepsOpen, InputsKeeps
<1>11. Keeps(d, journey, Kinds)
  BY <1>3, <1>9, <1>10, KeepsOn
<1> QED
  BY <1>2, <1>5, <1>7, <1>11, FailedStageClaims

LEMMA GeometryFailsBacked ==
  ASSUME Place, Evidenced, Backed, CadSound', Steady(cad, cad'), GeometryFails
  PROVE  Backed'
<1> DEFINE Checked(checked, t) == IF checked THEN Emit(journey, t[1]) ELSE journey
           Rest(t) == [i \in 1..4 |-> t[i + 1]]
<1>1. PICK t \in Stamps(5), checked \in {FALSE, cad.result = "R1"} :
        Do("indexing", FailStage(Checked(checked, t), Rest(t)), t[5])
  BY DEF GeometryFails
<1>2. pc \in Designing
  BY DEF GeometryFails, Designing
<1>3. Open(journey) /\ clock \in Nat
  BY <1>2, DesigningFacts
<1>4. t \in [1..5 -> Nat]
  BY <1>3, StampsAscend
<1> DEFINE v == Rest(t)
           t1 == t[1]
           d == Checked(checked, t)
<1>5. v[1] \in Nat /\ v[2] \in Nat /\ v[3] \in Nat /\ v[4] \in Nat /\ t1 \in Nat
  BY <1>4
<1>6. pc' = "indexing" /\ journey' = FailStage(d, v) /\ UNCHANGED disk
  BY <1>1 DEF Do, Moves
<1>7. d = Emit(journey, t1) \/ d = journey
  OBVIOUS
<1> HIDE DEF v, d, t1
<1>8. Keeps(d, journey, Kinds)
  BY <1>3, <1>5, <1>7, EmitKeeps, KeepsNothing
<1> QED
  BY <1>2, <1>5, <1>6, <1>8, FailedStageClaims

LEMMA DesignPassesBacked ==
  ASSUME Place, Backed, CadSound', Steady(cad, cad'), DesignPasses
  PROVE  Backed'
<1> DEFINE Control(t) == SetInputs(Record(journey, {"control"}, t[1]), {"control"})
           Design(t) == Record(Control(t), {"design"}, t[2])
           Designed(t) == PassStage(Design(t), FALSE, 1, "design_generated", <<t[3], t[4], t[5]>>)
           Started(t) == StartStage(Designed(t), "geometry_validation", 1, {"design"},
                                    <<t[6], t[7], t[8]>>)
<1>1. PICK t \in Stamps(9) :
        Do("checking", Record(Started(t), {"geometry_report"}, t[9]), t[9])
  BY DEF DesignPasses
<1>2. pc = "worked" /\ pc \in Designing /\ cad.result \in Successes
  BY DEF DesignPasses, Designing
<1>3. Open(journey) /\ clock \in Nat /\ Stages(journey, 1, 2) /\ Blameless(journey)
  BY <1>2, GoingFacts, StageNumbers
<1>4. t \in [1..9 -> Nat]
  BY <1>3, StampsAscend
<1> DEFINE t1 == t[1]
           t2 == t[2]
           t9 == t[9]
           v == <<t[3], t[4], t[5]>>
           u == <<t[6], t[7], t[8]>>
           r == Record(journey, {"control"}, t1)
           c == Control(t)
           d == Design(t)
           p == Designed(t)
           s == Started(t)
           k == Record(s, {"geometry_report"}, t9)
<1>5. /\ v[1] \in Nat /\ v[2] \in Nat /\ v[3] \in Nat /\ u[1] \in Nat /\ u[2] \in Nat
      /\ u[3] \in Nat /\ t1 \in Nat /\ t2 \in Nat /\ t9 \in Nat
  BY <1>4
<1>6. pc' = "checking" /\ journey' = k /\ UNCHANGED disk
  BY <1>1 DEF Do, Moves
<1>7. c = SetInputs(r, {"control"}) /\ d = Record(c, {"design"}, t2)
  OBVIOUS
<1>8. p = PassStage(d, FALSE, 1, "design_generated", v)
  OBVIOUS
<1>9. s = StartStage(p, "geometry_validation", 1, {"design"}, u)
  OBVIOUS
<1> HIDE DEF t1, t2, t9, v, u, c, d, p, s
<1> DEFINE none == {}
<1>10. none \in SUBSET Kinds /\ "error" \notin none
  OBVIOUS
<1> HIDE DEF none
<1>11. Keeps(r, journey, none) /\ Open(r)
  BY <1>3, <1>5, ReportRoles, RecordKeeps, KeepsOpen
<1> HIDE DEF r
<1>12. Keeps(c, r, none) /\ Open(c)
  BY <1>7, <1>11, ReportRoles, InputsKeeps, KeepsOpen
<1>13. Keeps(d, c, none)
  BY <1>5, <1>7, <1>12, ReportRoles, RecordKeeps
<1>14. Keeps(d, journey, none)
  BY <1>3, <1>11, <1>12, <1>13, KeepsOn
<1>15. Passed(p, journey, 2, "design_generated")
  <2> DEFINE q == 1
             n == 2
             warned == FALSE
             level == 1
             job == "design_generated"
  <2>1. /\ q \in 0..5 /\ n = q + 1 /\ level = Rung[n] /\ job \in JobStatus
        /\ Stages(journey, q, n) /\ p = PassStage(d, warned, level, job, v)
    BY <1>3, <1>8, RungNumbers DEF JobStatus
  <2> HIDE DEF q, n, warned, level, job
  <2>2. Passed(p, journey, n, job)
    BY <1>3, <1>5, <1>10, <1>14, <2>1, StagePasses
  <2> QED
    BY <2>2 DEF n, job
<1>16. Begun(s, p, 2)
  <2> DEFINE n == 2
             stage == "geometry_validation"
             inputs == {"design"}
  <2>1. /\ n \in 1..5 /\ Stages(p, n, n) /\ stage = Order[n + 1] /\ inputs \in SUBSET Role
        /\ s = StartStage(p, stage, 1, inputs, u) /\ p \in FabricationJourney /\ Blameless(p)
    BY <1>9, <1>15, RungNumbers, ReportRoles DEF Passed, Open
  <2> HIDE DEF n, stage, inputs
  <2>2. Begun(s, p, n)
    BY <1>5, <2>1, StageBegins
  <2> QED
    BY <2>2 DEF n
<1>17. Stages(s, 2, 3) /\ Blameless(s) /\ Open(s)
  BY <1>16 DEF Begun
<1>18. Keeps(k, s, none)
  BY <1>5, <1>17, ReportRoles, RecordKeeps
<1> HIDE DEF k
<1>19. Stages(k, 2, 3)
  BY <1>17, <1>18, KeptStages
<1>20. Blameless(k)
  BY <1>10, <1>17, <1>18, StaysBlameless DEF Keeps
<1>21. BorneByCad(2, cad')
  <2>1. BorneByCad(2, cad)
    BY <1>2 DEF BorneByCad, Delivered, Backed, InHand
  <2> QED
    BY <2>1, BorneOn
<1>22. Going("checking", journey', cad')
  BY <1>6, <1>19, <1>20, <1>21, StageNumbers DEF Going
<1> QED
  BY <1>6, <1>22, ToStage DEF Straight, Designing, Slicing

\* The journey of a stage that passed is claimed.
LEMMA PassedClaims ==
  ASSUME NEW j, NEW k, NEW n \in 1..6, NEW job, Passed(k, j, n, job), j.revision # None,
         job = "completed" <=> n = 6, job = "geometry_verified" => n = 3,
         \A level \in 1..Rung[n] : ReportOf[level] \in RolesOf(j),
         NEW run, BorneByCad(n, run)
  PROVE  Claims(k, run)
<1>1. /\ k \in FabricationJourney /\ Holds(k, j) /\ k.revision # None /\ k.status = job
      /\ Stages(k, n, n) /\ Blameless(k)
  BY DEF Passed, Open
<1>2. \A level \in 1..Rung[n] : ReportOf[level] \in RolesOf(k)
  BY <1>1, RolesGrow
<1>3. Claim(k, n, n)
  BY <1>1, <1>2 DEF Claim
<1>4. \E passed, m \in 1..6 : Claim(k, passed, m) /\ BorneByCad(passed, run)
  BY <1>3
<1> QED
  BY <1>1, <1>4 DEF Claims

LEMMA GeometryPassesBacked ==
  ASSUME Place, Evidenced, Backed, CadSound', Steady(cad, cad'), GeometryPasses
  PROVE  Backed'
<1>1. PICK t \in Stamps(4) :
        Do("indexing", PassStage(Emit(journey, t[1]), FALSE, 2, "geometry_verified",
                                 <<t[2], t[3], t[4]>>), t[4])
  BY DEF GeometryPasses
<1>2. pc = "checking" /\ pc \in Designing /\ cad.result = "R2"
  BY DEF GeometryPasses, Designing
<1>3. /\ Open(journey) /\ clock \in Nat /\ journey.revision # None /\ disk.journey = None
      /\ Stages(journey, 2, 3) /\ Blameless(journey) /\ BorneByCad(2, cad)
  BY <1>2, GoingFacts, StageNumbers
<1>4. t \in [1..4 -> Nat]
  BY <1>3, StampsAscend
<1> DEFINE v == <<t[2], t[3], t[4]>>
           t1 == t[1]
           d == Emit(journey, t1)
           q == 2
           n == 3
           warned == FALSE
           level == 2
           job == "geometry_verified"
           k == PassStage(d, warned, level, job, v)
           none == {}
<1>5. v[1] \in Nat /\ v[2] \in Nat /\ v[3] \in Nat /\ t1 \in Nat
  BY <1>4
<1>6. pc' = "indexing" /\ journey' = k /\ UNCHANGED disk
  BY <1>1 DEF Do, Moves
<1>7. /\ q \in 0..5 /\ n = q + 1 /\ n \in 1..6 /\ level = Rung[n] /\ job \in JobStatus
      /\ Stages(journey, q, n) /\ none \in SUBSET Kinds /\ "error" \notin none
      /\ (job = "completed" <=> n = 6) /\ (job = "geometry_verified" => n = 3)
  BY <1>3, RungNumbers DEF JobStatus
<1>8. BorneByCad(n, cad)
  BY <1>2, <1>3 DEF BorneByCad
<1>9. \A l \in 1..Rung[n] : ReportOf[l] \in RolesOf(journey)
  <2>1. Rung[n] = 2
    BY RungNumbers
  <2> HIDE DEF n
  <2> QED
    BY <1>2, <2>1, ReportsThere
<1> HIDE DEF t1, q, n, warned, level, job, v, none
<1>10. Keeps(d, journey, none)
  BY <1>3, <1>5, EmitKeeps
<1> HIDE DEF d
<1>11. k = PassStage(d, warned, level, job, v)
  OBVIOUS
<1> HIDE DEF k
<1>12. Passed(k, journey, n, job)
  BY <1>3, <1>5, <1>7, <1>10, <1>11, StagePasses
<1>13. BorneByCad(n, cad')
  BY <1>7, <1>8, BorneOn
<1>14. Claims(k, cad')
  BY <1>3, <1>7, <1>9, <1>12, <1>13, PassedClaims
<1> QED
  BY <1>3, <1>6, <1>14, ToOutcome

-----------------------------------------------------------------------------
(* Files                                                                        *)

LEMMA IndexJourneyBacked ==
  ASSUME Place, Backed, CadSound', Steady(cad, cad'), IndexJourney
  PROVE  Backed'
<1>1. /\ disk' = [disk EXCEPT !.journey = journey] /\ pc = "indexing" /\ pc' = "indexed"
      /\ UNCHANGED journey
  BY DEF IndexJourney
<1>2. disk'.journey = journey
  BY <1>1 DEF Place, Disk
<1>3. Claims(journey, cad')
  BY <1>1, ClaimsOn DEF Backed, InHand
<1>4. OnFile'
  BY <1>2, <1>3 DEF OnFile
<1>5. InHand'
  BY <1>1 DEF InHand, Straight, Designing, Slicing
<1> QED
  BY <1>4, <1>5 DEF Backed

LEMMA IndexManifestBacked ==
  ASSUME Place, Backed, CadSound', Steady(cad, cad'), IndexManifest
  PROVE  Backed'
<1>1. PICK t \in Stamps(1) : disk' = [disk EXCEPT !.manifest = Manifest(journey, t[1])]
  BY DEF IndexManifest
<1>2. disk'.journey = disk.journey
  BY <1>1 DEF Place, Disk
<1>3. pc' \in {"fabricated", "designed"}
  BY DEF IndexManifest
<1> QED
  BY <1>2, <1>3, ToNoStage DEF Straight, Designing, Slicing

-----------------------------------------------------------------------------
(* The slicing pipeline                                                         *)

LEMMA PassedSince ==
  ASSUME NEW old \in FabricationJourney, NEW j, Since(j, old), Len(old.runs) < Len(j.runs),
         NEW k, NEW n, NEW job, Passed(k, j, n, job)
  PROVE  Since(k, old) /\ Len(old.runs) < Len(k.runs)
BY SinceCloses DEF Passed

LEMMA BegunSince ==
  ASSUME NEW old \in FabricationJourney, NEW j, Since(j, old), NEW k, NEW n, Begun(k, j, n)
  PROVE  Since(k, old)
<1>1. PICK stage, status : Begins(k, j, stage, status, {})
  BY DEF Begun
<1> DEFINE none == {}
<1>2. none \in SUBSET Kinds /\ Begins(k, j, stage, status, none)
  BY <1>1
<1> HIDE DEF none
<1> QED
  BY <1>2, SinceBegins

LEMMA StartPrintabilityBacked ==
  ASSUME Place, Backed, CadSound', Steady(cad, cad'), StartPrintability
  PROVE  Backed'
<1>1. PICK t \in Stamps(3) :
        Do("assessing", StartStage(journey, "printability_validation", 1, {}, t), t[3])
  BY DEF StartPrintability
<1>2. journey.status = "geometry_verified" /\ pc \in {"designed", "fabricated"}
  BY DEF StartPrintability, RequireR2
<1>3. /\ clock \in Nat /\ disk.journey = journey /\ journey \in FabricationJourney
      /\ journey # None
  BY <1>2, NoneFacts DEF Place, KeptPlace, Kept, Open
<1>4. t \in [1..3 -> Nat]
  BY <1>3, StampsAscend
<1>5. t[1] \in Nat /\ t[2] \in Nat /\ t[3] \in Nat
  BY <1>4
<1>6. /\ journey' = StartStage(journey, "printability_validation", 1, {}, t)
      /\ pc' = "assessing" /\ UNCHANGED disk
  BY <1>1 DEF Do, Moves
<1>7. Stages(journey, 3, 3) /\ Blameless(journey) /\ BorneByCad(3, cad)
  <2>1. Claims(journey, cad)
    BY <1>3 DEF Backed, OnFile
  <2>2. PICK passed, n \in 1..6 : Claim(journey, passed, n) /\ BorneByCad(passed, cad)
    BY <2>1 DEF Claims
  <2>3. n = 3 /\ passed = 3 /\ Stages(journey, passed, n)
    BY <1>2, <2>2 DEF Claim
  <2> QED
    BY <1>2, <2>1, <2>2, <2>3 DEF Claims
<1>8. Begun(journey', journey, 3)
  <2> DEFINE n == 3
             stage == "printability_validation"
             k == journey'
             inputs == {}
  <2>1. /\ n \in 1..5 /\ Stages(journey, n, n) /\ stage = Order[n + 1] /\ inputs \in SUBSET Role
        /\ k = StartStage(journey, stage, 1, inputs, t)
    BY <1>6, <1>7, RungNumbers
  <2> HIDE DEF n, stage, k, inputs
  <2>2. Begun(k, journey, n)
    BY <1>3, <1>5, <1>7, <2>1, StageBegins
  <2> QED
    BY <2>2 DEF n, k
<1>9. Going("assessing", journey', cad')
  <2>1. BorneByCad(3, cad')
    BY <1>7, BorneOn
  <2> QED
    BY <1>8, <2>1, StageNumbers DEF Begun, Going
<1>10. Since(journey', disk.journey)
  BY <1>3, <1>8, SinceSelf, BegunSince
<1> QED
  BY <1>6, <1>9, <1>10, ToStage DEF Straight, Designing, Slicing

LEMMA PrintabilityRaisesBacked ==
  ASSUME Place, Evidenced, Backed, CadSound', Steady(cad, cad'), PrintabilityRaises
  PROVE  Backed'
<1> DEFINE Rest(t) == [i \in 1..4 |-> t[i + 1]]
<1>1. PICK t \in Stamps(5),
           roles \in {{}, {"profiles"}, {"profiles", "policy"}, {"profiles", "policy", "oriented"},
                      {"profiles", "policy", "oriented", "printability_report"}} :
        Do("indexing", FailStage(Record(journey, roles, t[1]), Rest(t)), t[5])
  BY DEF PrintabilityRaises
<1>2. pc = "assessing"
  BY DEF PrintabilityRaises
<1>3. Open(journey) /\ clock \in Nat
  BY <1>2, GoingFacts DEF Slicing
<1>4. t \in [1..5 -> Nat]
  BY <1>3, StampsAscend
<1> DEFINE v == Rest(t)
           t1 == t[1]
           d == Record(journey, roles, t1)
<1>5. v[1] \in Nat /\ v[2] \in Nat /\ v[3] \in Nat /\ v[4] \in Nat /\ t1 \in Nat
  BY <1>4
<1>6. pc' = "indexing" /\ journey' = FailStage(d, v) /\ UNCHANGED disk
  BY <1>1 DEF Do, Moves
<1>7. roles \in SUBSET Role
  BY ReportRoles
<1> HIDE DEF v, t1
<1>8. Keeps(d, journey, Kinds)
  BY <1>3, <1>5, <1>7, RecordKeeps
<1> HIDE DEF d
<1> QED
  BY <1>2, <1>5, <1>6, <1>8, FailedStageClaims

LEMMA PrintabilityFailsBacked ==
  ASSUME Place, Evidenced, Backed, CadSound', Steady(cad, cad'), PrintabilityFails
  PROVE  Backed'
<1>1. PICK t \in Stamps(9) :
        Do("indexing",
           UpdateStatus(Emit(Transition(Assessed(TRUE, t), "failed", None, t[7]), t[8]),
                        "failed", t[9]), t[9])
  BY DEF PrintabilityFails
<1>2. pc = "assessing"
  BY DEF PrintabilityFails
<1>3. Open(journey) /\ clock \in Nat
  BY <1>2, GoingFacts DEF Slicing
<1>4. t \in [1..9 -> Nat]
  BY <1>3, StampsAscend
<1> DEFINE d == Assessed(TRUE, t)
           t7 == t[7]
           t8 == t[8]
           t9 == t[9]
<1>5. t7 \in Nat /\ t8 \in Nat /\ t9 \in Nat /\ \A i \in 1..6 : t[i] \in Nat
  BY <1>4
<1>6. /\ journey' = UpdateStatus(Emit(Transition(d, "failed", None, t7), t8), "failed", t9)
      /\ pc' = "indexing" /\ UNCHANGED disk
  BY <1>1 DEF Do, Moves
<1> HIDE DEF t7, t8, t9
<1>7. Keeps(d, journey, Kinds)
  <2>1. "warning" \in Kinds /\ "error" \in Kinds
    BY DEF Kinds
  <2> QED
    BY <1>3, <1>5, <2>1, AssessedKeeps
<1> HIDE DEF d
<1> QED
  BY <1>2, <1>5, <1>6, <1>7, ReportedFailureClaims

LEMMA PrintabilityPassesBacked ==
  ASSUME Place, Backed, CadSound', Steady(cad, cad'), PrintabilityPasses
  PROVE  Backed'
<1> DEFINE PassedTo(t) == PassStage(Assessed(FALSE, t), TRUE, 3, "printability_assessed",
                                    <<t[7], t[8], t[9]>>)
<1>1. PICK t \in Stamps(12) :
        Do("slicing", StartStage(PassedTo(t), "slicing", 1, SliceInput, <<t[10], t[11], t[12]>>),
           t[12])
  BY DEF PrintabilityPasses
<1>2. pc = "assessing" /\ pc \in Slicing
  BY DEF PrintabilityPasses, Slicing
<1>3. /\ Open(journey) /\ clock \in Nat /\ Stages(journey, 3, 4) /\ Blameless(journey)
      /\ BorneByCad(3, cad) /\ disk.journey \in FabricationJourney
      /\ Since(journey, disk.journey) /\ Len(disk.journey.runs) < Len(journey.runs)
  BY <1>2, GoingFacts, StageNumbers
<1>4. t \in [1..12 -> Nat]
  BY <1>3, StampsAscend
<1> DEFINE d == Assessed(FALSE, t)
           v == <<t[7], t[8], t[9]>>
           u == <<t[10], t[11], t[12]>>
           q == 3
           n == 4
           warned == TRUE
           level == 3
           job == "printability_assessed"
           stage == "slicing"
           p == PassStage(d, warned, level, job, v)
           inputs == SliceInput
           k == StartStage(p, stage, 1, inputs, u)
           kinds == {"warning"}
<1>5. /\ v[1] \in Nat /\ v[2] \in Nat /\ v[3] \in Nat /\ u[1] \in Nat /\ u[2] \in Nat
      /\ u[3] \in Nat /\ \A i \in 1..6 : t[i] \in Nat
  BY <1>4
<1>6. journey' = k /\ pc' = "slicing" /\ UNCHANGED disk
  BY <1>1 DEF Do, Moves
<1>7. /\ q \in 0..5 /\ n = q + 1 /\ n \in 1..5 /\ level = Rung[n] /\ job \in JobStatus
      /\ Stages(journey, q, n) /\ stage = Order[n + 1] /\ inputs \in SUBSET Role
      /\ kinds \in SUBSET Kinds /\ "error" \notin kinds /\ "warning" \in kinds
  BY <1>3, RungNumbers, ReportRoles DEF JobStatus, Kinds
<1> HIDE DEF v, u, q, level, job, stage, inputs, kinds
<1>8. Keeps(d, journey, kinds)
  BY <1>3, <1>5, <1>7, AssessedKeeps
<1> HIDE DEF d, warned
<1>9. p = PassStage(d, warned, level, job, v) /\ k = StartStage(p, stage, 1, inputs, u)
  OBVIOUS
<1> HIDE DEF p, k, n
<1>10. Passed(p, journey, n, job)
  BY <1>3, <1>5, <1>7, <1>8, <1>9, StagePasses
<1>11. Begun(k, p, n)
  BY <1>5, <1>7, <1>9, <1>10, StageBegins DEF Passed, Open
<1>12. BorneByCad(4, cad')
  <2>1. BorneByCad(4, cad)
    BY <1>3 DEF BorneByCad
  <2> QED
    BY <2>1, BorneOn
<1>13. Since(k, disk.journey)
  BY <1>3, <1>10, <1>11, PassedSince, BegunSince
<1>14. Going("slicing", journey', cad')
  BY <1>6, <1>11, <1>12, StageNumbers DEF Begun, Going, n
<1> QED
  BY <1>6, <1>13, <1>14, ToStage DEF Straight, Designing, Slicing

LEMMA SlicingRaisesBacked ==
  ASSUME Place, Evidenced, Backed, CadSound', Steady(cad, cad'), SlicingRaises
  PROVE  Backed'
<1> DEFINE FirstFiles(n, t) == Record(journey, RecordedUpTo(n), t[1])
           Tried(n, written, t) ==
             Record(FirstFiles(n, t), Attempts(FirstFiles(n, t), written), t[2])
           Rest(t) == [i \in 1..4 |-> t[i + 2]]
<1>1. PICK t \in Stamps(6), n \in 0..Len(RecordOrder) - 1, written \in FailedRunFiles \cup {AllFiles} :
        Do("indexing", FailStage(Tried(n, written, t), Rest(t)), t[6])
  BY DEF SlicingRaises
<1>2. pc = "slicing"
  BY DEF SlicingRaises
<1>3. Open(journey) /\ clock \in Nat
  BY <1>2, GoingFacts DEF Slicing
<1>4. t \in [1..6 -> Nat]
  BY <1>3, StampsAscend
<1> DEFINE v == Rest(t)
           t1 == t[1]
           t2 == t[2]
           first == RecordedUpTo(n)
           f == Record(journey, first, t1)
           attempts == Attempts(f, written)
           d == Tried(n, written, t)
<1>5. /\ v[1] \in Nat /\ v[2] \in Nat /\ v[3] \in Nat /\ v[4] \in Nat /\ t1 \in Nat
      /\ t2 \in Nat
  BY <1>4
<1>6. pc' = "indexing" /\ journey' = FailStage(d, v) /\ UNCHANGED disk
  BY <1>1 DEF Do, Moves
<1>7. d = Record(f, attempts, t2)
  OBVIOUS
<1>8. first \in SUBSET Role /\ attempts \in SUBSET Role
  <2>1. Len(RecordOrder) = 6 /\ \A i \in 1..6 : RecordOrder[i] \in Role
    BY DEF RecordOrder, Role, SlicerRole, LogRole
  <2>2. \A i \in 1..n : i \in 1..6
    BY <2>1
  <2>3. first \subseteq Role
    BY <2>1, <2>2 DEF RecordedUpTo
  <2> QED
    BY <2>3, ReportRoles DEF Attempts
<1> HIDE DEF v, t1, t2, first, attempts, d
<1>9. Keeps(f, journey, Kinds)
  BY <1>3, <1>5, <1>8, RecordKeeps
<1> HIDE DEF f
<1>10. Keeps(d, f, Kinds)
  BY <1>5, <1>7, <1>8, <1>9, KeepsOpen, RecordKeeps
<1>11. Keeps(d, journey, Kinds)
  BY <1>3, <1>9, <1>10, KeepsOn
<1> QED
  BY <1>2, <1>5, <1>6, <1>11, FailedStageClaims

LEMMA SlicingBlockedBacked ==
  ASSUME Place, Evidenced, Backed, CadSound', Steady(cad, cad'), SlicingBlocked
  PROVE  Backed'
<1>1. PICK t \in Stamps(8), gate \in GateOutcomes :
        Do("indexing",
           UpdateStatus(Emit(Transition(SlicerGate(gate, t), "failed", None, t[6]), t[7]),
                        "failed", t[8]), t[8])
  BY DEF SlicingBlocked
<1>2. pc = "slicing"
  BY DEF SlicingBlocked
<1>3. Open(journey) /\ clock \in Nat
  BY <1>2, GoingFacts DEF Slicing
<1>4. t \in [1..8 -> Nat]
  BY <1>3, StampsAscend
<1> DEFINE d == SlicerGate(gate, t)
           t6 == t[6]
           t7 == t[7]
           t8 == t[8]
<1>5. t6 \in Nat /\ t7 \in Nat /\ t8 \in Nat /\ \A i \in 1..5 : t[i] \in Nat
  BY <1>4
<1>6. /\ journey' = UpdateStatus(Emit(Transition(d, "failed", None, t6), t7), "failed", t8)
      /\ pc' = "indexing" /\ UNCHANGED disk
  BY <1>1 DEF Do, Moves
<1> HIDE DEF t6, t7, t8
<1>7. Keeps(d, journey, Kinds)
  <2>1. "warning" \in Kinds /\ "error" \in Kinds
    BY DEF Kinds
  <2> QED
    BY <1>3, <1>5, <2>1, GateType, SlicerGateKeeps
<1> HIDE DEF d
<1> QED
  BY <1>2, <1>5, <1>6, <1>7, ReportedFailureClaims

LEMMA SlicingPassesBacked ==
  ASSUME Place, Backed, CadSound', Steady(cad, cad'), SlicingPasses
  PROVE  Backed'
<1>1. PICK t \in Stamps(8), gate \in {g \in GateOutcomes : ~g.blocked} :
        Do("packaging", PassStage(SlicerGate(gate, t), gate.advised, 4, "slicer_verified",
                                  <<t[6], t[7], t[8]>>), t[8])
  BY DEF SlicingPasses
<1>2. pc = "slicing" /\ pc \in Slicing
  BY DEF SlicingPasses, Slicing
<1>3. /\ Open(journey) /\ clock \in Nat /\ Stages(journey, 4, 5) /\ Blameless(journey)
      /\ BorneByCad(4, cad) /\ disk.journey \in FabricationJourney
      /\ Since(journey, disk.journey) /\ Len(disk.journey.runs) < Len(journey.runs)
  BY <1>2, GoingFacts, StageNumbers
<1>4. t \in [1..8 -> Nat]
  BY <1>3, StampsAscend
<1> DEFINE d == SlicerGate(gate, t)
           v == <<t[6], t[7], t[8]>>
           q == 4
           n == 5
           warned == gate.advised
           level == 4
           job == "slicer_verified"
           k == PassStage(d, warned, level, job, v)
           kinds == {"warning"}
<1>5. v[1] \in Nat /\ v[2] \in Nat /\ v[3] \in Nat /\ \A i \in 1..5 : t[i] \in Nat
  BY <1>4
<1>6. journey' = k /\ pc' = "packaging" /\ UNCHANGED disk
  BY <1>1 DEF Do, Moves
<1>7. /\ q \in 0..5 /\ n = q + 1 /\ level = Rung[n] /\ job \in JobStatus /\ Stages(journey, q, n)
      /\ kinds \in SUBSET Kinds /\ "error" \notin kinds /\ "warning" \in kinds
  BY <1>3, RungNumbers DEF JobStatus, Kinds
<1> HIDE DEF v, q, level, job, kinds
<1>8. Keeps(d, journey, kinds)
  <2>1. gate.blocked \in BOOLEAN /\ gate.advised \in BOOLEAN /\ ~gate.blocked
    BY GateType
  <2> QED
    BY <1>3, <1>5, <1>7, <2>1, SlicerGateKeeps
<1> HIDE DEF d, warned, n
<1>9. k = PassStage(d, warned, level, job, v)
  OBVIOUS
<1> HIDE DEF k
<1>10. Passed(k, journey, n, job)
  BY <1>3, <1>5, <1>7, <1>8, <1>9, StagePasses
<1>11. BorneByCad(5, cad')
  <2>1. BorneByCad(5, cad)
    BY <1>3 DEF BorneByCad
  <2> QED
    BY <2>1, BorneOn
<1>12. Since(k, disk.journey)
  BY <1>3, <1>10, PassedSince
<1>13. Going("packaging", journey', cad')
  BY <1>6, <1>10, <1>11, StageNumbers DEF Passed, Going, n
<1> QED
  BY <1>6, <1>12, <1>13, ToStage DEF Straight, Designing, Slicing

LEMMA StartPackageBacked ==
  ASSUME Place, Backed, CadSound', Steady(cad, cad'), StartPackage
  PROVE  Backed'
<1> DEFINE Queued(t) == Emit(AddStageRun(journey, "fabrication_package", 1), t[1])
           Moving(t) == Transition(Queued(t), "running", None, t[2])
<1>1. PICK t \in Stamps(2) : journey' = SetInputs(Moving(t), RequiredRole)
  BY DEF StartPackage
<1>2. pc = "packaging" /\ pc \in Slicing /\ pc' = "writing" /\ disk' = [disk EXCEPT !.package = Torn]
  BY DEF StartPackage, Slicing
<1>3. /\ Open(journey) /\ clock \in Nat /\ Stages(journey, 5, 5) /\ Blameless(journey)
      /\ BorneByCad(5, cad) /\ disk.journey \in FabricationJourney
      /\ Since(journey, disk.journey)
  BY <1>2, GoingFacts, StageNumbers
<1>4. t \in [1..2 -> Nat]
  BY <1>3, StampsAscend
<1> DEFINE t1 == t[1]
           t2 == t[2]
           stage == "fabrication_package"
           a == AddStageRun(journey, stage, 1)
           q == Emit(a, t1)
           m == Transition(q, "running", None, t2)
           k == SetInputs(m, RequiredRole)
           n == 5
           none == {}
<1>5. t1 \in Nat /\ t2 \in Nat /\ journey' = k
  BY <1>1, <1>4
<1>6. /\ n \in 1..5 /\ stage = Order[n + 1] /\ stage \in FabricationStage
      /\ Stages(journey, n, n) /\ "running" \in StageStatus
  BY <1>3, RungNumbers, NotYetSuccessful DEF StageStatus
<1>7. journey \in FabricationJourney /\ 1 \in Nat /\ RequiredRole \in SUBSET Role
  BY <1>3, ReportRoles DEF Open
<1> HIDE DEF t1, t2, n, stage, none
<1>8. Begins(a, journey, stage, "waiting", none)
  BY <1>6, <1>7, AddRunBegins
<1>9. Open(a)
  BY <1>7, <1>8, BeginsOpen
<1> HIDE DEF a
<1>10. Keeps(q, a, none)
  BY <1>5, <1>9, EmitKeeps
<1> HIDE DEF q
<1>11. Begins(q, journey, stage, "waiting", none)
  BY <1>7, <1>8, <1>10, BeginsThenKeeps
<1>12. Open(q) /\ Last(q).level = None
  BY <1>7, <1>11, BeginsOpen
<1>13. Closes(m, q, "running", Last(q).level, none)
  BY <1>5, <1>6, <1>12, MoveEnds
<1> HIDE DEF m
<1>14. Closes(m, q, "running", None, none)
  BY <1>12, <1>13
<1>15. Begins(m, journey, stage, "running", none)
  BY <1>7, <1>11, <1>14, BeginsThenCloses
<1>16. Open(m)
  BY <1>7, <1>15, BeginsOpen
<1>17. Keeps(k, m, none)
  BY <1>7, <1>16, InputsKeeps
<1> HIDE DEF k
<1>18. Begins(k, journey, stage, "running", none)
  BY <1>7, <1>15, <1>17, BeginsThenKeeps
<1>19. Begins(k, journey, stage, "running", {})
  BY <1>18 DEF none
<1>20. Begun(k, journey, n)
  BY <1>3, <1>6, <1>7, <1>19, NextStage, NotYetSuccessful
<1>21. Going("writing", journey', cad')
  <2>1. BorneByCad(5, cad')
    BY <1>3, BorneOn
  <2> QED
    BY <1>5, <1>20, <2>1, StageNumbers DEF Begun, Going, n
<1>22. Since(journey', disk.journey)
  BY <1>3, <1>5, <1>20, BegunSince
<1>23. disk'.journey = disk.journey
  BY <1>2 DEF Place, Disk
<1> QED
  BY <1>2, <1>21, <1>22, <1>23, ToStage DEF Straight, Designing, Slicing

LEMMA WritePackageBacked ==
  ASSUME Place, Backed, CadSound', Steady(cad, cad'), WritePackage
  PROVE  Backed'
<1>1. /\ pc = "writing" /\ pc \in Slicing /\ pc' = "written" /\ UNCHANGED journey
      /\ disk'.journey = disk.journey
  BY DEF WritePackage, Place, Disk, Slicing
<1>2. /\ Stages(journey, 5, 6) /\ Blameless(journey) /\ BorneByCad(5, cad)
      /\ Since(journey, disk.journey)
  BY <1>1, GoingFacts, StageNumbers
<1>3. Going("written", journey', cad')
  <2>1. BorneByCad(5, cad')
    BY <1>2, BorneOn
  <2> QED
    BY <1>1, <1>2, <2>1, StageNumbers DEF Going
<1> QED
  BY <1>1, <1>2, <1>3, ToStage DEF Straight, Designing, Slicing

LEMMA CompletePackageBacked ==
  ASSUME Place, Evidenced, Backed, CadSound', Steady(cad, cad'), CompletePackage
  PROVE  Backed'
<1>1. PICK t \in Stamps(4) :
        Do("indexing", PassStage(Record(journey, {"package_report"}, t[1]), Warned(journey), 4,
                                 "completed", <<t[2], t[3], t[4]>>), t[4])
  BY DEF CompletePackage
<1>2. pc = "written" /\ pc \in Slicing
  BY DEF CompletePackage, Slicing
<1>3. /\ Open(journey) /\ clock \in Nat /\ journey.revision # None /\ Stages(journey, 5, 6)
      /\ Blameless(journey) /\ BorneByCad(5, cad) /\ disk.journey \in FabricationJourney
      /\ Since(journey, disk.journey) /\ Len(disk.journey.runs) < Len(journey.runs)
  BY <1>2, GoingFacts, StageNumbers
<1>4. t \in [1..4 -> Nat]
  BY <1>3, StampsAscend
<1> DEFINE v == <<t[2], t[3], t[4]>>
           t1 == t[1]
           d == Record(journey, {"package_report"}, t1)
           q == 5
           n == 6
           warned == Warned(journey)
           level == 4
           job == "completed"
           k == PassStage(d, warned, level, job, v)
           none == {}
<1>5. v[1] \in Nat /\ v[2] \in Nat /\ v[3] \in Nat /\ t1 \in Nat
  BY <1>4
<1>6. pc' = "indexing" /\ journey' = k /\ UNCHANGED disk
  BY <1>1 DEF Do, Moves
<1>7. /\ q \in 0..5 /\ n = q + 1 /\ n \in 1..6 /\ level = Rung[n] /\ job \in JobStatus
      /\ Stages(journey, q, n) /\ none \in SUBSET Kinds /\ "error" \notin none
      /\ (job = "completed" <=> n = 6) /\ (job = "geometry_verified" => n = 3)
  BY <1>3, RungNumbers DEF JobStatus
<1>8. BorneByCad(n, cad)
  BY <1>3 DEF BorneByCad
<1>9. \A l \in 1..Rung[n] : ReportOf[l] \in RolesOf(journey)
  <2>1. Rung[n] = 4
    BY RungNumbers
  <2> HIDE DEF n
  <2> QED
    BY <1>2, <2>1, ReportsThere
<1> HIDE DEF t1, q, n, warned, level, job, v, none
<1>10. Keeps(d, journey, none)
  BY <1>3, <1>5, ReportRoles, RecordKeeps
<1> HIDE DEF d
<1>11. k = PassStage(d, warned, level, job, v)
  OBVIOUS
<1> HIDE DEF k
<1>12. Passed(k, journey, n, job)
  BY <1>3, <1>5, <1>7, <1>10, <1>11, StagePasses
<1>13. BorneByCad(n, cad')
  BY <1>7, <1>8, BorneOn
<1>14. Claims(k, cad')
  BY <1>3, <1>7, <1>9, <1>12, <1>13, PassedClaims
<1>15. Since(k, disk.journey)
  BY <1>3, <1>12, PassedSince
<1> QED
  BY <1>6, <1>14, <1>15, ToOutcome

-----------------------------------------------------------------------------
(* The invariant                                                                *)

LEMMA InitBacked == Init => Backed
<1> SUFFICES ASSUME Init PROVE Backed
  OBVIOUS
<1>1. pc = "start" /\ disk.journey = None /\ cad = NoRun
  BY DEF Init, PipelineInit, EmptyDisk
<1>2. CadSound
  BY <1>1, EditFacts DEF CadSound, CadRecord, NoRun
<1> QED
  BY <1>1, <1>2 DEF Backed, InHand, OnFile, Straight, Designing, Slicing

LEMMA NextBacked ==
  ASSUME Place, Evidenced, Backed, [Next]_vars
  PROVE  Backed' /\ Steady(cad, cad')
<1>1. CadSound' /\ Steady(cad, cad')
  BY CadSteady DEF Backed
<1>2. CASE BriefStep
  BY <1>1, <1>2, StartBriefBacked, ParseFailsBacked, CompleteBriefBacked, PublishBriefBacked
     DEF BriefStep
<1>3. CASE CadStep
  BY <1>1, <1>3, StartDesignBacked, RunBacked, RunnerRaisesBacked, DesignFailsBacked,
     DesignPassesBacked, GeometryFailsBacked, GeometryPassesBacked DEF CadStep
<1>4. CASE Persist
  BY <1>1, <1>4, IndexJourneyBacked, IndexManifestBacked DEF Persist
<1>5. CASE SlicingStep
  <2>1. CASE PackageRefused
    BY <1>1, <2>1, ToNoStage DEF PackageRefused, Straight, Designing, Slicing
  <2> QED
    BY <1>1, <1>5, <2>1, StartPrintabilityBacked, PrintabilityRaisesBacked,
       PrintabilityFailsBacked, PrintabilityPassesBacked, SlicingRaisesBacked,
       SlicingBlockedBacked, SlicingPassesBacked, StartPackageBacked, WritePackageBacked,
       CompletePackageBacked DEF SlicingStep
<1>6. CASE Stop
  BY <1>1, <1>6, ToNoStage DEF Stop, Straight, Designing, Slicing
<1>7. CASE UNCHANGED <<clock, pc, journey, disk>>
  BY <1>1, <1>7, SameClaims
<1>8. CASE Beside(WorkerStep) \/ DesignTouched
  BY <1>7, <1>8 DEF Beside, DesignTouched
<1>9. CASE \E r \in Reader : ReaderStep(r)
  BY <1>7, <1>9 DEF ReaderStep, ReadJourney, ReadManifest, ReadPackage, NextRequest, pipelineVars
<1>10. CASE UNCHANGED vars
  BY <1>7, <1>10 DEF vars
<1> QED
  BY <1>1, <1>2, <1>3, <1>4, <1>5, <1>6, <1>8, <1>9, <1>10 DEF Next, PipelineStep

-----------------------------------------------------------------------------
(* What the read API puts in order                                              *)

\* Of the intervals that end in a number of T, one has no other inside it.
LEMMA LeastElement ==
  ASSUME NEW T, T \subseteq Nat, T # {}
  PROVE  \E x \in T : \A y \in T : x <= y
<1> DEFINE U == {1..x : x \in T}
<1>1. U \subseteq FiniteSubsetsOf(Nat)
  BY FS_Interval DEF FiniteSubsetsOf
<1>2. U # {}
  OBVIOUS
<1>3. IsWellFoundedOn(StrictSubsetOrdering(Nat), FiniteSubsetsOf(Nat))
  BY FS_StrictSubsetOrderingWellFounded
<1> HIDE DEF U
<1>4. PICK V \in U : \A W \in U : ~ (<<W, V>> \in StrictSubsetOrdering(Nat))
  BY <1>1, <1>2, <1>3, WFMin
<1>5. PICK x \in T : V = 1..x
  BY DEF U
<1>6. ASSUME NEW y \in T, y < x
      PROVE  FALSE
  <2>1. 1..y \in U
    BY DEF U
  <2>2. 1..y \subseteq Nat /\ 1..x \subseteq Nat /\ 1..y \subseteq 1..x /\ 1..y # 1..x
    <3>1. y \in Nat /\ x \in Nat /\ x \in 1..x /\ x \notin 1..y
      BY <1>6
    <3> QED
      BY <3>1, <1>6
  <2>3. <<1..y, 1..x>> \in StrictSubsetOrdering(Nat)
    BY <2>2 DEF StrictSubsetOrdering
  <2> QED
    BY <1>4, <1>5, <2>1, <2>3
<1> QED
  BY <1>6

\* The m-th number of a set, counted from the least, is a member of it.
LEMMA InOrderMember ==
  ASSUME NEW S, NEW L \in Nat, S \subseteq 1..L, NEW m \in 1..Cardinality(S)
  PROVE  InOrder(S)[m] \in S
<1> DEFINE Below(k) == {y \in S : y < k}
           U == {k \in Nat : Cardinality(Below(k)) >= m}
<1>0. \A y \in S : y \in Nat /\ 1 <= y /\ y <= L
  OBVIOUS
<1>1. IsFiniteSet(S)
  <2>1. IsFiniteSet(1..L)
    BY FS_Interval
  <2> QED
    BY <2>1, FS_Subset
<1>2. ASSUME NEW k \in Nat
      PROVE  IsFiniteSet(Below(k)) /\ Cardinality(Below(k)) \in Nat
  <2>1. Below(k) \in SUBSET S
    OBVIOUS
  <2> HIDE DEF Below
  <2> QED
    BY <1>1, <2>1, FS_Subset, FS_CardinalityType
<1>3. L + 1 \in U
  <2>1. Below(L + 1) = S
    <3>1. \A y \in S : y < L + 1
      BY <1>0
    <3> QED
      BY <3>1
  <2>2. Cardinality(S) \in Nat
    BY <1>1, FS_CardinalityType
  <2> HIDE DEF Below
  <2> QED
    BY <2>1, <2>2
<1>4. PICK k \in U : \A l \in U : k <= l
  <2>1. U \subseteq Nat /\ U # {}
    BY <1>3
  <2> HIDE DEF U
  <2> QED
    BY <2>1, LeastElement
<1>5. k \in Nat /\ Cardinality(Below(k)) >= m
  OBVIOUS
<1>6. k # 0
  <2>1. Below(0) = {}
    <3>1. \A y \in S : ~(y < 0)
      BY <1>0
    <3> QED
      BY <3>1
  <2>2. Cardinality(Below(0)) = 0
    BY <2>1, FS_EmptySet
  <2> QED
    BY <1>5, <2>2
<1> DEFINE x == k - 1
<1>7. x \in Nat /\ k = x + 1 /\ x \notin U
  BY <1>4, <1>5, <1>6
<1> HIDE DEF x
<1>8. Cardinality(Below(x)) < m
  BY <1>2, <1>7
<1>9. x \in S
  <2> SUFFICES ASSUME x \notin S PROVE FALSE
    OBVIOUS
  <2>1. Below(k) = Below(x)
    <3>1. \A y \in S : y < k <=> y < x
      BY <1>0, <1>7
    <3> QED
      BY <3>1
  <2> HIDE DEF Below
  <2> QED
    BY <1>2, <1>5, <1>7, <1>8, <2>1
<1>10. Cardinality(Below(k)) = Cardinality(Below(x)) + 1
  <2>1. Below(k) = Below(x) \cup {x} /\ x \notin Below(x)
    <3>1. ~(x < x) /\ \A y \in S : y < k <=> y < x \/ y = x
      BY <1>0, <1>7
    <3> QED
      BY <1>9, <3>1
  <2> HIDE DEF Below
  <2> QED
    BY <1>2, <1>7, <2>1, FS_AddElement
<1>11. Cardinality(Below(x)) = m - 1
  <2> HIDE DEF Below
  <2> QED
    BY <1>2, <1>5, <1>7, <1>8, <1>10
<1>12. InOrder(S)[m] = CHOOSE z \in S : Cardinality(Below(z)) = m - 1
  BY DEF InOrder
<1> HIDE DEF Below
<1> QED
  BY <1>9, <1>11, <1>12

\* The numbers from one on are in order as they are.
LEMMA InOrderUpTo ==
  ASSUME NEW n \in Nat
  PROVE  /\ DOMAIN InOrder(1..n) = 1..n
         /\ \A i \in 1..n : InOrder(1..n)[i] = i
<1>1. Cardinality(1..n) = n
  BY FS_Interval
<1>2. ASSUME NEW x \in 1..n
      PROVE  Cardinality({y \in 1..n : y < x}) = x - 1
  <2>1. {y \in 1..n : y < x} = 1..x - 1
    OBVIOUS
  <2>2. Cardinality(1..x - 1) = x - 1
    BY FS_Interval
  <2> QED
    BY <2>1, <2>2
<1>3. ASSUME NEW i \in 1..n
      PROVE  (CHOOSE x \in 1..n : Cardinality({y \in 1..n : y < x}) = i - 1) = i
  <2> DEFINE C(x) == Cardinality({y \in 1..n : y < x})
  <2>1. \A x \in 1..n : C(x) = x - 1
    BY <1>2
  <2> HIDE DEF C
  <2>2. (CHOOSE x \in 1..n : C(x) = i - 1) = i
    <3>1. C(i) = i - 1 /\ \A x \in 1..n : C(x) = i - 1 => x = i
      BY <2>1
    <3> QED
      BY <3>1
  <2> QED
    BY <2>2 DEF C
<1> QED
  BY <1>1, <1>3 DEF InOrder

-----------------------------------------------------------------------------
(* What a request has read                                                      *)

\* A journey that is on disk, or has been.
WasOnDisk(j) ==
  disk.journey # None /\ Sealed(j) /\ Claims(j, cad) /\ Since(disk.journey, j)

\* The design was as it was recorded when a request looked at it, or as it still is.
Seen(q) ==
  /\ q.pc # "journey" => WasOnDisk(q.journey)
  /\ q.pc = "shown" =>
       /\ Accepts(q.journey, q.manifest, q.package)
       /\ q.fault = "recorded" \/ (DesignEdited /\ q.fault = cad.design)

LEMMA DiskSince ==
  ASSUME Place, Backed, [Next]_vars, disk.journey # None
  PROVE  disk'.journey # None /\ Since(disk'.journey, disk.journey)
<1>1. disk \in Disk /\ disk.journey \in FabricationJourney
  BY DEF Place, Disk
<1>2. CASE disk'.journey = disk.journey
  BY <1>1, <1>2, SinceSelf
<1>3. CASE IndexJourney
  <2>1. disk' = [disk EXCEPT !.journey = journey] /\ pc = "indexing"
    BY <1>3 DEF IndexJourney
  <2>2. Claims(journey, cad) /\ Since(journey, disk.journey)
    BY <2>1 DEF Backed, InHand
  <2>3. disk'.journey = journey /\ journey # None
    BY <1>1, <2>1, <2>2, NoneFacts DEF Disk, Claims
  <2> QED
    BY <2>2, <2>3
<1>4. ~PublishBrief
  <2>1. PublishBrief => pc = "confirmed"
    BY DEF PublishBrief
  <2>2. pc = "confirmed" => disk = EmptyDisk
    BY DEF Place, Early
  <2>3. disk # EmptyDisk
    BY DEF EmptyDisk
  <2> QED
    BY <2>1, <2>2, <2>3
<1> QED
  BY <1>2, <1>3, <1>4, JourneyFile

LEMMA WasOnDiskStays ==
  ASSUME Place, Evidenced, Backed, [Next]_vars, NEW j, WasOnDisk(j)
  PROVE  WasOnDisk(j)'
<1>1. disk'.journey # None /\ Since(disk'.journey, disk.journey)
  BY DiskSince DEF WasOnDisk
<1>2. Steady(cad, cad')
  BY NextBacked
<1>3. Claims(j, cad') /\ j \in FabricationJourney
  BY <1>2, ClaimsOn DEF WasOnDisk, Claims
<1>4. Since(disk'.journey, j)
  BY <1>1, <1>3, SinceSince DEF WasOnDisk
<1> QED
  BY <1>1, <1>3, <1>4 DEF WasOnDisk

LEMMA SeenStays ==
  ASSUME Place, Evidenced, Backed, [Next]_vars, NEW q, Seen(q)
  PROVE  Seen(q)'
<1>1. q.pc # "journey" => WasOnDisk(q.journey)'
  BY WasOnDiskStays DEF Seen
<1>2. Steady(cad, cad')
  BY NextBacked
<1>3. DesignEdited => DesignEdited' /\ cad'.design = cad.design
  BY <1>2 DEF Steady, DesignEdited
<1> QED
  BY <1>1, <1>3 DEF Seen

LEMMA ReadJourneySeen ==
  ASSUME Place, Evidenced, Backed, Requests, NEW r \in Reader, ReadJourney(r)
  PROVE  Seen(reader[r])'
<1>1. /\ reader[r] \in Request /\ disk.journey # None /\ disk.journey \in FabricationJourney
      /\ reader'[r] = [reader[r] EXCEPT !.pc = "manifest", !.journey = disk.journey]
      /\ UNCHANGED <<disk, cad>>
  BY DEF Requests, ReadJourney, Place, Disk, pipelineVars
<1>2. reader'[r].pc = "manifest" /\ reader'[r].journey = disk.journey
  BY <1>1 DEF Request
<1>3. WasOnDisk(disk.journey)
  BY <1>1, SinceSelf DEF WasOnDisk, Backed, OnFile, Evidenced, OnDisk
<1>4. WasOnDisk(disk.journey)'
  BY <1>1, <1>3 DEF WasOnDisk
<1> QED
  BY <1>1, <1>2, <1>4 DEF Seen

LEMMA ReadPackageSeen ==
  ASSUME Requests, NEW r \in Reader, Seen(reader[r]), ReadPackage(r)
  PROVE  Seen(reader[r])'
<1> DEFINE q == reader[r]
           p == disk.package
           seen == [q EXCEPT !.pc = "shown", !.package = p, !.fault = Fault]
<1>1. q \in Request /\ q.pc = "package" /\ UNCHANGED <<disk, cad>>
  BY DEF Requests, ReadPackage, pipelineVars
<1>2. \/ reader'[r] = Waiting
      \/ reader'[r] = seen /\ Accepts(q.journey, q.manifest, p)
  BY DEF ReadPackage, Requests
<1>3. CASE reader'[r] = Waiting
  BY <1>3 DEF Waiting, Seen
<1>4. CASE reader'[r] = seen /\ Accepts(q.journey, q.manifest, p)
  <2>1. /\ seen.pc = "shown" /\ seen.journey = q.journey
        /\ seen.manifest = q.manifest /\ seen.package = p /\ seen.fault = Fault
    <3> HIDE DEF Fault
    <3> QED
      BY <1>1 DEF Request
  <2>2. Fault = "recorded" \/ (DesignEdited /\ Fault = cad.design)
    BY DEF Fault
  <2>3. WasOnDisk(q.journey) /\ \A j : WasOnDisk(j) => WasOnDisk(j)'
    BY <1>1 DEF Seen, WasOnDisk
  <2>4. (DesignEdited /\ Fault = cad.design) => (DesignEdited' /\ Fault = cad'.design)
    BY <1>1 DEF DesignEdited
  <2> HIDE DEF seen, q, p
  <2> QED
    BY <1>4, <2>1, <2>2, <2>3, <2>4 DEF Seen
<1> QED
  BY <1>2, <1>3, <1>4

LEMMA NextSeen ==
  ASSUME Place, Evidenced, Backed, Requests, \A r \in Reader : Seen(reader[r]), [Next]_vars
  PROVE  \A r \in Reader : Seen(reader[r])'
<1>1. \A q : Seen(q) => Seen(q)'
  BY SeenStays
<1>2. CASE UNCHANGED reader
  BY <1>1, <1>2
<1>3. CASE \E r \in Reader : ReaderStep(r)
  <2>1. PICK r \in Reader : ReaderStep(r)
    BY <1>3
  <2>2. Seen(reader[r])'
    <3>1. CASE NextRequest(r)
      <4>1. reader'[r] = Waiting
        BY <3>1 DEF NextRequest, Requests
      <4> QED
        BY <4>1 DEF Waiting, Seen
    <3>2. CASE ReadManifest(r)
      <4>1. /\ reader'[r].pc = "package" /\ reader'[r].journey = reader[r].journey
            /\ reader[r].pc = "manifest"
        BY <3>2 DEF ReadManifest, Requests, Request
      <4>2. \A j : WasOnDisk(j) => WasOnDisk(j)'
        BY WasOnDiskStays
      <4>3. WasOnDisk(reader[r].journey)
        BY <4>1 DEF Seen
      <4> QED
        BY <4>1, <4>2, <4>3 DEF Seen
    <3> QED
      BY <2>1, <3>1, <3>2, ReadJourneySeen, ReadPackageSeen DEF ReaderStep
  <2>3. PICK x : reader' = [reader EXCEPT ![r] = x]
    <3>1. ReadPackage(r) => \E x : reader' = [reader EXCEPT ![r] = x]
      BY Zenon DEF ReadPackage
    <3>2. ReadJourney(r) \/ ReadManifest(r) \/ NextRequest(r) =>
            \E x : reader' = [reader EXCEPT ![r] = x]
      BY Zenon DEF ReadJourney, ReadManifest, NextRequest
    <3> QED
      BY <2>1, <3>1, <3>2 DEF ReaderStep
  <2>4. \A s \in Reader : s # r => reader'[s] = reader[s]
    BY <2>3 DEF Requests
  <2>5. \A s \in Reader : s # r => Seen(reader[s])'
    BY <1>1, <2>4
  <2> QED
    BY <2>2, <2>4, <2>5
<1> QED
  BY <1>2, <1>3 DEF Next, vars

-----------------------------------------------------------------------------
(* The views of the stages                                                      *)

LEMMA OwnedAll ==
  ASSUME NEW j \in FabricationJourney, NEW passed, NEW n, Stages(j, passed, n), j.revision # None
  PROVE  OwnedRuns(j) = 1..n /\ DOMAIN j.runs = 1..n /\ Len(j.runs) = n /\ n \in 1..6
<1>1. DOMAIN j.runs = 1..n /\ Len(j.runs) = n /\ n \in 1..6
  BY RunsDomain DEF Stages
<1>2. \A i \in 1..n : j.runs[i].owned
  BY DEF Stages, RunAt
<1> QED
  BY <1>1, <1>2 DEF OwnedRuns

LEMMA Views ==
  ASSUME NEW j \in FabricationJourney, NEW passed, NEW n, Stages(j, passed, n), j.revision # None,
         NEW fault
  PROVE  /\ DOMAIN StageViews(j, fault) = 1..n
         /\ \A i \in 1..n : StageViews(j, fault)[i] = StageView(j, i, fault)
<1>1. OwnedRuns(j) = 1..n /\ n \in Nat
  BY OwnedAll
<1> DEFINE owned == InOrder(1..n)
<1>2. DOMAIN owned = 1..n /\ \A i \in 1..n : owned[i] = i
  BY <1>1, InOrderUpTo
<1>3. StageViews(j, fault) = [i \in DOMAIN owned |-> StageView(j, owned[i], fault)]
  BY <1>1 DEF StageViews
<1> HIDE DEF owned
<1> QED
  BY <1>2, <1>3

LEMMA ViewParts ==
  ASSUME NEW j, NEW i, NEW fault
  PROVE  LET s == StageView(j, i, fault)
         IN /\ s.stage = j.runs[i].stage /\ s.attempt = j.runs[i].attempt
            /\ s.status = j.runs[i].status /\ s.level = j.runs[i].level
            /\ s.events = EventsOfRun(j, i)
            /\ s.findings = RecordsOfRun(j.findings, i)
            /\ s.artifacts = {ArtifactView(a, fault) : a \in RecordsOfRun(j.artifacts, i)}
BY DEF StageView

\* The last level is that of the last stage passed.
LEMMA LevelOfLast ==
  ASSUME NEW stages, NEW passed \in 1..6, NEW n \in 1..6, passed <= n, DOMAIN stages = 1..n,
         \A i \in 1..n : stages[i].level = IF i <= passed THEN Rung[i] ELSE None
  PROVE  AchievedLevel(stages) = Rung[passed]
<1> DEFINE levelled == {i \in DOMAIN stages : stages[i].level # None}
<1>1. \A i \in 1..6 : Rung[i] # None
  BY RungNumbers, NoneFacts
<1>2. levelled = 1..passed
  <2>1. \A i \in 1..n : stages[i].level # None <=> i <= passed
    BY <1>1
  <2>2. levelled = {i \in 1..n : i <= passed}
    BY <2>1
  <2> QED
    BY <2>2
<1>3. Cardinality(1..passed) = passed /\ InOrder(1..passed)[passed] = passed
  <2>1. passed \in Nat /\ passed \in Int /\ 1 \in Int /\ ~(1 > passed) /\ passed \in 1..passed
    OBVIOUS
  <2> QED
    BY <2>1, FS_Interval, InOrderUpTo
<1>4. levelled # {}
  <2>1. 1 \in 1..passed
    OBVIOUS
  <2> QED
    BY <1>2, <2>1
<1>5. AchievedLevel(stages) = stages[InOrder(levelled)[Cardinality(levelled)]].level
  BY <1>4 DEF AchievedLevel
<1> HIDE DEF levelled
<1>6. AchievedLevel(stages) = stages[passed].level
  BY <1>2, <1>3, <1>5
<1> QED
  BY <1>6

LEMMA StagesTop ==
  ASSUME NEW j \in FabricationJourney, NEW passed \in 1..6, NEW n \in 1..6, Stages(j, passed, n)
  PROVE  LevelOf(j) = Rung[passed]
<1> DEFINE l == Rung[passed]
<1>1. l \in -1..4 /\ \A i \in 1..passed : Rung[i] \in 0..l
  BY RungNumbers
<1>2. /\ passed \in 1..Len(j.runs)
      /\ \A i \in 1..Len(j.runs) :
           /\ j.runs[i].status \in Successful <=> i <= passed
           /\ i <= passed => j.runs[i].level = Rung[i]
  BY DEF Stages, RunAt
<1>3. Top(j, l)
  <2> HIDE DEF l
  <2>1. \A i \in 1..Len(j.runs) : j.runs[i].status \in Successful => j.runs[i].level \in 0..l
    BY <1>1, <1>2
  <2>2. j.runs[passed].status \in Successful /\ j.runs[passed].level = l
    BY <1>2 DEF l
  <2> QED
    BY <1>2, <2>1, <2>2 DEF Top
<1> HIDE DEF l
<1> QED
  BY <1>1, <1>3, TopIsLevel DEF l

LEMMA LevelIsBorneOut ==
  ASSUME NEW j, Claims(j, cad), NEW fault
  PROVE  LevelBorneOut(j, fault)
<1>1. PICK passed \in 1..6, n \in 1..6 : Claim(j, passed, n) /\ BorneByCad(passed, cad)
  BY DEF Claims
<1>2. j \in FabricationJourney /\ j.revision # None /\ Stages(j, passed, n) /\ passed <= n
  BY <1>1 DEF Claims, Claim, Stages
<1> DEFINE stages == StageViews(j, fault)
<1>3. DOMAIN stages = 1..n /\ \A i \in 1..n : stages[i].level = j.runs[i].level
  BY <1>2, Views, ViewParts
<1>4. \A i \in 1..n : j.runs[i].level = IF i <= passed THEN Rung[i] ELSE None
  BY <1>2 DEF Stages, RunAt
<1> HIDE DEF stages
<1>5. AchievedLevel(stages) = Rung[passed]
  BY <1>2, <1>3, <1>4, LevelOfLast
<1>6. Summary(j, fault).achieved = Rung[passed]
  BY <1>5 DEF Summary, stages
<1>7. LevelOf(j) = Rung[passed]
  BY <1>2, StagesTop
<1>8. \A level \in 1..Rung[passed] : ReportOf[level] \in RolesOf(j)
  BY <1>1 DEF Claim
<1>9. (Rung[passed] >= 1 => passed >= 2) /\ (Rung[passed] >= 2 => passed >= 3)
  BY RungNumbers
<1>10. /\ Rung[passed] >= 1 => cad.result \in Successes /\ cad.design \in {"whole"} \cup Edits
       /\ Rung[passed] >= 2 => cad.result = "R2"
  BY <1>1, <1>9 DEF BorneByCad, Delivered
<1> QED
  BY <1>6, <1>7, <1>8, <1>10 DEF LevelBorneOut

-----------------------------------------------------------------------------
(* The package and the files                                                    *)

\* Every finding belongs to a stage that is shown.
LEMMA FindingsOwned ==
  ASSUME NEW j, Sealed(j), NEW passed, NEW n, Stages(j, passed, n)
  PROVE  /\ \A f \in j.findings : f.run \in 1..n
         /\ OwnedFindings(j) = j.findings
<1>1. /\ j \in FabricationJourney /\ j.revision # None
      /\ \A f \in j.findings : f.run \in 1..Len(j.runs)
  BY DEF Sealed, Sound, RecordsSound
<1>2. \A f \in j.findings : f.run \in 1..n
  BY <1>1, OwnedAll
<1>3. \A i \in 1..n : j.runs[i].owned
  BY <1>1 DEF Stages, RunAt
<1> QED
  BY <1>2, <1>3 DEF OwnedFindings

LEMMA WarnedShown ==
  ASSUME NEW j, Sealed(j), NEW passed, NEW n, Stages(j, passed, n), Blameless(j), NEW fault
  PROVE  Summary(j, fault).warned <=> Warned(j)
<1>1. j \in FabricationJourney /\ j.revision # None
  BY DEF Sealed, Sound
<1> DEFINE stages == StageViews(j, fault)
<1>2. /\ DOMAIN stages = 1..n
      /\ \A i \in 1..n : stages[i].findings = RecordsOfRun(j.findings, i)
  BY <1>1, Views, ViewParts
<1> HIDE DEF stages
<1>3. Summary(j, fault).warned <=>
        \E i \in 1..n : \E f \in RecordsOfRun(j.findings, i) : f.kind \in {"warning", "error"}
  BY <1>2 DEF Summary, stages
<1>4. (\E i \in 1..n : \E f \in RecordsOfRun(j.findings, i) : f.kind \in {"warning", "error"}) <=>
        \E f \in j.findings : f.kind = "warning"
  BY FindingsOwned DEF RecordsOfRun, Blameless
<1> QED
  BY <1>3, <1>4, FindingsOwned DEF Warned

LEMMA PackagePassed ==
  ASSUME NEW j \in FabricationJourney, j.revision # None, NEW passed, NEW n, Stages(j, passed, n)
  PROVE  \A i : i \in PassedRuns(j, "fabrication_package") <=> i = 6 /\ passed = 6
<1>1. OwnedRuns(j) = 1..n /\ n \in 1..6 /\ passed <= n
  <2>1. passed \in 0..6 /\ n \in 1..6 /\ (n = passed \/ n = passed + 1)
    BY DEF Stages
  <2> QED
    BY <2>1, OwnedAll
<1>2. \A i \in 1..6 : Order[i] = "fabrication_package" <=> i = 6
  BY RungNumbers
<1>3. \A i \in 1..n : /\ j.runs[i].stage = Order[i]
                      /\ j.runs[i].status \in Successful <=> i <= passed
  BY DEF Stages, RunAt
<1>4. passed \in 0..6
  BY DEF Stages
<1>5. \A i : i \in PassedRuns(j, "fabrication_package") <=>
               i \in 1..n /\ j.runs[i].stage = "fabrication_package"
                          /\ j.runs[i].status \in Successful
  BY <1>1 DEF PassedRuns
<1>6. \A i : i \in 1..n /\ j.runs[i].stage = "fabrication_package"
                        /\ j.runs[i].status \in Successful <=> i \in 1..n /\ i = 6 /\ i <= passed
  BY <1>1, <1>2, <1>3
<1> QED
  BY <1>1, <1>4, <1>5, <1>6

LEMMA PackageViews ==
  ASSUME NEW p \in Package \cup {None}
  PROVE  /\ PackageView(p) = None <=> p = None
         /\ p # None => PackageView(p).warned = p.warned
<1>1. CASE p = None
  BY <1>1 DEF PackageView
<1>2. CASE p # None
  <2>1. PackageView(p) = [level |-> 4, warned |-> p.warned] /\ p.warned \in BOOLEAN
    BY <1>2 DEF PackageView, Package
  <2>2. PackageView(p) \in PackageSummary
    BY <2>1 DEF PackageSummary
  <2> QED
    BY <1>2, <2>1, <2>2, ViewAssumption
<1> QED
  BY <1>1, <1>2

LEMMA PackageIsBorneOut ==
  ASSUME NEW j, Claims(j, cad), Sealed(j), NEW m, NEW p \in Package \cup {None},
         Accepts(j, m, p), NEW fault
  PROVE  PackageBorneOut(j, p, fault)
<1>1. PICK passed \in 1..6, n \in 1..6 : Claim(j, passed, n)
  BY DEF Claims
<1>2. /\ j \in FabricationJourney /\ j.revision # None /\ Stages(j, passed, n)
      /\ (j.status = "completed") <=> (passed = 6)
  BY <1>1 DEF Claims, Claim
<1>3. PackageConsistent(j, m, p)
  BY DEF Accepts
<1>4. \A i : i \in PassedRuns(j, "fabrication_package") <=> i = 6 /\ passed = 6
  BY <1>2, PackagePassed
<1>5. CASE p = None
  <2>1. passed # 6
    BY <1>3, <1>4, <1>5 DEF PackageConsistent
  <2> QED
    BY <1>2, <1>5, <2>1, PackageViews DEF PackageBorneOut
<1>6. CASE p # None
  <2>1. passed = 6 /\ p.warned = Warned(j)
    BY <1>3, <1>4, <1>6 DEF PackageConsistent
  <2>2. Blameless(j)
    BY <1>2, <2>1 DEF Claims
  <2>3. Summary(j, fault).warned <=> Warned(j)
    BY <1>2, <2>2, WarnedShown
  <2> QED
    BY <1>2, <1>6, <2>1, <2>3, PackageViews DEF PackageBorneOut
<1> QED
  BY <1>5, <1>6

LEMMA ContentIsBorneOut ==
  ASSUME NEW j, NEW p, NEW fault \in Edits \cup {"recorded"}
  PROVE  ContentBorneOut(j, p, fault)
<1>1. fault # "recorded" => fault \in Faults
  BY EditsAssumption
<1>2. ASSUME fault # "recorded", NEW role \in DesignFile
      PROVE  ReadInspection(j, role, fault) # "read"
  <2>1. FileState(role, fault) \in {"missing", "resized", "changed"}
    BY <1>1, <1>2 DEF FileState, Faults
  <2> DEFINE Reason(x) == [missing |-> "file_missing", resized |-> "size_mismatch",
                           changed |-> "checksum_mismatch", recorded |-> "read"][x]
  <2>2. Reason(FileState(role, fault)) # "read"
    BY <2>1
  <2>3. ReadInspection(j, role, fault) \in
          {"absent", "multiple_records", Reason(FileState(role, fault))}
    BY Zenon DEF ReadInspection
  <2> HIDE DEF Reason
  <2> QED
    BY <2>2, <2>3
<1>3. fault # "recorded" => DesignFile \cap InspectionView(j, p, fault).reports = {}
  BY <1>2 DEF InspectionView, Verified
<1>4. ASSUME NEW role \in Role, FileState(role, fault) # "recorded"
      PROVE  Download(j, p, role, fault) # "served"
  BY <1>4 DEF Download
<1> QED
  BY <1>3, <1>4 DEF ContentBorneOut

-----------------------------------------------------------------------------
(* What a later look finds of a stage                                           *)

LEMMA EventsKept ==
  ASSUME NEW j \in FabricationJourney, NEW k, Since(k, j), NEW i \in 1..Len(j.runs)
  PROVE  EventsOfRun(k, i) = EventsOfRun(j, i)
<1>1. /\ k \in FabricationJourney /\ Len(j.events) <= Len(k.events)
      /\ \A e \in 1..Len(j.events) : k.events[e] = j.events[e]
      /\ \A e \in Len(j.events) + 1..Len(k.events) : k.events[e].run >= Len(j.runs) + 1
  BY DEF Since, After, Holds, Prefix
<1>2. /\ Len(j.events) \in Nat /\ Len(k.events) \in Nat /\ Len(j.runs) \in Nat
      /\ DOMAIN j.events = 1..Len(j.events) /\ DOMAIN k.events = 1..Len(k.events)
  BY <1>1, JourneyParts
<1>3. \A e \in 1..Len(k.events) : k.events[e].run \in Nat
  BY <1>1, RecordTypes
<1> DEFINE S == {e \in DOMAIN j.events : j.events[e].run = i}
           own == InOrder(S)
<1>4. {e \in DOMAIN k.events : k.events[e].run = i} = S
  <2>1. ASSUME NEW e \in 1..Len(k.events), k.events[e].run = i
        PROVE  e \in 1..Len(j.events)
    <3>1. ~(k.events[e].run >= Len(j.runs) + 1)
      BY <1>2, <2>1
    <3> QED
      BY <1>1, <1>2, <3>1
  <2>2. \A e \in 1..Len(j.events) : e \in 1..Len(k.events)
    BY <1>1, <1>2
  <2> QED
    BY <1>1, <1>2, <2>1, <2>2
<1>5. S \subseteq 1..Len(j.events)
  BY <1>2
<1>6. DOMAIN own = 1..Cardinality(S)
  BY DEF InOrder
<1>7. EventsOfRun(j, i) = [e \in DOMAIN own |-> j.events[own[e]]]
  BY DEF EventsOfRun
<1>8. EventsOfRun(k, i) = [e \in DOMAIN own |-> k.events[own[e]]]
  BY <1>4 DEF EventsOfRun
<1> HIDE DEF own, S
<1>9. \A e \in 1..Cardinality(S) : own[e] \in 1..Len(j.events)
  BY <1>2, <1>5, InOrderMember DEF own
<1> QED
  BY <1>1, <1>6, <1>7, <1>8, <1>9

\* What the comparison sees of a stage.
Alike(s, t) ==
  /\ s.stage = t.stage /\ s.attempt = t.attempt /\ s.status = t.status /\ s.level = t.level
  /\ s.events = t.events /\ s.findings = t.findings

LEMMA StagesKept ==
  ASSUME NEW j, NEW k, Sealed(j), Sealed(k), Since(k, j), NEW a, NEW n, Stages(j, a, n),
         NEW b, NEW m, Stages(k, b, m)
  PROVE  /\ n \in 1..6 /\ m \in 1..6 /\ n <= m
         /\ \A i \in 1..n : \A x \in RecordsOfRun(j.artifacts, i) :
              x \in RecordsOfRun(k.artifacts, i)
         /\ \A i \in 1..n : \A f, g : Alike(StageView(j, i, f), StageView(k, i, g))
<1>1. /\ j \in FabricationJourney /\ k \in FabricationJourney
      /\ j.revision # None /\ k.revision # None
  BY DEF Sealed, Sound
<1>2. Len(j.runs) = n /\ n \in 1..6 /\ Len(k.runs) = m /\ m \in 1..6
  BY <1>1, OwnedAll
<1>3. n <= m /\ \A i \in 1..n : k.runs[i] = j.runs[i]
  BY <1>2 DEF Since, Prefix
<1>4. /\ j.findings \subseteq k.findings /\ j.artifacts \subseteq k.artifacts
      /\ \A f \in k.findings : f \in j.findings \/ f.run >= n + 1
  BY <1>2 DEF Since, After, Holds
<1>5. \A i \in 1..n : RecordsOfRun(k.findings, i) = RecordsOfRun(j.findings, i)
  BY <1>2, <1>4 DEF RecordsOfRun
<1>6. \A i \in 1..n : EventsOfRun(k, i) = EventsOfRun(j, i)
  BY <1>1, <1>2, EventsKept
<1>7. \A i \in 1..n : \A f, g : Alike(StageView(j, i, f), StageView(k, i, g))
  BY <1>3, <1>5, <1>6, ViewParts DEF Alike
<1> QED
  BY <1>2, <1>3, <1>4, <1>7 DEF RecordsOfRun

\* No two stages of a job have the same name.
LEMMA StagesApart ==
  ASSUME NEW j, NEW a, NEW n, Stages(j, a, n), NEW i \in 1..n, NEW k \in 1..n, NEW f, NEW g,
         StageView(j, i, f).stage = StageView(j, k, g).stage
  PROVE  i = k
<1>1. /\ n \in 1..6 /\ StageView(j, i, f).stage = j.runs[i].stage
      /\ StageView(j, k, g).stage = j.runs[k].stage
  BY ViewParts DEF Stages
<1>2. j.runs[i].stage = Order[i] /\ j.runs[k].stage = Order[k]
  BY DEF Stages, RunAt
<1>3. i \in 1..6 /\ k \in 1..6
  BY <1>1
<1>4. Order[i] = Order[k]
  BY <1>1, <1>2
<1> QED
  BY <1>3, <1>4, RungNumbers

\* A role that was recorded is recorded by no other artifact later.
LEMMA MatchesKept ==
  ASSUME NEW j, NEW k, Sealed(j), Sealed(k), Since(k, j), NEW role \in RolesOf(j)
  PROVE  {x \in k.artifacts : x.role = role} = {x \in j.artifacts : x.role = role}
<1>1. j.artifacts \subseteq k.artifacts
  BY DEF Since, After, Holds
<1>2. \A x, y \in k.artifacts : Path(x.role) = Path(y.role) => x = y
  BY DEF Sealed, Sound, LineageSound
<1>3. PICK y \in j.artifacts : y.role = role
  BY DEF RolesOf
<1>4. \A x \in k.artifacts : x.role = role => x = y
  BY <1>1, <1>2, <1>3
<1> QED
  BY <1>1, <1>3, <1>4

LEMMA ReadingKept ==
  ASSUME NEW j, NEW k, Sealed(j), Sealed(k), Since(k, j), NEW role, NEW f, NEW g,
         FileState(role, g) = FileState(role, f), ReadInspection(j, role, f) # "absent"
  PROVE  ReadInspection(k, role, g) = ReadInspection(j, role, f)
<1> DEFINE A == {x \in j.artifacts : x.role = role}
           B == {x \in k.artifacts : x.role = role}
<1>1. A # {}
  BY DEF ReadInspection
<1>2. role \in RolesOf(j)
  BY <1>1 DEF RolesOf
<1>3. B = A
  BY <1>2, MatchesKept
<1> QED
  BY <1>3 DEF ReadInspection

-----------------------------------------------------------------------------
(* What is compared, area by area                                               *)

StageRecord(s) ==
  [area |-> "stage", key |-> <<s.stage, s.attempt>>,
   value |-> [status |-> s.status, level |-> s.level,
              events |-> [n \in DOMAIN s.events |-> s.events[n].status],
              decided |-> \E f \in s.findings : f.kind = "decision"]]

FindingRecord(stage, kind) == [area |-> "finding", key |-> <<stage, kind>>, value |-> kind]

ArtifactRecord(stage, role) == [area |-> "artifact", key |-> <<role>>, value |-> stage]

ReadRecord(area, role) == [area |-> area, key |-> <<role>>, value |-> "read"]

UnreadRecord(role, reason) ==
  [area |-> "report", key |-> <<"unavailable", role>>, value |-> reason]

PackageRecord(view) == [area |-> "package", key |-> <<"package">>, value |-> view]

LEMMA RecordParts ==
  /\ \A s : StageRecord(s).area = "stage" /\ StageRecord(s).key = <<s.stage, s.attempt>>
  /\ \A stage, kind : /\ FindingRecord(stage, kind).area = "finding"
                      /\ FindingRecord(stage, kind).key = <<stage, kind>>
                      /\ FindingRecord(stage, kind).value = kind
  /\ \A stage, role : /\ ArtifactRecord(stage, role).area = "artifact"
                      /\ ArtifactRecord(stage, role).key = <<role>>
  /\ \A area, role : ReadRecord(area, role).area = area /\ ReadRecord(area, role).key = <<role>>
  /\ \A role, reason : /\ UnreadRecord(role, reason).area = "report"
                       /\ UnreadRecord(role, reason).key = <<"unavailable", role>>
  /\ \A view : PackageRecord(view).area = "package"
BY DEF StageRecord, FindingRecord, ArtifactRecord, ReadRecord, UnreadRecord, PackageRecord

\* The records of a detail, by area.
StageRecords(d) == {StageRecord(s) : s \in {d.stages[n] : n \in DOMAIN d.stages}}

FindingRecords(d) ==
  UNION {{FindingRecord(s.stage, f.kind) : f \in {f \in s.findings : f.kind # "decision"}} :
           s \in {d.stages[n] : n \in DOMAIN d.stages}}

ArtifactRecords(d) ==
  UNION {{ArtifactRecord(s.stage, a.role) : a \in s.artifacts} :
           s \in {d.stages[n] : n \in DOMAIN d.stages}}

ReadRecords(d) == {ReadRecord("report", role) : role \in d.inspection.reports}
UnreadRecords(d) == {UnreadRecord(u.role, u.reason) : u \in d.inspection.unavailable}
ProfileRecords(d) == {ReadRecord("profile", role) : role \in d.inspection.profiles}
PackageRecords(d) == IF d.package = None THEN {} ELSE {PackageRecord(d.package)}

LEMMA RecordsByArea ==
  ASSUME NEW d
  PROVE  ComparisonRecords(d) =
           StageRecords(d) \cup ReadRecords(d) \cup UnreadRecords(d) \cup FindingRecords(d)
           \cup ProfileRecords(d) \cup ArtifactRecords(d) \cup PackageRecords(d)
BY DEF ComparisonRecords, StageRecords, ReadRecords, UnreadRecords, FindingRecords,
       ProfileRecords, ArtifactRecords, PackageRecords, StageRecord, FindingRecord,
       ArtifactRecord, ReadRecord, UnreadRecord, PackageRecord

\* Of one area: what was there is there, and nothing has come under its keys.
Stays(before, after) ==
  /\ before \subseteq after
  /\ \A x \in after, y \in before : x.area = y.area /\ x.key = y.key => x = y

\* Two areas do not mix.
LEMMA StaysBoth ==
  ASSUME NEW A, NEW B, NEW C, NEW D, Stays(A, B), Stays(C, D),
         \A x \in B, y \in C : x.area # y.area, \A x \in D, y \in A : x.area # y.area
  PROVE  Stays(A \cup C, B \cup D)
BY Zenon DEF Stays

LEMMA StageRecordsStay ==
  ASSUME NEW d, NEW e, NEW n \in Nat, NEW m \in Nat, n <= m,
         DOMAIN d.stages = 1..n, DOMAIN e.stages = 1..m,
         \A i \in 1..n : Alike(d.stages[i], e.stages[i]),
         \A i, k \in 1..m : e.stages[i].stage = e.stages[k].stage => i = k
  PROVE  Stays(StageRecords(d), StageRecords(e))
<1>1. \A s, t : Alike(s, t) => StageRecord(s) = StageRecord(t)
  BY DEF Alike, StageRecord
<1>2. \A i \in 1..n : i \in 1..m /\ StageRecord(d.stages[i]) = StageRecord(e.stages[i])
  BY <1>1
<1>3. StageRecords(d) = {StageRecord(d.stages[i]) : i \in 1..n}
  BY DEF StageRecords
<1>4. StageRecords(e) = {StageRecord(e.stages[i]) : i \in 1..m}
  BY DEF StageRecords
<1>5. \A i, k \in 1..m : StageRecord(e.stages[i]).key = StageRecord(e.stages[k]).key => i = k
  BY RecordParts
<1> QED
  BY <1>2, <1>3, <1>4, <1>5 DEF Stays

LEMMA FindingRecordsStay ==
  ASSUME NEW d, NEW e, NEW n \in Nat, NEW m \in Nat, n <= m,
         DOMAIN d.stages = 1..n, DOMAIN e.stages = 1..m,
         \A i \in 1..n : Alike(d.stages[i], e.stages[i])
  PROVE  Stays(FindingRecords(d), FindingRecords(e))
<1>1. FindingRecords(d) \subseteq FindingRecords(e)
  <2>1. \A i \in 1..n : /\ i \in 1..m /\ d.stages[i].stage = e.stages[i].stage
                        /\ d.stages[i].findings = e.stages[i].findings
    BY DEF Alike
  <2> QED
    BY <2>1 DEF FindingRecords
<1>2. \A x \in FindingRecords(d) \cup FindingRecords(e) :
        \E stage, kind : x = FindingRecord(stage, kind)
  BY DEF FindingRecords
<1>3. \A x, y \in FindingRecords(d) \cup FindingRecords(e) : x.key = y.key => x = y
  <2> SUFFICES ASSUME NEW x \in FindingRecords(d) \cup FindingRecords(e),
                      NEW y \in FindingRecords(d) \cup FindingRecords(e), x.key = y.key
               PROVE  x = y
    OBVIOUS
  <2>1. PICK s1, k1 : x = FindingRecord(s1, k1)
    BY <1>2
  <2>2. PICK s2, k2 : y = FindingRecord(s2, k2)
    BY <1>2
  <2>3. <<s1, k1>> = <<s2, k2>>
    BY <2>1, <2>2, RecordParts
  <2> QED
    BY <2>1, <2>2, <2>3
<1> QED
  BY <1>1, <1>3 DEF Stays

\* The detail shows the first n runs of the journey.
ShowsRuns(d, j, f, n) ==
  DOMAIN d.stages = 1..n /\ \A i \in 1..n : d.stages[i] = StageView(j, i, f)

LEMMA ArtifactRecordOf ==
  ASSUME NEW d, NEW j, NEW f, NEW n, ShowsRuns(d, j, f, n)
  PROVE  \A x : x \in ArtifactRecords(d) <=>
           \E i \in 1..n : \E a \in RecordsOfRun(j.artifacts, i) :
             x = ArtifactRecord(d.stages[i].stage, a.role)
<1> SUFFICES ASSUME NEW x
             PROVE  x \in ArtifactRecords(d) <=>
                      \E i \in 1..n : \E a \in RecordsOfRun(j.artifacts, i) :
                        x = ArtifactRecord(d.stages[i].stage, a.role)
  OBVIOUS
<1>1. \A a : ArtifactView(a, f).role = a.role
  BY DEF ArtifactView
<1>2. \A i \in 1..n : d.stages[i].artifacts =
                        {ArtifactView(a, f) : a \in RecordsOfRun(j.artifacts, i)}
  BY ViewParts DEF ShowsRuns
<1>3. x \in ArtifactRecords(d) <=>
        \E i \in 1..n : \E v \in d.stages[i].artifacts :
          x = ArtifactRecord(d.stages[i].stage, v.role)
  BY DEF ArtifactRecords, ShowsRuns
<1>4. \A i \in 1..n :
        (\E v \in d.stages[i].artifacts : x = ArtifactRecord(d.stages[i].stage, v.role)) <=>
        \E a \in RecordsOfRun(j.artifacts, i) : x = ArtifactRecord(d.stages[i].stage, a.role)
  BY <1>1, <1>2
<1> QED
  BY <1>3, <1>4

\* An artifact that is there belongs to the stage it belonged to.
LEMMA ArtifactRecordsStay ==
  ASSUME NEW d, NEW e, NEW j, NEW k, NEW f, NEW g, NEW n \in Nat, NEW m \in Nat, n <= m,
         ShowsRuns(d, j, f, n), ShowsRuns(e, k, g, m),
         \A i \in 1..n : Alike(d.stages[i], e.stages[i]),
         j.artifacts \subseteq k.artifacts,
         \A a, b \in k.artifacts : Path(a.role) = Path(b.role) => a = b
  PROVE  Stays(ArtifactRecords(d), ArtifactRecords(e))
<1>1. \A i \in 1..n : i \in 1..m /\ d.stages[i].stage = e.stages[i].stage
  BY DEF Alike
<1>2. \A i \in 1..n : \A a \in RecordsOfRun(j.artifacts, i) : a \in RecordsOfRun(k.artifacts, i)
  BY DEF RecordsOfRun
<1>3. \A x \in ArtifactRecords(d) :
        \E i \in 1..n : \E a \in RecordsOfRun(k.artifacts, i) :
          x = ArtifactRecord(e.stages[i].stage, a.role)
  <2>1. \A x : x \in ArtifactRecords(d) <=>
          \E i \in 1..n : \E a \in RecordsOfRun(j.artifacts, i) :
            x = ArtifactRecord(d.stages[i].stage, a.role)
    BY ArtifactRecordOf
  <2> QED
    BY <1>1, <1>2, <2>1
<1>4. \A x : x \in ArtifactRecords(e) <=>
        \E i \in 1..m : \E a \in RecordsOfRun(k.artifacts, i) :
          x = ArtifactRecord(e.stages[i].stage, a.role)
  BY ArtifactRecordOf
<1>5. ArtifactRecords(d) \subseteq ArtifactRecords(e)
  BY <1>1, <1>3, <1>4
<1>6. ASSUME NEW x \in ArtifactRecords(e), NEW y \in ArtifactRecords(d), x.key = y.key
      PROVE  x = y
  <2>1. PICK i \in 1..m : \E a \in RecordsOfRun(k.artifacts, i) :
          x = ArtifactRecord(e.stages[i].stage, a.role)
    BY <1>4
  <2>2. PICK l \in 1..n : \E b \in RecordsOfRun(k.artifacts, l) :
          y = ArtifactRecord(e.stages[l].stage, b.role)
    BY <1>3
  <2> PICK a \in RecordsOfRun(k.artifacts, i) : x = ArtifactRecord(e.stages[i].stage, a.role)
    BY <2>1
  <2> PICK b \in RecordsOfRun(k.artifacts, l) : y = ArtifactRecord(e.stages[l].stage, b.role)
    BY <2>2
  <2>3. a.role = b.role
    BY <1>6, RecordParts
  <2>4. a \in k.artifacts /\ b \in k.artifacts /\ a.run = i /\ b.run = l
    BY DEF RecordsOfRun
  <2>5. a = b
    BY <2>3, <2>4
  <2> QED
    BY <2>4, <2>5
<1> QED
  BY <1>5, <1>6 DEF Stays

-----------------------------------------------------------------------------
(* Files, and the package                                                       *)

LEMMA InspectedStays ==
  ASSUME NEW p, NEW q, p # None => q # None
  PROVE  InspectedRole(p) \subseteq InspectedRole(q)
BY DEF InspectedRole

LEMMA ProfileRecordsStay ==
  ASSUME NEW d, NEW e, NEW j, NEW k, NEW f, NEW g, NEW p, NEW q,
         d.inspection = InspectionView(j, p, f), e.inspection = InspectionView(k, q, g),
         Sealed(j), Sealed(k), Since(k, j)
  PROVE  Stays(ProfileRecords(d), ProfileRecords(e))
<1>1. /\ d.inspection.profiles = Verified(j, p, f) \cap {"profiles"}
      /\ e.inspection.profiles = Verified(k, q, g) \cap {"profiles"}
  BY DEF InspectionView
<1>2. "profiles" \in InspectedRole(q)
  BY DEF InspectedRole
<1>3. FileState("profiles", f) = "recorded" /\ FileState("profiles", g) = "recorded"
  BY DEF FileState, DesignFile
<1>4. "profiles" \in Verified(j, p, f) => "profiles" \in Verified(k, q, g)
  BY <1>2, <1>3, ReadingKept DEF Verified
<1>5. d.inspection.profiles \subseteq e.inspection.profiles
  BY <1>1, <1>4
<1>6. \A x \in ProfileRecords(d) \cup ProfileRecords(e) : x = ReadRecord("profile", "profiles")
  BY <1>1 DEF ProfileRecords
<1>7. ProfileRecords(d) \subseteq ProfileRecords(e)
  BY <1>5 DEF ProfileRecords
<1> QED
  BY <1>6, <1>7 DEF Stays

ReportRecords(d) == ReadRecords(d) \cup UnreadRecords(d)

\* A report is read, or cannot be for the same reason, as long as the files are the same.
LEMMA ReportRecordsStay ==
  ASSUME NEW d, NEW e, NEW j, NEW k, NEW f, NEW p, NEW q,
         d.inspection = InspectionView(j, p, f), e.inspection = InspectionView(k, q, f),
         Sealed(j), Sealed(k), Since(k, j), p # None => q # None
  PROVE  Stays(ReportRecords(d), ReportRecords(e))
<1> DEFINE R(i, x) == ReadInspection(i, x, f)
<1>1. \A role : R(j, role) # "absent" => R(k, role) = R(j, role)
  BY ReadingKept
<1>2. \A role \in InspectedRole(p) : role \in InspectedRole(q)
  BY InspectedStays
<1> HIDE DEF R
<1>3. /\ \A x : x \in ReadRecords(d) <=> \E role \in InspectedRole(p) :
                  role \in ReportRole /\ R(j, role) = "read" /\ x = ReadRecord("report", role)
      /\ \A x : x \in ReadRecords(e) <=> \E role \in InspectedRole(q) :
                  role \in ReportRole /\ R(k, role) = "read" /\ x = ReadRecord("report", role)
  <2>1. /\ d.inspection.reports = {role \in InspectedRole(p) : R(j, role) = "read"} \cap ReportRole
        /\ e.inspection.reports = {role \in InspectedRole(q) : R(k, role) = "read"} \cap ReportRole
    BY DEF InspectionView, Verified, R
  <2> QED
    BY <2>1 DEF ReadRecords
<1>4. /\ \A x : x \in UnreadRecords(d) <=> \E role \in InspectedRole(p) :
                  R(j, role) \notin {"absent", "read"} /\ x = UnreadRecord(role, R(j, role))
      /\ \A x : x \in UnreadRecords(e) <=> \E role \in InspectedRole(q) :
                  R(k, role) \notin {"absent", "read"} /\ x = UnreadRecord(role, R(k, role))
  <2> DEFINE U(i, r) == [role |-> r, reason |-> R(i, r)]
  <2>1. /\ d.inspection.unavailable =
             {U(j, role) : role \in {r \in InspectedRole(p) : R(j, r) \notin {"absent", "read"}}}
        /\ e.inspection.unavailable =
             {U(k, role) : role \in {r \in InspectedRole(q) : R(k, r) \notin {"absent", "read"}}}
    BY DEF InspectionView, R
  <2>2. \A i, r : U(i, r).role = r /\ U(i, r).reason = R(i, r)
    OBVIOUS
  <2> HIDE DEF U
  <2>3. /\ \A x : x \in UnreadRecords(d) <=>
               \E u \in d.inspection.unavailable : x = UnreadRecord(u.role, u.reason)
        /\ \A x : x \in UnreadRecords(e) <=>
               \E u \in e.inspection.unavailable : x = UnreadRecord(u.role, u.reason)
    BY DEF UnreadRecords
  <2> QED
    BY <2>1, <2>2, <2>3
<1>5. ReadRecords(d) \subseteq ReadRecords(e)
  BY <1>1, <1>2, <1>3
<1>6. UnreadRecords(d) \subseteq UnreadRecords(e)
  BY <1>1, <1>2, <1>4
<1>7. ASSUME NEW x \in ReadRecords(e), NEW y \in ReadRecords(e), x.key = y.key
      PROVE  x = y
  <2>1. PICK r : x = ReadRecord("report", r)
    BY <1>3
  <2>2. PICK s : y = ReadRecord("report", s)
    BY <1>3
  <2>3. <<r>> = <<s>>
    BY <1>7, <2>1, <2>2, RecordParts
  <2> QED
    BY <2>1, <2>2, <2>3
<1>8. ASSUME NEW x \in UnreadRecords(e), NEW y \in UnreadRecords(e), x.key = y.key
      PROVE  x = y
  <2>1. PICK r : x = UnreadRecord(r, R(k, r))
    BY <1>4
  <2>2. PICK s : y = UnreadRecord(s, R(k, s))
    BY <1>4
  <2>3. <<"unavailable", r>> = <<"unavailable", s>>
    BY <1>8, <2>1, <2>2, RecordParts
  <2> QED
    BY <2>1, <2>2, <2>3
<1>9. \A r, s : <<r>> # <<"unavailable", s>>
  OBVIOUS
<1>10. \A x \in ReadRecords(e), y \in UnreadRecords(e) : x.key # y.key
  <2> SUFFICES ASSUME NEW x \in ReadRecords(e), NEW y \in UnreadRecords(e) PROVE x.key # y.key
    OBVIOUS
  <2>1. PICK r : x = ReadRecord("report", r)
    BY <1>3
  <2>2. PICK s : y = UnreadRecord(s, R(k, s))
    BY <1>4
  <2>3. x.key = <<r>> /\ y.key = <<"unavailable", s>>
    BY <2>1, <2>2, RecordParts
  <2>4. <<r>> # <<"unavailable", s>>
    BY <1>9
  <2> QED
    BY <2>3, <2>4
<1> QED
  BY <1>5, <1>6, <1>7, <1>8, <1>10 DEF Stays, ReportRecords

\* A package is made once.
LEMMA PackageRecordsStay ==
  ASSUME NEW d, NEW e, d.package # None => e.package = d.package
  PROVE  Stays(PackageRecords(d), PackageRecords(e))
BY DEF Stays, PackageRecords

\* What was delivered stays so, with the same warnings.
LEMMA PackageKept ==
  ASSUME NEW j, NEW k, Sealed(j), Sealed(k), Since(k, j), NEW a, NEW n, Stages(j, a, n),
         NEW b, NEW m, Stages(k, b, m), NEW r, NEW s, NEW p \in Package \cup {None},
         NEW q \in Package \cup {None}, Accepts(j, r, p), Accepts(k, s, q), p # None
  PROVE  q # None /\ PackageView(q) = PackageView(p)
<1>1. /\ j \in FabricationJourney /\ k \in FabricationJourney
      /\ j.revision # None /\ k.revision # None
  BY DEF Sealed, Sound
<1>2. /\ \A i : i \in PassedRuns(j, "fabrication_package") <=> i = 6 /\ a = 6
      /\ \A i : i \in PassedRuns(k, "fabrication_package") <=> i = 6 /\ b = 6
  BY <1>1, PackagePassed
<1>3. PackageConsistent(j, r, p) /\ PackageConsistent(k, s, q)
  BY DEF Accepts
<1>4. a = 6 /\ p.warned = Warned(j)
  BY <1>2, <1>3 DEF PackageConsistent
<1>5. n = 6 /\ m = 6
  <2>1. n \in 1..6 /\ m \in 1..6 /\ n <= m
    BY StagesKept
  <2>2. n = a \/ n = a + 1
    BY DEF Stages
  <2> QED
    BY <1>4, <2>1, <2>2
<1>6. \A i \in 1..6 : k.runs[i] = j.runs[i]
  <2>1. Len(j.runs) = 6
    BY <1>1, <1>5, OwnedAll
  <2> QED
    BY <2>1 DEF Since, Prefix
<1>7. b = 6
  <2>1. j.runs[6].status \in Successful
    BY <1>4, <1>5 DEF Stages, RunAt
  <2>2. k.runs[6].status \in Successful <=> 6 <= b
    BY <1>5 DEF Stages, RunAt
  <2>3. b \in 0..6
    BY DEF Stages
  <2> QED
    BY <1>6, <2>1, <2>2, <2>3
<1>8. q # None /\ q.warned = Warned(k)
  BY <1>2, <1>3, <1>7 DEF PackageConsistent
<1>9. Warned(k) = Warned(j)
  <2>1. OwnedFindings(j) = j.findings /\ OwnedFindings(k) = k.findings
    BY FindingsOwned
  <2>2. \A f \in k.findings : f.run \in 1..6
    BY <1>5, FindingsOwned
  <2>3. j.findings \subseteq k.findings /\ \A f \in k.findings : f \in j.findings \/ f.run >= 7
    <3>1. Len(j.runs) = 6
      BY <1>1, <1>5, OwnedAll
    <3> QED
      BY <3>1 DEF Since, After, Holds
  <2>4. \A run \in 1..6 : ~(run >= 7)
    OBVIOUS
  <2>5. k.findings \subseteq j.findings
    BY <2>2, <2>3, <2>4
  <2>6. k.findings = j.findings
    BY <2>3, <2>5
  <2> QED
    BY <2>1, <2>6 DEF Warned
<1> QED
  BY <1>4, <1>8, <1>9 DEF PackageView

-----------------------------------------------------------------------------
(* The comparison of two looks                                                  *)

Area(d, area) == {x \in ComparisonRecords(d) : x.area = area}

LEMMA Areas ==
  ASSUME NEW d
  PROVE  /\ Area(d, "stage") = StageRecords(d) /\ Area(d, "report") = ReportRecords(d)
         /\ Area(d, "finding") = FindingRecords(d) /\ Area(d, "profile") = ProfileRecords(d)
         /\ Area(d, "artifact") = ArtifactRecords(d) /\ Area(d, "package") = PackageRecords(d)
         /\ \A x \in ComparisonRecords(d) :
              x.area \in {"stage", "report", "finding", "profile", "artifact", "package"}
<1>1. \A x \in StageRecords(d) : x.area = "stage"
  BY RecordParts DEF StageRecords
<1>2. \A x \in ReportRecords(d) : x.area = "report"
  BY RecordParts DEF ReportRecords, ReadRecords, UnreadRecords
<1>3. \A x \in FindingRecords(d) : x.area = "finding"
  BY RecordParts DEF FindingRecords
<1>4. \A x \in ProfileRecords(d) : x.area = "profile"
  BY RecordParts DEF ProfileRecords
<1>5. \A x \in ArtifactRecords(d) : x.area = "artifact"
  BY RecordParts DEF ArtifactRecords
<1>6. \A x \in PackageRecords(d) : x.area = "package"
  BY RecordParts DEF PackageRecords
<1>7. \A x : x \in ComparisonRecords(d) <=>
        \/ x \in StageRecords(d) \/ x \in ReportRecords(d) \/ x \in FindingRecords(d)
        \/ x \in ProfileRecords(d) \/ x \in ArtifactRecords(d) \/ x \in PackageRecords(d)
  BY RecordsByArea DEF ReportRecords
<1> QED
  BY <1>1, <1>2, <1>3, <1>4, <1>5, <1>6, <1>7 DEF Area

\* A record that is gone from e, or is otherwise there.
Differs(x, d, e) == x \in Changes(d, e).removed \cup Changes(d, e).changed

LEMMA NothingChanges ==
  ASSUME NEW d, NEW e, NEW A, \A area \in A : Stays(Area(d, area), Area(e, area)),
         NEW x \in Changes(d, e).removed \cup Changes(d, e).changed
  PROVE  x.area \notin A
<1> SUFFICES ASSUME x.area \in A PROVE FALSE
  OBVIOUS
<1>1. Stays(Area(d, x.area), Area(e, x.area))
  OBVIOUS
<1>2. CASE x \in Changes(d, e).removed
  <2>1. x \in ComparisonRecords(d) /\ x \notin ComparisonRecords(e)
    BY <1>2 DEF Changes
  <2> QED
    BY <1>1, <2>1 DEF Stays, Area
<1>3. CASE x \in Changes(d, e).changed
  <2>1. /\ x \in ComparisonRecords(e) /\ x \notin ComparisonRecords(d)
        /\ \E y \in ComparisonRecords(d) : y.area = x.area /\ y.key = x.key
    BY <1>3 DEF Changes
  <2>2. PICK y \in ComparisonRecords(d) : y.area = x.area /\ y.key = x.key
    BY <2>1
  <2>3. x \in Area(e, x.area) /\ y \in Area(d, x.area)
    BY <2>1, <2>2 DEF Area
  <2>4. x = y
    BY <1>1, <2>2, <2>3 DEF Stays
  <2> QED
    BY <2>1, <2>2, <2>4
<1> QED
  BY <1>2, <1>3

\* Of two looks at a job, the later one finds everything as it was, but for the reports when
\* the files have been edited in between.
LEMMA LooksAgree ==
  ASSUME NEW j, NEW k, Sealed(j), Sealed(k), Claims(j, cad), Claims(k, cad), Since(k, j),
         NEW r, NEW s, NEW p \in Package \cup {None}, NEW q \in Package \cup {None},
         Accepts(j, r, p), Accepts(k, s, q), NEW f, NEW g,
         NEW x, Differs(x, Detail(j, p, f), Detail(k, q, g))
  PROVE  x.area = "report" /\ f # g
<1> DEFINE d == Detail(j, p, f)
           e == Detail(k, q, g)
<1>1. PICK a \in 1..6, n \in 1..6 : Claim(j, a, n)
  BY DEF Claims
<1>2. PICK b \in 1..6, m \in 1..6 : Claim(k, b, m)
  BY DEF Claims
<1>3. Stages(j, a, n) /\ Stages(k, b, m)
  BY <1>1, <1>2 DEF Claim
<1>4. /\ j \in FabricationJourney /\ k \in FabricationJourney
      /\ j.revision # None /\ k.revision # None
  BY DEF Sealed, Sound
<1>5. /\ d.stages = StageViews(j, f) /\ e.stages = StageViews(k, g)
      /\ d.inspection = InspectionView(j, p, f) /\ e.inspection = InspectionView(k, q, g)
      /\ d.package = PackageView(p) /\ e.package = PackageView(q)
  BY DEF Detail
<1> HIDE DEF d, e
<1>6. ShowsRuns(d, j, f, n) /\ ShowsRuns(e, k, g, m)
  BY <1>3, <1>4, <1>5, Views DEF ShowsRuns
<1>7. /\ n \in Nat /\ m \in Nat /\ n <= m
      /\ \A i \in 1..n : i \in 1..m /\ Alike(StageView(j, i, f), StageView(k, i, g))
  <2>1. n <= m /\ \A i \in 1..n : Alike(StageView(j, i, f), StageView(k, i, g))
    BY <1>3, StagesKept
  <2> QED
    BY <2>1
<1>8. DOMAIN d.stages = 1..n /\ DOMAIN e.stages = 1..m
  BY <1>6 DEF ShowsRuns
<1>9. \A i \in 1..n : Alike(d.stages[i], e.stages[i])
  BY <1>6, <1>7 DEF ShowsRuns
<1>10. Stays(StageRecords(d), StageRecords(e))
  <2>1. \A i, l \in 1..m : e.stages[i].stage = e.stages[l].stage => i = l
    BY <1>3, <1>6, StagesApart DEF ShowsRuns
  <2> QED
    BY <1>7, <1>8, <1>9, <2>1, StageRecordsStay
<1>11. Stays(FindingRecords(d), FindingRecords(e))
  BY <1>7, <1>8, <1>9, FindingRecordsStay
<1>12. Stays(ArtifactRecords(d), ArtifactRecords(e))
  <2>1. j.artifacts \subseteq k.artifacts
    BY DEF Since, After, Holds
  <2>2. \A u, v \in k.artifacts : Path(u.role) = Path(v.role) => u = v
    BY DEF Sealed, Sound, LineageSound
  <2> QED
    BY <1>6, <1>7, <1>9, <2>1, <2>2, ArtifactRecordsStay
<1>13. Stays(ProfileRecords(d), ProfileRecords(e))
  BY <1>5, ProfileRecordsStay
<1>14. p # None => q # None /\ e.package = d.package
  BY <1>3, <1>5, PackageKept
<1>15. Stays(PackageRecords(d), PackageRecords(e))
  <2>1. d.package # None => p # None
    BY <1>5, PackageViews
  <2> QED
    BY <1>14, <2>1, PackageRecordsStay
<1>16. ASSUME f = g
       PROVE  Stays(ReportRecords(d), ReportRecords(e))
  BY <1>5, <1>14, <1>16, ReportRecordsStay
<1>17. x \in Changes(d, e).removed \cup Changes(d, e).changed
  BY DEF d, e, Differs
<1>18. x.area \in {"stage", "report", "finding", "profile", "artifact", "package"}
  <2>1. x \in ComparisonRecords(d) \cup ComparisonRecords(e)
    BY <1>17 DEF Changes
  <2> QED
    BY <2>1, Areas
<1>19. x.area \notin {"stage", "finding", "profile", "artifact", "package"}
  <2>1. \A area \in {"stage", "finding", "profile", "artifact", "package"} :
          Stays(Area(d, area), Area(e, area))
    BY <1>10, <1>11, <1>12, <1>13, <1>15, Areas
  <2> QED
    BY <1>17, <2>1, NothingChanges
<1>20. f = g => x.area # "report"
  <2> SUFFICES ASSUME f = g PROVE x.area \notin {"report"}
    OBVIOUS
  <2>1. \A area \in {"report"} : Stays(Area(d, area), Area(e, area))
    BY <1>16, Areas
  <2> QED
    BY <1>17, <2>1, NothingChanges
<1> QED
  BY <1>18, <1>19, <1>20

LEMMA LookStays ==
  ASSUME Evidenced, Backed, Requests, Place, NEW r \in Reader, Seen(reader[r]),
         reader[r].pc = "shown"
  PROVE  ShownStays(reader[r].journey, reader[r].package, reader[r].fault)
<1> DEFINE j == reader[r].journey
           p == reader[r].package
           f == reader[r].fault
           k == disk.journey
           q == disk.package
           changes == Changes(Detail(j, p, f), Detail(k, q, Fault))
<1> SUFFICES ASSUME Accepts(k, disk.manifest, q),
                    NEW x \in changes.removed \cup changes.changed
             PROVE  x.area = "report" /\ f = "recorded" /\ DesignEdited
  BY DEF ShownStays
<1>1. p \in Package \cup {None}
  BY DEF Requests, Request
<1>2. q \in Package \cup {None}
  BY DEF Place, Disk
<1>3. Sealed(j) /\ Claims(j, cad) /\ Since(k, j) /\ k # None
  BY DEF Seen, WasOnDisk
<1>4. Sealed(k) /\ Claims(k, cad)
  BY <1>3 DEF Evidenced, OnDisk, Backed, OnFile
<1>5. Accepts(j, reader[r].manifest, p)
  BY DEF Seen
<1>6. f = "recorded" \/ (DesignEdited /\ f = cad.design)
  BY DEF Seen
<1>7. x.area = "report" /\ f # Fault
  <2> DEFINE g == Fault
             m == reader[r].manifest
             n == disk.manifest
  <2>1. Differs(x, Detail(j, p, f), Detail(k, q, g))
    BY DEF Differs
  <2>2. Accepts(j, m, p) /\ Accepts(k, n, q)
    BY <1>5
  <2> HIDE DEF j, p, f, k, q, g, m, n
  <2>3. x.area = "report" /\ f # g
    BY <1>1, <1>2, <1>3, <1>4, <2>1, <2>2, LooksAgree
  <2> QED
    BY <2>3 DEF g
<1>8. f # Fault => f = "recorded" /\ DesignEdited
  BY <1>6 DEF Fault
<1> QED
  BY <1>7, <1>8

\* Everything a request shows is backed, at every moment of every interleaving of the
\* pipelines, the worker, the edits of the design and the reads of the request.  The level of a
\* revision (_achieved_evidence) is one its stages reached, with the report of each gate passed
\* among its artifacts and a worker that ended in success behind it; the status "completed"
\* comes with the package and its warnings; no file is shown as verified, or served, that
\* is not as it was recorded; and comparing the answer with any later one
\* (compare_revision_details) finds nothing removed or changed, except the reports of a design
\* that was edited after it was shown.
THEOREM ShownClaimsAreBacked == Spec => []ClaimsAreBacked
<1> DEFINE Inv == /\ Shelf /\ Requests /\ Evidenced /\ Backed
                  /\ \A r \in Reader : Seen(reader[r])
<1>1. Init => Inv
  <2> SUFFICES ASSUME Init PROVE Inv
    OBVIOUS
  <2>1. \A r \in Reader : Seen(reader[r])
    BY DEF Init, Waiting, Seen
  <2>2. Requests
    BY WaitingIsFine DEF Init, Requests
  <2> QED
    BY <2>1, <2>2, InitShelf, InitEvidenced, InitBacked
<1>2. Place /\ Inv /\ [Next]_vars => Inv'
  <2> SUFFICES ASSUME Place, Inv, [Next]_vars PROVE Inv'
    OBVIOUS
  <2>1. Shelf' /\ Requests' /\ Evidenced' /\ Backed'
    BY NextShelf, NextRequests, NextEvidenced, NextBacked
  <2>2. \A r \in Reader : Seen(reader[r])'
    BY NextSeen
  <2> QED
    BY <2>1, <2>2
<1>3. Place /\ Inv => ClaimsAreBacked
  <2> SUFFICES ASSUME Place, Inv, NEW r \in Reader, reader[r].pc = "shown"
               PROVE  LET j == reader[r].journey
                          p == reader[r].package
                          fault == reader[r].fault
                      IN /\ LevelBorneOut(j, fault) /\ PackageBorneOut(j, p, fault)
                         /\ ContentBorneOut(j, p, fault) /\ ShownStays(j, p, fault)
    BY DEF ClaimsAreBacked
  <2>1. reader[r].package \in Package \cup {None} /\ reader[r].fault \in Edits \cup {"recorded"}
    BY DEF Requests, Request
  <2>2. /\ Sealed(reader[r].journey) /\ Claims(reader[r].journey, cad)
        /\ Accepts(reader[r].journey, reader[r].manifest, reader[r].package)
    BY DEF Seen, WasOnDisk
  <2>3. ShownStays(reader[r].journey, reader[r].package, reader[r].fault)
    BY LookStays
  <2> QED
    BY <2>1, <2>2, <2>3, LevelIsBorneOut, PackageIsBorneOut, ContentIsBorneOut
<1> HIDE DEF Inv
<1> QED
  BY <1>1, <1>2, <1>3, AlwaysPlace, PTL DEF Spec
=============================================================================
