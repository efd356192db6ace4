------------------------- MODULE JourneyReaderProofs -------------------------
(* Proofs about JourneyReader: what is on disk only grows, climbs the ladder of *)
(* evidence, can be read again, and is shown by no request but as it was        *)
(* published.                                                                   *)
EXTENDS JourneyReader, FiniteSetTheorems, TLAPS

-----------------------------------------------------------------------------
(* Readings of the clock                                                        *)

\* Whatever the next readings are, they are numbers and do not go back.
LEMMA StampsAscend ==
  ASSUME clock \in Nat, NEW n \in Nat, NEW t \in Stamps(n)
  PROVE  /\ t \in [1..n -> Nat]
         /\ \A i \in 1..n : t[i] >= clock
         /\ \A i, k \in 1..n : i <= k => t[i] <= t[k]
<1> DEFINE Later(before, i) == {late \in clock + 1..MaxTime : before[late] < i}
<1>1. PICK before \in [clock + 1..MaxTime -> 0..n] :
        t = [i \in 1..n |-> clock + Cardinality(Later(before, i))]
  BY DEF Stamps
<1>2. ASSUME NEW i \in 1..n
      PROVE  IsFiniteSet(Later(before, i)) /\ Cardinality(Later(before, i)) \in Nat
  <2>1. clock + 1 \in Int /\ MaxTime \in Int
    BY PipelineAssumption
  <2>2. IsFiniteSet(clock + 1..MaxTime)
    BY <2>1, FS_Interval
  <2>3. Later(before, i) \subseteq clock + 1..MaxTime
    OBVIOUS
  <2>4. IsFiniteSet(Later(before, i))
    BY <2>2, <2>3, FS_Subset
  <2> QED
    BY <2>4, FS_CardinalityType
<1>3. ASSUME NEW i \in 1..n, NEW k \in 1..n, i <= k
      PROVE  Cardinality(Later(before, i)) <= Cardinality(Later(before, k))
  <2>1. Later(before, i) \subseteq Later(before, k)
    <3> SUFFICES ASSUME NEW late \in clock + 1..MaxTime, before[late] < i
                 PROVE  before[late] < k
      OBVIOUS
    <3>1. before[late] \in 0..n
      OBVIOUS
    <3> QED
      BY <3>1, <1>3
  <2>2. IsFiniteSet(Later(before, k))
    BY <1>2
  <2> QED
    BY <2>1, <2>2, FS_Subset
<1> HIDE DEF Later
<1>4. \A i \in 1..n : t[i] = clock + Cardinality(Later(before, i))
  BY <1>1
<1>5. t \in [1..n -> Nat]
  <2>1. \A i \in 1..n : clock + Cardinality(Later(before, i)) \in Nat
    BY <1>2
  <2> QED
    BY <1>1, <2>1
<1>6. ASSUME NEW i \in 1..n, NEW k \in 1..n, i <= k
      PROVE  t[i] <= t[k]
  BY <1>2, <1>3, <1>4, <1>6
<1> QED
  BY <1>2, <1>4, <1>5, <1>6

-----------------------------------------------------------------------------
(* What the operations do to a journey                                          *)

\* Everything a journey holds besides its runs is still there.
Prefix(s, p) == Len(p) <= Len(s) /\ \A i \in 1..Len(p) : s[i] = p[i]

Holds(k, j) ==
  /\ k \in FabricationJourney
  /\ k.created = j.created /\ k.revision = j.revision
  /\ Prefix(k.events, j.events)
  /\ j.artifacts \subseteq k.artifacts /\ j.findings \subseteq k.findings

\* The last run has come to a status and a level; it is no other run, and those
\* before it are as they were.
Carries(k, j, status, level) ==
  /\ Holds(k, j)
  /\ Len(k.runs) = Len(j.runs) /\ Len(j.runs) > 0
  /\ \A i \in 1..Len(j.runs) - 1 : k.runs[i] = j.runs[i]
  /\ Last(k).stage = Last(j).stage /\ Last(k).owned = Last(j).owned
  /\ Last(k).status = status /\ Last(k).level = level

\* A run was added.
Adds(k, j, stage, status) ==
  /\ Holds(k, j)
  /\ Len(k.runs) = Len(j.runs) + 1
  /\ \A i \in 1..Len(j.runs) : k.runs[i] = j.runs[i]
  /\ Last(k).stage = stage /\ (Last(k).owned <=> j.revision # None)
  /\ Last(k).status = status /\ Last(k).level = None

\* A journey whose last run can be worked on.
Open(j) == j \in FabricationJourney /\ Len(j.runs) > 0

LEMMA NoneFacts ==
  /\ \A n \in Nat : n # None
  /\ \A j \in FabricationJourney : j # None
  /\ \A m \in ArtifactManifest : m # None
  /\ \A p \in Package : p # None
BY NoneAssumption, PackageAssumption

LEMMA JourneyParts ==
  ASSUME NEW j \in FabricationJourney
  PROVE  /\ j.status \in JobStatus /\ j.created \in Nat /\ j.updated \in Nat
         /\ j.revision \in Nat \cup {None}
         /\ j.runs \in Seq(StageRun) /\ Len(j.runs) \in Nat
         /\ j.events \in Seq(StageEvent) /\ Len(j.events) \in Nat
         /\ j.artifacts \subseteq Artifact /\ j.findings \subseteq Finding
         /\ \A i \in 1..Len(j.runs) : j.runs[i] \in StageRun
BY DEF FabricationJourney

LEMMA LastRun ==
  ASSUME NEW j, Open(j)
  PROVE  Last(j) \in StageRun /\ Len(j.runs) \in Nat \ {0}
BY JourneyParts DEF Open, Last

LEMMA HoldsStays ==
  ASSUME NEW k, NEW j, NEW m, Holds(k, j), Holds(m, k), j \in FabricationJourney
  PROVE  Holds(m, j)
<1>1. /\ Len(j.events) \in Nat /\ Len(k.events) \in Nat /\ Len(m.events) \in Nat
  BY JourneyParts DEF Holds
<1> QED
  BY <1>1 DEF Holds, Prefix

LEMMA CarriesOn ==
  ASSUME NEW j, NEW k, NEW m, Open(j), NEW s1, NEW l1, NEW s2, NEW l2,
         Carries(k, j, s1, l1), Carries(m, k, s2, l2)
  PROVE  Carries(m, j, s2, l2)
<1>1. Holds(m, j)
  BY HoldsStays DEF Carries, Open
<1>2. Len(j.runs) \in Nat
  BY JourneyParts DEF Open
<1> QED
  BY <1>1, <1>2 DEF Carries

LEMMA AddsCarries ==
  ASSUME NEW j \in FabricationJourney, NEW k, NEW m, NEW stage, NEW s1, NEW s2,
         Adds(k, j, stage, s1), Carries(m, k, s2, None)
  PROVE  Adds(m, j, stage, s2)
<1>1. Holds(m, j)
  BY HoldsStays DEF Carries, Adds
<1>2. Len(j.runs) \in Nat /\ Len(k.runs) = Len(j.runs) + 1
  BY JourneyParts DEF Adds
<1>3. \A i \in 1..Len(j.runs) : m.runs[i] = j.runs[i]
  BY <1>2 DEF Carries, Adds
<1> QED
  BY <1>1, <1>2, <1>3 DEF Carries, Adds

LEMMA CarriesOpen ==
  ASSUME NEW j, NEW k, NEW s, NEW l, Carries(k, j, s, l)
  PROVE  Open(k) /\ k \in FabricationJourney
BY DEF Carries, Holds, Open

LEMMA PrefixSelf == ASSUME NEW S, NEW s \in Seq(S) PROVE Prefix(s, s)
BY DEF Prefix

LEMMA AppendFacts ==
  ASSUME NEW S, NEW s \in Seq(S), NEW e \in S
  PROVE  /\ Append(s, e) \in Seq(S) /\ Len(Append(s, e)) = Len(s) + 1
         /\ \A i \in 1..Len(s) : Append(s, e)[i] = s[i]
         /\ Append(s, e)[Len(s) + 1] = e
         /\ Prefix(Append(s, e), s)
<1>1. Len(s) \in Nat /\ Append(s, e) \in Seq(S) /\ Len(Append(s, e)) = Len(s) + 1
  OBVIOUS
<1>2. \A i \in 1..Len(s) : Append(s, e)[i] = s[i]
  OBVIOUS
<1>3. Append(s, e)[Len(s) + 1] = e
  OBVIOUS
<1> QED
  BY <1>1, <1>2, <1>3 DEF Prefix

\* An operation that leaves the runs carries the last one on as it is.
LEMMA SameRuns ==
  ASSUME NEW j, NEW k, Open(j), Holds(k, j), k.runs = j.runs
  PROVE  Carries(k, j, Last(j).status, Last(j).level)
BY LastRun DEF Carries, Last

LEMMA EmitCarries ==
  ASSUME NEW j, Open(j), NEW t \in Nat
  PROVE  /\ Carries(Emit(j, t), j, Last(j).status, Last(j).level)
         /\ Emit(j, t).status = j.status
<1> DEFINE k == Emit(j, t)
           at == IF Last(j).completed # None THEN Last(j).completed ELSE t
           e == [run |-> Len(j.runs), status |-> Last(j).status, at |-> at]
<1>1. Last(j) \in StageRun /\ Len(j.runs) \in Nat
  BY LastRun
<1>2. at \in Nat
  BY <1>1 DEF StageRun
<1>3. e \in StageEvent
  <2> HIDE DEF at
  <2>1. Last(j).status \in StageStatus
    BY <1>1 DEF StageRun
  <2> QED
    BY <1>1, <1>2, <2>1 DEF StageEvent
<1>4. k = [j EXCEPT !.events = Append(j.events, e)]
  BY DEF Emit
<1> HIDE DEF e
<1>5. j \in FabricationJourney
  BY DEF Open
<1>6. Append(j.events, e) \in Seq(StageEvent) /\ Prefix(Append(j.events, e), j.events)
  BY <1>3, <1>5, JourneyParts, AppendFacts
<1>7. /\ k \in FabricationJourney /\ k.events = Append(j.events, e) /\ k.runs = j.runs
      /\ k.created = j.created /\ k.revision = j.revision /\ k.status = j.status
      /\ k.artifacts = j.artifacts /\ k.findings = j.findings
  BY <1>4, <1>5, <1>6 DEF FabricationJourney
<1>8. Holds(k, j)
  BY <1>6, <1>7 DEF Holds
<1> QED
  BY <1>7, <1>8, SameRuns

LEMMA NoteCarries ==
  ASSUME NEW j, Open(j), NEW kind \in {"error", "warning", "decision"}, NEW t \in Nat
  PROVE  /\ Carries(Note(j, kind, t), j, Last(j).status, Last(j).level)
         /\ Note(j, kind, t).status = j.status
<1> DEFINE k == Note(j, kind, t)
           f == [kind |-> kind, run |-> Len(j.runs), at |-> t]
<1>1. j \in FabricationJourney /\ Len(j.runs) \in Nat
  BY LastRun DEF Open
<1>2. f \in Finding
  BY <1>1 DEF Finding
<1>3. k = [j EXCEPT !.findings = j.findings \cup {f}]
  BY DEF Note
<1> HIDE DEF f
<1>4. j.findings \cup {f} \in SUBSET Finding
  BY <1>1, <1>2, JourneyParts
<1>5. /\ k \in FabricationJourney /\ k.events = j.events /\ k.runs = j.runs
      /\ k.created = j.created /\ k.revision = j.revision /\ k.status = j.status
      /\ k.artifacts = j.artifacts /\ k.findings = j.findings \cup {f}
  BY <1>1, <1>3, <1>4 DEF FabricationJourney
<1>6. Prefix(j.events, j.events)
  BY <1>1, JourneyParts, PrefixSelf
<1>7. Holds(k, j)
  BY <1>5, <1>6 DEF Holds
<1> QED
  BY <1>5, <1>7, SameRuns

LEMMA RecordCarries ==
  ASSUME NEW j, Open(j), NEW roles \in SUBSET Role, NEW t \in Nat
  PROVE  /\ Carries(Record(j, roles, t), j, Last(j).status, Last(j).level)
         /\ Record(j, roles, t).status = j.status
<1> DEFINE k == Record(j, roles, t)
           A == {[role |-> r, run |-> Len(j.runs), at |-> t] : r \in roles}
<1>1. j \in FabricationJourney /\ Len(j.runs) \in Nat
  BY LastRun DEF Open
<1>2. A \subseteq Artifact
  BY <1>1 DEF Artifact
<1>3. k = [j EXCEPT !.artifacts = j.artifacts \cup A]
  BY DEF Record
<1> HIDE DEF A
<1>4. j.artifacts \cup A \in SUBSET Artifact
  BY <1>1, <1>2, JourneyParts
<1>5. /\ k \in FabricationJourney /\ k.events = j.events /\ k.runs = j.runs
      /\ k.created = j.created /\ k.revision = j.revision /\ k.status = j.status
      /\ k.artifacts = j.artifacts \cup A /\ k.findings = j.findings
  BY <1>1, <1>3, <1>4 DEF FabricationJourney
<1>6. Prefix(j.events, j.events)
  BY <1>1, JourneyParts, PrefixSelf
<1>7. Holds(k, j)
  BY <1>5, <1>6 DEF Holds
<1> QED
  BY <1>5, <1>7, SameRuns

LEMMA UpdateStatusCarries ==
  ASSUME NEW j, Open(j), NEW status \in JobStatus, NEW t \in Nat
  PROVE  /\ Carries(UpdateStatus(j, status, t), j, Last(j).status, Last(j).level)
         /\ UpdateStatus(j, status, t).status = status
<1> DEFINE k == UpdateStatus(j, status, t)
<1>1. j \in FabricationJourney
  BY DEF Open
<1>2. /\ k \in FabricationJourney /\ k.events = j.events /\ k.runs = j.runs
      /\ k.created = j.created /\ k.revision = j.revision /\ k.status = status
      /\ k.artifacts = j.artifacts /\ k.findings = j.findings
  BY <1>1 DEF FabricationJourney, UpdateStatus
<1>3. Prefix(j.events, j.events)
  BY <1>1, JourneyParts, PrefixSelf
<1>4. Holds(k, j)
  BY <1>2, <1>3 DEF Holds
<1> QED
  BY <1>2, <1>4, SameRuns

\* An operation that replaces the last run by itself with another status or level.
LEMMA LastChanged ==
  ASSUME NEW j, Open(j), NEW run \in StageRun,
         run.stage = Last(j).stage, run.owned = Last(j).owned
  PROVE  LET k == [j EXCEPT !.runs[Len(j.runs)] = run]
         IN Carries(k, j, run.status, run.level) /\ k.status = j.status
<1> DEFINE k == [j EXCEPT !.runs[Len(j.runs)] = run]
           n == Len(j.runs)
           runs == [j.runs EXCEPT ![n] = run]
<1>1. j \in FabricationJourney /\ n \in Nat \ {0}
  BY LastRun DEF Open
<1>2. j.runs \in Seq(StageRun)
  BY <1>1, JourneyParts
<1>3. /\ runs \in Seq(StageRun) /\ Len(runs) = n /\ runs[n] = run
      /\ \A i \in 1..n - 1 : runs[i] = j.runs[i]
  BY <1>1, <1>2
<1>4. k = [j EXCEPT !.runs = runs]
  BY <1>1 DEF FabricationJourney
<1> HIDE DEF runs
<1>5. /\ k \in FabricationJourney /\ k.events = j.events /\ k.runs = runs
      /\ k.created = j.created /\ k.revision = j.revision /\ k.status = j.status
      /\ k.artifacts = j.artifacts /\ k.findings = j.findings
  BY <1>1, <1>3, <1>4 DEF FabricationJourney
<1>6. Prefix(j.events, j.events)
  BY <1>1, JourneyParts, PrefixSelf
<1>7. Holds(k, j)
  BY <1>5, <1>6 DEF Holds
<1>8. Last(k) = run
  BY <1>3, <1>5 DEF Last
<1>9. Carries(k, j, run.status, run.level)
  BY <1>1, <1>3, <1>5, <1>7, <1>8 DEF Carries
<1> QED
  BY <1>5, <1>9

LEMMA SetInputsCarries ==
  ASSUME NEW j, Open(j), NEW roles \in SUBSET Role
  PROVE  /\ Carries(SetInputs(j, roles), j, Last(j).status, Last(j).level)
         /\ SetInputs(j, roles).status = j.status
<1> DEFINE run == [Last(j) EXCEPT !.inputs = roles]
<1>1. Last(j) \in StageRun /\ Len(j.runs) \in Nat \ {0} /\ j \in FabricationJourney
  BY LastRun DEF Open
<1>2. /\ run \in StageRun /\ run.stage = Last(j).stage /\ run.owned = Last(j).owned
      /\ run.status = Last(j).status /\ run.level = Last(j).level
  BY <1>1 DEF StageRun
<1>3. SetInputs(j, roles) = [j EXCEPT !.runs[Len(j.runs)] = run]
  BY DEF SetInputs, Last
<1> HIDE DEF run
<1> QED
  BY <1>2, <1>3, LastChanged

LEMMA TransitionCarries ==
  ASSUME NEW j, Open(j), NEW status \in StageStatus, NEW level \in Nat \cup {None}, NEW t \in Nat,
         NEW l, l = IF level = None THEN Last(j).level ELSE level
  PROVE  /\ Carries(Transition(j, status, level, t), j, status, l)
         /\ Transition(j, status, level, t).status = j.status
<1> DEFINE started == IF status = "running" /\ Last(j).started = None THEN t ELSE Last(j).started
           completed == IF status \in {"running", "needs_input"} THEN None ELSE t
           run == [Last(j) EXCEPT !.status = status, !.level = l, !.started = started,
                                  !.completed = completed]
<1>1. Last(j) \in StageRun /\ Len(j.runs) \in Nat \ {0} /\ j \in FabricationJourney
  BY LastRun DEF Open
<1>2. /\ l \in Nat \cup {None} /\ started \in Nat \cup {None}
      /\ completed \in Nat \cup {None}
  BY <1>1 DEF StageRun
<1>3. Transition(j, status, level, t) = [j EXCEPT !.runs[Len(j.runs)] = run]
  BY DEF Transition, Last
<1> HIDE DEF started, completed
<1>4. /\ run \in StageRun /\ run.stage = Last(j).stage /\ run.owned = Last(j).owned
      /\ run.status = status /\ run.level = l
  BY <1>1, <1>2 DEF StageRun
<1> HIDE DEF run
<1> QED
  BY <1>3, <1>4, LastChanged

\* Without a level of its own, a transition leaves the one there is.
LEMMA MoveCarries ==
  ASSUME NEW j, Open(j), NEW status \in StageStatus, NEW t \in Nat
  PROVE  /\ Carries(Transition(j, status, None, t), j, status, Last(j).level)
         /\ Transition(j, status, None, t).status = j.status
<1> DEFINE l == Last(j).level
<1>1. l = IF None = None THEN Last(j).level ELSE None
  OBVIOUS
<1> HIDE DEF l
<1>2. None \in Nat \cup {None}
  OBVIOUS
<1>3. /\ Carries(Transition(j, status, None, t), j, status, l)
      /\ Transition(j, status, None, t).status = j.status
  BY <1>1, <1>2, TransitionCarries, Zenon
<1> QED
  BY <1>3 DEF l

LEMMA RaiseCarries ==
  ASSUME NEW j, Open(j), NEW status \in StageStatus, NEW level \in Nat, NEW t \in Nat
  PROVE  /\ Carries(Transition(j, status, level, t), j, status, level)
         /\ Transition(j, status, level, t).status = j.status
<1>1. level \in Nat \cup {None} /\ level # None
  BY NoneFacts
<1>2. level = IF level = None THEN Last(j).level ELSE level
  BY <1>1
<1> QED
  BY <1>1, <1>2, TransitionCarries, Zenon

LEMMA AddStageRunAdds ==
  ASSUME NEW j \in FabricationJourney, NEW stage \in FabricationStage, NEW attempt \in Nat
  PROVE  /\ Adds(AddStageRun(j, stage, attempt), j, stage, "waiting")
         /\ AddStageRun(j, stage, attempt).status = j.status
<1> DEFINE k == AddStageRun(j, stage, attempt)
           run == [stage |-> stage, attempt |-> attempt, owned |-> j.revision # None,
                   status |-> "waiting", level |-> None, started |-> None, completed |-> None,
                   inputs |-> {}]
<1>1. run \in StageRun
  BY DEF StageRun, StageStatus
<1>2. k = [j EXCEPT !.runs = Append(j.runs, run)]
  BY DEF AddStageRun
<1>3. /\ run.stage = stage /\ (run.owned <=> j.revision # None) /\ run.status = "waiting"
      /\ run.level = None
  OBVIOUS
<1> HIDE DEF run
<1>4. j.runs \in Seq(StageRun) /\ Len(j.runs) \in Nat
  BY JourneyParts
<1>5. /\ Append(j.runs, run) \in Seq(StageRun) /\ Len(Append(j.runs, run)) = Len(j.runs) + 1
      /\ \A i \in 1..Len(j.runs) : Append(j.runs, run)[i] = j.runs[i]
      /\ Append(j.runs, run)[Len(j.runs) + 1] = run
  BY <1>1, <1>4, AppendFacts
<1>6. /\ k \in FabricationJourney /\ k.events = j.events /\ k.runs = Append(j.runs, run)
      /\ k.created = j.created /\ k.revision = j.revision /\ k.status = j.status
      /\ k.artifacts = j.artifacts /\ k.findings = j.findings
  BY <1>2, <1>5 DEF FabricationJourney
<1>7. Prefix(j.events, j.events)
  BY JourneyParts, PrefixSelf
<1>8. Holds(k, j)
  BY <1>6, <1>7 DEF Holds
<1>9. Last(k) = run
  BY <1>5, <1>6 DEF Last
<1> QED
  BY <1>3, <1>4, <1>5, <1>6, <1>8, <1>9 DEF Adds

-----------------------------------------------------------------------------
(* What the stages do to a journey                                              *)

LEMMA StartStageAdds ==
  ASSUME NEW j \in FabricationJourney, NEW stage \in FabricationStage, NEW attempt \in Nat,
         NEW inputs \in SUBSET Role, NEW t, t[1] \in Nat, t[2] \in Nat, t[3] \in Nat
  PROVE  LET k == StartStage(j, stage, attempt, inputs, t)
         IN Adds(k, j, stage, "running") /\ k.status = j.status
<1> DEFINE a == AddStageRun(j, stage, attempt)
           b == SetInputs(a, inputs)
           c == Emit(b, t[1])
           d == Transition(c, "running", None, t[2])
           e == Emit(d, t[3])
<1>1. Adds(a, j, stage, "waiting") /\ a.status = j.status
  BY AddStageRunAdds
<1>2. Open(a) /\ Last(a).level = None /\ Last(a).status = "waiting"
  BY <1>1, JourneyParts DEF Adds, Holds, Open
<1> HIDE DEF a
<1>3. Carries(b, a, "waiting", None) /\ b.status = j.status
  BY <1>1, <1>2, SetInputsCarries
<1>4. Open(b) /\ Last(b).level = None /\ Last(b).status = "waiting"
  BY <1>3, CarriesOpen DEF Carries
<1> HIDE DEF b
<1>5. Carries(c, b, "waiting", None) /\ c.status = j.status
  BY <1>3, <1>4, EmitCarries
<1>6. Open(c) /\ Last(c).level = None
  BY <1>5, CarriesOpen DEF Carries
<1> HIDE DEF c
<1>7. Carries(d, c, "running", None) /\ d.status = j.status
  <2>1. "running" \in StageStatus
    BY DEF StageStatus
  <2> QED
    BY <2>1, <1>5, <1>6, MoveCarries
<1>8. Open(d) /\ Last(d).level = None /\ Last(d).status = "running"
  BY <1>7, CarriesOpen DEF Carries
<1> HIDE DEF d
<1>9. Carries(e, d, "running", None) /\ e.status = j.status
  BY <1>7, <1>8, EmitCarries
<1> HIDE DEF e
<1>10. Adds(b, j, stage, "waiting")
  BY <1>1, <1>3, AddsCarries
<1>11. Adds(c, j, stage, "waiting")
  BY <1>10, <1>5, AddsCarries
<1>12. Adds(d, j, stage, "running")
  BY <1>11, <1>7, AddsCarries
<1>13. Adds(e, j, stage, "running")
  BY <1>12, <1>9, AddsCarries
<1>14. e = StartStage(j, stage, attempt, inputs, t)
  BY DEF StartStage, a, b, c, d, e
<1> QED
  BY <1>9, <1>13, <1>14

\* The end of a stage: a transition, its event and, for most, a new status of the job.
LEMMA EmittedCarries ==
  ASSUME NEW j, Open(j), NEW k, NEW s, NEW l, Carries(k, j, s, l), NEW t \in Nat
  PROVE  Carries(Emit(k, t), j, s, l) /\ Emit(k, t).status = k.status
<1>1. Open(k) /\ Last(k).status = s /\ Last(k).level = l
  BY CarriesOpen DEF Carries
<1>2. Carries(Emit(k, t), k, s, l) /\ Emit(k, t).status = k.status
  BY <1>1, EmitCarries
<1> QED
  BY <1>2, CarriesOn

LEMMA EndCarries ==
  ASSUME NEW j, Open(j), NEW status \in StageStatus, NEW t1 \in Nat, NEW t2 \in Nat
  PROVE  LET k == Emit(Transition(j, status, None, t1), t2)
         IN Carries(k, j, status, Last(j).level) /\ k.status = j.status
BY MoveCarries, EmittedCarries

LEMMA SettledCarries ==
  ASSUME NEW j, Open(j), NEW k, NEW s, NEW l, Carries(k, j, s, l),
         NEW job \in JobStatus, NEW t \in Nat
  PROVE  Carries(UpdateStatus(k, job, t), j, s, l) /\ UpdateStatus(k, job, t).status = job
<1>1. Open(k) /\ Last(k).status = s /\ Last(k).level = l
  BY CarriesOpen DEF Carries
<1>2. Carries(UpdateStatus(k, job, t), k, s, l) /\ UpdateStatus(k, job, t).status = job
  BY <1>1, UpdateStatusCarries
<1> QED
  BY <1>2, CarriesOn

LEMMA EndJobCarries ==
  ASSUME NEW j, Open(j), NEW status \in StageStatus, NEW job \in JobStatus,
         NEW t1 \in Nat, NEW t2 \in Nat, NEW t3 \in Nat
  PROVE  LET k == UpdateStatus(Emit(Transition(j, status, None, t1), t2), job, t3)
         IN Carries(k, j, status, Last(j).level) /\ k.status = job
BY EndCarries, SettledCarries

\* The stage, and with it the job, fails or asks.
LEMMA StopCarries ==
  ASSUME NEW j, Open(j), NEW status \in {"failed", "needs_input"},
         NEW t1 \in Nat, NEW t2 \in Nat, NEW t3 \in Nat
  PROVE  LET k == UpdateStatus(Emit(Transition(j, status, None, t1), t2), status, t3)
         IN Carries(k, j, status, Last(j).level) /\ k.status = status
<1>1. status \in StageStatus /\ status \in JobStatus
  BY DEF StageStatus, JobStatus
<1> QED
  BY <1>1, EndJobCarries

LEMMA AskCarries ==
  ASSUME NEW j, Open(j), NEW t1 \in Nat, NEW t2 \in Nat, NEW t3 \in Nat
  PROVE  LET k == UpdateStatus(Emit(Transition(j, "needs_input", None, t1), t2), "needs_input", t3)
         IN Carries(k, j, "needs_input", Last(j).level) /\ k.status = "needs_input"
<1> DEFINE status == "needs_input"
<1>1. status \in {"failed", "needs_input"}
  OBVIOUS
<1> HIDE DEF status
<1>2. LET k == UpdateStatus(Emit(Transition(j, status, None, t1), t2), status, t3)
      IN Carries(k, j, status, Last(j).level) /\ k.status = status
  BY <1>1, StopCarries
<1> QED
  BY <1>2 DEF status

LEMMA FailCarries ==
  ASSUME NEW j, Open(j), NEW t1 \in Nat, NEW t2 \in Nat, NEW t3 \in Nat
  PROVE  LET k == UpdateStatus(Emit(Transition(j, "failed", None, t1), t2), "failed", t3)
         IN Carries(k, j, "failed", Last(j).level) /\ k.status = "failed"
<1> DEFINE status == "failed"
<1>1. status \in {"failed", "needs_input"}
  OBVIOUS
<1> HIDE DEF status
<1>2. LET k == UpdateStatus(Emit(Transition(j, status, None, t1), t2), status, t3)
      IN Carries(k, j, status, Last(j).level) /\ k.status = status
  BY <1>1, StopCarries
<1> QED
  BY <1>2 DEF status

LEMMA PassStageCarries ==
  ASSUME NEW j, Open(j), NEW warned, NEW level \in Nat, NEW job \in JobStatus, NEW t,
         t[1] \in Nat, t[2] \in Nat, t[3] \in Nat
  PROVE  LET k == PassStage(j, warned, level, job, t)
         IN \E status \in Successful : Carries(k, j, status, level) /\ k.status = job
<1> DEFINE status == IF warned THEN "passed_with_warnings" ELSE "passed"
<1>1. status \in Successful /\ status \in StageStatus
  BY DEF Successful, StageStatus
<1>2. PassStage(j, warned, level, job, t) =
        UpdateStatus(Emit(Transition(j, status, level, t[1]), t[2]), job, t[3])
  BY DEF PassStage
<1> HIDE DEF status
<1>3. Carries(Transition(j, status, level, t[1]), j, status, level)
  BY <1>1, RaiseCarries
<1>4. Carries(Emit(Transition(j, status, level, t[1]), t[2]), j, status, level)
  BY <1>3, EmittedCarries
<1> QED
  BY <1>1, <1>2, <1>4, SettledCarries

LEMMA FailStageCarries ==
  ASSUME NEW j, Open(j), NEW t, t[1] \in Nat, t[2] \in Nat, t[3] \in Nat, t[4] \in Nat
  PROVE  LET k == FailStage(j, t)
         IN Carries(k, j, "failed", Last(j).level) /\ k.status = "failed"
<1> DEFINE a == Note(j, "error", t[1])
           k == UpdateStatus(Emit(Transition(a, "failed", None, t[2]), t[3]), "failed", t[4])
<1>1. Carries(a, j, Last(j).status, Last(j).level)
  BY NoteCarries
<1>2. Open(a) /\ Last(a).level = Last(j).level
  BY <1>1, CarriesOpen DEF Carries
<1> HIDE DEF a
<1>3. Carries(k, a, "failed", Last(j).level) /\ k.status = "failed"
  <2>1. "failed" \in StageStatus /\ "failed" \in JobStatus
    BY DEF StageStatus, JobStatus
  <2>2. Carries(Transition(a, "failed", None, t[2]), a, "failed", Last(j).level)
    BY <2>1, <1>2, MoveCarries
  <2>3. Carries(Emit(Transition(a, "failed", None, t[2]), t[3]), a, "failed", Last(j).level)
    BY <2>2, <1>2, EmittedCarries
  <2> QED
    BY <2>1, <2>3, <1>2, SettledCarries
<1>4. Carries(k, j, "failed", Last(j).level)
  BY <1>1, <1>3, CarriesOn
<1>5. FailStage(j, t) = k
  BY DEF FailStage, a, k
<1> QED
  BY <1>3, <1>4, <1>5

LEMMA NoteIfCarries ==
  ASSUME NEW j, Open(j), NEW condition \in BOOLEAN, NEW kind \in {"error", "warning", "decision"},
         NEW t \in Nat
  PROVE  LET k == NoteIf(condition, j, kind, t)
         IN Carries(k, j, Last(j).status, Last(j).level) /\ k.status = j.status
<1>1. CASE condition
  BY <1>1, NoteCarries DEF NoteIf
<1>2. CASE ~condition
  <2>1. j \in FabricationJourney /\ Prefix(j.events, j.events)
    BY JourneyParts, PrefixSelf DEF Open
  <2>2. Holds(j, j)
    BY <2>1 DEF Holds
  <2> QED
    BY <1>2, <2>2, SameRuns DEF NoteIf
<1> QED
  BY <1>1, <1>2

\* A chain of operations that leave status and level of the last run.
Works(k, j) == Carries(k, j, Last(j).status, Last(j).level) /\ k.status = j.status

LEMMA WorksOn ==
  ASSUME NEW j, NEW k, NEW m, Open(j), Works(k, j), Works(m, k)
  PROVE  Works(m, j)
<1>1. Last(k).status = Last(j).status /\ Last(k).level = Last(j).level
  BY DEF Works, Carries
<1> QED
  BY <1>1, CarriesOn DEF Works

LEMMA WorksOpen == ASSUME NEW j, NEW k, Works(k, j) PROVE Open(k)
BY CarriesOpen DEF Works

\* What is done to a stage that works, and then ends, is done to the stage.
LEMMA WorksThenCarries ==
  ASSUME NEW j, NEW k, NEW m, Open(j), Works(k, j), NEW s, NEW l, Carries(m, k, s, l)
  PROVE  Carries(m, j, s, l)
BY CarriesOn DEF Works

LEMMA ReportRoles ==
  /\ {"profiles"} \subseteq Role /\ {"policy"} \subseteq Role /\ {"oriented"} \subseteq Role
  /\ {"printability_report"} \subseteq Role /\ {"control"} \subseteq Role
  /\ {"design"} \subseteq Role /\ {"geometry_report"} \subseteq Role
  /\ {"package_report"} \subseteq Role /\ RequiredRole \subseteq Role
  /\ SliceInput \subseteq Role /\ AttemptRole \subseteq Role /\ SlicerRole \subseteq Role
BY DEF Role, RequiredRole, SliceInput

LEMMA AssessedWorks ==
  ASSUME Open(journey), NEW failed \in BOOLEAN, NEW t, \A i \in 1..6 : t[i] \in Nat
  PROVE  Works(Assessed(failed, t), journey)
<1> DEFINE j == journey
           inputs == {"profiles", "policy"}
           a == Record(j, inputs, t[1])
           b == Record(a, {"oriented"}, t[2])
           c == Record(b, {"printability_report"}, t[3])
           d == SetInputs(c, inputs \cup {"design", "geometry_report"})
           e == Emit(d, t[4])
           f == NoteIf(failed, e, "error", t[5])
           g == Note(f, "warning", t[6])
<1>0. /\ t[1] \in Nat /\ t[2] \in Nat /\ t[3] \in Nat
      /\ t[4] \in Nat /\ t[5] \in Nat /\ t[6] \in Nat
  OBVIOUS
<1> HIDE DEF j
<1>j. Open(j)
  BY DEF j
<1>1. Works(a, j) /\ Open(a)
  BY <1>0, <1>j, RecordCarries, WorksOpen, ReportRoles DEF Works
<1> HIDE DEF a
<1>2. Works(b, a) /\ Open(b)
  BY <1>0, <1>1, RecordCarries, WorksOpen, ReportRoles DEF Works
<1> HIDE DEF b
<1>3. Works(c, b) /\ Open(c)
  BY <1>0, <1>2, RecordCarries, WorksOpen, ReportRoles DEF Works
<1> HIDE DEF c
<1>4. Works(d, c) /\ Open(d)
  BY <1>3, SetInputsCarries, WorksOpen, ReportRoles DEF Works
<1> HIDE DEF d
<1>5. Works(e, d) /\ Open(e)
  BY <1>0, <1>4, EmitCarries, WorksOpen DEF Works
<1> HIDE DEF e
<1>6. Works(f, e) /\ Open(f)
  BY <1>0, <1>5, NoteIfCarries, WorksOpen DEF Works
<1> HIDE DEF f
<1>7. Works(g, f)
  BY <1>0, <1>6, NoteCarries, WorksOpen DEF Works
<1> HIDE DEF g
<1>8. Works(g, j)
  BY <1>j, <1>1, <1>2, <1>3, <1>4, <1>5, <1>6, <1>7, WorksOn
<1>9. g = Assessed(failed, t)
  BY DEF Assessed, a, b, c, d, e, f, g, j
<1> QED
  BY <1>8, <1>9 DEF j

LEMMA SlicerGateWorks ==
  ASSUME Open(journey), NEW gate, gate.blocked \in BOOLEAN, gate.advised \in BOOLEAN, NEW t,
         \A i \in 1..5 : t[i] \in Nat
  PROVE  Works(SlicerGate(gate, t), journey)
<1> DEFINE j == journey
           a == Record(j, RecordedUpTo(4), t[1])
           b == Record(a, AllFiles \ RecordedUpTo(4), t[2])
           c == NoteIf(gate.advised, b, "warning", t[3])
           d == NoteIf(gate.blocked, c, "error", t[4])
           e == Emit(d, t[5])
<1>0. /\ t[1] \in Nat /\ t[2] \in Nat /\ t[3] \in Nat /\ t[4] \in Nat /\ t[5] \in Nat
  OBVIOUS
<1>r. RecordedUpTo(4) \subseteq Role /\ AllFiles \subseteq Role
  <2>1. \A i \in 1..6 : RecordOrder[i] \in Role
    BY DEF RecordOrder, Role, SlicerRole, LogRole
  <2>2. Len(RecordOrder) = 6
    BY DEF RecordOrder
  <2> QED
    BY <2>1, <2>2 DEF RecordedUpTo, AllFiles
<1> HIDE DEF j
<1>j. Open(j)
  BY DEF j
<1>1. Works(a, j) /\ Open(a)
  BY <1>0, <1>j, <1>r, RecordCarries, WorksOpen DEF Works
<1> HIDE DEF a
<1>2. Works(b, a) /\ Open(b)
  BY <1>0, <1>1, <1>r, RecordCarries, WorksOpen DEF Works
<1> HIDE DEF b
<1>3. Works(c, b) /\ Open(c)
  BY <1>0, <1>2, NoteIfCarries, WorksOpen DEF Works
<1> HIDE DEF c
<1>4. Works(d, c) /\ Open(d)
  BY <1>0, <1>3, NoteIfCarries, WorksOpen DEF Works
<1> HIDE DEF d
<1>5. Works(e, d)
  BY <1>0, <1>4, EmitCarries, WorksOpen DEF Works
<1> HIDE DEF e
<1>6. Works(e, j)
  BY <1>j, <1>1, <1>2, <1>3, <1>4, <1>5, WorksOn
<1>7. e = SlicerGate(gate, t)
  BY DEF SlicerGate, a, b, c, d, e, j
<1> QED
  BY <1>6, <1>7 DEF j

\* Geometry of the first revision: the last run is the journey's own from now on.
LEMMA AddRevisionRuns ==
  ASSUME NEW j, Open(j), NEW t \in Nat
  PROVE  LET k == AddRevision(j, t)
         IN /\ Open(k) /\ k.status = j.status /\ k.revision = t /\ k.events = j.events
            /\ Len(k.runs) = Len(j.runs)
            /\ \A i \in 1..Len(j.runs) :
                 /\ k.runs[i].stage = j.runs[i].stage /\ k.runs[i].status = j.runs[i].status
                 /\ k.runs[i].level = j.runs[i].level
<1> DEFINE n == Len(j.runs)
           run == [Last(j) EXCEPT !.owned = TRUE]
           runs == [j.runs EXCEPT ![n] = run]
           k == AddRevision(j, t)
<1>1. Last(j) \in StageRun /\ n \in Nat \ {0} /\ j \in FabricationJourney
  BY LastRun DEF Open
<1>2. /\ run \in StageRun /\ run.stage = Last(j).stage /\ run.status = Last(j).status
      /\ run.level = Last(j).level
  BY <1>1 DEF StageRun
<1>3. k = [j EXCEPT !.revision = t, !.updated = t, !.runs = runs]
  BY DEF AddRevision, Last
<1> HIDE DEF run
<1>4. j.runs \in Seq(StageRun)
  BY <1>1, JourneyParts
<1>5. /\ runs \in Seq(StageRun) /\ Len(runs) = n /\ runs[n] = run
      /\ \A i \in 1..n - 1 : runs[i] = j.runs[i]
  BY <1>1, <1>2, <1>4
<1> HIDE DEF runs
<1>6. /\ k \in FabricationJourney /\ k.status = j.status /\ k.revision = t /\ k.events = j.events
      /\ k.runs = runs
  BY <1>1, <1>3, <1>5 DEF FabricationJourney
<1> QED
  BY <1>1, <1>2, <1>5, <1>6 DEF Open, Last

-----------------------------------------------------------------------------
(* How far a journey has come                                                   *)

\* The highest level claimed by a run that succeeded, -1 for none.
Top(j, n) ==
  /\ \A i \in 1..Len(j.runs) : j.runs[i].status \in Successful => j.runs[i].level \in 0..n
  /\ n = -1 \/ \E i \in 1..Len(j.runs) :
                 j.runs[i].status \in Successful /\ j.runs[i].level = n

BriefOnly(j) == \A i \in 1..Len(j.runs) : j.runs[i].stage = "brief"

\* It has a run of the slicing pipeline.
Printed(j) ==
  \E i \in 1..Len(j.runs) : j.runs[i].owned /\ j.runs[i].stage = "printability_validation"

\* It holds all of an old one and a run more.
Grown(j, old) ==
  /\ Holds(j, old) /\ Prefix(j.runs, old.runs)
  /\ Len(old.runs) < Len(j.runs) /\ j.runs[Len(old.runs) + 1].owned

LEMMA RunsDomain ==
  ASSUME NEW j \in FabricationJourney
  PROVE  DOMAIN j.runs = 1..Len(j.runs)
BY JourneyParts

LEMMA PrintedIsRun ==
  ASSUME NEW j \in FabricationJourney
  PROVE  Printed(j) <=> HasRun(j, {"printability_validation"})
BY RunsDomain DEF Printed, HasRun, OwnedRuns

LEMMA MovesFromRunning ==
  ASSUME NEW j, Open(j), NEW status \in {"passed", "failed", "needs_input"},
         CanTransition(j, status)
  PROVE  Last(j).status = "running"
<1>1. Last(j).status \in StageStatus
  BY LastRun DEF StageRun
<1> QED
  BY <1>1 DEF CanTransition, AllowedTransitions, Successful, StageStatus

LEMMA TopCarries ==
  ASSUME NEW j, Open(j), NEW n \in -1..4, Top(j, n), Last(j).status \notin Successful,
         NEW k, NEW status, NEW level, status \notin Successful, Carries(k, j, status, level)
  PROVE  Top(k, n)
<1>1. Len(j.runs) \in Nat \ {0} /\ Len(k.runs) = Len(j.runs)
  BY LastRun DEF Carries
<1>2. \A i \in 1..Len(j.runs) - 1 : k.runs[i] = j.runs[i]
  BY DEF Carries
<1>3. /\ k.runs[Len(j.runs)].status \notin Successful
      /\ j.runs[Len(j.runs)].status \notin Successful
  BY <1>1 DEF Carries, Last
<1>4. \A i \in 1..Len(j.runs) : i \in 1..Len(j.runs) - 1 \/ i = Len(j.runs)
  BY <1>1
<1> QED
  BY <1>1, <1>2, <1>3, <1>4 DEF Top

LEMMA TopPasses ==
  ASSUME NEW j, Open(j), NEW n \in -1..4, Top(j, n), Last(j).status \notin Successful,
         NEW k, NEW status \in Successful, NEW level \in 0..4, n <= level,
         Carries(k, j, status, level)
  PROVE  Top(k, level)
<1>1. Len(j.runs) \in Nat \ {0} /\ Len(k.runs) = Len(j.runs)
  BY LastRun DEF Carries
<1>2. \A i \in 1..Len(j.runs) - 1 : k.runs[i] = j.runs[i]
  BY DEF Carries
<1>3. k.runs[Len(j.runs)].status \in Successful /\ k.runs[Len(j.runs)].level = level
  BY <1>1 DEF Carries, Last
<1>4. \A i \in 1..Len(j.runs) : i \in 1..Len(j.runs) - 1 \/ i = Len(j.runs)
  BY <1>1
<1>5. \A m \in 0..n : m \in 0..level
  OBVIOUS
<1>6. level \in 0..level
  OBVIOUS
<1>7. ASSUME NEW i \in 1..Len(k.runs), k.runs[i].status \in Successful
      PROVE  k.runs[i].level \in 0..level
  BY <1>1, <1>2, <1>3, <1>4, <1>5, <1>6, <1>7 DEF Top
<1>8. Len(k.runs) \in 1..Len(k.runs)
  BY <1>1
<1> QED
  BY <1>1, <1>3, <1>7, <1>8 DEF Top

LEMMA AddedRun ==
  ASSUME NEW j \in FabricationJourney, NEW k, NEW stage, NEW status, Adds(k, j, stage, status)
  PROVE  /\ Open(k) /\ Len(j.runs) \in Nat /\ Len(k.runs) = Len(j.runs) + 1
         /\ k.runs[Len(j.runs) + 1] = Last(k)
         /\ \A i \in 1..Len(k.runs) : i \in 1..Len(j.runs) \/ i = Len(j.runs) + 1
         /\ \A i \in 1..Len(j.runs) : i \in 1..Len(k.runs)
         /\ Len(j.runs) + 1 \in 1..Len(k.runs)
<1>1. Len(j.runs) \in Nat /\ Len(k.runs) = Len(j.runs) + 1 /\ k \in FabricationJourney
  BY JourneyParts DEF Adds, Holds
<1> QED
  BY <1>1 DEF Open, Last

LEMMA TopAdds ==
  ASSUME NEW j \in FabricationJourney, NEW n \in -1..4, Top(j, n),
         NEW k, NEW stage, NEW status, status \notin Successful, Adds(k, j, stage, status)
  PROVE  Top(k, n)
<1>1. Last(k).status \notin Successful /\ \A i \in 1..Len(j.runs) : k.runs[i] = j.runs[i]
  BY DEF Adds
<1>2. /\ \A i \in 1..Len(k.runs) : i \in 1..Len(j.runs) \/ i = Len(j.runs) + 1
      /\ \A i \in 1..Len(j.runs) : i \in 1..Len(k.runs)
      /\ k.runs[Len(j.runs) + 1] = Last(k)
  BY AddedRun
<1>3. ASSUME NEW i \in 1..Len(k.runs), k.runs[i].status \in Successful
      PROVE  k.runs[i].level \in 0..n
  <2>1. i \in 1..Len(j.runs)
    BY <1>1, <1>2, <1>3
  <2> QED
    BY <1>1, <1>3, <2>1 DEF Top
<1>4. n = -1 \/ \E i \in 1..Len(k.runs) :
                 k.runs[i].status \in Successful /\ k.runs[i].level = n
  BY <1>1, <1>2 DEF Top
<1> QED
  BY <1>3, <1>4 DEF Top

LEMMA CarriedRuns ==
  ASSUME NEW j, Open(j), NEW k, NEW status, NEW level, Carries(k, j, status, level)
  PROVE  /\ Len(j.runs) \in Nat \ {0} /\ Len(k.runs) = Len(j.runs)
         /\ \A i \in 1..Len(j.runs) :
              k.runs[i].stage = j.runs[i].stage /\ k.runs[i].owned = j.runs[i].owned
<1>1. Len(j.runs) \in Nat \ {0} /\ Len(k.runs) = Len(j.runs)
  BY LastRun DEF Carries
<1>2. \A i \in 1..Len(j.runs) - 1 : k.runs[i] = j.runs[i]
  BY DEF Carries
<1>3. /\ k.runs[Len(j.runs)].stage = j.runs[Len(j.runs)].stage
      /\ k.runs[Len(j.runs)].owned = j.runs[Len(j.runs)].owned
  BY <1>1 DEF Carries, Last
<1>4. \A i \in 1..Len(j.runs) : i \in 1..Len(j.runs) - 1 \/ i = Len(j.runs)
  BY <1>1
<1> QED
  BY <1>1, <1>2, <1>3, <1>4

LEMMA StagesCarried ==
  ASSUME NEW j, Open(j), NEW k, NEW status, NEW level, Carries(k, j, status, level)
  PROVE  /\ BriefOnly(j) => BriefOnly(k)
         /\ Printed(j) <=> Printed(k)
BY CarriedRuns DEF BriefOnly, Printed

LEMMA StagesAdded ==
  ASSUME NEW j \in FabricationJourney, NEW k, NEW stage, NEW status, Adds(k, j, stage, status)
  PROVE  /\ BriefOnly(j) /\ stage = "brief" => BriefOnly(k)
         /\ Printed(j) => Printed(k)
         /\ stage # "printability_validation" => (Printed(k) => Printed(j))
         /\ stage = "printability_validation" /\ j.revision # None => Printed(k)
<1>1. /\ Last(k).stage = stage /\ (Last(k).owned <=> j.revision # None)
      /\ \A i \in 1..Len(j.runs) : k.runs[i] = j.runs[i]
  BY DEF Adds
<1> QED
  BY <1>1, AddedRun DEF BriefOnly, Printed

LEMMA BriefIsUnprinted ==
  ASSUME NEW j, BriefOnly(j)
  PROVE  ~Printed(j)
BY DEF BriefOnly, Printed

LEMMA GrownCarries ==
  ASSUME NEW old \in FabricationJourney, NEW j, Open(j), Grown(j, old),
         NEW k, NEW status, NEW level, Carries(k, j, status, level)
  PROVE  Grown(k, old)
<1>1. Holds(k, old)
  BY HoldsStays DEF Grown, Carries
<1>2. Len(old.runs) \in Nat
  BY JourneyParts
<1>3. /\ Len(j.runs) \in Nat \ {0} /\ Len(k.runs) = Len(j.runs)
      /\ \A i \in 1..Len(j.runs) : k.runs[i].owned = j.runs[i].owned
  BY CarriedRuns
<1>4. \A i \in 1..Len(j.runs) - 1 : k.runs[i] = j.runs[i]
  BY DEF Carries
<1>5. Len(old.runs) < Len(j.runs)
  BY DEF Grown
<1>6. \A i \in 1..Len(old.runs) : i \in 1..Len(j.runs) - 1
  BY <1>2, <1>3, <1>5
<1>7. Prefix(k.runs, old.runs)
  BY <1>2, <1>3, <1>4, <1>5, <1>6 DEF Grown, Prefix
<1>8. Len(old.runs) + 1 \in 1..Len(j.runs)
  BY <1>2, <1>3, <1>5
<1> QED
  BY <1>1, <1>3, <1>5, <1>7, <1>8 DEF Grown

LEMMA GrownAdds ==
  ASSUME NEW old \in FabricationJourney, NEW j \in FabricationJourney, Grown(j, old),
         NEW k, NEW stage, NEW status, Adds(k, j, stage, status)
  PROVE  Grown(k, old)
<1>1. Holds(k, old)
  BY HoldsStays DEF Grown, Adds
<1>2. Len(old.runs) \in Nat
  BY JourneyParts
<1>3. \A i \in 1..Len(j.runs) : k.runs[i] = j.runs[i]
  BY DEF Adds
<1>4. Len(old.runs) < Len(j.runs) /\ Len(j.runs) \in Nat /\ Len(k.runs) = Len(j.runs) + 1
  BY AddedRun DEF Grown
<1>5. \A i \in 1..Len(old.runs) + 1 : i \in 1..Len(j.runs)
  BY <1>2, <1>4
<1>6. Len(old.runs) + 1 \in 1..Len(old.runs) + 1 /\ \A i \in 1..Len(old.runs) : i \in 1..Len(old.runs) + 1
  BY <1>2
<1>7. Prefix(k.runs, old.runs)
  BY <1>2, <1>3, <1>4, <1>5, <1>6 DEF Grown, Prefix
<1> QED
  BY <1>1, <1>2, <1>3, <1>4, <1>5, <1>6, <1>7 DEF Grown

LEMMA GrownFromKept ==
  ASSUME NEW j \in FabricationJourney, j.revision # None,
         NEW k, NEW stage, NEW status, Adds(k, j, stage, status)
  PROVE  Grown(k, j)
<1>1. Holds(k, j) /\ Last(k).owned /\ \A i \in 1..Len(j.runs) : k.runs[i] = j.runs[i]
  BY DEF Adds
<1>2. Len(j.runs) \in Nat /\ Len(k.runs) = Len(j.runs) + 1 /\ k.runs[Len(j.runs) + 1] = Last(k)
  BY AddedRun
<1> QED
  BY <1>1, <1>2 DEF Grown, Prefix

-----------------------------------------------------------------------------
(* Where the process is, and what it has by then                                *)

Early == {"request", "draft", "spec", "confirmed", "ready", "refused", "answered"}
Designing == {"designing", "waiting", "worked", "checking"}
Slicing == {"assessing", "slicing", "packaging", "writing", "written"}
Kept == {"indexed", "briefed", "designed", "fabricated"}
Idle == {"start", "stopped", "unpackaged"}

Disk ==
  [journey : FabricationJourney \cup {None}, manifest : ArtifactManifest \cup {None},
   package : Package \cup {None}]

\* The Brief gate.
EarlyPlace(p, j) ==
  /\ Open(j) /\ BriefOnly(j)
  /\ p \in Gate => Top(j, -1)
  /\ p \in {"confirmed", "ready"} =>
       j.status = "ready_for_design" /\ j.revision # None /\ Top(j, 0)
  /\ p = "refused" => j.status # "ready_for_design"

\* The CAD pipeline: level 1 once the design is recorded.
DesignPlace(p, j) ==
  /\ Open(j) /\ j.revision # None /\ ~Printed(j)
  /\ Top(j, IF p = "checking" THEN 1 ELSE 0)

\* The slicing pipeline works on a journey that has R2 on disk.
Verified2(j) == j \in FabricationJourney /\ j.status = "geometry_verified" /\ Top(j, 2)

SliceTop(p) == CASE p = "assessing" -> 2 [] p = "slicing" -> 3 [] OTHER -> 4

SlicePlace(p, j, old) ==
  /\ Open(j) /\ j.revision # None /\ Printed(j)
  /\ Verified2(old) /\ Grown(j, old)
  /\ Top(j, SliceTop(p))

\* The verdict of a pipeline, on its way to the disk.
IndexPlace(j, old) ==
  /\ Open(j) /\ j.revision # None
  /\ IF old = None
     THEN /\ ~Printed(j)
          /\ \/ j.status = "failed" /\ (Top(j, 0) \/ Top(j, 1))
             \/ Verified2(j)
     ELSE /\ Printed(j) /\ Verified2(old) /\ Grown(j, old)
          /\ \/ j.status = "failed" /\ (Top(j, 2) \/ Top(j, 3))
             \/ j.status = "completed" /\ Top(j, 4)

\* A journey that is on disk: at most one of R2 can be worked on.
KeptPlace(p, j) ==
  /\ Open(j)
  /\ p # "briefed" =>
       /\ j.revision # None /\ j.status # "ready_for_design"
       /\ j.status = "geometry_verified" => Top(j, 2) /\ ~Printed(j)
  /\ p = "fabricated" => Printed(j)
  /\ p = "designed" => ~Printed(j)

Place ==
  /\ clock \in Nat /\ disk \in Disk
  /\ pc \in Idle \cup Early \cup Designing \cup Slicing \cup Kept \cup {"indexing"}
  /\ pc \in Early \cup Designing \cup {"start"} \/ disk.journey = None => disk = EmptyDisk
  /\ pc \in Early => EarlyPlace(pc, journey)
  /\ pc \in Designing => DesignPlace(pc, journey)
  /\ pc \in Slicing => SlicePlace(pc, journey, disk.journey)
  /\ pc = "indexing" => IndexPlace(journey, disk.journey)
  /\ pc \in Kept => journey = disk.journey /\ KeptPlace(pc, journey)

LEMMA ToEarly ==
  ASSUME Place, UNCHANGED disk, clock' \in Nat, disk = EmptyDisk,
         NEW p \in Early, pc' = p, EarlyPlace(p, journey')
  PROVE  Place'
BY DEF Place, Early, Designing, Slicing, Kept, Idle

LEMMA ToDesign ==
  ASSUME Place, UNCHANGED disk, clock' \in Nat, disk = EmptyDisk,
         NEW p \in Designing, pc' = p, DesignPlace(p, journey')
  PROVE  Place'
BY DEF Place, Early, Designing, Slicing, Kept, Idle

LEMMA ToSlice ==
  ASSUME Place, UNCHANGED disk, clock' \in Nat,
         NEW p \in Slicing, pc' = p, SlicePlace(p, journey', disk.journey)
  PROVE  Place'
BY DEF Place, Early, Designing, Slicing, Kept, Idle

LEMMA ToIndex ==
  ASSUME Place, UNCHANGED disk, clock' \in Nat, pc' = "indexing",
         IndexPlace(journey', disk.journey)
  PROVE  Place'
BY DEF Place, Early, Designing, Slicing, Kept, Idle

-----------------------------------------------------------------------------
(* The Brief gate                                                               *)

LEMMA NewJourneyFacts ==
  ASSUME NEW t \in Nat
  PROVE  /\ NewJourney(t) \in FabricationJourney /\ NewJourney(t).revision = None
         /\ BriefOnly(NewJourney(t)) /\ Top(NewJourney(t), -1)
<1>1. NewJourney(t) \in FabricationJourney
  <2>1. "active" \in JobStatus /\ << >> \in Seq(StageRun) /\ << >> \in Seq(StageEvent)
    BY DEF JobStatus
  <2> QED
    BY <2>1 DEF NewJourney, FabricationJourney
<1>2. NewJourney(t).revision = None /\ Len(NewJourney(t).runs) = 0
  BY DEF NewJourney
<1> QED
  BY <1>1, <1>2 DEF BriefOnly, Top

LEMMA NotYetSuccessful ==
  /\ "running" \notin Successful /\ "failed" \notin Successful /\ "waiting" \notin Successful
  /\ "needs_input" \notin Successful /\ "brief" \in FabricationStage
  /\ "design" \in FabricationStage /\ "geometry_validation" \in FabricationStage
  /\ "printability_validation" \in FabricationStage /\ "slicing" \in FabricationStage
  /\ "fabrication_package" \in FabricationStage
BY DEF Successful, FabricationStage

LEMMA StartBriefPlace == ASSUME Place, StartBrief PROVE Place'
<1>1. PICK t \in Stamps(4), gate \in Gate :
        Do(gate, StartStage(NewJourney(t[1]), "brief", 1, {}, [i \in 1..3 |-> t[i + 1]]), t[4])
  BY DEF StartBrief
<1>2. clock \in Nat /\ disk = EmptyDisk
  BY DEF Place, StartBrief
<1>3. t \in [1..4 -> Nat]
  BY <1>2, StampsAscend
<1> DEFINE u == [i \in 1..3 |-> t[i + 1]]
           j == NewJourney(t[1])
<1>4. u[1] \in Nat /\ u[2] \in Nat /\ u[3] \in Nat /\ t[1] \in Nat /\ t[4] \in Nat
  BY <1>3
<1>5. j \in FabricationJourney /\ BriefOnly(j) /\ Top(j, -1)
  BY <1>4, NewJourneyFacts
<1>6. pc' = gate /\ journey' = StartStage(j, "brief", 1, {}, u) /\ clock' = t[4] /\ UNCHANGED disk
  BY <1>1 DEF Do, Moves
<1> HIDE DEF u, j
<1>7. Adds(journey', j, "brief", "running")
  BY <1>4, <1>5, <1>6, StartStageAdds, NotYetSuccessful
<1>8. Open(journey') /\ BriefOnly(journey') /\ Top(journey', -1)
  BY <1>5, <1>7, AddedRun, StagesAdded, TopAdds, NotYetSuccessful
<1>9. EarlyPlace(gate, journey') /\ gate \in Early
  BY <1>8 DEF EarlyPlace, Gate, Early
<1> QED
  BY <1>2, <1>4, <1>6, <1>9, ToEarly

LEMMA ParseFailsPlace == ASSUME Place, ParseFails PROVE Place'
<1> DEFINE attempt == Last(journey).attempt
           Noted(t) == Note(journey, "error", t[1])
           Failed1(t) == Emit(Transition(Noted(t), "failed", None, t[2]), t[3])
<1>1. PICK t \in Stamps(8) :
        IF attempt < MaxAttempts
        THEN Do("request", StartStage(Emit(Failed1(t), t[4]), "brief", attempt + 1, {},
                                      [i \in 1..3 |-> t[i + 4]]), t[8])
        ELSE Do("answered", UpdateStatus(Failed1(t), "failed", t[4]), t[8])
  BY DEF ParseFails
<1>2. /\ clock \in Nat /\ disk = EmptyDisk /\ Open(journey) /\ BriefOnly(journey)
      /\ Top(journey, -1) /\ CanTransition(journey, "failed")
  BY DEF Place, ParseFails, EarlyPlace, Early, Gate
<1>3. t \in [1..8 -> Nat]
  BY <1>2, StampsAscend
<1> DEFINE u == [i \in 1..3 |-> t[i + 4]]
           n == Noted(t)
           f == Failed1(t)
           e == Emit(f, t[4])
<1>4. /\ u[1] \in Nat /\ u[2] \in Nat /\ u[3] \in Nat /\ t[1] \in Nat /\ t[2] \in Nat
      /\ t[3] \in Nat /\ t[4] \in Nat /\ t[8] \in Nat
  BY <1>3
<1>5. Works(n, journey)
  BY <1>2, <1>4, NoteCarries DEF Works
<1>6. Carries(Transition(n, "failed", None, t[2]), n, "failed", Last(n).level)
  <2>1. "failed" \in StageStatus /\ Open(n)
    BY <1>5, WorksOpen DEF StageStatus
  <2> QED
    BY <2>1, <1>4, MoveCarries
<1>7. \E level : Carries(f, journey, "failed", level) /\ Carries(e, journey, "failed", level)
             /\ Carries(UpdateStatus(f, "failed", t[4]), journey, "failed", level)
  <2>1. Open(n) /\ "failed" \in JobStatus
    BY <1>5, WorksOpen DEF JobStatus
  <2>2. Carries(f, n, "failed", Last(n).level)
    BY <1>4, <1>6, <2>1, EmittedCarries
  <2>3. Carries(f, journey, "failed", Last(n).level)
    BY <1>2, <1>5, <2>2, WorksThenCarries
  <2> HIDE DEF f
  <2>4. Carries(e, journey, "failed", Last(n).level)
    BY <1>2, <1>4, <2>3, EmittedCarries
  <2>5. Carries(UpdateStatus(f, "failed", t[4]), journey, "failed", Last(n).level)
    BY <1>2, <1>4, <2>1, <2>3, SettledCarries
  <2> QED
    BY <2>3, <2>4, <2>5
<1>8. Last(journey).status \notin Successful
  BY <1>2, MovesFromRunning, NotYetSuccessful
<1> HIDE DEF e, f, n, u
<1>9. /\ Open(e) /\ BriefOnly(e) /\ Top(e, -1)
      /\ Open(UpdateStatus(f, "failed", t[4])) /\ BriefOnly(UpdateStatus(f, "failed", t[4]))
  BY <1>2, <1>7, <1>8, CarriesOpen, StagesCarried, TopCarries, NotYetSuccessful
<1>10. CASE attempt < MaxAttempts
  <2>1. /\ journey' = StartStage(e, "brief", attempt + 1, {}, u) /\ pc' = "request"
        /\ clock' = t[8] /\ UNCHANGED disk
    BY <1>1, <1>10 DEF Do, Moves, e, f, n, u
  <2>2. attempt + 1 \in Nat /\ e \in FabricationJourney
    BY <1>2, <1>9, LastRun DEF StageRun, Open
  <2>3. Adds(journey', e, "brief", "running")
    BY <1>4, <2>1, <2>2, StartStageAdds, NotYetSuccessful
  <2>4. Open(journey') /\ BriefOnly(journey') /\ Top(journey', -1)
    BY <1>9, <2>2, <2>3, AddedRun, StagesAdded, TopAdds, NotYetSuccessful
  <2>5. EarlyPlace("request", journey') /\ "request" \in Early
    BY <2>4 DEF EarlyPlace, Early
  <2> QED
    BY <1>2, <1>4, <2>1, <2>5, ToEarly
<1>11. CASE ~(attempt < MaxAttempts)
  <2>1. /\ journey' = UpdateStatus(f, "failed", t[4]) /\ pc' = "answered"
        /\ clock' = t[8] /\ UNCHANGED disk
    BY <1>1, <1>11 DEF Do, Moves, f, n
  <2>2. EarlyPlace("answered", journey') /\ "answered" \in Early
    BY <1>9, <2>1 DEF EarlyPlace, Early, Gate
  <2> QED
    BY <1>2, <1>4, <2>1, <2>2, ToEarly
<1> QED
  BY <1>10, <1>11

LEMMA CompleteBriefPlace == ASSUME Place, CompleteBrief PROVE Place'
<1> DEFINE Parsed(t) == Emit(AddRevision(journey, t[1]), t[2])
           Decided(t, confirmed) == NoteIf(confirmed, Parsed(t), "decision", t[3])
           Warning(t, confirmed) == Note(Decided(t, confirmed), "warning", t[4])
           Asked(t, confirmed) ==
             Emit(Transition(Warning(t, confirmed), "needs_input", None, t[5]), t[6])
           Next1(p) == [request |-> "answered", draft |-> "confirmed", spec |-> "ready"][p]
<1>1. PICK t \in Stamps(7), ready \in BOOLEAN, confirmed \in BOOLEAN :
        IF ready
        THEN /\ CanTransition(journey, "passed")
             /\ Do(Next1(pc), PassStage(Decided(t, confirmed), FALSE, 0, "ready_for_design",
                                        <<t[4], t[5], t[6]>>), t[7])
        ELSE /\ CanTransition(journey, "needs_input")
             /\ Do(IF pc = "request" THEN "answered" ELSE "refused",
                   UpdateStatus(Asked(t, confirmed), "needs_input", t[7]), t[7])
  BY DEF CompleteBrief, Confirmations
<1>2. /\ clock \in Nat /\ disk = EmptyDisk /\ Open(journey) /\ BriefOnly(journey)
      /\ Top(journey, -1) /\ pc \in Gate
  BY DEF Place, CompleteBrief, EarlyPlace, Early, Gate
<1>3. t \in [1..7 -> Nat]
  BY <1>2, StampsAscend
<1>4. /\ t[1] \in Nat /\ t[2] \in Nat /\ t[3] \in Nat /\ t[4] \in Nat /\ t[5] \in Nat
      /\ t[6] \in Nat /\ t[7] \in Nat
  BY <1>3
<1> DEFINE a == AddRevision(journey, t[1])
           p == Parsed(t)
           d == Decided(t, confirmed)
           w == Warning(t, confirmed)
<1>5. /\ Open(a) /\ a.revision = t[1] /\ Last(a).status = Last(journey).status
      /\ BriefOnly(a) /\ Top(a, -1)
  <2>1. /\ Open(a) /\ a.revision = t[1] /\ Len(a.runs) = Len(journey.runs)
        /\ \A i \in 1..Len(journey.runs) :
             /\ a.runs[i].stage = journey.runs[i].stage
             /\ a.runs[i].status = journey.runs[i].status
             /\ a.runs[i].level = journey.runs[i].level
    <3> DEFINE t1 == t[1]
    <3>1. t1 \in Nat
      BY <1>4
    <3>2. a = AddRevision(journey, t1)
      OBVIOUS
    <3> HIDE DEF t1, a
    <3>3. /\ Open(a) /\ a.revision = t1 /\ Len(a.runs) = Len(journey.runs)
          /\ \A i \in 1..Len(journey.runs) :
               /\ a.runs[i].stage = journey.runs[i].stage
               /\ a.runs[i].status = journey.runs[i].status
               /\ a.runs[i].level = journey.runs[i].level
      BY <1>2, <3>1, <3>2, AddRevisionRuns
    <3> QED
      BY <3>3 DEF t1
  <2>2. Len(journey.runs) \in 1..Len(journey.runs)
    BY <1>2, LastRun
  <2> HIDE DEF a
  <2> QED
    BY <1>2, <2>1, <2>2 DEF BriefOnly, Top, Last
<1> HIDE DEF a
<1>6. Works(p, a) /\ Open(p)
  BY <1>4, <1>5, EmitCarries, WorksOpen DEF Works, a
<1> HIDE DEF p
<1>7. Works(d, p) /\ Open(d)
  BY <1>4, <1>6, NoteIfCarries, WorksOpen DEF Works, p
<1> HIDE DEF d
<1>8. Works(w, d) /\ Open(w)
  BY <1>4, <1>7, NoteCarries, WorksOpen DEF Works, d
<1> HIDE DEF w
<1>9. Works(d, a) /\ Works(w, a)
  BY <1>5, <1>6, <1>7, <1>8, WorksOn
<1>10. t[1] # None
  BY <1>4, NoneFacts
<1>11. CASE ready
  <2>1. /\ CanTransition(journey, "passed") /\ pc' = Next1(pc) /\ clock' = t[7] /\ UNCHANGED disk
        /\ journey' = PassStage(d, FALSE, 0, "ready_for_design", <<t[4], t[5], t[6]>>)
    BY <1>1, <1>11 DEF Do, Moves, d
  <2>2. "ready_for_design" \in JobStatus
    BY DEF JobStatus
  <2>3. PICK status \in Successful :
          Carries(journey', d, status, 0) /\ journey'.status = "ready_for_design"
    <3> DEFINE v == <<t[4], t[5], t[6]>>
               warned == FALSE
               level == 0
               job == "ready_for_design"
               k == PassStage(d, warned, level, job, v)
    <3>1. v[1] \in Nat /\ v[2] \in Nat /\ v[3] \in Nat /\ level \in Nat /\ job \in JobStatus
      BY <1>4, <2>2
    <3>2. journey' = k
      BY <2>1
    <3> HIDE DEF v, warned, level, job
    <3>3. \E status \in Successful : Carries(k, d, status, level) /\ k.status = job
      BY <1>7, <3>1, PassStageCarries
    <3> QED
      BY <3>2, <3>3 DEF level, job
  <2>4. Carries(journey', a, status, 0)
    BY <1>5, <1>9, <2>3, WorksThenCarries
  <2>5. Last(a).status \notin Successful
    BY <1>2, <1>5, <2>1, MovesFromRunning, NotYetSuccessful
  <2>6. Top(journey', 0) /\ Open(journey') /\ BriefOnly(journey')
    BY <1>5, <2>4, <2>5, TopPasses, CarriesOpen, StagesCarried
  <2>7. journey'.revision # None
    BY <1>5, <1>10, <2>4 DEF Carries, Holds
  <2>8. pc' \in {"answered", "confirmed", "ready"}
    BY <1>2, <2>1 DEF Gate
  <2>9. EarlyPlace(pc', journey') /\ pc' \in Early
    BY <2>3, <2>6, <2>7, <2>8 DEF EarlyPlace, Gate, Early
  <2> QED
    BY <1>2, <1>4, <2>1, <2>9, ToEarly
<1>12. CASE ~ready
  <2> DEFINE q == IF pc = "request" THEN "answered" ELSE "refused"
             k == UpdateStatus(Asked(t, confirmed), "needs_input", t[7])
  <2>1. /\ CanTransition(journey, "needs_input") /\ pc' = q /\ clock' = t[7] /\ UNCHANGED disk
        /\ journey' = k
    BY <1>1, <1>12 DEF Do, Moves
  <2>2. Carries(k, w, "needs_input", Last(w).level) /\ k.status = "needs_input"
    <3>1. k = UpdateStatus(Emit(Transition(w, "needs_input", None, t[5]), t[6]), "needs_input", t[7])
      BY DEF w
    <3> DEFINE t5 == t[5]
               t6 == t[6]
               t7 == t[7]
    <3>2. t5 \in Nat /\ t6 \in Nat /\ t7 \in Nat
      BY <1>4
    <3>3. k = UpdateStatus(Emit(Transition(w, "needs_input", None, t5), t6), "needs_input", t7)
      BY <3>1
    <3> HIDE DEF k, t5, t6, t7
    <3>4. LET m == UpdateStatus(Emit(Transition(w, "needs_input", None, t5), t6), "needs_input", t7)
          IN Carries(m, w, "needs_input", Last(w).level) /\ m.status = "needs_input"
      BY <1>8, <3>2, AskCarries
    <3> QED
      BY <3>3, <3>4
  <2> HIDE DEF k
  <2>3. Carries(k, a, "needs_input", Last(w).level)
    BY <1>5, <1>9, <2>2, WorksThenCarries
  <2>4. Open(journey') /\ BriefOnly(journey') /\ journey'.status = "needs_input"
    BY <1>5, <2>1, <2>2, <2>3, CarriesOpen, StagesCarried
  <2>5. EarlyPlace(q, journey') /\ q \in Early
    BY <2>4 DEF EarlyPlace, Gate, Early
  <2> QED
    BY <1>2, <1>4, <2>1, <2>5, ToEarly
<1> QED
  BY <1>11, <1>12

-----------------------------------------------------------------------------
(* One stage after the other                                                    *)

\* The gates of a stage are about the journey; what is done to its last run keeps the
\* revision, the stages and what is on disk.
Continues(k, j) ==
  /\ Open(k) /\ k.revision = j.revision
  /\ Printed(k) <=> Printed(j)
  /\ \A old \in FabricationJourney : Grown(j, old) => Grown(k, old)

LEMMA CarriesContinues ==
  ASSUME NEW j, Open(j), NEW k, NEW status, NEW level, Carries(k, j, status, level)
  PROVE  Continues(k, j)
<1>1. Open(k) /\ k.revision = j.revision
  BY CarriesOpen DEF Carries, Holds
<1>2. Printed(k) <=> Printed(j)
  BY StagesCarried
<1>3. \A old \in FabricationJourney : Grown(j, old) => Grown(k, old)
  BY GrownCarries
<1> QED
  BY <1>1, <1>2, <1>3 DEF Continues

LEMMA PassContinues ==
  ASSUME Open(journey), NEW n \in -1..4, Top(journey, n), CanTransition(journey, "passed"),
         NEW d, Works(d, journey), NEW warned, NEW level \in 0..4, n <= level,
         NEW job \in JobStatus, NEW v, v[1] \in Nat, v[2] \in Nat, v[3] \in Nat,
         NEW k, k = PassStage(d, warned, level, job, v)
  PROVE  Continues(k, journey) /\ Top(k, level) /\ k.status = job
<1>1. PICK status \in Successful : Carries(k, d, status, level) /\ k.status = job
  BY WorksOpen, PassStageCarries
<1>2. Carries(k, journey, status, level)
  BY <1>1, WorksThenCarries
<1>3. Last(journey).status \notin Successful
  BY MovesFromRunning, NotYetSuccessful
<1> QED
  BY <1>1, <1>2, <1>3, TopPasses, CarriesContinues

LEMMA StartContinues ==
  ASSUME NEW j, Open(j), NEW n \in -1..4, Top(j, n),
         NEW stage \in FabricationStage \ {"printability_validation"},
         NEW inputs \in SUBSET Role, NEW t, t[1] \in Nat, t[2] \in Nat, t[3] \in Nat,
         NEW k, k = StartStage(j, stage, 1, inputs, t)
  PROVE  Continues(k, j) /\ Top(k, n) /\ k.status = j.status
<1>0. j \in FabricationJourney /\ 1 \in Nat
  BY DEF Open
<1>1. Adds(k, j, stage, "running") /\ k.status = j.status
  BY <1>0, StartStageAdds
<1>2. Open(k) /\ Top(k, n)
  BY <1>0, <1>1, AddedRun, TopAdds, NotYetSuccessful
<1>3. Printed(k) <=> Printed(j)
  BY <1>0, <1>1, StagesAdded
<1>4. \A old \in FabricationJourney : Grown(j, old) => Grown(k, old)
  BY <1>0, <1>1, GrownAdds
<1>5. k.revision = j.revision
  BY <1>1 DEF Adds, Holds
<1> QED
  BY <1>1, <1>2, <1>3, <1>4, <1>5 DEF Continues

LEMMA ContinuesOn ==
  ASSUME NEW j, NEW k, NEW m, Continues(k, j), Continues(m, k)
  PROVE  Continues(m, j)
BY DEF Continues

\* Wherever a stage fails, the job is on its way to the disk with the level it had.
LEMMA FailPlace ==
  ASSUME Place, pc \in Designing \cup {"assessing", "slicing"}, CanTransition(journey, "failed"),
         NEW level, Carries(journey', journey, "failed", level), journey'.status = "failed",
         pc' = "indexing", UNCHANGED disk, clock' \in Nat
  PROVE  Place'
<1>1. CASE pc \in Designing
  <2>1. DesignPlace(pc, journey) /\ disk = EmptyDisk
    BY <1>1 DEF Place
  <2>2. Open(journey) /\ journey.revision # None /\ ~Printed(journey)
    BY <2>1 DEF DesignPlace
  <2>3. Last(journey).status \notin Successful
    BY <2>2, MovesFromRunning, NotYetSuccessful
  <2>4. Continues(journey', journey)
    BY <2>2, CarriesContinues
  <2>5. Top(journey', 0) \/ Top(journey', 1)
    BY <2>1, <2>2, <2>3, TopCarries, NotYetSuccessful DEF DesignPlace
  <2>6. IndexPlace(journey', disk.journey)
    BY <2>1, <2>2, <2>4, <2>5 DEF IndexPlace, Continues, EmptyDisk
  <2> QED
    BY <2>6, ToIndex
<1>2. CASE pc \in {"assessing", "slicing"}
  <2>1. SlicePlace(pc, journey, disk.journey)
    BY <1>2 DEF Place, Slicing
  <2>2. /\ Open(journey) /\ journey.revision # None /\ Printed(journey)
        /\ Verified2(disk.journey) /\ Grown(journey, disk.journey)
    BY <2>1 DEF SlicePlace
  <2>3. Last(journey).status \notin Successful
    BY <2>2, MovesFromRunning, NotYetSuccessful
  <2>4. Continues(journey', journey)
    BY <2>2, CarriesContinues
  <2>5. Top(journey, 2) \/ Top(journey, 3)
    BY <1>2, <2>1 DEF SlicePlace, SliceTop
  <2>6. Top(journey', 2) \/ Top(journey', 3)
    BY <2>2, <2>3, <2>5, TopCarries, NotYetSuccessful
  <2>7. disk.journey \in FabricationJourney /\ disk.journey # None
    BY <2>2, NoneFacts DEF Verified2
  <2>8. IndexPlace(journey', disk.journey)
    BY <2>2, <2>4, <2>6, <2>7 DEF IndexPlace, Continues
  <2> QED
    BY <2>8, ToIndex
<1> QED
  BY <1>1, <1>2

\* The same after files and findings of the stage were recorded.
LEMMA FailedStagePlace ==
  ASSUME Place, pc \in Designing \cup {"assessing", "slicing"}, CanTransition(journey, "failed"),
         NEW d, Works(d, journey), NEW v,
         v[1] \in Nat, v[2] \in Nat, v[3] \in Nat, v[4] \in Nat,
         journey' = FailStage(d, v), pc' = "indexing", UNCHANGED disk, clock' \in Nat
  PROVE  Place'
<1>1. Open(journey)
  BY DEF Place, Designing, Slicing, DesignPlace, SlicePlace
<1>2. Carries(journey', d, "failed", Last(d).level) /\ journey'.status = "failed"
  BY WorksOpen, FailStageCarries
<1>3. Carries(journey', journey, "failed", Last(d).level)
  BY <1>1, <1>2, WorksThenCarries
<1> QED
  BY <1>2, <1>3, FailPlace

LEMMA WorksNothing ==
  ASSUME NEW j, Open(j)
  PROVE  Works(j, j)
<1>1. j \in FabricationJourney /\ Prefix(j.events, j.events)
  BY JourneyParts, PrefixSelf DEF Open
<1>2. Holds(j, j)
  BY <1>1 DEF Holds
<1> QED
  BY <1>2, SameRuns DEF Works

-----------------------------------------------------------------------------
(* The CAD pipeline                                                             *)

LEMMA StartDesignPlace == ASSUME Place, StartDesign PROVE Place'
<1>1. PICK t \in Stamps(3) :
        Do("designing", StartStage(journey, "design", 1, {}, t), t[3])
  BY DEF StartDesign
<1>2. journey.status = "ready_for_design" /\ pc \in {"ready", "refused", "designed"}
  BY DEF StartDesign, RequireReady
<1>3. /\ pc = "ready" /\ clock \in Nat /\ disk = EmptyDisk
      /\ Open(journey) /\ BriefOnly(journey) /\ journey.revision # None /\ Top(journey, 0)
  BY <1>2 DEF Place, EarlyPlace, KeptPlace, Early, Kept
<1>4. t \in [1..3 -> Nat]
  BY <1>3, StampsAscend
<1>5. t[1] \in Nat /\ t[2] \in Nat /\ t[3] \in Nat
  BY <1>4
<1>6. /\ journey' = StartStage(journey, "design", 1, {}, t) /\ pc' = "designing"
      /\ clock' = t[3] /\ UNCHANGED disk
  BY <1>1 DEF Do, Moves
<1>7. Continues(journey', journey) /\ Top(journey', 0)
  <2> DEFINE stage == "design"
             n == 0
             j1 == journey'
  <2>1. stage \in FabricationStage \ {"printability_validation"} /\ {} \in SUBSET Role /\ n \in -1..4
    BY NotYetSuccessful
  <2>2. Top(journey, n) /\ j1 = StartStage(journey, stage, 1, {}, t)
    BY <1>3, <1>6
  <2> HIDE DEF stage, n, j1
  <2>3. Continues(j1, journey) /\ Top(j1, n)
    BY <1>3, <1>5, <2>1, <2>2, StartContinues
  <2> QED
    BY <2>3 DEF n, j1
<1>8. ~Printed(journey)
  BY <1>3, BriefIsUnprinted
<1>9. DesignPlace("designing", journey') /\ "designing" \in Designing
  BY <1>3, <1>7, <1>8 DEF DesignPlace, Continues, Designing
<1> QED
  BY <1>3, <1>5, <1>6, <1>9, ToDesign

LEMMA RunPlace == ASSUME Place, BeginRun \/ FinishRun PROVE Place'
<1>1. /\ pc \in Designing /\ pc # "checking" /\ pc' \in {"waiting", "worked"}
      /\ UNCHANGED <<clock, journey, disk>>
  BY DEF BeginRun, FinishRun, Designing
<1>2. clock \in Nat /\ DesignPlace(pc, journey) /\ disk = EmptyDisk
  BY <1>1 DEF Place
<1>3. DesignPlace(pc', journey') /\ pc' \in Designing
  BY <1>1, <1>2 DEF DesignPlace, Designing
<1> QED
  BY <1>1, <1>2, <1>3, ToDesign

LEMMA DesigningFacts ==
  ASSUME Place, pc \in Designing
  PROVE  /\ clock \in Nat /\ disk = EmptyDisk /\ Open(journey) /\ journey.revision # None
         /\ ~Printed(journey) /\ Top(journey, IF pc = "checking" THEN 1 ELSE 0)
BY DEF Place, DesignPlace

LEMMA RunnerRaisesPlace == ASSUME Place, RunnerRaises PROVE Place'
<1>1. PICK t \in Stamps(4) : Moves("indexing", FailStage(journey, t), t[4])
  BY DEF RunnerRaises
<1>2. pc \in Designing /\ CanTransition(journey, "failed")
  BY DEF RunnerRaises, Designing
<1>3. Open(journey) /\ clock \in Nat
  BY <1>2, DesigningFacts
<1>4. t \in [1..4 -> Nat]
  BY <1>3, StampsAscend
<1>5. t[1] \in Nat /\ t[2] \in Nat /\ t[3] \in Nat /\ t[4] \in Nat
  BY <1>4
<1>6. pc' = "indexing" /\ journey' = FailStage(journey, t) /\ clock' = t[4] /\ UNCHANGED disk
  BY <1>1 DEF Moves
<1>7. Works(journey, journey)
  BY <1>3, WorksNothing
<1> QED
  BY <1>2, <1>5, <1>6, <1>7, FailedStagePlace

LEMMA DesignFailsPlace == ASSUME Place, DesignFails PROVE Place'
<1> DEFINE Recorded(roles, t) == SetInputs(Record(journey, roles, t[1]), roles \cap {"control"})
           Rest(t) == [i \in 1..4 |-> t[i + 1]]
<1>1. PICK t \in Stamps(5), roles \in {{}, {"control"}, {"control", "design"}} :
        Do("indexing", FailStage(Recorded(roles, t), Rest(t)), t[5])
  BY DEF DesignFails
<1>2. pc \in Designing /\ CanTransition(journey, "failed")
  BY DEF DesignFails, Designing
<1>3. Open(journey) /\ clock \in Nat
  BY <1>2, DesigningFacts
<1>4. t \in [1..5 -> Nat]
  BY <1>3, StampsAscend
<1> DEFINE v == Rest(t)
           t1 == t[1]
           r == Record(journey, roles, t1)
           d == Recorded(roles, t)
<1>5. /\ v[1] \in Nat /\ v[2] \in Nat /\ v[3] \in Nat /\ v[4] \in Nat /\ t1 \in Nat
      /\ t[5] \in Nat
  BY <1>4
<1>6. roles \subseteq Role /\ roles \cap {"control"} \subseteq Role
  BY ReportRoles
<1>7. pc' = "indexing" /\ journey' = FailStage(d, v) /\ clock' = t[5] /\ UNCHANGED disk
  BY <1>1 DEF Do, Moves
<1>8. d = SetInputs(r, roles \cap {"control"})
  OBVIOUS
<1> HIDE DEF v, d, t1
<1>9. Works(r, journey)
  BY <1>3, <1>5, <1>6, RecordCarries DEF Works
<1> HIDE DEF r
<1>10. Works(d, r)
  BY <1>6, <1>8, <1>9, WorksOpen, SetInputsCarries DEF Works
<1>11. Works(d, journey)
  BY <1>3, <1>9, <1>10, WorksOn
<1> QED
  BY <1>2, <1>5, <1>7, <1>11, FailedStagePlace

LEMMA DesignPassesPlace == ASSUME Place, DesignPasses PROVE Place'
<1> DEFINE Control(t) == SetInputs(Record(journey, {"control"}, t[1]), {"control"})
           Design(t) == Record(Control(t), {"design"}, t[2])
           Designed(t) == PassStage(Design(t), FALSE, 1, "design_generated", <<t[3], t[4], t[5]>>)
           Started(t) == StartStage(Designed(t), "geometry_validation", 1, {"design"},
                                    <<t[6], t[7], t[8]>>)
<1>1. PICK t \in Stamps(9) :
        Do("checking", Record(Started(t), {"geometry_report"}, t[9]), t[9])
  BY DEF DesignPasses
<1>2. pc \in Designing /\ pc # "checking" /\ CanTransition(journey, "passed")
  BY DEF DesignPasses, Designing
<1>3. /\ Open(journey) /\ clock \in Nat /\ journey.revision # None /\ ~Printed(journey)
      /\ Top(journey, 0) /\ disk = EmptyDisk
  BY <1>2, DesigningFacts
<1>4. t \in [1..9 -> Nat]
  BY <1>3, StampsAscend
<1> DEFINE t1 == t[1]
           t2 == t[2]
           t9 == t[9]
           v == <<t[3], t[4], t[5]>>
           u == <<t[6], t[7], t[8]>>
           r == Record(journey, {"control"}, t1)
           c == Control(t)
           d == Design(t)
           p == Designed(t)
           s == Started(t)
           k == Record(s, {"geometry_report"}, t9)
<1>5. /\ v[1] \in Nat /\ v[2] \in Nat /\ v[3] \in Nat /\ u[1] \in Nat /\ u[2] \in Nat
      /\ u[3] \in Nat /\ t1 \in Nat /\ t2 \in Nat /\ t9 \in Nat
  BY <1>4
<1>6. pc' = "checking" /\ journey' = k /\ clock' = t9 /\ UNCHANGED disk
  BY <1>1 DEF Do, Moves
<1>7. c = SetInputs(r, {"control"}) /\ d = Record(c, {"design"}, t2)
  OBVIOUS
<1>8. p = PassStage(d, FALSE, 1, "design_generated", v)
  OBVIOUS
<1>9. s = StartStage(p, "geometry_validation", 1, {"design"}, u)
  OBVIOUS
<1> HIDE DEF t1, t2, t9, v, u, c, d, p, s
<1>10. Works(r, journey)
  BY <1>3, <1>5, ReportRoles, RecordCarries DEF Works
<1> HIDE DEF r
<1>11. Works(c, r)
  BY <1>7, <1>10, WorksOpen, ReportRoles, SetInputsCarries DEF Works
<1>12. Works(d, c)
  BY <1>5, <1>7, <1>11, WorksOpen, ReportRoles, RecordCarries DEF Works
<1>13. Works(d, journey)
  BY <1>3, <1>10, <1>11, <1>12, WorksOn
<1>14. Continues(p, journey) /\ Top(p, 1)
  <2> DEFINE n == 0
             warned == FALSE
             level == 1
             job == "design_generated"
  <2>1. n \in -1..4 /\ level \in 0..4 /\ n <= level /\ job \in JobStatus
    BY DEF JobStatus
  <2>2. p = PassStage(d, warned, level, job, v) /\ Top(journey, n)
    BY <1>3, <1>8
  <2> HIDE DEF n, warned, level, job
  <2>3. Continues(p, journey) /\ Top(p, level)
    BY <1>2, <1>3, <1>5, <1>13, <2>1, <2>2, PassContinues
  <2> QED
    BY <2>3 DEF level
<1>15. Continues(s, p) /\ Top(s, 1)
  <2> DEFINE n == 1
             stage == "geometry_validation"
             inputs == {"design"}
  <2>1. /\ n \in -1..4 /\ stage \in FabricationStage \ {"printability_validation"}
        /\ inputs \in SUBSET Role
    BY NotYetSuccessful, ReportRoles
  <2>2. s = StartStage(p, stage, 1, inputs, u) /\ Top(p, n) /\ Open(p)
    BY <1>9, <1>14 DEF Continues
  <2> HIDE DEF n, stage, inputs
  <2>3. Continues(s, p) /\ Top(s, n)
    BY <1>5, <2>1, <2>2, StartContinues
  <2> QED
    BY <2>3 DEF n
<1>16. Carries(k, s, Last(s).status, Last(s).level)
  BY <1>5, <1>15, ReportRoles, RecordCarries DEF Continues
<1>17. Continues(k, s) /\ k.runs = s.runs
  <2>1. k.runs = s.runs
    BY <1>15 DEF Record, Continues, Open, FabricationJourney
  <2> QED
    BY <1>15, <1>16, <2>1, CarriesContinues DEF Continues
<1>18. Continues(k, journey) /\ Top(k, 1)
  BY <1>14, <1>15, <1>17, ContinuesOn DEF Top
<1>19. DesignPlace("checking", journey') /\ "checking" \in Designing
  BY <1>3, <1>6, <1>18 DEF DesignPlace, Designing, Continues
<1> QED
  BY <1>3, <1>5, <1>6, <1>19, ToDesign

LEMMA GeometryFailsPlace == ASSUME Place, GeometryFails PROVE Place'
<1> DEFINE Checked(checked, t) == IF checked THEN Emit(journey, t[1]) ELSE journey
           Rest(t) == [i \in 1..4 |-> t[i + 1]]
<1>1. PICK t \in Stamps(5), checked \in {FALSE, cad.result = "R1"} :
        Do("indexing", FailStage(Checked(checked, t), Rest(t)), t[5])
  BY DEF GeometryFails
<1>2. pc \in Designing /\ CanTransition(journey, "failed")
  BY DEF GeometryFails, Designing
<1>3. Open(journey) /\ clock \in Nat
  BY <1>2, DesigningFacts
<1>4. t \in [1..5 -> Nat]
  BY <1>3, StampsAscend
<1> DEFINE v == Rest(t)
           t1 == t[1]
           d == Checked(checked, t)
<1>5. /\ v[1] \in Nat /\ v[2] \in Nat /\ v[3] \in Nat /\ v[4] \in Nat /\ t1 \in Nat
      /\ t[5] \in Nat
  BY <1>4
<1>6. pc' = "indexing" /\ journey' = FailStage(d, v) /\ clock' = t[5] /\ UNCHANGED disk
  BY <1>1 DEF Do, Moves
<1>7. d = Emit(journey, t1) \/ d = journey
  OBVIOUS
<1> HIDE DEF v, d, t1
<1>8. Works(d, journey)
  BY <1>3, <1>5, <1>7, EmitCarries, WorksNothing DEF Works
<1> QED
  BY <1>2, <1>5, <1>6, <1>8, FailedStagePlace

LEMMA GeometryPassesPlace == ASSUME Place, GeometryPasses PROVE Place'
<1>1. PICK t \in Stamps(4) :
        Do("indexing", PassStage(Emit(journey, t[1]), FALSE, 2, "geometry_verified",
                                 <<t[2], t[3], t[4]>>), t[4])
  BY DEF GeometryPasses
<1>2. pc = "checking" /\ CanTransition(journey, "passed")
  BY DEF GeometryPasses
<1>3. /\ Open(journey) /\ clock \in Nat /\ journey.revision # None /\ ~Printed(journey)
      /\ Top(journey, 1) /\ disk = EmptyDisk
  BY <1>2, DesigningFacts DEF Designing
<1>4. t \in [1..4 -> Nat]
  BY <1>3, StampsAscend
<1> DEFINE v == <<t[2], t[3], t[4]>>
           t1 == t[1]
           d == Emit(journey, t1)
           n == 1
           warned == FALSE
           level == 2
           job == "geometry_verified"
           k == PassStage(d, warned, level, job, v)
<1>5. v[1] \in Nat /\ v[2] \in Nat /\ v[3] \in Nat /\ t1 \in Nat /\ t[4] \in Nat
  BY <1>4
<1>6. pc' = "indexing" /\ journey' = k /\ clock' = t[4] /\ UNCHANGED disk
  BY <1>1 DEF Do, Moves
<1>7. n \in -1..4 /\ level \in 0..4 /\ n <= level /\ job \in JobStatus
  BY DEF JobStatus
<1>8. Top(journey, n)
  BY <1>3
<1> HIDE DEF t1, n, warned, level, job, v
<1>9. Works(d, journey)
  BY <1>3, <1>5, EmitCarries DEF Works
<1> HIDE DEF d
<1>10. Continues(k, journey) /\ Top(k, level) /\ k.status = job
  BY <1>2, <1>3, <1>5, <1>7, <1>8, <1>9, PassContinues
<1>11. IndexPlace(journey', disk.journey)
  BY <1>3, <1>6, <1>10 DEF IndexPlace, Continues, EmptyDisk, Verified2, Open, level, job
<1> QED
  BY <1>5, <1>6, <1>11, ToIndex

-----------------------------------------------------------------------------
(* Files                                                                        *)

LEMMA ManifestType ==
  ASSUME NEW j \in FabricationJourney, NEW t \in Nat
  PROVE  Manifest(j, t) \in ArtifactManifest
<1>1. OwnedRuns(j) \subseteq Nat
  BY RunsDomain DEF OwnedRuns
<1>2. OwnedFindings(j) \subseteq Finding /\ j.artifacts \subseteq Artifact
  BY JourneyParts DEF OwnedFindings
<1> QED
  BY <1>1, <1>2 DEF Manifest, ArtifactManifest

LEMMA PublishBriefPlace == ASSUME Place, PublishBrief PROVE Place'
<1>1. PICK t \in Stamps(1) :
        /\ disk' = [disk EXCEPT !.journey = journey, !.manifest = Manifest(journey, t[1])]
        /\ clock' = t[1] /\ pc' = "briefed" /\ UNCHANGED journey
  BY DEF PublishBrief
<1>2. clock \in Nat /\ disk \in Disk /\ Open(journey)
  BY DEF Place, PublishBrief, EarlyPlace, Early
<1>3. t[1] \in Nat
  <2>1. t \in [1..1 -> Nat]
    BY <1>2, StampsAscend
  <2> QED
    BY <2>1
<1>4. journey \in FabricationJourney /\ Manifest(journey, t[1]) \in ArtifactManifest
  BY <1>2, <1>3, ManifestType DEF Open
<1> DEFINE m == Manifest(journey, t[1])
<1>5. disk' = [journey |-> journey, manifest |-> m, package |-> disk.package]
  BY <1>1, <1>2 DEF Disk
<1> HIDE DEF m
<1>6. disk' \in Disk /\ disk'.journey = journey
  BY <1>2, <1>4, <1>5 DEF Disk, m
<1>7. KeptPlace("briefed", journey) /\ "briefed" \in Kept /\ journey # None
  BY <1>2, <1>4, NoneFacts DEF KeptPlace, Kept
<1> QED
  BY <1>1, <1>3, <1>6, <1>7 DEF Place, Early, Designing, Slicing, Kept, Idle

\* Failed, completed or verified, what a pipeline leaves is not ready for a design.
LEMMA IndexJourneyPlace == ASSUME Place, IndexJourney PROVE Place'
<1>1. /\ disk' = [disk EXCEPT !.journey = journey] /\ pc = "indexing" /\ pc' = "indexed"
      /\ UNCHANGED <<clock, journey>>
  BY DEF IndexJourney
<1>2. clock \in Nat /\ disk \in Disk /\ IndexPlace(journey, disk.journey)
  BY <1>1 DEF Place
<1>3. Open(journey) /\ journey \in FabricationJourney /\ journey # None
  BY <1>2, NoneFacts DEF IndexPlace, Open
<1>4. disk' \in Disk /\ disk'.journey = journey
  BY <1>1, <1>2, <1>3 DEF Disk
<1>5. /\ journey.revision # None /\ journey.status # "ready_for_design"
      /\ journey.status = "geometry_verified" => Top(journey, 2) /\ ~Printed(journey)
  BY <1>2 DEF IndexPlace, Verified2
<1>6. KeptPlace("indexed", journey) /\ "indexed" \in Kept
  BY <1>3, <1>5 DEF KeptPlace, Kept
<1> QED
  BY <1>1, <1>2, <1>3, <1>4, <1>6 DEF Place, Early, Designing, Slicing, Kept, Idle

LEMMA IndexManifestPlace == ASSUME Place, IndexManifest PROVE Place'
<1>1. PICK t \in Stamps(1) :
        /\ disk' = [disk EXCEPT !.manifest = Manifest(journey, t[1])] /\ clock' = t[1]
        /\ pc = "indexed" /\ UNCHANGED journey
        /\ pc' = IF HasRun(journey, {"printability_validation"}) THEN "fabricated" ELSE "designed"
  BY DEF IndexManifest
<1>2. clock \in Nat /\ disk \in Disk /\ journey = disk.journey /\ KeptPlace("indexed", journey)
  BY <1>1 DEF Place, Kept
<1>3. journey \in FabricationJourney /\ journey # None
  BY <1>2, NoneFacts DEF KeptPlace, Open
<1>4. t[1] \in Nat
  <2>1. t \in [1..1 -> Nat]
    BY <1>2, StampsAscend
  <2> QED
    BY <2>1
<1>5. Manifest(journey, t[1]) \in ArtifactManifest
  BY <1>3, <1>4, ManifestType
<1> DEFINE m == Manifest(journey, t[1])
<1> HIDE DEF m
<1>6. disk' = [disk EXCEPT !.manifest = m] /\ m \in ArtifactManifest
  BY <1>1, <1>5 DEF m
<1>7. disk' \in Disk /\ disk'.journey = journey
  BY <1>2, <1>6 DEF Disk
<1>8. pc' = IF Printed(journey) THEN "fabricated" ELSE "designed"
  BY <1>1, <1>3, PrintedIsRun
<1>9. KeptPlace(pc', journey) /\ pc' \in {"fabricated", "designed"}
  BY <1>2, <1>8 DEF KeptPlace
<1> QED
  BY <1>1, <1>3, <1>4, <1>7, <1>9 DEF Place, Early, Designing, Slicing, Kept, Idle

LEMMA StopPlace ==
  ASSUME Place, UNCHANGED <<clock, disk>>, pc' \in {"stopped", "unpackaged"}
  PROVE  Place'
BY DEF Place, Early, Designing, Slicing, Kept, Idle

LEMMA BesidePlace ==
  ASSUME Place, UNCHANGED <<clock, pc, journey, disk>>
  PROVE  Place'
BY DEF Place

-----------------------------------------------------------------------------
(* The slicing pipeline                                                         *)

LEMMA SlicingFacts ==
  ASSUME Place, pc \in Slicing
  PROVE  /\ clock \in Nat /\ disk \in Disk /\ Open(journey) /\ journey.revision # None
         /\ Printed(journey) /\ Verified2(disk.journey) /\ Grown(journey, disk.journey)
         /\ disk.journey \in FabricationJourney /\ disk.journey # None
         /\ Top(journey, SliceTop(pc))
BY NoneFacts DEF Place, SlicePlace, Verified2

\* The pipeline goes on to its next gate.
LEMMA SlicePlaceContinues ==
  ASSUME Place, pc \in Slicing, NEW p \in Slicing, NEW k, Continues(k, journey), Top(k, SliceTop(p)),
         pc' = p, journey' = k, UNCHANGED disk, clock' \in Nat
  PROVE  Place'
<1>1. SlicePlace(p, k, disk.journey)
  BY SlicingFacts DEF SlicePlace, Continues
<1> QED
  BY <1>1, ToSlice

LEMMA StartPrintabilityPlace == ASSUME Place, StartPrintability PROVE Place'
<1>1. PICK t \in Stamps(3) :
        Do("assessing", StartStage(journey, "printability_validation", 1, {}, t), t[3])
  BY DEF StartPrintability
<1>2. /\ journey.status = "geometry_verified" /\ pc \in {"designed", "fabricated"}
  BY DEF StartPrintability, RequireR2
<1>3. /\ clock \in Nat /\ disk.journey = journey /\ journey \in FabricationJourney
      /\ journey.revision # None /\ Top(journey, 2)
  BY <1>2 DEF Place, KeptPlace, Kept, Open
<1>4. t \in [1..3 -> Nat]
  BY <1>3, StampsAscend
<1>5. t[1] \in Nat /\ t[2] \in Nat /\ t[3] \in Nat
  BY <1>4
<1>6. /\ journey' = StartStage(journey, "printability_validation", 1, {}, t) /\ pc' = "assessing"
      /\ clock' = t[3] /\ UNCHANGED disk
  BY <1>1 DEF Do, Moves
<1> DEFINE k == journey'
<1>7. Adds(k, journey, "printability_validation", "running")
  BY <1>3, <1>5, <1>6, StartStageAdds, NotYetSuccessful
<1> HIDE DEF k
<1>8. Open(k) /\ Top(k, 2)
  <2> DEFINE n == 2
  <2>1. n \in -1..4 /\ Top(journey, n)
    BY <1>3
  <2> HIDE DEF n
  <2>2. Open(k) /\ Top(k, n)
    BY <1>3, <1>7, <2>1, AddedRun, TopAdds, NotYetSuccessful
  <2> QED
    BY <2>2 DEF n
<1>9. Printed(k) /\ Grown(k, journey)
  BY <1>3, <1>7, StagesAdded, GrownFromKept
<1>10. k.revision # None
  BY <1>3, <1>7 DEF Adds, Holds
<1>11. SlicePlace("assessing", journey', disk.journey) /\ "assessing" \in Slicing
  BY <1>2, <1>3, <1>8, <1>9, <1>10 DEF SlicePlace, Verified2, SliceTop, Slicing, k
<1> QED
  BY <1>5, <1>6, <1>11, ToSlice

LEMMA PrintabilityRaisesPlace == ASSUME Place, PrintabilityRaises PROVE Place'
<1> DEFINE Rest(t) == [i \in 1..4 |-> t[i + 1]]
<1>1. PICK t \in Stamps(5),
           roles \in {{}, {"profiles"}, {"profiles", "policy"}, {"profiles", "policy", "oriented"},
                      {"profiles", "policy", "oriented", "printability_report"}} :
        Do("indexing", FailStage(Record(journey, roles, t[1]), Rest(t)), t[5])
  BY DEF PrintabilityRaises
<1>2. pc = "assessing" /\ CanTransition(journey, "failed")
  BY DEF PrintabilityRaises
<1>3. Open(journey) /\ clock \in Nat
  BY <1>2, SlicingFacts DEF Slicing
<1>4. t \in [1..5 -> Nat]
  BY <1>3, StampsAscend
<1> DEFINE v == Rest(t)
           t1 == t[1]
           d == Record(journey, roles, t1)
<1>5. /\ v[1] \in Nat /\ v[2] \in Nat /\ v[3] \in Nat /\ v[4] \in Nat /\ t1 \in Nat
      /\ t[5] \in Nat
  BY <1>4
<1>6. pc' = "indexing" /\ journey' = FailStage(d, v) /\ clock' = t[5] /\ UNCHANGED disk
  BY <1>1 DEF Do, Moves
<1>7. roles \subseteq Role
  BY ReportRoles
<1> HIDE DEF v, t1
<1>8. Works(d, journey)
  BY <1>3, <1>5, <1>7, RecordCarries DEF Works
<1> HIDE DEF d
<1> QED
  BY <1>2, <1>5, <1>6, <1>8, FailedStagePlace

\* A stage whose own report says that it failed.
LEMMA ReportedFailurePlace ==
  ASSUME Place, pc \in {"assessing", "slicing"}, CanTransition(journey, "failed"),
         NEW d, Works(d, journey), NEW t1 \in Nat, NEW t2 \in Nat, NEW t3 \in Nat,
         journey' = UpdateStatus(Emit(Transition(d, "failed", None, t1), t2), "failed", t3),
         pc' = "indexing", UNCHANGED disk, clock' \in Nat
  PROVE  Place'
<1>1. Open(journey)
  BY SlicingFacts DEF Slicing
<1> DEFINE k == UpdateStatus(Emit(Transition(d, "failed", None, t1), t2), "failed", t3)
<1>2. Carries(k, d, "failed", Last(d).level) /\ k.status = "failed"
  BY WorksOpen, FailCarries
<1> HIDE DEF k
<1>3. Carries(k, journey, "failed", Last(d).level)
  BY <1>1, <1>2, WorksThenCarries
<1>4. journey' = k
  BY DEF k
<1> QED
  BY <1>2, <1>3, <1>4, FailPlace

LEMMA PrintabilityFailsPlace == ASSUME Place, PrintabilityFails PROVE Place'
<1>1. PICK t \in Stamps(9) :
        Do("indexing",
           UpdateStatus(Emit(Transition(Assessed(TRUE, t), "failed", None, t[7]), t[8]),
                        "failed", t[9]), t[9])
  BY DEF PrintabilityFails
<1>2. pc = "assessing" /\ CanTransition(journey, "failed")
  BY DEF PrintabilityFails
<1>3. Open(journey) /\ clock \in Nat
  BY <1>2, SlicingFacts DEF Slicing
<1>4. t \in [1..9 -> Nat]
  BY <1>3, StampsAscend
<1> DEFINE d == Assessed(TRUE, t)
           t7 == t[7]
           t8 == t[8]
           t9 == t[9]
<1>5. t7 \in Nat /\ t8 \in Nat /\ t9 \in Nat /\ \A i \in 1..6 : t[i] \in Nat
  BY <1>4
<1>6. /\ journey' = UpdateStatus(Emit(Transition(d, "failed", None, t7), t8), "failed", t9)
      /\ pc' = "indexing" /\ clock' = t9 /\ UNCHANGED disk
  BY <1>1 DEF Do, Moves
<1> HIDE DEF t7, t8, t9
<1>7. Works(d, journey)
  BY <1>3, <1>5, AssessedWorks
<1> HIDE DEF d
<1> QED
  BY <1>2, <1>5, <1>6, <1>7, ReportedFailurePlace

LEMMA PrintabilityPassesPlace == ASSUME Place, PrintabilityPasses PROVE Place'
<1> DEFINE Passed(t) == PassStage(Assessed(FALSE, t), TRUE, 3, "printability_assessed",
                                  <<t[7], t[8], t[9]>>)
<1>1. PICK t \in Stamps(12) :
        Do("slicing", StartStage(Passed(t), "slicing", 1, SliceInput, <<t[10], t[11], t[12]>>),
           t[12])
  BY DEF PrintabilityPasses
<1>2. pc = "assessing" /\ CanTransition(journey, "passed")
  BY DEF PrintabilityPasses
<1>3. Open(journey) /\ clock \in Nat /\ Top(journey, 2)
  BY <1>2, SlicingFacts DEF Slicing, SliceTop
<1>4. t \in [1..12 -> Nat]
  BY <1>3, StampsAscend
<1> DEFINE d == Assessed(FALSE, t)
           v == <<t[7], t[8], t[9]>>
           u == <<t[10], t[11], t[12]>>
           n == 2
           warned == TRUE
           level == 3
           job == "printability_assessed"
           stage == "slicing"
           p == PassStage(d, warned, level, job, v)
           inputs == SliceInput
           k == StartStage(p, stage, 1, inputs, u)
<1>5. /\ v[1] \in Nat /\ v[2] \in Nat /\ v[3] \in Nat /\ u[1] \in Nat /\ u[2] \in Nat
      /\ u[3] \in Nat /\ t[12] \in Nat /\ \A i \in 1..6 : t[i] \in Nat
  BY <1>4
<1>6. journey' = k /\ pc' = "slicing" /\ clock' = t[12] /\ UNCHANGED disk
  BY <1>1 DEF Do, Moves
<1>7. /\ n \in -1..4 /\ level \in 0..4 /\ level \in -1..4 /\ n <= level /\ job \in JobStatus
      /\ stage \in FabricationStage \ {"printability_validation"} /\ Top(journey, n)
      /\ inputs \in SUBSET Role
  BY <1>3, NotYetSuccessful, ReportRoles DEF JobStatus
<1>8. level = SliceTop("slicing") /\ "slicing" \in Slicing
  BY DEF SliceTop, Slicing
<1> HIDE DEF v, u, n, level, job, stage, inputs
<1>9. Works(d, journey)
  BY <1>3, <1>5, AssessedWorks
<1> HIDE DEF d, warned
<1>10. Continues(p, journey) /\ Top(p, level)
  BY <1>2, <1>3, <1>5, <1>7, <1>9, PassContinues
<1> HIDE DEF p
<1>11. Continues(k, p) /\ Top(k, level)
  <2>1. Open(p)
    BY <1>10 DEF Continues
  <2> QED
    BY <1>5, <1>7, <1>10, <2>1, StartContinues
<1> HIDE DEF k
<1>12. Continues(k, journey)
  BY <1>10, <1>11, ContinuesOn
<1> QED
  BY <1>2, <1>5, <1>6, <1>8, <1>11, <1>12, SlicePlaceContinues DEF Slicing

LEMMA SlicingRaisesPlace == ASSUME Place, SlicingRaises PROVE Place'
<1> DEFINE FirstFiles(n, t) == Record(journey, RecordedUpTo(n), t[1])
           Tried(n, written, t) ==
             Record(FirstFiles(n, t), Attempts(FirstFiles(n, t), written), t[2])
           Rest(t) == [i \in 1..4 |-> t[i + 2]]
<1>1. PICK t \in Stamps(6), n \in 0..Len(RecordOrder) - 1, written \in FailedRunFiles \cup {AllFiles} :
        Do("indexing", FailStage(Tried(n, written, t), Rest(t)), t[6])
  BY DEF SlicingRaises
<1>2. pc = "slicing" /\ CanTransition(journey, "failed")
  BY DEF SlicingRaises
<1>3. Open(journey) /\ clock \in Nat
  BY <1>2, SlicingFacts DEF Slicing
<1>4. t \in [1..6 -> Nat]
  BY <1>3, StampsAscend
<1> DEFINE v == Rest(t)
           t1 == t[1]
           t2 == t[2]
           first == RecordedUpTo(n)
           f == Record(journey, first, t1)
           attempts == Attempts(f, written)
           d == Tried(n, written, t)
<1>5. /\ v[1] \in Nat /\ v[2] \in Nat /\ v[3] \in Nat /\ v[4] \in Nat /\ t1 \in Nat
      /\ t2 \in Nat /\ t[6] \in Nat
  BY <1>4
<1>6. pc' = "indexing" /\ journey' = FailStage(d, v) /\ clock' = t[6] /\ UNCHANGED disk
  BY <1>1 DEF Do, Moves
<1>7. d = Record(f, attempts, t2)
  OBVIOUS
<1>8. first \subseteq Role /\ attempts \subseteq Role
  <2>1. Len(RecordOrder) = 6 /\ \A i \in 1..6 : RecordOrder[i] \in Role
    BY DEF RecordOrder, Role, SlicerRole, LogRole
  <2>2. \A i \in 1..n : i \in 1..6
    BY <2>1
  <2>3. first \subseteq Role
    BY <2>1, <2>2 DEF RecordedUpTo
  <2> QED
    BY <2>3, ReportRoles DEF Attempts
<1> HIDE DEF v, t1, t2, first, attempts, d
<1>9. Works(f, journey)
  BY <1>3, <1>5, <1>8, RecordCarries DEF Works
<1> HIDE DEF f
<1>10. Works(d, f)
  BY <1>5, <1>7, <1>8, <1>9, WorksOpen, RecordCarries DEF Works
<1>11. Works(d, journey)
  BY <1>3, <1>9, <1>10, WorksOn
<1> QED
  BY <1>2, <1>5, <1>6, <1>11, FailedStagePlace

LEMMA GateType ==
  ASSUME NEW gate \in GateOutcomes
  PROVE  gate.blocked \in BOOLEAN /\ gate.advised \in BOOLEAN
<1> DEFINE Risks(output, repaired) ==
             {RiskOf(w) : w \in WarningsIn(output)}
               \cup IF repaired THEN {"slicer_mesh_repair"} ELSE {}
<1>1. PICK output, repaired, preflight : gate = EvaluateGate(output, repaired, preflight)
  BY DEF GateOutcomes
<1>2. gate = [blocked |-> ~preflight \/ Risks(output, repaired) \cap Blocking # {},
              advised |-> Risks(output, repaired) \ Blocking # {}]
  BY <1>1 DEF EvaluateGate
<1> HIDE DEF Risks
<1> QED
  BY <1>2

LEMMA SlicingBlockedPlace == ASSUME Place, SlicingBlocked PROVE Place'
<1>1. PICK t \in Stamps(8), gate \in GateOutcomes :
        Do("indexing",
           UpdateStatus(Emit(Transition(SlicerGate(gate, t), "failed", None, t[6]), t[7]),
                        "failed", t[8]), t[8])
  BY DEF SlicingBlocked
<1>2. pc = "slicing" /\ CanTransition(journey, "failed")
  BY DEF SlicingBlocked
<1>3. Open(journey) /\ clock \in Nat
  BY <1>2, SlicingFacts DEF Slicing
<1>4. t \in [1..8 -> Nat]
  BY <1>3, StampsAscend
<1> DEFINE d == SlicerGate(gate, t)
           t6 == t[6]
           t7 == t[7]
           t8 == t[8]
<1>5. t6 \in Nat /\ t7 \in Nat /\ t8 \in Nat /\ \A i \in 1..5 : t[i] \in Nat
  BY <1>4
<1>6. /\ journey' = UpdateStatus(Emit(Transition(d, "failed", None, t6), t7), "failed", t8)
      /\ pc' = "indexing" /\ clock' = t8 /\ UNCHANGED disk
  BY <1>1 DEF Do, Moves
<1> HIDE DEF t6, t7, t8
<1>7. Works(d, journey)
  BY <1>3, <1>5, GateType, SlicerGateWorks
<1> HIDE DEF d
<1> QED
  BY <1>2, <1>5, <1>6, <1>7, ReportedFailurePlace

LEMMA SlicingPassesPlace == ASSUME Place, SlicingPasses PROVE Place'
<1>1. PICK t \in Stamps(8), gate \in GateOutcomes :
        Do("packaging", PassStage(SlicerGate(gate, t), gate.advised, 4, "slicer_verified",
                                  <<t[6], t[7], t[8]>>), t[8])
  BY DEF SlicingPasses
<1>2. pc = "slicing" /\ CanTransition(journey, "passed")
  BY DEF SlicingPasses
<1>3. Open(journey) /\ clock \in Nat /\ Top(journey, 3)
  BY <1>2, SlicingFacts DEF Slicing, SliceTop
<1>4. t \in [1..8 -> Nat]
  BY <1>3, StampsAscend
<1> DEFINE d == SlicerGate(gate, t)
           v == <<t[6], t[7], t[8]>>
           n == 3
           warned == gate.advised
           level == 4
           job == "slicer_verified"
           k == PassStage(d, warned, level, job, v)
<1>5. /\ v[1] \in Nat /\ v[2] \in Nat /\ v[3] \in Nat /\ t[8] \in Nat
      /\ \A i \in 1..5 : t[i] \in Nat
  BY <1>4
<1>6. journey' = k /\ pc' = "packaging" /\ clock' = t[8] /\ UNCHANGED disk
  BY <1>1 DEF Do, Moves
<1>7. /\ n \in -1..4 /\ level \in 0..4 /\ n <= level /\ job \in JobStatus /\ Top(journey, n)
  BY <1>3 DEF JobStatus
<1>8. level = SliceTop("packaging") /\ "packaging" \in Slicing
  BY DEF SliceTop, Slicing
<1> HIDE DEF v, n, level, job
<1>9. Works(d, journey)
  BY <1>3, <1>5, GateType, SlicerGateWorks
<1> HIDE DEF d, warned
<1>10. Continues(k, journey) /\ Top(k, level)
  BY <1>2, <1>3, <1>5, <1>7, <1>9, PassContinues
<1> HIDE DEF k
<1> QED
  BY <1>2, <1>5, <1>6, <1>8, <1>10, SlicePlaceContinues DEF Slicing

LEMMA StartPackagePlace == ASSUME Place, StartPackage PROVE Place'
<1> DEFINE Queued(t) == Emit(AddStageRun(journey, "fabrication_package", 1), t[1])
           Moving(t) == Transition(Queued(t), "running", None, t[2])
<1>1. PICK t \in Stamps(2) : journey' = SetInputs(Moving(t), RequiredRole) /\ clock' = t[2]
  BY DEF StartPackage
<1>2. pc = "packaging" /\ pc' = "writing" /\ disk' = [disk EXCEPT !.package = Torn]
  BY DEF StartPackage
<1>3. /\ Open(journey) /\ clock \in Nat /\ journey.revision # None /\ Printed(journey)
      /\ Top(journey, 4) /\ disk \in Disk /\ Verified2(disk.journey)
      /\ disk.journey \in FabricationJourney /\ disk.journey # None /\ Grown(journey, disk.journey)
  BY <1>2, SlicingFacts DEF Slicing, SliceTop
<1>4. t \in [1..2 -> Nat]
  BY <1>3, StampsAscend
<1> DEFINE t1 == t[1]
           t2 == t[2]
           stage == "fabrication_package"
           a == AddStageRun(journey, stage, 1)
           q == Emit(a, t1)
           m == Transition(q, "running", None, t2)
           k == SetInputs(m, RequiredRole)
           n == 4
<1>5. t1 \in Nat /\ t2 \in Nat /\ journey' = k /\ clock' = t2
  BY <1>1, <1>4
<1>6. n \in -1..4 /\ Top(journey, n) /\ stage # "printability_validation" /\ stage \in FabricationStage
  BY <1>3, NotYetSuccessful
<1>7. n = SliceTop("writing") /\ "writing" \in Slicing
  BY DEF SliceTop, Slicing
<1>8. journey \in FabricationJourney /\ 1 \in Nat
  BY <1>3 DEF Open
<1> HIDE DEF t1, t2, n, stage
<1>9. Adds(a, journey, stage, "waiting")
  BY <1>6, <1>8, AddStageRunAdds
<1>10. Open(a) /\ Last(a).status = "waiting" /\ Last(a).level = None
  BY <1>8, <1>9, AddedRun DEF Adds
<1> HIDE DEF a
<1>11. Carries(q, a, "waiting", None)
  BY <1>5, <1>10, EmitCarries
<1>12. Open(q) /\ Last(q).level = None
  BY <1>11, CarriesOpen DEF Carries
<1> HIDE DEF q
<1>13. Carries(m, q, "running", None)
  <2>1. "running" \in StageStatus
    BY DEF StageStatus
  <2> QED
    BY <1>5, <1>12, <2>1, MoveCarries
<1>14. Open(m) /\ Last(m).status = "running" /\ Last(m).level = None
  BY <1>13, CarriesOpen DEF Carries
<1> HIDE DEF m
<1>15. Carries(k, m, "running", None)
  BY <1>14, ReportRoles, SetInputsCarries
<1> HIDE DEF k
<1>16. Adds(q, journey, stage, "waiting")
  BY <1>8, <1>9, <1>11, AddsCarries
<1>17. Adds(m, journey, stage, "running")
  BY <1>8, <1>13, <1>16, AddsCarries
<1>18. Adds(k, journey, stage, "running")
  BY <1>8, <1>15, <1>17, AddsCarries
<1>19. Open(k) /\ Top(k, n)
  BY <1>6, <1>8, <1>18, AddedRun, TopAdds, NotYetSuccessful
<1>20. Printed(k) /\ Grown(k, disk.journey) /\ k.revision # None
  BY <1>3, <1>8, <1>18, StagesAdded, GrownAdds DEF Adds, Holds
<1>21. Torn \in Package
  BY DEF Torn, Package
<1>22. disk' \in Disk /\ disk'.journey = disk.journey
  <2> DEFINE torn == Torn
  <2>1. disk' = [disk EXCEPT !.package = torn] /\ torn \in Package
    BY <1>2, <1>21
  <2> HIDE DEF torn
  <2> QED
    BY <1>3, <2>1 DEF Disk
<1>23. SlicePlace("writing", journey', disk'.journey)
  BY <1>3, <1>5, <1>7, <1>19, <1>20, <1>22 DEF SlicePlace
<1>24. clock' \in Nat /\ pc' = "writing" /\ disk'.journey # None
  BY <1>2, <1>3, <1>5, <1>22
<1> QED
  BY <1>22, <1>23, <1>24 DEF Place, Early, Designing, Slicing, Kept, Idle

LEMMA WritePackagePlace == ASSUME Place, WritePackage PROVE Place'
<1> DEFINE package == [warned |-> Warned(journey), whole |-> TRUE,
                       inputs |-> {a \in journey.artifacts : a.role \in RequiredRole}]
<1>1. /\ pc = "writing" /\ pc' = "written" /\ disk' = [disk EXCEPT !.package = package]
      /\ UNCHANGED <<clock, journey>>
  BY DEF WritePackage
<1>2. /\ Open(journey) /\ clock \in Nat /\ journey.revision # None /\ Printed(journey)
      /\ Top(journey, 4) /\ disk \in Disk /\ Verified2(disk.journey)
      /\ disk.journey \in FabricationJourney /\ disk.journey # None /\ Grown(journey, disk.journey)
  BY <1>1, SlicingFacts DEF Slicing, SliceTop
<1>3. package \in Package
  <2>1. journey.artifacts \subseteq Artifact
    BY <1>2, JourneyParts DEF Open
  <2>2. Warned(journey) \in BOOLEAN
    BY DEF Warned
  <2> QED
    BY <2>1, <2>2 DEF Package
<1> HIDE DEF package
<1>4. disk' \in Disk /\ disk'.journey = disk.journey
  BY <1>1, <1>2, <1>3 DEF Disk
<1>5. SlicePlace("written", journey', disk'.journey)
  BY <1>1, <1>2, <1>4 DEF SlicePlace, SliceTop
<1>6. clock' \in Nat /\ pc' = "written" /\ disk'.journey # None
  BY <1>1, <1>2, <1>4
<1> QED
  BY <1>4, <1>5, <1>6 DEF Place, Early, Designing, Slicing, Kept, Idle

LEMMA CompletePackagePlace == ASSUME Place, CompletePackage PROVE Place'
<1>1. PICK t \in Stamps(4) :
        Do("indexing", PassStage(Record(journey, {"package_report"}, t[1]), Warned(journey), 4,
                                 "completed", <<t[2], t[3], t[4]>>), t[4])
  BY DEF CompletePackage
<1>2. pc = "written" /\ CanTransition(journey, "passed")
  BY DEF CompletePackage
<1>3. /\ Open(journey) /\ clock \in Nat /\ journey.revision # None /\ Printed(journey)
      /\ Top(journey, 4) /\ Verified2(disk.journey) /\ disk.journey \in FabricationJourney
      /\ disk.journey # None /\ Grown(journey, disk.journey)
  BY <1>2, SlicingFacts DEF Slicing, SliceTop
<1>4. t \in [1..4 -> Nat]
  BY <1>3, StampsAscend
<1> DEFINE v == <<t[2], t[3], t[4]>>
           t1 == t[1]
           d == Record(journey, {"package_report"}, t1)
           warned == Warned(journey)
           n == 4
           level == 4
           job == "completed"
           k == PassStage(d, warned, level, job, v)
<1>5. v[1] \in Nat /\ v[2] \in Nat /\ v[3] \in Nat /\ t1 \in Nat /\ t[4] \in Nat
  BY <1>4
<1>6. pc' = "indexing" /\ journey' = k /\ clock' = t[4] /\ UNCHANGED disk
  BY <1>1 DEF Do, Moves
<1>7. n \in -1..4 /\ level \in 0..4 /\ n <= level /\ job \in JobStatus /\ Top(journey, n)
  BY <1>3 DEF JobStatus
<1> HIDE DEF t1, n, warned, level, job, v
<1>8. Works(d, journey)
  BY <1>3, <1>5, ReportRoles, RecordCarries DEF Works
<1> HIDE DEF d
<1>9. Continues(k, journey) /\ Top(k, level) /\ k.status = job
  <2>1. PICK status \in Successful : Carries(k, d, status, level) /\ k.status = job
    BY <1>5, <1>7, <1>8, WorksOpen, PassStageCarries
  <2> HIDE DEF k
  <2>2. Carries(k, journey, status, level)
    BY <1>3, <1>8, <2>1, WorksThenCarries
  <2>3. Last(journey).status \notin Successful
    BY <1>2, <1>3, MovesFromRunning, NotYetSuccessful
  <2>4. Top(k, level)
    BY <1>3, <1>7, <2>1, <2>2, <2>3, TopPasses
  <2>5. Continues(k, journey)
    BY <1>3, <2>2, CarriesContinues
  <2> QED
    BY <2>1, <2>4, <2>5
<1>10. IndexPlace(journey', disk.journey)
  BY <1>3, <1>6, <1>9 DEF IndexPlace, Continues, level, job
<1> QED
  BY <1>5, <1>6, <1>10, ToIndex

-----------------------------------------------------------------------------
(* The invariant                                                                *)

LEMMA InitPlace == Init => Place
BY NoneFacts DEF Init, PipelineInit, Place, Disk, EmptyDisk, Early, Designing, Slicing, Kept, Idle

LEMMA BriefStepPlace == ASSUME Place, BriefStep PROVE Place'
BY StartBriefPlace, ParseFailsPlace, CompleteBriefPlace, PublishBriefPlace DEF BriefStep

LEMMA CadStepPlace == ASSUME Place, CadStep PROVE Place'
BY StartDesignPlace, RunPlace, RunnerRaisesPlace, DesignFailsPlace, DesignPassesPlace,
   GeometryFailsPlace, GeometryPassesPlace
   DEF CadStep

LEMMA PersistPlace == ASSUME Place, Persist PROVE Place'
BY IndexJourneyPlace, IndexManifestPlace DEF Persist

LEMMA SlicingStepPlace == ASSUME Place, SlicingStep PROVE Place'
<1>1. CASE PackageRefused
  BY <1>1, StopPlace DEF PackageRefused
<1> QED
  BY <1>1, StartPrintabilityPlace, PrintabilityRaisesPlace, PrintabilityFailsPlace,
     PrintabilityPassesPlace, SlicingRaisesPlace, SlicingBlockedPlace, SlicingPassesPlace,
     StartPackagePlace, WritePackagePlace, CompletePackagePlace
     DEF SlicingStep

LEMMA NextPlace == ASSUME Place, [Next]_vars PROVE Place'
<1>1. CASE PipelineStep
  <2>1. CASE Beside(WorkerStep)
    BY <2>1, BesidePlace DEF Beside
  <2> QED
    BY <1>1, <2>1, BriefStepPlace, CadStepPlace, PersistPlace, SlicingStepPlace
       DEF PipelineStep
<1>2. CASE Stop
  BY <1>2, StopPlace DEF Stop
<1>3. CASE DesignTouched
  BY <1>3, BesidePlace DEF DesignTouched, Beside
<1>4. CASE \E r \in Reader : ReaderStep(r)
  BY <1>4, BesidePlace
     DEF ReaderStep, ReadJourney, ReadManifest, ReadPackage, NextRequest, pipelineVars
<1>5. CASE UNCHANGED vars
  BY <1>5, BesidePlace DEF vars
<1> QED
  BY <1>1, <1>2, <1>3, <1>4, <1>5 DEF Next

THEOREM AlwaysPlace == Spec => []Place
<1>1. Init => Place
  BY InitPlace
<1>2. Place /\ [Next]_vars => Place'
  BY NextPlace
<1> QED
  BY <1>1, <1>2, PTL DEF Spec

-----------------------------------------------------------------------------
(* What is on disk only grows                                                   *)

LEMMA PrefixIsSubSeq ==
  ASSUME NEW S, NEW s \in Seq(S), NEW p \in Seq(S), Prefix(s, p)
  PROVE  SubSeq(s, 1, Len(p)) = p
<1> DEFINE q == SubSeq(s, 1, Len(p))
<1>1. Len(p) \in Nat /\ Len(s) \in Nat /\ Len(p) <= Len(s)
  BY DEF Prefix
<1>2. q \in Seq(S) /\ Len(q) = Len(p) /\ \A i \in 1..Len(p) : q[i] = s[i]
  BY <1>1
<1> HIDE DEF q
<1> QED
  BY <1>2 DEF Prefix

LEMMA GrownExtends ==
  ASSUME NEW old \in FabricationJourney, NEW j \in FabricationJourney, Grown(j, old)
  PROVE  Extends(j, old)
<1>1. SubSeq(j.runs, 1, Len(old.runs)) = old.runs
  BY JourneyParts, PrefixIsSubSeq DEF Grown
<1>2. SubSeq(j.events, 1, Len(old.events)) = old.events
  BY JourneyParts, PrefixIsSubSeq DEF Grown, Holds
<1> QED
  BY <1>1, <1>2 DEF Grown, Holds, Extends

LEMMA ExtendsSelf ==
  ASSUME NEW j \in FabricationJourney
  PROVE  Extends(j, j)
<1>1. SubSeq(j.runs, 1, Len(j.runs)) = j.runs
  BY JourneyParts, PrefixSelf, PrefixIsSubSeq
<1>2. SubSeq(j.events, 1, Len(j.events)) = j.events
  BY JourneyParts, PrefixSelf, PrefixIsSubSeq
<1> QED
  BY <1>1, <1>2 DEF Extends

\* Only two steps write journey.json.
LEMMA JourneyFile ==
  ASSUME Place, [Next]_vars
  PROVE  PublishBrief \/ IndexJourney \/ disk'.journey = disk.journey
<1>1. disk \in Disk
  BY DEF Place
<1>2. CASE UNCHANGED disk
  BY <1>2
<1>3. CASE IndexManifest
  BY <1>1, <1>3 DEF IndexManifest, Disk
<1>4. CASE StartPackage
  BY <1>1, <1>4 DEF StartPackage, Disk
<1>5. CASE WritePackage
  BY <1>1, <1>5 DEF WritePackage, Disk
<1>6. CASE BriefStep \/ CadStep
  <2>1. StartBrief \/ ParseFails \/ CompleteBrief => UNCHANGED disk
    BY DEF StartBrief, ParseFails, CompleteBrief, Do, Moves
  <2>2. CadStep => UNCHANGED disk
    BY DEF CadStep, StartDesign, BeginRun, FinishRun, RunnerRaises, DesignFails, DesignPasses,
           GeometryFails, GeometryPasses, Do, Moves
  <2> QED
    BY <1>2, <1>6, <2>1, <2>2 DEF BriefStep
<1>7. CASE SlicingStep
  <2>1. \/ UNCHANGED disk
        \/ StartPackage \/ WritePackage
    BY <1>7 DEF SlicingStep, StartPrintability, PrintabilityRaises, PrintabilityFails,
       PrintabilityPasses, SlicingRaises, SlicingBlocked, SlicingPasses, PackageRefused,
       CompletePackage, Do, Moves
  <2> QED
    BY <1>2, <1>4, <1>5, <2>1
<1>8. CASE Beside(WorkerStep) \/ Stop \/ DesignTouched
  BY <1>2, <1>8 DEF Beside, Stop, DesignTouched
<1>9. CASE \E r \in Reader : ReaderStep(r)
  BY <1>2, <1>9
     DEF ReaderStep, ReadJourney, ReadManifest, ReadPackage, NextRequest, pipelineVars
<1>10. CASE UNCHANGED vars
  BY <1>2, <1>10 DEF vars
<1> QED
  BY <1>3, <1>6, <1>7, <1>8, <1>9, <1>10 DEF Next, PipelineStep, Persist

LEMMA HistoryStep ==
  ASSUME Place, [Next]_vars, disk.journey # None
  PROVE  Extends(disk'.journey, disk.journey)
<1>1. disk \in Disk /\ disk.journey \in FabricationJourney
  BY DEF Place, Disk
<1>2. CASE PublishBrief
  BY <1>2 DEF PublishBrief, Place, Early, EmptyDisk
<1>3. CASE IndexJourney
  <2>1. IndexPlace(journey, disk.journey)
    BY <1>3 DEF Place, IndexJourney
  <2>2. Grown(journey, disk.journey) /\ journey \in FabricationJourney
    BY <2>1 DEF IndexPlace, Open
  <2>3. disk'.journey = journey
    BY <1>1, <1>3 DEF IndexJourney, Disk
  <2> QED
    BY <1>1, <2>2, <2>3, GrownExtends
<1>4. CASE disk'.journey = disk.journey
  BY <1>1, <1>4, ExtendsSelf
<1> QED
  BY <1>2, <1>3, <1>4, JourneyFile

\* No later stage, failed or not, changes or drops a run, an event, an artifact or a
\* finding of a journey that is on disk (ProjectStore._persist, FabricationJourney).
THEOREM HistoryIsKept == Spec => PublishedHistoryKept
<1>1. Place /\ [Next]_vars => [disk.journey # None => Extends(disk'.journey, disk.journey)]_vars
  BY HistoryStep
<1> QED
  BY <1>1, AlwaysPlace, PTL DEF Spec, PublishedHistoryKept

-----------------------------------------------------------------------------
(* What is on disk climbs the ladder                                            *)

LEMMA TopIsLevel ==
  ASSUME NEW j \in FabricationJourney, NEW n \in -1..4, Top(j, n)
  PROVE  LevelOf(j) = n
<1> DEFINE Reached(m) ==
             /\ \A i \in DOMAIN j.runs : j.runs[i].status \in Successful => j.runs[i].level <= m
             /\ m = -1 \/ \E i \in DOMAIN j.runs :
                            j.runs[i].status \in Successful /\ j.runs[i].level = m
<1>1. DOMAIN j.runs = 1..Len(j.runs)
  BY RunsDomain
<1>2. \A i \in DOMAIN j.runs : j.runs[i].status \in Successful => j.runs[i].level \in 0..n
  BY <1>1 DEF Top
<1>3. n = -1 \/ \E i \in DOMAIN j.runs : j.runs[i].status \in Successful /\ j.runs[i].level = n
  BY <1>1 DEF Top
<1>4. Reached(n)
  BY <1>2, <1>3
<1>5. ASSUME NEW m \in -1..4, Reached(m)
      PROVE  m = n
  <2>1. CASE m = -1
    BY <1>2, <1>3, <1>5, <2>1
  <2>2. CASE m # -1
    <3>1. PICK i \in DOMAIN j.runs : j.runs[i].status \in Successful /\ j.runs[i].level = m
      BY <1>5, <2>2
    <3>2. m <= n /\ n # -1
      BY <1>2, <3>1
    <3>3. PICK k \in DOMAIN j.runs : j.runs[k].status \in Successful /\ j.runs[k].level = n
      BY <1>3, <3>2
    <3>4. n <= m
      BY <1>5, <3>3
    <3> QED
      BY <3>2, <3>4
  <2> QED
    BY <2>1, <2>2
<1>6. LevelOf(j) = CHOOSE m \in -1..4 : Reached(m)
  BY DEF LevelOf
<1> HIDE DEF Reached
<1> QED
  BY <1>4, <1>5, <1>6

LEMMA LadderStep ==
  ASSUME Place, [Next]_vars
  PROVE  [Ladder!Next]_(Ladder!ladder)
<1> DEFINE old == disk.journey
           new == disk'.journey
<1>1. disk \in Disk
  BY DEF Place
<1>2. CASE new = old
  BY <1>2 DEF Ladder!ladder
<1>3. CASE PublishBrief
  <2>1. EarlyPlace("confirmed", journey) /\ old = None
    BY <1>3 DEF PublishBrief, Place, Early, EmptyDisk
  <2>2. new = journey /\ new \in FabricationJourney /\ new.status = "ready_for_design" /\ Top(new, 0)
    BY <1>1, <1>3, <2>1 DEF PublishBrief, Disk, EarlyPlace, Open
  <2>3. LevelOf(new) = 0 /\ new # None
    BY <2>2, TopIsLevel, NoneFacts
  <2> QED
    BY <2>1, <2>2, <2>3 DEF Ladder!Next, Ladder!ConfirmBrief
<1>4. CASE IndexJourney
  <2>1. IndexPlace(journey, old) /\ new = journey
    BY <1>1, <1>4 DEF Place, IndexJourney, Disk
  <2>2. new \in FabricationJourney /\ new # None
    BY <2>1, NoneFacts DEF IndexPlace, Open
  <2>3. \A n \in 0..4 : Top(new, n) => LevelOf(new) = n
    BY <2>2, TopIsLevel
  <2>4. CASE old = None
    <3>1. CASE new.status = "failed" /\ (Top(new, 0) \/ Top(new, 1))
      BY <2>2, <2>3, <2>4, <3>1 DEF Ladder!Next, Ladder!FailDesign
    <3>2. CASE Verified2(new)
      BY <2>2, <2>3, <2>4, <3>2 DEF Verified2, Ladder!Next, Ladder!Verify
    <3> QED
      BY <2>1, <2>4, <3>1, <3>2 DEF IndexPlace
  <2>5. CASE old # None
    <3>1. old.status = "geometry_verified"
      BY <2>1, <2>5 DEF IndexPlace, Verified2
    <3>2. CASE new.status = "failed" /\ (Top(new, 2) \/ Top(new, 3))
      BY <2>2, <2>3, <2>5, <3>1, <3>2 DEF Ladder!Next, Ladder!FailFabrication
    <3>3. CASE new.status = "completed" /\ Top(new, 4)
      BY <2>2, <2>3, <2>5, <3>1, <3>3 DEF Ladder!Next, Ladder!Complete
    <3> QED
      BY <2>1, <2>5, <3>2, <3>3 DEF IndexPlace
  <2> QED
    BY <2>4, <2>5
<1> QED
  BY <1>2, <1>3, <1>4, JourneyFile

\* A revision on disk claims a confirmed Brief, a verified design, a package or a failure
\* at the level before, in this order, and nothing after a failure or a package
\* (PipelineOrchestrator.confirm_brief, CadPipeline.run, SlicingPipeline.run).
THEOREM LadderIsClimbed == Spec => ImplementsLadder
<1>1. Init => Ladder!Init
  BY DEF Init, PipelineInit, EmptyDisk, Ladder!Init
<1>2. Place /\ [Next]_vars => [Ladder!Next]_(Ladder!ladder)
  BY LadderStep
<1> QED
  BY <1>1, <1>2, AlwaysPlace, PTL DEF Spec, ImplementsLadder, Ladder!Spec

-----------------------------------------------------------------------------
(* What was published                                                           *)

\* Nothing of a slicing pipeline is on disk or was published.
Fresh ==
  \/ disk.journey = None
  \/ pc \in {"briefed", "designed"}
  \/ (pc = "indexed" /\ ~Printed(journey))

\* The slicing pipeline goes on from what is on disk.
Underway == pc \in Slicing \/ (pc = "indexing" /\ disk.journey # None)

\* The evidence of a design, as the slicing pipeline took it over.
Shelved(d) ==
  /\ d \in Disk /\ d.journey # None /\ d.manifest # None /\ d.package = None
  /\ PassedRuns(d.journey, "fabrication_package") = {}
  /\ d.manifest.runs = OwnedRuns(d.journey)

\* No journey on disk but the published one has the runs of its manifest, and the
\* manifest on disk is one that was published.
Shelf ==
  /\ \A d \in published :
       /\ Shelved(d) /\ disk.manifest # None
       /\ d.journey = disk.journey \/ OwnedRuns(d.journey) # OwnedRuns(disk.journey)
  /\ \A d, e \in published : d = e
  /\ Fresh => published = {} /\ disk.package = None
  /\ Underway => \E d \in published : d.journey = disk.journey
  /\ pc \in Settled => disk.manifest # None /\ disk.manifest.runs = OwnedRuns(disk.journey)
  /\ disk.manifest # None => \E d \in Publications : d.manifest = disk.manifest
  /\ disk.manifest = None /\ disk.journey # None => ~Printed(disk.journey)

\* The steps that write no index and publish nothing.
Quiet ==
  /\ disk'.journey = disk.journey /\ disk'.manifest = disk.manifest
  /\ published' = published
  /\ pc \in Settled \/ pc' \in Settled \cup {"indexed"} => UNCHANGED <<pc, journey, disk>>
  /\ Underway' => Underway
  /\ disk'.package = disk.package \/ Underway

LEMMA ResultIsPublished ==
  ASSUME Publication, pc \notin Settled
  PROVE  published' = published
BY DEF Publication, Publications

LEMMA InMemoryIsQuiet ==
  ASSUME Place, Publication, pc \notin Settled, pc' \notin Settled \cup {"indexed"},
         UNCHANGED disk, pc' \in Slicing \cup {"indexing"} => pc \in Slicing \/ disk.journey = None,
         pc' \in Slicing => pc \in Slicing
  PROVE  Quiet
BY ResultIsPublished DEF Quiet, Underway

LEMMA BesideIsQuiet ==
  ASSUME Publication, UNCHANGED <<pc, journey, disk>>
  PROVE  Quiet
BY DEF Quiet, Underway, Publication, Publications

LEMMA BriefIsQuiet ==
  ASSUME Place, Publication, BriefStep
  PROVE  PublishBrief \/ Quiet
<1>1. CASE StartBrief
  <2>1. pc = "start" /\ pc' \in Gate /\ UNCHANGED disk
    BY <1>1 DEF StartBrief, Do, Moves
  <2> QED
    BY <2>1, InMemoryIsQuiet DEF Gate, Settled, Slicing
<1>2. CASE ParseFails
  <2>1. pc = "request" /\ pc' \in {"request", "answered"} /\ UNCHANGED disk
    BY <1>2 DEF ParseFails, Do, Moves
  <2> QED
    BY <2>1, InMemoryIsQuiet DEF Settled, Slicing
<1>3. CASE CompleteBrief
  <2> DEFINE End(p) == [request |-> "answered", draft |-> "confirmed", spec |-> "ready"][p]
  <2>1. \/ pc' = End(pc)
        \/ pc' = IF pc = "request" THEN "answered" ELSE "refused"
    BY <1>3, Zenon DEF CompleteBrief, Do, Moves
  <2>2. pc \in Gate /\ UNCHANGED disk
    BY <1>3 DEF CompleteBrief, Do, Moves
  <2>3. pc' \in {"answered", "confirmed", "ready", "refused"}
    BY <2>1, <2>2 DEF Gate
  <2> QED
    BY <2>2, <2>3, InMemoryIsQuiet DEF Gate, Settled, Slicing
<1> QED
  BY <1>1, <1>2, <1>3 DEF BriefStep

LEMMA CadIsQuiet ==
  ASSUME Place, Publication, CadStep
  PROVE  Quiet
<1>1. CASE StartDesign
  <2>1. /\ pc \in {"ready", "refused", "designed"} /\ journey.status = "ready_for_design"
        /\ pc' = "designing" /\ UNCHANGED disk
    BY <1>1 DEF StartDesign, RequireReady, Do, Moves
  <2>2. pc # "designed"
    BY <2>1 DEF Place, Kept, KeptPlace
  <2> QED
    BY <2>1, <2>2, InMemoryIsQuiet DEF Settled, Slicing
<1>2. CASE ~StartDesign
  <2>1. pc \in Designing /\ pc' \in Designing \cup {"indexing"} /\ UNCHANGED disk
    BY <1>2 DEF CadStep, BeginRun, FinishRun, RunnerRaises, DesignFails, DesignPasses,
                GeometryFails, GeometryPasses, Do, Moves, Designing
  <2>2. disk.journey = None
    BY <2>1 DEF Place, EmptyDisk
  <2> QED
    BY <2>1, <2>2, InMemoryIsQuiet DEF Settled, Slicing, Designing
<1> QED
  BY <1>1, <1>2

LEMMA SlicingIsQuiet ==
  ASSUME Place, Publication, SlicingStep
  PROVE  StartPrintability \/ Quiet
<1>1. disk \in Disk
  BY DEF Place
<1>2. CASE StartPackage \/ WritePackage
  <2>1. pc \in Slicing /\ pc' \in Slicing
    BY <1>2 DEF StartPackage, WritePackage, Slicing
  <2>2. disk'.journey = disk.journey /\ disk'.manifest = disk.manifest
    BY <1>1, <1>2 DEF StartPackage, WritePackage, Disk
  <2> QED
    BY <2>1, <2>2, ResultIsPublished DEF Quiet, Underway, Settled, Slicing
<1>3. CASE ~StartPrintability /\ ~StartPackage /\ ~WritePackage
  <2>1. pc \in Slicing /\ pc' \in Slicing \cup {"indexing", "unpackaged"} /\ UNCHANGED disk
    BY <1>3 DEF SlicingStep, PrintabilityRaises, PrintabilityFails, PrintabilityPasses,
                SlicingRaises, SlicingBlocked, SlicingPasses, PackageRefused, CompletePackage,
                Do, Moves, Slicing
  <2> QED
    BY <2>1, InMemoryIsQuiet DEF Settled, Slicing
<1> QED
  BY <1>2, <1>3

LEMMA StepKinds ==
  ASSUME Place, [Next]_vars
  PROVE  \/ Quiet
         \/ /\ Publication /\ UNCHANGED reader
            /\ PublishBrief \/ IndexJourney \/ IndexManifest \/ StartPrintability
<1>1. CASE UNCHANGED reader /\ PipelineStep /\ Publication
  <2>1. CASE Beside(WorkerStep)
    BY <1>1, <2>1, BesideIsQuiet DEF Beside
  <2> QED
    BY <1>1, <2>1, BriefIsQuiet, CadIsQuiet, SlicingIsQuiet DEF PipelineStep, Persist
<1>2. CASE Stop /\ Publication
  <2>1. pc \notin Settled /\ pc' = "stopped" /\ UNCHANGED disk
    BY <1>2 DEF Stop
  <2> QED
    BY <1>2, <2>1, InMemoryIsQuiet DEF Settled, Slicing
<1>3. CASE DesignTouched /\ Publication
  BY <1>3, BesideIsQuiet DEF DesignTouched, Beside
<1>4. CASE UNCHANGED <<pipelineVars, published>>
  BY <1>4 DEF pipelineVars, Quiet, Underway
<1>5. CASE \E r \in Reader : ReaderStep(r)
  BY <1>4, <1>5 DEF ReaderStep, ReadJourney, ReadManifest, ReadPackage, NextRequest
<1>6. CASE UNCHANGED vars
  BY <1>4, <1>6 DEF vars, pipelineVars
<1> QED
  BY <1>1, <1>2, <1>3, <1>5, <1>6 DEF Next

LEMMA InitShelf == Init => Shelf
BY DEF Init, PipelineInit, Shelf, Fresh, Underway, EmptyDisk, Slicing, Settled, Publications

LEMMA QuietShelf == ASSUME Place, Shelf, Place', Quiet PROVE Shelf'
<1>1. /\ disk'.journey = disk.journey /\ disk'.manifest = disk.manifest /\ published' = published
      /\ Underway' => Underway
  BY DEF Quiet
<1>2. CASE UNCHANGED <<pc, journey, disk>>
  BY <1>1, <1>2 DEF Shelf, Fresh, Underway, Publications, Shelved
<1>3. CASE pc \notin Settled /\ pc' \notin Settled \cup {"indexed"}
  <2>1. Publications = published /\ Publications' = published
    BY <1>1, <1>3 DEF Publications
  <2>2. Fresh' => disk.journey = None
    BY <1>1, <1>3 DEF Fresh, Settled
  <2>3. Fresh' => Fresh /\ disk'.package = None
    <3> SUFFICES ASSUME Fresh' PROVE Fresh /\ disk'.package = None
      OBVIOUS
    <3>1. disk'.journey = None /\ disk' = EmptyDisk
      BY <1>1, <2>2 DEF Place
    <3> QED
      BY <2>2, <3>1 DEF Fresh, EmptyDisk
  <2>4. \A d \in published' : Shelved(d)'
    BY <1>1 DEF Shelf, Shelved
  <2>5. \A d \in published' :
          /\ disk'.manifest # None
          /\ d.journey = disk'.journey \/ OwnedRuns(d.journey) # OwnedRuns(disk'.journey)
    BY <1>1 DEF Shelf
  <2>6. \A d, e \in published' : d = e
    BY <1>1 DEF Shelf
  <2>7. Fresh' => published' = {} /\ disk'.package = None
    BY <1>1, <2>3 DEF Shelf
  <2>8. Underway' => \E d \in published' : d.journey = disk'.journey
    BY <1>1 DEF Shelf
  <2>9. disk'.manifest # None => \E d \in Publications' : d.manifest = disk'.manifest
    BY <1>1, <2>1 DEF Shelf
  <2>10. disk'.manifest = None /\ disk'.journey # None => ~Printed(disk'.journey)
    BY <1>1 DEF Shelf
  <2> QED
    BY <1>3, <2>4, <2>5, <2>6, <2>7, <2>8, <2>9, <2>10 DEF Shelf, Shelved
<1> QED
  BY <1>2, <1>3 DEF Quiet

LEMMA ManifestMade ==
  ASSUME clock \in Nat, NEW j \in FabricationJourney, NEW t \in Stamps(1)
  PROVE  Manifest(j, t[1]).runs = OwnedRuns(j) /\ Manifest(j, t[1]) # None
<1>1. t \in [1..1 -> Nat]
  BY StampsAscend
<1>2. t[1] \in Nat
  BY <1>1
<1> QED
  BY <1>2, ManifestType, NoneFacts DEF Manifest

LEMMA PublishBriefShelf ==
  ASSUME Place, Shelf, Place', PublishBrief, Publication
  PROVE  Shelf'
<1>1. PICK t \in Stamps(1) :
        /\ disk' = [disk EXCEPT !.journey = journey, !.manifest = Manifest(journey, t[1])]
        /\ pc = "confirmed" /\ pc' = "briefed" /\ UNCHANGED journey
  BY DEF PublishBrief
<1>2. disk = EmptyDisk /\ disk \in Disk
  BY <1>1 DEF Place, Early
<1>3. /\ disk'.journey = journey /\ disk'.package = None
      /\ disk'.manifest.runs = OwnedRuns(journey) /\ disk'.manifest # None
  <2> DEFINE m == Manifest(journey, t[1])
  <2>1. clock \in Nat /\ journey \in FabricationJourney
    BY <1>1 DEF Place, Early, EarlyPlace, Open
  <2>2. m.runs = OwnedRuns(journey) /\ m # None
    BY <2>1, ManifestMade
  <2>3. disk' = [disk EXCEPT !.journey = journey, !.manifest = m]
    BY <1>1
  <2> HIDE DEF m
  <2> QED
    BY <1>2, <2>2, <2>3 DEF Disk, EmptyDisk
<1>4. published = {} /\ published' = {}
  BY <1>1, <1>2 DEF Shelf, Fresh, EmptyDisk, Publication, Settled
<1>5. BriefOnly(journey) /\ ~Underway'
  BY <1>1 DEF Place, Early, EarlyPlace, Underway, Slicing
<1>6. Publications' = {disk'}
  BY <1>1, <1>4 DEF Publications, Settled
<1> QED
  BY <1>1, <1>3, <1>4, <1>5, <1>6, BriefIsUnprinted DEF Shelf

LEMMA GrownOwnsMore ==
  ASSUME NEW old \in FabricationJourney, NEW j \in FabricationJourney, Grown(j, old)
  PROVE  OwnedRuns(j) # OwnedRuns(old)
<1>1. Len(old.runs) \in Nat /\ Len(j.runs) \in Nat /\ Len(old.runs) < Len(j.runs)
  BY JourneyParts DEF Grown
<1>2. Len(old.runs) + 1 \in DOMAIN j.runs /\ Len(old.runs) + 1 \notin DOMAIN old.runs
  BY <1>1, RunsDomain
<1>3. j.runs[Len(old.runs) + 1].owned
  BY DEF Grown
<1> QED
  BY <1>2, <1>3 DEF OwnedRuns

LEMMA IndexJourneyShelf ==
  ASSUME Place, Shelf, Place', IndexJourney, Publication
  PROVE  Shelf'
<1>1. /\ disk' = [disk EXCEPT !.journey = journey] /\ pc = "indexing" /\ pc' = "indexed"
      /\ UNCHANGED journey
  BY DEF IndexJourney
<1>2. disk \in Disk /\ IndexPlace(journey, disk.journey) /\ journey \in FabricationJourney
  BY <1>1 DEF Place, IndexPlace, Open
<1>3. /\ disk'.journey = journey /\ disk'.manifest = disk.manifest /\ disk'.package = disk.package
      /\ journey # None
  BY <1>1, <1>2, NoneFacts DEF Disk
<1>4. published' = published /\ Publications = published /\ Publications' = published
  BY <1>1 DEF Publication, Publications, Settled
<1>5. ~Underway' /\ pc' \notin Settled
  BY <1>1 DEF Underway, Slicing, Settled
<1>6. CASE disk.journey = None
  <2>1. published = {} /\ disk.package = None /\ disk.manifest = None
    BY <1>6 DEF Shelf, Fresh, Place, EmptyDisk
  <2>2. ~Printed(journey)
    BY <1>2, <1>6 DEF IndexPlace
  <2> QED
    BY <1>3, <1>4, <1>5, <2>1, <2>2 DEF Shelf
<1>7. CASE disk.journey # None
  <2>1. Grown(journey, disk.journey) /\ Printed(journey) /\ disk.journey \in FabricationJourney
    BY <1>2, <1>7 DEF IndexPlace, Disk
  <2>2. PICK d \in published : d.journey = disk.journey
    BY <1>1, <1>7 DEF Shelf, Underway
  <2>3. \A e \in published : e.journey = disk.journey /\ Shelved(e) /\ disk.manifest # None
    BY <2>2 DEF Shelf
  <2>4. \A e \in published : OwnedRuns(e.journey) # OwnedRuns(disk'.journey)
    BY <1>2, <1>3, <2>1, <2>3, GrownOwnsMore
  <2>5. ~Fresh'
    BY <1>1, <1>3, <2>1 DEF Fresh
  <2>6. \A e \in published : Shelved(e)'
    BY <2>3 DEF Shelved
  <2>7. \A a, e \in published' : a = e
    BY <1>4 DEF Shelf
  <2>8. \E e \in Publications' : e.manifest = disk'.manifest
    BY <1>3, <1>4, <2>2, <2>3 DEF Shelf
  <2> QED
    BY <1>3, <1>4, <1>5, <2>2, <2>3, <2>4, <2>5, <2>6, <2>7, <2>8 DEF Shelf, Shelved
<1> QED
  BY <1>6, <1>7

LEMMA IndexManifestShelf ==
  ASSUME Place, Shelf, Place', IndexManifest, Publication
  PROVE  Shelf'
<1>1. PICK t \in Stamps(1) :
        /\ disk' = [disk EXCEPT !.manifest = Manifest(journey, t[1])]
        /\ pc = "indexed" /\ UNCHANGED journey
        /\ pc' = IF HasRun(journey, {"printability_validation"}) THEN "fabricated" ELSE "designed"
  BY DEF IndexManifest
<1>2. clock \in Nat /\ disk \in Disk /\ journey = disk.journey /\ journey \in FabricationJourney
  BY <1>1 DEF Place, Kept, KeptPlace, Open
<1>3. /\ disk'.journey = disk.journey /\ disk'.package = disk.package
      /\ disk'.manifest.runs = OwnedRuns(journey) /\ disk'.manifest # None
  <2> DEFINE m == Manifest(journey, t[1])
  <2>1. m.runs = OwnedRuns(journey) /\ m # None
    BY <1>2, ManifestMade
  <2>2. disk' = [disk EXCEPT !.manifest = m]
    BY <1>1
  <2> HIDE DEF m
  <2> QED
    BY <1>2, <2>1, <2>2 DEF Disk
<1>4. pc' = IF Printed(journey) THEN "fabricated" ELSE "designed"
  BY <1>1, <1>2, PrintedIsRun
<1>5. published' = published /\ disk' \in Publications'
  BY <1>4 DEF Publication, Publications, Settled
<1>6. ~Underway' /\ (Fresh' => Fresh)
  BY <1>1, <1>2, <1>3, <1>4 DEF Underway, Slicing, Fresh
<1>7. \A d \in published' : /\ Shelved(d)'
                            /\ d.journey = disk'.journey
                                 \/ OwnedRuns(d.journey) # OwnedRuns(disk'.journey)
  BY <1>3, <1>5 DEF Shelf, Shelved
<1>8. \A d, e \in published' : d = e
  BY <1>5 DEF Shelf
<1>9. Fresh' => published' = {} /\ disk'.package = None
  BY <1>3, <1>5, <1>6 DEF Shelf
<1> QED
  BY <1>2, <1>3, <1>5, <1>6, <1>7, <1>8, <1>9 DEF Shelf, Shelved

LEMMA StartPrintabilityShelf ==
  ASSUME Place, Shelf, Place', StartPrintability, Publication
  PROVE  Shelf'
<1>1. /\ pc \in {"designed", "fabricated"} /\ RequireR2(journey) /\ pc' = "assessing"
      /\ UNCHANGED disk
  BY DEF StartPrintability, Do, Moves
<1>2. /\ disk \in Disk /\ journey = disk.journey /\ journey \in FabricationJourney
      /\ KeptPlace(pc, journey) /\ journey # None
  BY <1>1, NoneFacts DEF Place, Kept, KeptPlace, Open
<1>3. ~HasRun(journey, {"printability_validation", "slicing", "fabrication_package"})
  BY <1>1 DEF RequireR2
<1>4. pc = "designed"
  <2>1. ~HasRun(journey, {"printability_validation"})
    BY <1>3 DEF HasRun
  <2> QED
    BY <1>1, <1>2, <2>1, PrintedIsRun DEF KeptPlace
<1>5. PassedRuns(journey, "fabrication_package") = {}
  BY <1>3 DEF HasRun, PassedRuns
<1>6. published = {} /\ disk.package = None
  BY <1>4 DEF Shelf, Fresh
<1>7. published' = {disk} /\ Publications' = {disk}
  BY <1>1, <1>4, <1>6 DEF Publication, Publications, Settled
<1>8. disk.manifest # None /\ disk.manifest.runs = OwnedRuns(disk.journey)
  BY <1>4 DEF Shelf, Settled
<1>9. Shelved(disk)
  BY <1>2, <1>5, <1>6, <1>8 DEF Shelved
<1>10. ~Fresh' /\ pc' \notin Settled
  BY <1>1, <1>2 DEF Fresh, Settled
<1> QED
  BY <1>1, <1>2, <1>7, <1>8, <1>9, <1>10 DEF Shelf, Shelved

LEMMA NextShelf == ASSUME Place, Shelf, [Next]_vars PROVE Shelf'
BY NextPlace, StepKinds, QuietShelf, PublishBriefShelf, IndexJourneyShelf, IndexManifestShelf,
   StartPrintabilityShelf

-----------------------------------------------------------------------------
(* Requests                                                                     *)

Request ==
  [pc : {"journey", "manifest", "package", "shown"}, journey : FabricationJourney \cup {None},
   manifest : ArtifactManifest \cup {None}, package : Package \cup {None},
   fault : Edits \cup {"recorded"}]

\* What a request has read is on disk, or it was published.
Asked(q) ==
  /\ q.pc \in {"manifest", "package"} =>
       /\ q.journey # None
       /\ q.journey = disk.journey \/ \E d \in published : d.journey = q.journey
  /\ q.pc = "package" =>
       IF q.manifest = None THEN ~Printed(q.journey)
       ELSE \E d \in Publications : d.manifest = q.manifest

Shown(q) ==
  q.pc = "shown" =>
    \/ [journey |-> q.journey, manifest |-> q.manifest, package |-> q.package] \in Publications
    \/ q.manifest = None /\ q.package = None /\ ~HasRun(q.journey, {"printability_validation"})

Requests ==
  /\ reader \in [Reader -> Request]
  /\ \A r \in Reader : Asked(reader[r]) /\ Shown(reader[r])

\* A publication stays one, and a step that replaces the journey on disk replaces one
\* that was published.
LEMMA ShelfGrows ==
  ASSUME Place, Shelf, [Next]_vars
  PROVE  /\ published \subseteq published' /\ Publications \subseteq Publications'
         /\ \/ disk'.journey = disk.journey \/ disk.journey = None
            \/ \E d \in published : d.journey = disk.journey
<1>1. CASE Quiet
  <2>1. disk'.journey = disk.journey /\ published' = published
    BY <1>1 DEF Quiet
  <2>2. Publications \subseteq Publications'
    BY <1>1 DEF Quiet, Publications
  <2> QED
    BY <2>1, <2>2
<1>2. CASE Publication /\ (PublishBrief \/ IndexJourney \/ IndexManifest \/ StartPrintability)
  <2>1. published \subseteq published'
    BY <1>2 DEF Publication, Publications
  <2>2. CASE pc \in Settled
    <3>1. pc' = "assessing" /\ UNCHANGED disk
      BY <1>2, <2>2 DEF PublishBrief, IndexJourney, IndexManifest, StartPrintability, Do, Moves,
                        Settled
    <3> QED
      BY <1>2, <2>1, <3>1 DEF Publication, Publications, Settled
  <2>3. CASE pc \notin Settled
    <3>1. Publications = published
      BY <2>3 DEF Publications
    <3>2. published' \subseteq Publications'
      BY DEF Publications
    <3>3. \/ disk'.journey = disk.journey \/ disk.journey = None
          \/ \E d \in published : d.journey = disk.journey
      <4>1. CASE PublishBrief
        BY <4>1 DEF PublishBrief, Place, Early, EmptyDisk
      <4>2. CASE IndexJourney
        BY <4>2 DEF IndexJourney, Shelf, Underway
      <4>3. CASE IndexManifest \/ StartPrintability
        BY <4>3 DEF IndexManifest, StartPrintability, Do, Moves, Place, Disk
      <4> QED
        BY <1>2, <4>1, <4>2, <4>3
    <3> QED
      BY <2>1, <3>1, <3>2, <3>3
  <2> QED
    BY <2>2, <2>3
<1> QED
  BY <1>1, <1>2, StepKinds

\* Whatever the others do.
LEMMA RequestStays ==
  ASSUME Place, Shelf, [Next]_vars, NEW q, Asked(q), Shown(q)
  PROVE  Asked(q)' /\ Shown(q)'
<1>1. /\ published \subseteq published' /\ Publications \subseteq Publications'
      /\ \/ disk'.journey = disk.journey \/ disk.journey = None
         \/ \E d \in published : d.journey = disk.journey
  BY ShelfGrows
<1> QED
  BY <1>1 DEF Asked, Shown

LEMMA ReadJourneyRequests ==
  ASSUME Place, Shelf, Requests, NEW r \in Reader, ReadJourney(r)
  PROVE  reader'[r] \in Request /\ Asked(reader'[r]) /\ Shown(reader'[r])
<1>1. /\ reader[r] \in Request /\ disk.journey # None /\ disk.journey \in FabricationJourney
      /\ reader'[r] = [reader[r] EXCEPT !.pc = "manifest", !.journey = disk.journey]
  BY DEF Requests, ReadJourney, Place, Disk
<1>2. /\ reader'[r] \in Request /\ reader'[r].pc = "manifest"
      /\ reader'[r].journey = disk.journey
  BY <1>1 DEF Request
<1> QED
  BY <1>1, <1>2 DEF Asked, Shown

LEMMA ReadManifestRequests ==
  ASSUME Place, Shelf, Requests, NEW r \in Reader, ReadManifest(r)
  PROVE  reader'[r] \in Request /\ Asked(reader'[r]) /\ Shown(reader'[r])
<1>1. /\ reader[r] \in Request /\ reader[r].pc = "manifest" /\ Asked(reader[r])
      /\ reader'[r] = [reader[r] EXCEPT !.pc = "package", !.manifest = disk.manifest]
      /\ disk \in Disk
  BY DEF Requests, ReadManifest, Place
<1>2. /\ reader'[r] \in Request /\ reader'[r].pc = "package"
      /\ reader'[r].journey = reader[r].journey /\ reader'[r].manifest = disk.manifest
  BY <1>1 DEF Request, Disk
<1>3. /\ reader[r].journey # None
      /\ \/ reader[r].journey = disk.journey
         \/ \E d \in published : d.journey = reader[r].journey
  BY <1>1 DEF Asked
<1>4. CASE disk.manifest = None
  <2>1. published = {} /\ ~Printed(disk.journey)
    BY <1>3, <1>4 DEF Shelf
  <2> QED
    BY <1>2, <1>3, <1>4, <2>1 DEF Asked, Shown
<1>5. CASE disk.manifest # None
  <2>1. \E d \in Publications : d.manifest = disk.manifest
    BY <1>5 DEF Shelf
  <2> QED
    BY <1>2, <1>3, <1>5, <2>1 DEF Asked, Shown
<1> QED
  BY <1>4, <1>5

\* The checks leave no other combination of files.
LEMMA AcceptedIsPublished ==
  ASSUME Place, Shelf, NEW q, q \in Request, q.pc = "package", Asked(q),
         Accepts(q.journey, q.manifest, disk.package)
  PROVE  \/ [journey |-> q.journey, manifest |-> q.manifest, package |-> disk.package]
              \in Publications
         \/ /\ q.manifest = None /\ disk.package = None
            /\ ~HasRun(q.journey, {"printability_validation"})
<1> DEFINE j == q.journey
           m == q.manifest
           p == disk.package
<1>1. /\ j # None /\ ManifestAgrees(j, m) /\ PackageConsistent(j, m, p)
  BY DEF Accepts
<1>2. disk \in Disk /\ j \in FabricationJourney
  BY <1>1 DEF Place, Request
<1>3. CASE m = None
  <2>1. p = None
    BY <1>1, <1>3 DEF PackageConsistent
  <2>2. ~Printed(j)
    BY <1>3 DEF Asked
  <2> QED
    BY <1>2, <1>3, <2>1, <2>2, PrintedIsRun
<1>4. CASE m # None
  <2>1. PICK d \in Publications : d.manifest = m
    BY <1>4 DEF Asked
  <2>2. m.runs = OwnedRuns(j)
    BY <1>1, <1>4 DEF ManifestAgrees
  <2>3. \A e \in published : PassedRuns(e.journey, "fabrication_package") = {}
                             /\ e.package = None /\ e \in Disk
    BY DEF Shelf, Shelved
  <2>4. j = disk.journey \/ \E e \in published : e.journey = j
    BY DEF Asked
  \* Of a publication with the same runs, the request has the journey.
  <2>5. CASE d \in published
    <3>1. d.manifest.runs = OwnedRuns(d.journey)
      BY <2>5 DEF Shelf, Shelved
    <3>2. d.journey = j
      <4>1. CASE j = disk.journey
        BY <2>1, <2>2, <2>5, <3>1, <4>1 DEF Shelf
      <4>2. CASE \E e \in published : e.journey = j
        BY <2>5, <4>2 DEF Shelf
      <4> QED
        BY <2>4, <4>1, <4>2
    <3>3. p = None
      BY <1>1, <2>3, <2>5, <3>2 DEF PackageConsistent
    <3>4. d = [journey |-> j, manifest |-> m, package |-> p]
      BY <2>1, <2>3, <2>5, <3>2, <3>3 DEF Disk
    <3> QED
      BY <2>1, <3>4
  <2>6. CASE d = disk /\ pc \in Settled
    <3>1. OwnedRuns(disk.journey) = OwnedRuns(j)
      BY <2>1, <2>2, <2>6 DEF Shelf
    <3>2. disk.journey = j
      BY <2>4, <3>1 DEF Shelf
    <3>3. disk = [journey |-> j, manifest |-> m, package |-> p]
      BY <1>2, <2>1, <2>6, <3>2 DEF Disk
    <3> QED
      BY <2>1, <2>6, <3>3
  <2> QED
    BY <2>1, <2>5, <2>6 DEF Publications
<1> QED
  BY <1>3, <1>4

LEMMA WaitingIsFine == Waiting \in Request /\ Asked(Waiting) /\ Shown(Waiting)
BY DEF Waiting, Request, Asked, Shown

LEMMA ReadPackageRequests ==
  ASSUME Place, Shelf, Requests, NEW r \in Reader, ReadPackage(r)
  PROVE  reader'[r] \in Request /\ Asked(reader'[r]) /\ Shown(reader'[r])
<1> DEFINE q == reader[r]
           p == disk.package
           seen == [q EXCEPT !.pc = "shown", !.package = p, !.fault = Fault]
<1>1. q \in Request /\ q.pc = "package" /\ Asked(q) /\ disk \in Disk
  BY DEF Requests, ReadPackage, Place
<1>2. \/ reader'[r] = Waiting
      \/ reader'[r] = seen /\ Accepts(q.journey, q.manifest, p)
  BY DEF ReadPackage, Requests
<1>3. CASE reader'[r] = Waiting
  BY <1>3, WaitingIsFine
<1>4. CASE reader'[r] = seen /\ Accepts(q.journey, q.manifest, p)
  <2>1. Fault \in Edits \cup {"recorded"}
    BY DEF Fault, DesignEdited
  <2>2. /\ seen \in Request /\ seen.pc = "shown" /\ seen.journey = q.journey
        /\ seen.manifest = q.manifest /\ seen.package = p
    <3> HIDE DEF Fault
    <3> QED
      BY <1>1, <2>1 DEF Request, Disk
  <2>3. Shown(seen)
    <3> HIDE DEF seen, q
    <3> QED
      BY <1>1, <1>4, <2>2, AcceptedIsPublished DEF Shown
  <2> QED
    BY <1>4, <2>2, <2>3 DEF Asked
<1> QED
  BY <1>2, <1>3, <1>4

LEMMA NextRequests ==
  ASSUME Place, Shelf, Requests, [Next]_vars
  PROVE  Requests'
<1>1. \A q : Asked(q) /\ Shown(q) => Asked(q)' /\ Shown(q)'
  BY RequestStays
<1>2. CASE UNCHANGED reader
  BY <1>1, <1>2 DEF Requests
<1>3. CASE \E r \in Reader : ReaderStep(r)
  <2>1. PICK r \in Reader : ReaderStep(r)
    BY <1>3
  <2>2. reader'[r] \in Request /\ Asked(reader'[r]) /\ Shown(reader'[r])
    <3>1. CASE NextRequest(r)
      <4>1. reader'[r] = Waiting
        BY <3>1 DEF NextRequest, Requests
      <4> QED
        BY <4>1, WaitingIsFine
    <3> QED
      BY <2>1, <3>1, ReadJourneyRequests, ReadManifestRequests, ReadPackageRequests DEF ReaderStep
  <2>3. PICK x : reader' = [reader EXCEPT ![r] = x]
    <3>1. ReadPackage(r) => \E x : reader' = [reader EXCEPT ![r] = x]
      BY Zenon DEF ReadPackage
    <3>2. ReadJourney(r) \/ ReadManifest(r) \/ NextRequest(r) =>
            \E x : reader' = [reader EXCEPT ![r] = x]
      BY Zenon DEF ReadJourney, ReadManifest, NextRequest
    <3> QED
      BY <2>1, <3>1, <3>2 DEF ReaderStep
  <2>4. reader' \in [Reader -> Request] /\ \A s \in Reader : s # r => reader'[s] = reader[s]
    BY <2>2, <2>3 DEF Requests
  <2> QED
    BY <1>1, <2>2, <2>4 DEF Requests
<1> QED
  BY <1>2, <1>3 DEF Next, vars

\* However the three reads of a request fall between the writes of a pipeline, it shows
\* the files of one publication, or a first journey that has no manifest yet
\* (EvidenceRepository._load, _validate_package_consistency, ProjectStore._persist).
THEOREM ShownIsPublished == Spec => []ShowsOnePublication
<1> DEFINE Inv == Shelf /\ Requests
<1>1. Init => Inv
  <2>1. Init => Requests
    BY WaitingIsFine DEF Init, Requests
  <2> QED
    BY <2>1, InitShelf
<1>2. Place /\ Inv /\ [Next]_vars => Inv'
  BY NextShelf, NextRequests
<1>3. Inv => ShowsOnePublication
  BY DEF Requests, Shown, ShowsOnePublication, View
<1> HIDE DEF Inv
<1> QED
  BY <1>1, <1>2, <1>3, AlwaysPlace, PTL DEF Spec

-----------------------------------------------------------------------------
(* What the repository asks of a journey, of one that is still being built      *)

\* No time of a run is past the clock, and none is before the job.
RunSound(run, low, now) ==
  /\ RunWellFormed(run) /\ run.status \notin {"cancelled", "superseded"}
  /\ run.started # None => Within(run.started, low, now)
  /\ run.completed # None => Within(run.completed, low, now)

Follows(later, run) ==
  later.started # None =>
    /\ run.started # None => run.started <= later.started
    /\ run.completed # None => run.completed <= later.started

\* Before its start a run has announced nothing but that it waits.
EventSound(event, run) ==
  /\ IF event.status = "waiting" THEN run.started # None => event.at <= run.started
     ELSE run.started # None /\ run.started <= event.at
  /\ run.completed # None => event.at <= run.completed

RunsSound(j, now) ==
  /\ j.created <= now /\ j.updated <= now
  /\ j.revision # None => Within(j.revision, j.created, now)
  /\ \A i \in 1..Len(j.runs) : RunSound(j.runs[i], j.created, now)
  /\ \A i, k \in 1..Len(j.runs) : i < k => Follows(j.runs[k], j.runs[i])

\* The last event of every run but the last one has its status.
EventsSound(j, now) ==
  /\ \A n \in 1..Len(j.events) :
       /\ j.events[n].run \in 1..Len(j.runs)
       /\ EventSound(j.events[n], j.runs[j.events[n].run])
       /\ Within(j.events[n].at, j.created, now)
  /\ \A n, m \in 1..Len(j.events) : n < m => j.events[n].at <= j.events[m].at
  /\ Len(j.runs) > 0 /\ Last(j).completed # None =>
       \A n \in 1..Len(j.events) : j.events[n].at <= Last(j).completed
  /\ \A n \in 1..Len(j.events) : j.events[n].run < Len(j.runs) =>
       \/ j.events[n].status = j.runs[j.events[n].run].status
       \/ \E m \in 1..Len(j.events) : m > n /\ j.events[m].run = j.events[n].run

\* So has the last event of the last one.
Announced(j) ==
  /\ Len(j.events) > 0
  /\ j.events[Len(j.events)].run = Len(j.runs)
  /\ j.events[Len(j.events)].status = Last(j).status

RecordsSound(j, now) ==
  /\ Len(j.runs) > 0 => (Last(j).owned <=> j.revision # None)
  /\ \A i \in 1..Len(j.runs) : j.runs[i].owned => j.revision # None
  /\ \A a \in j.artifacts : /\ a.run \in 1..Len(j.runs) /\ j.runs[a.run].owned
                            /\ Within(a.at, j.revision, now)
  /\ \A f \in j.findings : /\ f.run \in 1..Len(j.runs) /\ f.at <= now
                           /\ j.runs[f.run].owned => j.revision <= f.at

LineageSound(j) ==
  /\ \A i \in 1..Len(j.runs) : \A r \in j.runs[i].inputs :
       \E a \in j.artifacts : a.role = r /\ a.run <= i
  /\ \A a \in j.artifacts : \A r \in Parents(a.role) :
       \E b \in j.artifacts : b.role = r /\ b.run <= a.run /\ b.at <= a.at
  /\ \A a, b \in j.artifacts : Path(a.role) = Path(b.role) => a = b
  /\ IsFiniteSet(j.artifacts)

Sound(j, now) ==
  /\ j \in FabricationJourney
  /\ RunsSound(j, now) /\ EventsSound(j, now) /\ RecordsSound(j, now) /\ LineageSound(j)

\* A journey that is to be written, or has been.
Sealed(j) == Sound(j, j.updated) /\ Announced(j) /\ j.revision # None

-----------------------------------------------------------------------------
(* What holds of the evidence, by where the process is                          *)

Unpacked(j) == \A i \in 1..Len(j.runs) : j.runs[i].stage # "fabrication_package"

\* What a package and its journey have to do with each other.
Packed(j, p) ==
  IF p = None THEN Unpacked(j) ELSE p.whole /\ PackageConsistent(j, j, p)

CadRole == {"control", "design", "geometry_report"}
AssessedRole == {"profiles", "policy", "oriented", "printability_report"}

\* What has been recorded by then.
RolesAt(p) ==
  CASE p \in {"checking", "assessing"}           -> CadRole
    [] p = "slicing"                             -> CadRole \cup AssessedRole
    [] p \in {"packaging", "writing", "written"} -> CadRole \cup AssessedRole \cup SlicerRole
    [] OTHER                                     -> {}

\* The run that the package belongs to.
Packing(j) ==
  /\ Last(j).stage = "fabrication_package" /\ Last(j).inputs = RequiredRole
  /\ \A i \in 1..Len(j.runs) - 1 : j.runs[i].stage # "fabrication_package"

PackageOf(j) ==
  [warned |-> Warned(j), whole |-> TRUE,
   inputs |-> {a \in j.artifacts : a.role \in RequiredRole}]

Making == Gate \cup {"ready"} \cup Designing \cup Slicing

InMemory ==
  /\ pc \in Making => Sound(journey, clock) /\ RolesOf(journey) = RolesAt(pc)
  /\ pc \in Making \ {"writing", "written"} => Announced(journey) /\ Unpacked(journey)
  /\ pc \in Gate => journey.revision = None /\ \A f \in journey.findings : f.run # Len(journey.runs)
  /\ pc \in {"confirmed", "indexing"} => Sealed(journey) /\ journey.updated <= clock
  /\ pc = "confirmed" => Unpacked(journey)
  /\ pc = "indexing" =>
       /\ Packed(journey, disk.package)
       /\ journey.status = "geometry_verified" => RolesOf(journey) = CadRole
  /\ pc \in {"writing", "written"} => Packing(journey)
  /\ pc = "written" => disk.package = PackageOf(journey)
  /\ pc \in {"assessing", "slicing", "packaging"} => disk.package = None
  /\ pc \in Slicing => Unpacked(disk.journey)

OnDisk ==
  /\ disk.journey # None => Sealed(disk.journey) /\ disk.journey.updated <= clock
  /\ pc \in {"indexed", "designed"} =>
       /\ Packed(disk.journey, disk.package)
       /\ disk.journey.status = "geometry_verified" => RolesOf(disk.journey) = CadRole
  /\ EvidenceReadable

-----------------------------------------------------------------------------
(* What each operation of the aggregate keeps                                   *)

LEMMA RecordTypes ==
  ASSUME NEW j \in FabricationJourney
  PROVE  /\ \A i \in 1..Len(j.runs) :
              /\ j.runs[i].started \in Nat \cup {None} /\ j.runs[i].completed \in Nat \cup {None}
              /\ j.runs[i].owned \in BOOLEAN /\ j.runs[i].inputs \subseteq Role
         /\ \A n \in 1..Len(j.events) : j.events[n].at \in Nat /\ j.events[n].run \in Nat
         /\ \A a \in j.artifacts : a.role \in Role /\ a.run \in Nat /\ a.at \in Nat
         /\ \A f \in j.findings : f.run \in Nat /\ f.at \in Nat
<1>1. \A n \in 1..Len(j.events) : j.events[n] \in StageEvent
  BY JourneyParts
<1>2. \A i \in 1..Len(j.runs) : j.runs[i] \in StageRun
  BY JourneyParts
<1>3. j.artifacts \subseteq Artifact /\ j.findings \subseteq Finding
  BY JourneyParts
<1> QED
  BY <1>1, <1>2, <1>3 DEF StageEvent, StageRun, Artifact, Finding

\* Time goes on.
LEMMA SoundLater ==
  ASSUME NEW j, NEW now \in Nat, NEW t \in Nat, now <= t, Sound(j, now)
  PROVE  Sound(j, t)
<1>1. /\ j \in FabricationJourney /\ j.created \in Nat /\ j.updated \in Nat
      /\ j.revision \in Nat \cup {None}
  BY JourneyParts DEF Sound
<1>2. RunsSound(j, t)
  <2>1. \A i \in 1..Len(j.runs) : RunSound(j.runs[i], j.created, t)
    BY <1>1, RecordTypes DEF Sound, RunsSound, RunSound, Within
  <2> QED
    BY <1>1, <2>1 DEF Sound, RunsSound, Within
<1>3. EventsSound(j, t)
  BY <1>1, RecordTypes DEF Sound, EventsSound, Within
<1>4. RecordsSound(j, t)
  <2>1. \A a \in j.artifacts : Within(a.at, j.revision, t)
    BY <1>1, RecordTypes DEF Sound, RecordsSound, Within
  <2>2. \A f \in j.findings : f.at <= t
    BY <1>1, RecordTypes DEF Sound, RecordsSound
  <2> QED
    BY <2>1, <2>2 DEF Sound, RecordsSound
<1> QED
  BY <1>1, <1>2, <1>3, <1>4 DEF Sound

\* Nothing but the events and the times of the job are other ones.
Like(k, j) ==
  /\ k.runs = j.runs /\ k.revision = j.revision
  /\ k.artifacts = j.artifacts /\ k.findings = j.findings

LEMMA LikeRecords ==
  ASSUME NEW j, NEW k, Like(k, j), NEW t, RecordsSound(j, t), LineageSound(j)
  PROVE  RecordsSound(k, t) /\ LineageSound(k)
BY DEF Like, RecordsSound, LineageSound, Last

LEMMA EmitParts ==
  ASSUME NEW j, Open(j), NEW t \in Nat,
         NEW e, e = [run |-> Len(j.runs), status |-> Last(j).status,
                     at |-> IF Last(j).completed # None THEN Last(j).completed ELSE t]
  PROVE  /\ Emit(j, t).events = Append(j.events, e) /\ e \in StageEvent
         /\ Like(Emit(j, t), j) /\ Emit(j, t).created = j.created /\ Emit(j, t).updated = j.updated
<1>1. Last(j) \in StageRun /\ Len(j.runs) \in Nat /\ j \in FabricationJourney
  BY LastRun DEF Open
<1>2. e \in StageEvent
  <2> DEFINE at == IF Last(j).completed # None THEN Last(j).completed ELSE t
  <2>1. at \in Nat /\ Last(j).status \in StageStatus
    BY <1>1 DEF StageRun
  <2> HIDE DEF at
  <2> QED
    BY <1>1, <2>1 DEF StageEvent, at
<1>3. Emit(j, t) = [j EXCEPT !.events = Append(j.events, e)]
  BY DEF Emit
<1> QED
  BY <1>1, <1>2, <1>3 DEF FabricationJourney, Like

LEMMA EmitSound ==
  ASSUME NEW j, NEW t \in Nat, Sound(j, t), Len(j.runs) > 0
  PROVE  Sound(Emit(j, t), t) /\ Announced(Emit(j, t)) /\ Like(Emit(j, t), j)
<1> DEFINE k == Emit(j, t)
           N == Len(j.events)
           e == [run |-> Len(j.runs), status |-> Last(j).status,
                 at |-> IF Last(j).completed # None THEN Last(j).completed ELSE t]
<1>1. /\ Open(j) /\ j \in FabricationJourney /\ j.created \in Nat /\ j.updated \in Nat
      /\ j.events \in Seq(StageEvent) /\ N \in Nat /\ Len(j.runs) \in Nat \ {0}
      /\ j.revision \in Nat \cup {None}
  BY JourneyParts, LastRun DEF Sound, Open
<1>2. /\ Last(j) \in StageRun /\ Last(j).started \in Nat \cup {None}
      /\ Last(j).completed \in Nat \cup {None} /\ Last(j).status \in StageStatus
      /\ RunSound(Last(j), j.created, t)
  BY <1>1, LastRun DEF Sound, RunsSound, Last, StageRun
<1>3. /\ e.run = Len(j.runs) /\ e.status = Last(j).status
      /\ e.at = IF Last(j).completed # None THEN Last(j).completed ELSE t
  OBVIOUS
<1> HIDE DEF e
<1>4. /\ k.events = Append(j.events, e) /\ e \in StageEvent /\ Like(k, j)
      /\ k.created = j.created /\ k.updated = j.updated
  BY <1>1, EmitParts DEF e
<1>5. k \in FabricationJourney
  BY <1>1, EmitCarries DEF Carries, Holds
<1> HIDE DEF k
<1>6. /\ Len(k.events) = N + 1 /\ k.events[N + 1] = e
      /\ \A n \in 1..N : k.events[n] = j.events[n]
  BY <1>1, <1>4, AppendFacts
<1>7. RunsSound(k, t)
  BY <1>4 DEF Sound, RunsSound, Like
<1>8. RecordsSound(k, t) /\ LineageSound(k)
  BY <1>4, LikeRecords DEF Sound
<1>9. EventSound(e, Last(j)) /\ Within(e.at, j.created, t)
  BY <1>1, <1>2, <1>3, NoneFacts
     DEF EventSound, RunSound, RunWellFormed, Within, StageStatus, Successful, Sound, RunsSound
<1>10. \A n \in 1..N : j.events[n].at <= e.at
  <2>1. \A n \in 1..N : j.events[n].at <= t
    BY DEF Sound, EventsSound, Within
  <2>2. Last(j).completed # None => \A n \in 1..N : j.events[n].at <= Last(j).completed
    BY <1>1 DEF Sound, EventsSound
  <2> QED
    BY <1>3, <2>1, <2>2
<1>11. \A n \in 1..N + 1 : n \in 1..N \/ n = N + 1
  BY <1>1
<1>12. Last(k) = Last(j) /\ Len(k.runs) = Len(j.runs) /\ Len(j.runs) \in 1..Len(j.runs)
  BY <1>1, <1>4 DEF Like, Last
<1>13. EventsSound(k, t)
  <2>1. \A n \in 1..Len(k.events) :
          /\ k.events[n].run \in 1..Len(k.runs)
          /\ EventSound(k.events[n], k.runs[k.events[n].run])
          /\ Within(k.events[n].at, k.created, t)
    <3>1. \A n \in 1..N :
            /\ j.events[n].run \in 1..Len(j.runs)
            /\ EventSound(j.events[n], j.runs[j.events[n].run])
            /\ Within(j.events[n].at, j.created, t)
      BY DEF Sound, EventsSound
    <3>2. e.run \in 1..Len(j.runs) /\ j.runs[e.run] = Last(j)
      BY <1>3, <1>12 DEF Last
    <3> QED
      BY <1>4, <1>6, <1>9, <1>11, <3>1, <3>2 DEF Like
  <2>2. \A n, m \in 1..Len(k.events) : n < m => k.events[n].at <= k.events[m].at
    <3>1. \A n, m \in 1..N : n < m => j.events[n].at <= j.events[m].at
      BY DEF Sound, EventsSound
    <3>2. ASSUME NEW n \in 1..Len(k.events), NEW m \in 1..Len(k.events), n < m
          PROVE  k.events[n].at <= k.events[m].at
      <4>1. n \in 1..N
        BY <1>1, <1>6, <3>2
      <4>2. CASE m \in 1..N
        <5>1. k.events[n] = j.events[n] /\ k.events[m] = j.events[m]
          BY <1>6, <4>1, <4>2
        <5> QED
          BY <3>1, <3>2, <4>1, <4>2, <5>1
      <4>3. CASE m = N + 1
        <5>1. k.events[n] = j.events[n] /\ k.events[m] = e
          BY <1>6, <4>1, <4>3
        <5> QED
          BY <1>10, <4>1, <5>1
      <4> QED
        BY <1>6, <1>11, <4>2, <4>3
    <3> QED
      BY <3>2
  <2>3. Last(k).completed # None => \A n \in 1..Len(k.events) : k.events[n].at <= Last(k).completed
    <3>1. ASSUME Last(k).completed # None, NEW n \in 1..Len(k.events)
          PROVE  k.events[n].at <= Last(k).completed
      <4>1. e.at = Last(k).completed /\ e.at \in Nat
        BY <1>2, <1>3, <1>12, <3>1
      <4>2. CASE n \in 1..N
        BY <1>6, <1>10, <4>1, <4>2
      <4>3. CASE n = N + 1
        BY <1>6, <4>1, <4>3
      <4> QED
        BY <1>6, <1>11, <4>2, <4>3
    <3> QED
      BY <3>1
  <2>4. ASSUME NEW n \in 1..Len(k.events), k.events[n].run < Len(k.runs)
        PROVE  \/ k.events[n].status = k.runs[k.events[n].run].status
               \/ \E m \in 1..Len(k.events) : m > n /\ k.events[m].run = k.events[n].run
    <3>1. n # N + 1
      BY <1>1, <1>3, <1>6, <1>12, <2>4
    <3>2. n \in 1..N
      BY <1>6, <1>11, <3>1
    <3>3. k.events[n] = j.events[n] /\ k.runs = j.runs /\ n \in 1..Len(j.events)
      BY <1>4, <1>6, <3>2 DEF Like
    <3>4. j.events[n].run < Len(j.runs)
      BY <1>12, <2>4, <3>3
    <3>5. \/ j.events[n].status = j.runs[j.events[n].run].status
          \/ \E m \in 1..Len(j.events) : m > n /\ j.events[m].run = j.events[n].run
      BY <3>3, <3>4 DEF Sound, EventsSound
    <3>6. CASE j.events[n].status = j.runs[j.events[n].run].status
      BY <3>3, <3>6
    <3>7. ASSUME NEW m \in 1..N, m > n, j.events[m].run = j.events[n].run
          PROVE  \E p \in 1..Len(k.events) : p > n /\ k.events[p].run = k.events[n].run
      <4>1. m \in 1..Len(k.events) /\ k.events[m] = j.events[m]
        BY <1>1, <1>6
      <4> QED
        BY <3>3, <3>7, <4>1
    <3> QED
      BY <3>5, <3>6, <3>7
  <2> QED
    BY <2>1, <2>2, <2>3, <2>4 DEF EventsSound
<1>14. Announced(k)
  BY <1>1, <1>3, <1>6, <1>12 DEF Announced
<1> QED
  BY <1>4, <1>5, <1>7, <1>8, <1>13, <1>14 DEF Sound, k

\* A journey with one run at least, and the roles it has recorded.
Stands(k, now, roles) == Sound(k, now) /\ Len(k.runs) > 0 /\ RolesOf(k) = roles

\* What most operations leave alone.
Same(k, j) ==
  /\ k.revision = j.revision /\ Last(k).status = Last(j).status
  /\ Announced(j) => Announced(k)
  /\ Unpacked(j) => Unpacked(k)

LEMMA StandsOpen ==
  ASSUME NEW j, NEW now, NEW roles, Stands(j, now, roles)
  PROVE  /\ Open(j) /\ j \in FabricationJourney /\ Len(j.runs) \in Nat \ {0}
         /\ Last(j) \in StageRun /\ Len(j.runs) \in 1..Len(j.runs)
         /\ j.created \in Nat /\ j.updated \in Nat /\ j.revision \in Nat \cup {None}
         /\ Len(j.events) \in Nat /\ RunSound(Last(j), j.created, now)
<1>1. Open(j) /\ j \in FabricationJourney
  BY DEF Stands, Sound, Open
<1>2. Last(j) \in StageRun /\ Len(j.runs) \in Nat \ {0}
  BY <1>1, LastRun
<1>3. RunSound(Last(j), j.created, now)
  BY <1>2 DEF Stands, Sound, RunsSound, Last
<1> QED
  BY <1>1, <1>2, <1>3, JourneyParts

LEMMA StandsLater ==
  ASSUME NEW j, NEW now \in Nat, NEW t \in Nat, now <= t, NEW roles, Stands(j, now, roles)
  PROVE  Stands(j, t, roles)
BY SoundLater DEF Stands

LEMMA EmitStands ==
  ASSUME NEW j, NEW now \in Nat, NEW t \in Nat, now <= t, NEW roles, Stands(j, now, roles)
  PROVE  Stands(Emit(j, t), t, roles) /\ Announced(Emit(j, t)) /\ Same(Emit(j, t), j)
<1>1. Stands(j, t, roles)
  BY StandsLater
<1>2. Sound(Emit(j, t), t) /\ Announced(Emit(j, t)) /\ Like(Emit(j, t), j)
  BY <1>1, EmitSound DEF Stands
<1> QED
  BY <1>1, <1>2 DEF Stands, Like, Same, RolesOf, Last, Unpacked

LEMMA NoteStands ==
  ASSUME NEW j, NEW now \in Nat, NEW t \in Nat, now <= t, NEW roles, Stands(j, now, roles),
         NEW kind \in {"error", "warning", "decision"}
  PROVE  /\ Stands(Note(j, kind, t), t, roles) /\ Same(Note(j, kind, t), j)
         /\ Note(j, kind, t).findings =
              j.findings \cup {[kind |-> kind, run |-> Len(j.runs), at |-> t]}
<1> DEFINE k == Note(j, kind, t)
           f == [kind |-> kind, run |-> Len(j.runs), at |-> t]
<1>1. Stands(j, t, roles)
  BY StandsLater
<1>2. /\ Open(j) /\ j \in FabricationJourney /\ Len(j.runs) \in Nat \ {0}
      /\ Len(j.runs) \in 1..Len(j.runs) /\ j.revision \in Nat \cup {None}
  BY StandsOpen
<1>3. k \in FabricationJourney
  BY <1>2, NoteCarries, CarriesOpen
<1>4. k = [j EXCEPT !.findings = j.findings \cup {f}]
  BY DEF Note
<1>5. f.run = Len(j.runs) /\ f.at = t
  OBVIOUS
<1> HIDE DEF f
<1>6. /\ k.findings = j.findings \cup {f} /\ k.runs = j.runs /\ k.events = j.events
      /\ k.created = j.created /\ k.updated = j.updated /\ k.revision = j.revision
      /\ k.artifacts = j.artifacts
  BY <1>2, <1>4 DEF FabricationJourney
<1> HIDE DEF k
<1>7. RunsSound(k, t) /\ LineageSound(k)
  BY <1>1, <1>6 DEF Stands, Sound, RunsSound, LineageSound
<1>8. EventsSound(k, t)
  BY <1>1, <1>6 DEF Stands, Sound, EventsSound, Last
<1>9. RecordsSound(k, t)
  <2>1. j.runs[f.run].owned => j.revision # None
    BY <1>1, <1>2, <1>5 DEF Stands, Sound, RecordsSound
  <2>2. j.revision # None => j.revision <= f.at
    BY <1>1, <1>5 DEF Stands, Sound, RunsSound, Within
  <2>3. f.run \in 1..Len(k.runs) /\ f.at <= t /\ (k.runs[f.run].owned => k.revision <= f.at)
    BY <1>2, <1>5, <1>6, <2>1, <2>2
  <2>4. \A g \in j.findings : /\ g.run \in 1..Len(k.runs) /\ g.at <= t
                              /\ k.runs[g.run].owned => k.revision <= g.at
    BY <1>1, <1>6 DEF Stands, Sound, RecordsSound
  <2>5. /\ Len(k.runs) > 0 => (Last(k).owned <=> k.revision # None)
        /\ \A i \in 1..Len(k.runs) : k.runs[i].owned => k.revision # None
        /\ \A a \in k.artifacts : /\ a.run \in 1..Len(k.runs) /\ k.runs[a.run].owned
                                  /\ Within(a.at, k.revision, t)
    BY <1>1, <1>6 DEF Stands, Sound, RecordsSound, Last
  <2> QED
    BY <1>6, <2>3, <2>4, <2>5 DEF RecordsSound
<1>10. Sound(k, t)
  BY <1>3, <1>7, <1>8, <1>9 DEF Sound
<1> QED
  BY <1>1, <1>6, <1>10 DEF Stands, Same, RolesOf, Last, Unpacked, Announced, f, k

LEMMA NoteIfStands ==
  ASSUME NEW j, NEW now \in Nat, NEW t \in Nat, now <= t, NEW roles, Stands(j, now, roles),
         NEW condition \in BOOLEAN, NEW kind \in {"error", "warning", "decision"}
  PROVE  Stands(NoteIf(condition, j, kind, t), t, roles) /\ Same(NoteIf(condition, j, kind, t), j)
<1>1. Same(j, j)
  BY DEF Same
<1> QED
  BY <1>1, NoteStands, StandsLater DEF NoteIf

LEMMA UpdateStands ==
  ASSUME NEW j, NEW now \in Nat, NEW t \in Nat, now <= t, NEW roles, Stands(j, now, roles),
         NEW status \in JobStatus
  PROVE  /\ Stands(UpdateStatus(j, status, t), t, roles) /\ Same(UpdateStatus(j, status, t), j)
         /\ UpdateStatus(j, status, t).updated = t /\ UpdateStatus(j, status, t).status = status
<1> DEFINE k == UpdateStatus(j, status, t)
<1>1. Stands(j, t, roles)
  BY StandsLater
<1>2. Open(j) /\ j \in FabricationJourney
  BY StandsOpen
<1>3. k \in FabricationJourney
  BY <1>2, UpdateStatusCarries, CarriesOpen
<1>4. k = [j EXCEPT !.status = status, !.updated = t]
  BY DEF UpdateStatus
<1>5. /\ k.findings = j.findings /\ k.runs = j.runs /\ k.events = j.events
      /\ k.created = j.created /\ k.updated = t /\ k.revision = j.revision
      /\ k.artifacts = j.artifacts /\ k.status = status
  BY <1>2, <1>4 DEF FabricationJourney
<1> HIDE DEF k
<1>6. RunsSound(k, t) /\ LineageSound(k)
  BY <1>1, <1>5 DEF Stands, Sound, RunsSound, LineageSound
<1>7. EventsSound(k, t) /\ RecordsSound(k, t)
  BY <1>1, <1>5 DEF Stands, Sound, EventsSound, RecordsSound, Last
<1>8. Sound(k, t)
  BY <1>3, <1>6, <1>7 DEF Sound
<1> QED
  BY <1>1, <1>5, <1>8 DEF Stands, Same, RolesOf, Last, Unpacked, Announced, k

-----------------------------------------------------------------------------
(* Files are recorded                                                           *)

LEMMA RoleFinite == IsFiniteSet(Role)
<1>1. \A a, b, c : IsFiniteSet({a, b, c})
  <2> SUFFICES ASSUME NEW a, NEW b, NEW c PROVE IsFiniteSet({a, b, c})
    OBVIOUS
  <2> DEFINE S == {a} \cup {b}
             T == S \cup {c}
  <2>1. {a, b, c} = T
    OBVIOUS
  <2>2. IsFiniteSet(S)
    BY FS_Singleton, FS_Union
  <2> HIDE DEF S
  <2>3. IsFiniteSet(T)
    BY <2>2, FS_Singleton, FS_Union
  <2> HIDE DEF T
  <2> QED
    BY <2>1, <2>3
<1> DEFINE A == {"design", "geometry_report", "profiles"}
           B == {"policy", "oriented", "printability_report"}
           C == {"installation", "sliced", "preflight"}
           D == {"info_logs", "project_logs", "slice_logs"}
           E == {"installation_attempt", "info_logs_attempt", "project_logs_attempt"}
           F == {"slice_logs_attempt", "control", "package_report"}
<1>2. Role = ((((A \cup B) \cup C) \cup D) \cup E) \cup F
  BY DEF Role, RequiredRole, SlicerRole, LogRole, AttemptRole
<1>3. /\ IsFiniteSet(A) /\ IsFiniteSet(B) /\ IsFiniteSet(C)
      /\ IsFiniteSet(D) /\ IsFiniteSet(E) /\ IsFiniteSet(F)
  BY <1>1
<1> HIDE DEF A, B, C, D, E, F
<1> QED
  BY <1>2, <1>3, FS_Union

LEMMA RecordStands ==
  ASSUME NEW j, NEW now \in Nat, NEW t \in Nat, now <= t, NEW R, Stands(j, now, R),
         j.revision # None,
         NEW roles \in SUBSET Role, \A r \in roles : Parents(r) \subseteq R \cup roles,
         roles \cap R = {},
         \A r \in roles : \A q \in R \cup roles : Path(r) = Path(q) => r = q
  PROVE  LET k == Record(j, roles, t)
         IN /\ Stands(k, t, R \cup roles) /\ Same(k, j)
            /\ k.artifacts =
                 j.artifacts \cup {[role |-> r, run |-> Len(j.runs), at |-> t] : r \in roles}
<1> DEFINE k == Record(j, roles, t)
           n == Len(j.runs)
           A == {[role |-> r, run |-> Len(j.runs), at |-> t] : r \in roles}
<1>1. Stands(j, t, R)
  BY StandsLater
<1>2. /\ Open(j) /\ j \in FabricationJourney /\ n \in Nat \ {0}
      /\ n \in 1..Len(j.runs) /\ j.revision \in Nat \cup {None} /\ j.created \in Nat
  BY StandsOpen
<1>3. k \in FabricationJourney
  BY <1>2, RecordCarries, CarriesOpen
<1>4. k = [j EXCEPT !.artifacts = j.artifacts \cup A]
  BY DEF Record
<1>5. /\ \A a \in A : a.role \in roles /\ a.run = n /\ a.at = t
      /\ \A r \in roles : \E a \in A : a.role = r
      /\ \A a, b \in A : a.role = b.role => a = b
  <2>1. \A a \in A : a.role \in roles /\ a.run = n /\ a.at = t
    OBVIOUS
  <2>2. ASSUME NEW r \in roles PROVE \E a \in A : a.role = r
    <3>1. [role |-> r, run |-> n, at |-> t] \in A
      OBVIOUS
    <3> QED
      BY <3>1
  <2>3. ASSUME NEW a \in A, NEW b \in A, a.role = b.role PROVE a = b
    <3>1. a = [role |-> a.role, run |-> n, at |-> t]
      OBVIOUS
    <3>2. b = [role |-> b.role, run |-> n, at |-> t]
      OBVIOUS
    <3> QED
      BY <2>3, <3>1, <3>2
  <2> QED
    BY <2>1, <2>2, <2>3
<1>6. IsFiniteSet(A)
  <2>1. IsFiniteSet(roles)
    BY RoleFinite, FS_Subset
  <2>2. [a \in A |-> a.role] \in Injection(A, roles)
    BY <1>5 DEF Injection, IsInjective
  <2> QED
    BY <2>1, <2>2, FS_Injection
<1> HIDE DEF A
<1>7. /\ k.findings = j.findings /\ k.runs = j.runs /\ k.events = j.events
      /\ k.created = j.created /\ k.updated = j.updated /\ k.revision = j.revision
      /\ k.artifacts = j.artifacts \cup A
  BY <1>2, <1>4 DEF FabricationJourney
<1> HIDE DEF k
<1>8. RunsSound(k, t) /\ EventsSound(k, t)
  BY <1>1, <1>7 DEF Stands, Sound, RunsSound, EventsSound, Last
<1>9. RecordsSound(k, t)
  <2>1. j.runs[n].owned /\ j.revision <= t
    BY <1>1, <1>2 DEF Stands, Sound, RecordsSound, RunsSound, Within, Last
  <2>2. \A a \in A : /\ a.run \in 1..Len(k.runs) /\ k.runs[a.run].owned
                     /\ Within(a.at, k.revision, t)
    BY <1>2, <1>5, <1>7, <2>1 DEF Within
  <2>3. \A a \in j.artifacts : /\ a.run \in 1..Len(k.runs) /\ k.runs[a.run].owned
                               /\ Within(a.at, k.revision, t)
    BY <1>1, <1>7 DEF Stands, Sound, RecordsSound
  <2>4. /\ Len(k.runs) > 0 => (Last(k).owned <=> k.revision # None)
        /\ \A i \in 1..Len(k.runs) : k.runs[i].owned => k.revision # None
        /\ \A f \in k.findings : /\ f.run \in 1..Len(k.runs) /\ f.at <= t
                                 /\ k.runs[f.run].owned => k.revision <= f.at
    BY <1>1, <1>7 DEF Stands, Sound, RecordsSound, Last
  <2> QED
    BY <1>7, <2>2, <2>3, <2>4 DEF RecordsSound
<1>10. R = RolesOf(j) /\ RolesOf(k) = R \cup roles
  BY <1>1, <1>5, <1>7 DEF Stands, RolesOf
<1>11. \A a \in j.artifacts : a.role \in R /\ a.run \in 1..n /\ a.at <= t
  BY <1>1, <1>10 DEF Stands, Sound, RecordsSound, RolesOf, Within
<1>12. LineageSound(k)
  <2>1. \A i \in 1..Len(k.runs) : \A r \in k.runs[i].inputs :
          \E a \in k.artifacts : a.role = r /\ a.run <= i
    BY <1>1, <1>7 DEF Stands, Sound, LineageSound
  <2>2. ASSUME NEW a \in k.artifacts, NEW r \in Parents(a.role)
        PROVE  \E b \in k.artifacts : b.role = r /\ b.run <= a.run /\ b.at <= a.at
    <3>1. CASE a \in j.artifacts
      BY <1>1, <1>7, <3>1 DEF Stands, Sound, LineageSound
    <3>2. CASE a \in A
      <4>1. r \in R \cup roles /\ a.run = n /\ a.at = t
        BY <1>5, <2>2, <3>2
      <4>2. r \in RolesOf(k)
        BY <1>10, <4>1
      <4>3. PICK b \in k.artifacts : b.role = r
        BY <4>2 DEF RolesOf
      <4>4. b.run <= n /\ b.at <= t
        BY <1>2, <1>5, <1>7, <1>11
      <4> QED
        BY <4>1, <4>3, <4>4
    <3> QED
      BY <1>7, <3>1, <3>2
  <2>3. ASSUME NEW a \in k.artifacts, NEW b \in k.artifacts, Path(a.role) = Path(b.role)
        PROVE  a = b
    <3>1. CASE a \in j.artifacts /\ b \in j.artifacts
      BY <1>1, <2>3, <3>1 DEF Stands, Sound, LineageSound
    <3>2. CASE a \in A /\ b \in A
      BY <1>5, <2>3, <3>2
    <3>3. CASE a \in A /\ b \in j.artifacts
      <4>1. a.role \in roles /\ b.role \in R
        BY <1>5, <1>11, <3>3
      <4>2. a.role = b.role
        BY <2>3, <4>1
      <4> QED
        BY <4>1, <4>2
    <3>4. CASE a \in j.artifacts /\ b \in A
      <4>1. b.role \in roles /\ a.role \in R
        BY <1>5, <1>11, <3>4
      <4>2. a.role = b.role
        BY <2>3, <4>1
      <4> QED
        BY <4>1, <4>2
    <3> QED
      BY <1>7, <3>1, <3>2, <3>3, <3>4
  <2>4. IsFiniteSet(k.artifacts)
    <3>1. IsFiniteSet(j.artifacts)
      BY <1>1 DEF Stands, Sound, LineageSound
    <3>2. IsFiniteSet(j.artifacts \cup A)
      BY <1>6, <3>1, FS_Union
    <3> QED
      BY <1>7, <3>2
  <2> QED
    BY <2>1, <2>2, <2>3, <2>4 DEF LineageSound
<1>13. Sound(k, t)
  BY <1>3, <1>8, <1>9, <1>12 DEF Sound
<1>14. Stands(k, t, R \cup roles) /\ Same(k, j)
  BY <1>1, <1>7, <1>10, <1>13 DEF Stands, Same, Last, Unpacked, Announced
<1> QED
  BY <1>7, <1>14 DEF k, A

-----------------------------------------------------------------------------
(* The last run is replaced                                                     *)

\* What holds of it must hold of the new one, and it starts no earlier than now.
LEMMA ReplacedRuns ==
  ASSUME NEW j, NEW t \in Nat, NEW R, Stands(j, t, R),
         NEW k \in FabricationJourney, k.created = j.created,
         k.events = j.events, k.artifacts = j.artifacts,
         Len(k.runs) = Len(j.runs), \A i \in 1..Len(j.runs) - 1 : k.runs[i] = j.runs[i],
         RunSound(Last(k), j.created, t),
         Last(k).started = Last(j).started \/ Last(k).started = t,
         \A n \in 1..Len(j.events) : j.events[n].run = Len(j.runs) => EventSound(j.events[n], Last(k)),
         Last(k).completed # None => \A n \in 1..Len(j.events) : j.events[n].at <= Last(k).completed,
         \A r \in Last(k).inputs : r \in R \/ r \in Last(j).inputs
  PROVE  /\ \A i \in 1..Len(k.runs) : RunSound(k.runs[i], k.created, t)
         /\ \A i, m \in 1..Len(k.runs) : i < m => Follows(k.runs[m], k.runs[i])
         /\ EventsSound(k, t) /\ LineageSound(k)
<1> DEFINE N == Len(j.runs)
<1>1. /\ N \in Nat \ {0} /\ N \in 1..N /\ j \in FabricationJourney
      /\ Last(j) = j.runs[N] /\ Last(k) = k.runs[N]
  BY StandsOpen DEF Last
<1>2. \A i \in 1..N : i \in 1..N - 1 \/ i = N
  BY <1>1
<1>3. \A i \in 1..N - 1 : i \in 1..N /\ i < N /\ k.runs[i] = j.runs[i]
  BY <1>1
<1>4. \A i \in 1..N : RunSound(j.runs[i], j.created, t)
  BY DEF Stands, Sound, RunsSound
<1>5. \A i \in 1..Len(k.runs) : RunSound(k.runs[i], k.created, t)
  BY <1>1, <1>2, <1>3, <1>4
<1>6. ASSUME NEW i \in 1..Len(k.runs), NEW m \in 1..Len(k.runs), i < m
      PROVE  Follows(k.runs[m], k.runs[i])
  <2>1. i \in 1..N - 1 /\ k.runs[i] = j.runs[i]
    BY <1>1, <1>3, <1>6
  <2>2. CASE m \in 1..N - 1
    <3>1. k.runs[m] = j.runs[m]
      BY <2>2
    <3> QED
      BY <1>3, <1>6, <2>1, <2>2, <3>1 DEF Stands, Sound, RunsSound
  <2>3. CASE m = N
    <3>1. CASE Last(k).started = Last(j).started
      <4>1. Follows(j.runs[N], j.runs[i])
        BY <1>1, <1>3, <2>1 DEF Stands, Sound, RunsSound
      <4> QED
        BY <1>1, <2>1, <2>3, <3>1, <4>1 DEF Follows
    <3>2. CASE Last(k).started = t
      <4>1. RunSound(j.runs[i], j.created, t)
        BY <1>3, <1>4, <2>1
      <4> QED
        BY <1>1, <2>1, <2>3, <3>2, <4>1 DEF Follows, RunSound, Within
    <3> QED
      BY <3>1, <3>2
  <2> QED
    BY <1>2, <2>2, <2>3
<1>7. EventsSound(k, t)
  <2>1. ASSUME NEW n \in 1..Len(k.events)
        PROVE  /\ k.events[n].run \in 1..Len(k.runs)
               /\ EventSound(k.events[n], k.runs[k.events[n].run])
               /\ Within(k.events[n].at, k.created, t)
    <3>1. /\ j.events[n].run \in 1..N /\ EventSound(j.events[n], j.runs[j.events[n].run])
          /\ Within(j.events[n].at, j.created, t)
      BY DEF Stands, Sound, EventsSound
    <3>2. CASE j.events[n].run = N
      BY <1>1, <3>1, <3>2
    <3>3. CASE j.events[n].run \in 1..N - 1
      <4>1. k.runs[j.events[n].run] = j.runs[j.events[n].run]
        BY <1>3, <3>3
      <4> QED
        BY <3>1, <4>1
    <3> QED
      BY <1>2, <3>1, <3>2, <3>3
  <2>2. \A n, m \in 1..Len(k.events) : n < m => k.events[n].at <= k.events[m].at
    BY DEF Stands, Sound, EventsSound
  <2>3. ASSUME NEW n \in 1..Len(k.events), k.events[n].run < Len(k.runs)
        PROVE  \/ k.events[n].status = k.runs[k.events[n].run].status
               \/ \E m \in 1..Len(k.events) : m > n /\ k.events[m].run = k.events[n].run
    <3>1. \/ j.events[n].status = j.runs[j.events[n].run].status
          \/ \E m \in 1..Len(j.events) : m > n /\ j.events[m].run = j.events[n].run
      BY <2>3 DEF Stands, Sound, EventsSound
    <3>2. k.events[n].run \in 1..N - 1
      BY <1>1, <2>1, <2>3
    <3>3. k.runs[k.events[n].run] = j.runs[k.events[n].run]
      BY <1>3, <3>2
    <3> QED
      BY <3>1, <3>3
  <2> QED
    BY <2>1, <2>2, <2>3 DEF EventsSound
<1>8. LineageSound(k)
  <2>1. ASSUME NEW i \in 1..Len(k.runs), NEW r \in k.runs[i].inputs
        PROVE  \E a \in k.artifacts : a.role = r /\ a.run <= i
    <3>1. \A m \in 1..N : \A q \in j.runs[m].inputs :
            \E a \in j.artifacts : a.role = q /\ a.run <= m
      BY DEF Stands, Sound, LineageSound
    <3>2. CASE i \in 1..N - 1
      <4>1. k.runs[i] = j.runs[i] /\ i \in 1..N
        BY <1>3, <3>2
      <4> QED
        BY <2>1, <3>1, <4>1
    <3>3. CASE i = N /\ r \in Last(j).inputs
      BY <1>1, <3>1, <3>3
    <3>4. CASE i = N /\ r \in R
      <4>1. PICK a \in j.artifacts : a.role = r
        BY <3>4 DEF Stands, RolesOf
      <4>2. a.run <= N
        BY <1>1 DEF Stands, Sound, RecordsSound
      <4> QED
        BY <3>4, <4>1, <4>2
    <3> QED
      BY <1>1, <1>2, <2>1, <3>2, <3>3, <3>4
  <2> QED
    BY <2>1 DEF Stands, Sound, LineageSound
<1> QED
  BY <1>5, <1>6, <1>7, <1>8

\* The fields of a journey whose last run is replaced.
LEMMA ReplacedFields ==
  ASSUME NEW j, Open(j), NEW run \in StageRun,
         NEW k, k = [j EXCEPT !.runs[Len(j.runs)] = run]
  PROVE  /\ k \in FabricationJourney /\ k.created = j.created /\ k.updated = j.updated
         /\ k.revision = j.revision /\ k.events = j.events /\ k.artifacts = j.artifacts
         /\ k.findings = j.findings /\ Len(k.runs) = Len(j.runs) /\ Last(k) = run
         /\ \A i \in 1..Len(j.runs) - 1 : k.runs[i] = j.runs[i]
<1> DEFINE n == Len(j.runs)
           runs == [j.runs EXCEPT ![n] = run]
<1>1. j \in FabricationJourney /\ n \in Nat \ {0} /\ j.runs \in Seq(StageRun)
  BY LastRun, JourneyParts DEF Open
<1>2. /\ runs \in Seq(StageRun) /\ Len(runs) = n /\ runs[n] = run
      /\ \A i \in 1..n - 1 : runs[i] = j.runs[i]
  BY <1>1
<1>3. k = [j EXCEPT !.runs = runs]
  BY <1>1 DEF FabricationJourney
<1> HIDE DEF runs
<1>4. /\ k \in FabricationJourney /\ k.created = j.created /\ k.updated = j.updated
      /\ k.revision = j.revision /\ k.events = j.events /\ k.artifacts = j.artifacts
      /\ k.findings = j.findings /\ k.runs = runs
  BY <1>1, <1>2, <1>3 DEF FabricationJourney
<1> QED
  BY <1>2, <1>4 DEF Last

LEMMA ReplacedStands ==
  ASSUME NEW j, NEW now \in Nat, NEW t \in Nat, now <= t, NEW R, Stands(j, now, R),
         NEW run \in StageRun, NEW k, k = [j EXCEPT !.runs[Len(j.runs)] = run],
         run.stage = Last(j).stage, run.owned = Last(j).owned,
         RunSound(run, j.created, t),
         run.started = Last(j).started \/ run.started = t,
         \A n \in 1..Len(j.events) : j.events[n].run = Len(j.runs) => EventSound(j.events[n], run),
         run.completed # None => \A n \in 1..Len(j.events) : j.events[n].at <= run.completed,
         \A r \in run.inputs : r \in R \/ r \in Last(j).inputs
  PROVE  /\ Stands(k, t, R) /\ k.revision = j.revision /\ Last(k) = run
         /\ Unpacked(j) => Unpacked(k)
<1>1. Stands(j, t, R) /\ Open(j) /\ Len(j.runs) \in Nat \ {0}
  BY StandsLater, StandsOpen
<1>2. /\ k \in FabricationJourney /\ k.created = j.created /\ k.updated = j.updated
      /\ k.revision = j.revision /\ k.events = j.events /\ k.artifacts = j.artifacts
      /\ k.findings = j.findings /\ Len(k.runs) = Len(j.runs) /\ Last(k) = run
      /\ \A i \in 1..Len(j.runs) - 1 : k.runs[i] = j.runs[i]
  BY <1>1, ReplacedFields
<1>3. /\ \A i \in 1..Len(k.runs) : RunSound(k.runs[i], k.created, t)
      /\ \A i, m \in 1..Len(k.runs) : i < m => Follows(k.runs[m], k.runs[i])
      /\ EventsSound(k, t) /\ LineageSound(k)
  <2>1. /\ RunSound(Last(k), j.created, t)
        /\ Last(k).started = Last(j).started \/ Last(k).started = t
        /\ \A n \in 1..Len(j.events) :
             j.events[n].run = Len(j.runs) => EventSound(j.events[n], Last(k))
        /\ Last(k).completed # None =>
             \A n \in 1..Len(j.events) : j.events[n].at <= Last(k).completed
        /\ \A r \in Last(k).inputs : r \in R \/ r \in Last(j).inputs
    BY <1>2
  <2> QED
    BY <1>1, <1>2, <2>1, ReplacedRuns
<1>4. RunsSound(k, t)
  BY <1>1, <1>2, <1>3 DEF Stands, Sound, RunsSound
<1>5. \A i \in 1..Len(j.runs) : /\ k.runs[i].owned = j.runs[i].owned
                                /\ k.runs[i].stage = j.runs[i].stage
  <2>1. \A i \in 1..Len(j.runs) : i \in 1..Len(j.runs) - 1 \/ i = Len(j.runs)
    BY <1>1
  <2> QED
    BY <1>2, <2>1 DEF Last
<1>6. RecordsSound(k, t)
  BY <1>1, <1>2, <1>5 DEF Stands, Sound, RecordsSound
<1>7. Stands(k, t, R)
  BY <1>1, <1>2, <1>3, <1>4, <1>6 DEF Stands, Sound, RolesOf
<1> QED
  BY <1>2, <1>5, <1>7 DEF Unpacked

LEMMA InputsStands ==
  ASSUME NEW j, NEW now \in Nat, NEW R, Stands(j, now, R), NEW roles \in SUBSET Role, roles \subseteq R
  PROVE  LET k == SetInputs(j, roles)
         IN Stands(k, now, R) /\ Same(k, j) /\ Last(k).inputs = roles
<1> DEFINE run == [Last(j) EXCEPT !.inputs = roles]
           k == SetInputs(j, roles)
<1>1. /\ Open(j) /\ Last(j) \in StageRun /\ RunSound(Last(j), j.created, now)
      /\ Len(j.runs) \in 1..Len(j.runs) /\ Len(j.runs) \in Nat
  BY StandsOpen
<1>2. k = [j EXCEPT !.runs[Len(j.runs)] = run]
  BY DEF SetInputs, Last
<1>3. /\ run \in StageRun /\ run.stage = Last(j).stage /\ run.owned = Last(j).owned
      /\ run.status = Last(j).status /\ run.level = Last(j).level
      /\ run.started = Last(j).started /\ run.completed = Last(j).completed
      /\ run.inputs = roles
  BY <1>1 DEF StageRun
<1> HIDE DEF run, k
<1>4. RunSound(run, j.created, now)
  BY <1>1, <1>3 DEF RunSound, RunWellFormed
<1>5. \A n \in 1..Len(j.events) : j.events[n].run = Len(j.runs) => EventSound(j.events[n], run)
  BY <1>3 DEF Stands, Sound, EventsSound, EventSound, Last
<1>6. run.completed # None => \A n \in 1..Len(j.events) : j.events[n].at <= run.completed
  BY <1>1, <1>3 DEF Stands, Sound, EventsSound
<1>7. now <= now /\ \A r \in run.inputs : r \in R
  BY <1>3
<1>8. /\ Stands(k, now, R) /\ k.revision = j.revision /\ Last(k) = run
      /\ Unpacked(j) => Unpacked(k)
  BY <1>2, <1>3, <1>4, <1>5, <1>6, <1>7, ReplacedStands
<1>9. k.events = j.events /\ Len(k.runs) = Len(j.runs)
  BY <1>1, <1>2, <1>3, ReplacedFields
<1>10. Announced(j) => Announced(k)
  BY <1>3, <1>8, <1>9 DEF Announced
<1> QED
  BY <1>3, <1>8, <1>10 DEF Same, k

\* A run that waits starts.
LEMMA BeginStands ==
  ASSUME NEW j, NEW now \in Nat, NEW t \in Nat, now <= t, NEW R, Stands(j, now, R),
         Last(j).status = "waiting"
  PROVE  LET k == Transition(j, "running", None, t)
         IN /\ Stands(k, t, R) /\ k.revision = j.revision /\ Last(k).status = "running"
            /\ Unpacked(j) => Unpacked(k)
<1> DEFINE run == [Last(j) EXCEPT !.status = "running", !.started = t, !.completed = None]
           k == Transition(j, "running", None, t)
<1>1. /\ Open(j) /\ Last(j) \in StageRun /\ RunSound(Last(j), j.created, now)
      /\ Len(j.runs) \in 1..Len(j.runs) /\ Len(j.runs) \in Nat /\ j.created \in Nat
  BY StandsOpen
<1>2. Last(j).started = None /\ Last(j).completed = None
  BY <1>1 DEF RunSound, RunWellFormed
<1>3. /\ run \in StageRun /\ run.stage = Last(j).stage /\ run.owned = Last(j).owned
      /\ run.status = "running" /\ run.started = t /\ run.completed = None
      /\ run.inputs = Last(j).inputs
  BY <1>1 DEF StageRun, StageStatus
<1>4. k = [j EXCEPT !.runs[Len(j.runs)] = run]
  <2>1. [Last(j) EXCEPT !.status = "running", !.level = Last(j).level, !.started = t,
                        !.completed = None] = run
    BY <1>1 DEF StageRun
  <2> HIDE DEF run
  <2> QED
    BY <1>2, <2>1 DEF Transition, Last
<1> HIDE DEF run, k
<1>5. j.created <= t
  <2>1. j.created <= now
    BY DEF Stands, Sound, RunsSound
  <2> QED
    BY <1>1, <2>1
<1>6. RunSound(run, j.created, t)
  BY <1>1, <1>3, <1>5, NoneFacts DEF RunSound, RunWellFormed, Within, Successful
<1>7. \A n \in 1..Len(j.events) : j.events[n].at <= now
  BY DEF Stands, Sound, EventsSound, Within
<1>8. \A n \in 1..Len(j.events) : j.events[n].run = Len(j.runs) => EventSound(j.events[n], run)
  <2> SUFFICES ASSUME NEW n \in 1..Len(j.events), j.events[n].run = Len(j.runs)
               PROVE  EventSound(j.events[n], run)
    OBVIOUS
  <2>1. EventSound(j.events[n], Last(j))
    BY DEF Stands, Sound, EventsSound, Last
  <2>2. j.events[n].status = "waiting"
    BY <1>2, <2>1 DEF EventSound
  <2>3. j.events[n].at \in Nat /\ j.events[n].at <= now
    BY <1>1, <1>7, RecordTypes DEF Open
  <2>4. j.events[n].at <= t
    BY <2>3
  <2> QED
    BY <1>3, <2>2, <2>4 DEF EventSound
<1>9. \A r \in run.inputs : r \in Last(j).inputs
  BY <1>3
<1>10. /\ Stands(k, t, R) /\ k.revision = j.revision /\ Last(k) = run
       /\ Unpacked(j) => Unpacked(k)
  BY <1>3, <1>4, <1>6, <1>8, <1>9, ReplacedStands
<1> QED
  BY <1>3, <1>10 DEF k

Ends == {"passed", "passed_with_warnings", "failed", "needs_input"}

\* A run that runs ends, or asks.
LEMMA EndStands ==
  ASSUME NEW j, NEW now \in Nat, NEW t \in Nat, now <= t, NEW R, Stands(j, now, R),
         Last(j).status = "running", NEW status \in Ends, NEW level \in Nat \cup {None},
         status \in Successful => level # None
  PROVE  LET k == Transition(j, status, level, t)
         IN /\ Stands(k, t, R) /\ k.revision = j.revision /\ Last(k).status = status
            /\ Last(k).inputs = Last(j).inputs
            /\ Unpacked(j) => Unpacked(k)
<1> DEFINE completed == IF status = "needs_input" THEN None ELSE t
           l == IF level = None THEN Last(j).level ELSE level
           run == [Last(j) EXCEPT !.status = status, !.level = l, !.completed = completed]
           k == Transition(j, status, level, t)
<1>1. /\ Open(j) /\ Last(j) \in StageRun /\ RunSound(Last(j), j.created, now)
      /\ Len(j.runs) \in 1..Len(j.runs) /\ Len(j.runs) \in Nat /\ j.created \in Nat
  BY StandsOpen
<1>2. Last(j).started \in Nat /\ Last(j).completed = None /\ Last(j).inputs \subseteq Role
  BY <1>1 DEF RunSound, RunWellFormed, StageRun
<1>3. /\ l \in Nat \cup {None} /\ completed \in Nat \cup {None} /\ status \in StageStatus
      /\ level # None => l # None
  BY <1>1 DEF StageRun, StageStatus, Ends
<1>4. completed = None <=> status = "needs_input"
  BY NoneFacts
<1>5. completed # None => completed = t
  OBVIOUS
<1>6. k = [j EXCEPT !.runs[Len(j.runs)] = run]
  <2>1. [Last(j) EXCEPT !.status = status, !.level = l, !.started = Last(j).started,
                        !.completed = completed] = run
    BY <1>1 DEF StageRun
  <2>2. status # "running"
    BY DEF Ends
  <2> HIDE DEF run
  <2>3. k = [j EXCEPT !.runs[Len(j.runs)] =
              [Last(j) EXCEPT !.status = status, !.level = l, !.started = Last(j).started,
                              !.completed = completed]]
    BY <2>2 DEF Transition, Last
  <2> QED
    BY <2>1, <2>3
<1> HIDE DEF l, completed
<1>7. /\ run \in StageRun /\ run.stage = Last(j).stage /\ run.owned = Last(j).owned
      /\ run.status = status /\ run.started = Last(j).started /\ run.completed = completed
      /\ run.inputs = Last(j).inputs /\ run.level = l
  BY <1>1, <1>3 DEF StageRun
<1> HIDE DEF run, k
<1>8. Within(Last(j).started, j.created, now) /\ j.created <= t
  <2>1. Within(Last(j).started, j.created, now)
    BY <1>1, <1>2, NoneFacts DEF RunSound
  <2>2. j.created <= now
    BY DEF Stands, Sound, RunsSound
  <2> QED
    BY <1>1, <2>1, <2>2
<1>9. RunSound(run, j.created, t)
  <2>1. run.started \in Nat /\ run.started # None /\ run.started <= t
    BY <1>2, <1>7, <1>8, NoneFacts DEF Within
  <2>2. /\ run.status \in Ends /\ (run.completed = None <=> run.status = "needs_input")
        /\ run.status \in Successful => run.level # None
        /\ run.completed # None => run.completed = t
    BY <1>3, <1>4, <1>5, <1>7
  <2>3. Within(run.started, j.created, t)
    BY <1>1, <1>2, <1>7, <1>8, <2>1 DEF Within
  <2>4. run.completed # None => Within(run.completed, j.created, t)
    BY <1>8, <2>2 DEF Within
  <2>5. RunWellFormed(run)
    BY <2>1, <2>2 DEF RunWellFormed, Ends, Successful
  <2> QED
    BY <2>2, <2>3, <2>4, <2>5 DEF RunSound, Ends
<1>10. \A n \in 1..Len(j.events) : j.events[n].at <= t
  <2>1. \A n \in 1..Len(j.events) : j.events[n].at <= now /\ j.events[n].at \in Nat
    BY <1>1, RecordTypes DEF Stands, Sound, EventsSound, Within, Open
  <2> QED
    BY <2>1
<1>11. \A n \in 1..Len(j.events) : j.events[n].run = Len(j.runs) => EventSound(j.events[n], run)
  <2> SUFFICES ASSUME NEW n \in 1..Len(j.events), j.events[n].run = Len(j.runs)
               PROVE  EventSound(j.events[n], run)
    OBVIOUS
  <2>1. EventSound(j.events[n], Last(j))
    BY DEF Stands, Sound, EventsSound, Last
  <2> QED
    BY <1>5, <1>7, <1>10, <2>1 DEF EventSound
<1>12. run.completed # None => \A n \in 1..Len(j.events) : j.events[n].at <= run.completed
  BY <1>5, <1>7, <1>10
<1>13. \A r \in run.inputs : r \in Last(j).inputs
  BY <1>7
<1>14. /\ Stands(k, t, R) /\ k.revision = j.revision /\ Last(k) = run
       /\ Unpacked(j) => Unpacked(k)
  BY <1>6, <1>7, <1>9, <1>11, <1>12, <1>13, ReplacedStands
<1> QED
  BY <1>7, <1>14 DEF k

\* Before there is a revision nothing is recorded, and the last run has no findings when
\* the revision takes it over.
LEMMA RevisionStands ==
  ASSUME NEW j, NEW now \in Nat, NEW t \in Nat, now <= t, NEW R, Stands(j, now, R),
         j.revision = None, \A f \in j.findings : f.run # Len(j.runs)
  PROVE  LET k == AddRevision(j, t)
         IN /\ Stands(k, t, R) /\ k.revision = t /\ Last(k).status = Last(j).status
            /\ Unpacked(j) => Unpacked(k)
<1> DEFINE n == Len(j.runs)
           run == [Last(j) EXCEPT !.owned = TRUE]
           runs == [j.runs EXCEPT ![n] = run]
           k == AddRevision(j, t)
<1>1. /\ Open(j) /\ Last(j) \in StageRun /\ n \in Nat \ {0} /\ n \in 1..n
      /\ j \in FabricationJourney /\ j.runs \in Seq(StageRun) /\ Stands(j, t, R)
      /\ j.created \in Nat /\ RunSound(Last(j), j.created, t)
  BY StandsOpen, StandsLater, JourneyParts
<1>2. /\ run \in StageRun /\ run.stage = Last(j).stage /\ run.owned = TRUE
      /\ run.status = Last(j).status /\ run.level = Last(j).level
      /\ run.started = Last(j).started /\ run.completed = Last(j).completed
      /\ run.inputs = Last(j).inputs
  BY <1>1 DEF StageRun
<1>3. k = [j EXCEPT !.revision = t, !.updated = t, !.runs = runs]
  BY DEF AddRevision, Last
<1> HIDE DEF run
<1>4. /\ runs \in Seq(StageRun) /\ Len(runs) = n /\ runs[n] = run
      /\ \A i \in 1..n - 1 : runs[i] = j.runs[i]
  BY <1>1, <1>2
<1> HIDE DEF runs
<1>5. /\ k \in FabricationJourney /\ k.created = j.created /\ k.updated = t
      /\ k.revision = t /\ k.events = j.events /\ k.artifacts = j.artifacts
      /\ k.findings = j.findings /\ k.runs = runs
  BY <1>1, <1>3, <1>4 DEF FabricationJourney
<1> HIDE DEF k
<1>6. Last(k) = run /\ Len(k.runs) = n
  BY <1>4, <1>5 DEF Last
<1>7. /\ \A i \in 1..Len(k.runs) : RunSound(k.runs[i], k.created, t)
      /\ \A i, m \in 1..Len(k.runs) : i < m => Follows(k.runs[m], k.runs[i])
      /\ EventsSound(k, t) /\ LineageSound(k)
  <2>1. RunSound(Last(k), j.created, t)
    BY <1>1, <1>2, <1>6 DEF RunSound, RunWellFormed
  <2>2. \A m \in 1..Len(j.events) : j.events[m].run = n => EventSound(j.events[m], Last(k))
    BY <1>1, <1>2, <1>6 DEF Stands, Sound, EventsSound, EventSound, Last
  <2>3. Last(k).completed # None => \A m \in 1..Len(j.events) : j.events[m].at <= Last(k).completed
    BY <1>1, <1>2, <1>6 DEF Stands, Sound, EventsSound
  <2>4. /\ Last(k).started = Last(j).started \/ Last(k).started = t
        /\ \A r \in Last(k).inputs : r \in R \/ r \in Last(j).inputs
    BY <1>2, <1>6
  <2>5. \A i \in 1..Len(j.runs) - 1 : k.runs[i] = j.runs[i]
    BY <1>4, <1>5
  <2> QED
    BY <1>1, <1>5, <1>6, <2>1, <2>2, <2>3, <2>4, <2>5, ReplacedRuns
<1>8. \A i \in 1..n : /\ k.runs[i].stage = j.runs[i].stage
                      /\ k.runs[i].owned <=> i = n
  <2>1. \A i \in 1..n : i \in 1..n - 1 \/ i = n
    BY <1>1
  <2>2. \A i \in 1..n : ~j.runs[i].owned
    BY DEF Stands, Sound, RecordsSound
  <2>3. \A i \in 1..n - 1 : i # n /\ i \in 1..n
    BY <1>1
  <2> QED
    BY <1>2, <1>4, <1>5, <2>1, <2>2, <2>3 DEF Last
<1>9. j.artifacts = {}
  BY DEF Stands, Sound, RecordsSound
<1>10. RunsSound(k, t)
  <2>1. j.created <= t
    BY <1>1 DEF Stands, Sound, RunsSound
  <2> QED
    BY <1>5, <1>7, <2>1 DEF RunsSound, Within
<1>11. RecordsSound(k, t)
  <2>1. \A f \in j.findings : f.run \in 1..n /\ f.at <= t /\ f.run # n
    BY <1>1 DEF Stands, Sound, RecordsSound
  <2>2. k.revision # None
    BY <1>5, NoneFacts
  <2>3. \A f \in k.findings : /\ f.run \in 1..Len(k.runs) /\ f.at <= t
                              /\ k.runs[f.run].owned => k.revision <= f.at
    BY <1>5, <1>6, <1>8, <2>1
  <2>4. Last(k).owned
    BY <1>2, <1>6
  <2> QED
    BY <1>5, <1>9, <2>2, <2>3, <2>4 DEF RecordsSound
<1>12. Stands(k, t, R)
  BY <1>1, <1>5, <1>6, <1>7, <1>10, <1>11 DEF Stands, Sound, RolesOf
<1> QED
  BY <1>2, <1>5, <1>6, <1>8, <1>12 DEF Unpacked, k

\* The next run, once the last one has announced its status.
LEMMA AddStands ==
  ASSUME NEW j, NEW now \in Nat, Sound(j, now), Len(j.runs) > 0 => Announced(j),
         NEW stage \in FabricationStage, NEW attempt \in Nat
  PROVE  LET k == AddStageRun(j, stage, attempt)
         IN /\ Stands(k, now, RolesOf(j)) /\ k.revision = j.revision
            /\ Last(k).status = "waiting" /\ Last(k).stage = stage
            /\ Len(k.runs) = Len(j.runs) + 1
            /\ k.findings = j.findings
            /\ \A i \in 1..Len(j.runs) : k.runs[i] = j.runs[i]
<1> DEFINE n == Len(j.runs)
           k == AddStageRun(j, stage, attempt)
           run == [stage |-> stage, attempt |-> attempt, owned |-> j.revision # None,
                   status |-> "waiting", level |-> None, started |-> None, completed |-> None,
                   inputs |-> {}]
<1>1. /\ j \in FabricationJourney /\ j.runs \in Seq(StageRun) /\ n \in Nat
      /\ j.created \in Nat /\ Len(j.events) \in Nat
  BY JourneyParts DEF Sound
<1>2. run \in StageRun
  BY DEF StageRun, StageStatus
<1>3. /\ run.stage = stage /\ (run.owned <=> j.revision # None) /\ run.status = "waiting"
      /\ run.started = None /\ run.completed = None /\ run.inputs = {}
  OBVIOUS
<1>4. k = [j EXCEPT !.runs = Append(j.runs, run)]
  BY DEF AddStageRun
<1> HIDE DEF run
<1>5. /\ Append(j.runs, run) \in Seq(StageRun) /\ Len(Append(j.runs, run)) = n + 1
      /\ \A i \in 1..n : Append(j.runs, run)[i] = j.runs[i]
      /\ Append(j.runs, run)[n + 1] = run
  BY <1>1, <1>2, AppendFacts
<1>6. /\ k \in FabricationJourney /\ k.created = j.created /\ k.updated = j.updated
      /\ k.revision = j.revision /\ k.events = j.events /\ k.artifacts = j.artifacts
      /\ k.findings = j.findings /\ k.runs = Append(j.runs, run)
  BY <1>1, <1>4, <1>5 DEF FabricationJourney
<1> HIDE DEF k
<1>7. /\ Len(k.runs) = n + 1 /\ k.runs[n + 1] = run /\ Last(k) = run
      /\ \A i \in 1..n : k.runs[i] = j.runs[i]
  BY <1>5, <1>6 DEF Last
<1>8. \A i \in 1..n + 1 : i \in 1..n \/ i = n + 1
  BY <1>1
<1>9. RunsSound(k, now)
  <2>1. RunSound(run, j.created, now)
    BY <1>3 DEF RunSound, RunWellFormed, Successful
  <2>2. \A i \in 1..n : RunSound(j.runs[i], j.created, now)
    BY DEF Sound, RunsSound
  <2>3. \A i \in 1..Len(k.runs) : RunSound(k.runs[i], k.created, now)
    BY <1>6, <1>7, <1>8, <2>1, <2>2
  <2>4. ASSUME NEW i \in 1..Len(k.runs), NEW m \in 1..Len(k.runs), i < m
        PROVE  Follows(k.runs[m], k.runs[i])
    <3>1. CASE m = n + 1
      BY <1>3, <1>7, <3>1 DEF Follows
    <3>2. CASE m \in 1..n
      <4>1. i \in 1..n
        BY <1>1, <1>7, <2>4, <3>2
      <4>2. Follows(j.runs[m], j.runs[i])
        BY <2>4, <3>2, <4>1 DEF Sound, RunsSound
      <4> QED
        BY <1>7, <3>2, <4>1, <4>2
    <3> QED
      BY <1>7, <1>8, <3>1, <3>2
  <2> QED
    BY <1>6, <2>3, <2>4 DEF Sound, RunsSound
<1>10. EventsSound(k, now)
  <2>1. \A m \in 1..Len(j.events) :
          /\ j.events[m].run \in 1..n /\ EventSound(j.events[m], j.runs[j.events[m].run])
          /\ Within(j.events[m].at, j.created, now)
    BY DEF Sound, EventsSound
  <2>2. \A i \in 1..n : i \in 1..n + 1
    BY <1>1
  <2>3. \A m \in 1..Len(k.events) :
          /\ k.events[m].run \in 1..Len(k.runs)
          /\ EventSound(k.events[m], k.runs[k.events[m].run])
          /\ Within(k.events[m].at, k.created, now)
    BY <1>6, <1>7, <2>1, <2>2
  <2>4. ASSUME NEW m \in 1..Len(k.events), k.events[m].run < Len(k.runs)
        PROVE  \/ k.events[m].status = k.runs[k.events[m].run].status
               \/ \E p \in 1..Len(k.events) : p > m /\ k.events[p].run = k.events[m].run
    <3>1. /\ j.events[m].run \in 1..n /\ m \in 1..Len(j.events) /\ k.events = j.events
          /\ k.runs[j.events[m].run] = j.runs[j.events[m].run]
      BY <1>6, <1>7, <2>1
    <3>2. CASE j.events[m].run < n
      <4>1. \/ j.events[m].status = j.runs[j.events[m].run].status
            \/ \E p \in 1..Len(j.events) : p > m /\ j.events[p].run = j.events[m].run
        BY <3>1, <3>2 DEF Sound, EventsSound
      <4> QED
        BY <3>1, <4>1
    <3>3. CASE j.events[m].run = n
      <4>1. Announced(j)
        BY <1>1, <3>1
      <4>2. CASE m = Len(j.events)
        <5>1. j.events[m].status = j.runs[n].status
          BY <4>1, <4>2 DEF Announced, Last
        <5> QED
          BY <3>1, <3>3, <5>1
      <4>3. CASE m < Len(j.events)
        <5>1. Len(j.events) \in 1..Len(k.events) /\ j.events[Len(j.events)].run = n
          BY <1>1, <1>6, <4>1, <4>3 DEF Announced
        <5> QED
          BY <3>1, <3>3, <4>3, <5>1
      <4> QED
        BY <1>1, <3>1, <4>2, <4>3
    <3>4. j.events[m].run < n \/ j.events[m].run = n
      BY <1>1, <3>1
    <3> QED
      BY <3>2, <3>3, <3>4
  <2>5. \A m, p \in 1..Len(k.events) : m < p => k.events[m].at <= k.events[p].at
    BY <1>6 DEF Sound, EventsSound
  <2>6. Last(k).completed = None
    BY <1>3, <1>7
  <2> QED
    BY <2>3, <2>4, <2>5, <2>6 DEF EventsSound
<1>11. RecordsSound(k, now)
  <2>1. \A i \in 1..n + 1 : k.runs[i].owned => k.revision # None
    BY <1>3, <1>6, <1>7, <1>8 DEF Sound, RecordsSound
  <2>2. \A i \in 1..n : i \in 1..n + 1
    BY <1>1
  <2>3. \A a \in k.artifacts : /\ a.run \in 1..Len(k.runs) /\ k.runs[a.run].owned
                               /\ Within(a.at, k.revision, now)
    BY <1>6, <1>7, <2>2 DEF Sound, RecordsSound
  <2>4. \A f \in k.findings : /\ f.run \in 1..Len(k.runs) /\ f.at <= now
                              /\ k.runs[f.run].owned => k.revision <= f.at
    BY <1>6, <1>7, <2>2 DEF Sound, RecordsSound
  <2> QED
    BY <1>3, <1>6, <1>7, <2>1, <2>3, <2>4 DEF RecordsSound
<1>12. LineageSound(k)
  <2>1. \A i \in 1..Len(k.runs) : \A r \in k.runs[i].inputs :
          \E a \in k.artifacts : a.role = r /\ a.run <= i
    BY <1>3, <1>6, <1>7, <1>8 DEF Sound, LineageSound
  <2> QED
    BY <1>6, <2>1 DEF Sound, LineageSound
<1>13. Stands(k, now, RolesOf(j))
  BY <1>1, <1>6, <1>7, <1>9, <1>10, <1>11, <1>12 DEF Stands, Sound, RolesOf
<1> QED
  BY <1>3, <1>6, <1>7, <1>13 DEF k

LEMMA FindingsStay ==
  ASSUME NEW j \in FabricationJourney, NEW roles, NEW status, NEW level, NEW t
  PROVE  /\ Emit(j, t).findings = j.findings /\ SetInputs(j, roles).findings = j.findings
         /\ Transition(j, status, level, t).findings = j.findings
<1>1. Emit(j, t).findings = j.findings
  BY DEF Emit, FabricationJourney
<1>2. SetInputs(j, roles).findings = j.findings
  BY DEF SetInputs, FabricationJourney
<1>3. Transition(j, status, level, t).findings = j.findings
  BY DEF Transition, FabricationJourney
<1> QED
  BY <1>1, <1>2, <1>3

LEMMA StartStands ==
  ASSUME NEW j, NEW now \in Nat, Sound(j, now), Len(j.runs) > 0 => Announced(j),
         NEW stage \in FabricationStage, NEW attempt \in Nat,
         NEW inputs \in SUBSET Role, inputs \subseteq RolesOf(j),
         NEW t, t[1] \in Nat, t[2] \in Nat, t[3] \in Nat,
         now <= t[1], t[1] <= t[2], t[2] <= t[3]
  PROVE  LET k == StartStage(j, stage, attempt, inputs, t)
         IN /\ Stands(k, t[3], RolesOf(j)) /\ Announced(k) /\ k.revision = j.revision
            /\ Last(k).status = "running" /\ k.findings = j.findings
            /\ Len(k.runs) = Len(j.runs) + 1
            /\ Unpacked(j) /\ stage # "fabrication_package" => Unpacked(k)
<1> DEFINE R == RolesOf(j)
           a == AddStageRun(j, stage, attempt)
           b == SetInputs(a, inputs)
           c == Emit(b, t[1])
           d == Transition(c, "running", None, t[2])
           e == Emit(d, t[3])
<1>1. j \in FabricationJourney /\ Len(j.runs) \in Nat
  BY JourneyParts DEF Sound
<1>2. /\ Stands(a, now, R) /\ a.revision = j.revision /\ Last(a).status = "waiting"
      /\ Last(a).stage = stage /\ Len(a.runs) = Len(j.runs) + 1 /\ a.findings = j.findings
      /\ \A i \in 1..Len(j.runs) : a.runs[i] = j.runs[i]
  BY AddStands
<1>3. Unpacked(j) /\ stage # "fabrication_package" => Unpacked(a)
  BY <1>1, <1>2 DEF Unpacked, Last
<1>4. e = StartStage(j, stage, attempt, inputs, t)
  BY DEF StartStage
<1>5. a \in FabricationJourney
  BY <1>2, StandsOpen
<1>6. Len(e.runs) = Len(j.runs) + 1
  BY <1>1, <1>4, StartStageAdds DEF Adds
<1> HIDE DEF a
<1>7. Stands(b, now, R) /\ Same(b, a) /\ b.findings = a.findings
  BY <1>2, <1>5, InputsStands, FindingsStay
<1>8. b \in FabricationJourney
  BY <1>7, StandsOpen
<1> HIDE DEF b
<1>9. Stands(c, t[1], R) /\ Same(c, b) /\ c.findings = b.findings
  BY <1>7, <1>8, EmitStands, FindingsStay
<1>10. c \in FabricationJourney /\ Last(c).status = "waiting"
  BY <1>2, <1>7, <1>9, StandsOpen DEF Same
<1> HIDE DEF c
<1>11. /\ Stands(d, t[2], R) /\ d.revision = c.revision /\ Last(d).status = "running"
       /\ Unpacked(c) => Unpacked(d)
  BY <1>9, <1>10, BeginStands
<1>12. d.findings = c.findings
  BY <1>10 DEF d, Transition, FabricationJourney
<1> HIDE DEF d
<1>13. d \in FabricationJourney
  BY <1>11, StandsOpen
<1>14. Stands(e, t[3], R) /\ Announced(e) /\ Same(e, d)
  BY <1>11, EmitStands
<1>15. e.findings = d.findings
  BY <1>13, FindingsStay
<1> HIDE DEF e, R
<1>16. /\ e.revision = j.revision /\ Last(e).status = "running" /\ e.findings = j.findings
       /\ Unpacked(j) /\ stage # "fabrication_package" => Unpacked(e)
  BY <1>2, <1>3, <1>7, <1>9, <1>11, <1>12, <1>14, <1>15 DEF Same
<1>17. /\ Stands(e, t[3], R) /\ Announced(e) /\ e.revision = j.revision
       /\ Last(e).status = "running" /\ e.findings = j.findings
       /\ Len(e.runs) = Len(j.runs) + 1
       /\ Unpacked(j) /\ stage # "fabrication_package" => Unpacked(e)
  BY <1>6, <1>14, <1>16
<1> QED
  BY <1>4, <1>17 DEF R

\* A stage ends, or asks, and the job with it.
LEMMA SettleStands ==
  ASSUME NEW j, NEW now \in Nat, NEW R, Stands(j, now, R), Last(j).status = "running",
         NEW status \in Ends, NEW level \in Nat \cup {None},
         status \in Successful => level # None,
         NEW job \in JobStatus, NEW t1 \in Nat, NEW t2 \in Nat, NEW t3 \in Nat,
         now <= t1, t1 <= t2, t2 <= t3
  PROVE  LET k == UpdateStatus(Emit(Transition(j, status, level, t1), t2), job, t3)
         IN /\ Stands(k, t3, R) /\ Announced(k) /\ k.revision = j.revision
            /\ Last(k).status = status /\ k.updated = t3 /\ k.status = job
            /\ Unpacked(j) => Unpacked(k)
<1> DEFINE a == Transition(j, status, level, t1)
           b == Emit(a, t2)
           k == UpdateStatus(b, job, t3)
<1>1. /\ Stands(a, t1, R) /\ a.revision = j.revision /\ Last(a).status = status
      /\ Unpacked(j) => Unpacked(a)
  BY EndStands
<1> HIDE DEF a
<1>2. Stands(b, t2, R) /\ Announced(b) /\ Same(b, a)
  BY <1>1, EmitStands
<1> HIDE DEF b
<1>3. Stands(k, t3, R) /\ Same(k, b) /\ k.updated = t3 /\ k.status = job
  BY <1>2, UpdateStands
<1> HIDE DEF k
<1>4. /\ Stands(k, t3, R) /\ Announced(k) /\ k.revision = j.revision
      /\ Last(k).status = status /\ k.updated = t3 /\ k.status = job
      /\ Unpacked(j) => Unpacked(k)
  BY <1>1, <1>2, <1>3 DEF Same
<1> QED
  BY <1>4 DEF k, a, b

LEMMA PassStands ==
  ASSUME NEW j, NEW now \in Nat, NEW R, Stands(j, now, R), Last(j).status = "running",
         NEW warned, NEW level \in Nat, NEW job \in JobStatus,
         NEW t, t[1] \in Nat, t[2] \in Nat, t[3] \in Nat,
         now <= t[1], t[1] <= t[2], t[2] <= t[3]
  PROVE  LET k == PassStage(j, warned, level, job, t)
         IN /\ Stands(k, t[3], R) /\ Announced(k) /\ k.revision = j.revision
            /\ k.updated = t[3] /\ k.status = job
            /\ Last(k).status = IF warned THEN "passed_with_warnings" ELSE "passed"
            /\ Unpacked(j) => Unpacked(k)
<1> DEFINE status == IF warned THEN "passed_with_warnings" ELSE "passed"
<1>1. status \in Ends
  BY DEF Ends
<1>2. level \in Nat \cup {None} /\ level # None
  BY NoneFacts
<1>3. PassStage(j, warned, level, job, t) =
        UpdateStatus(Emit(Transition(j, status, level, t[1]), t[2]), job, t[3])
  BY DEF PassStage
<1> HIDE DEF status
<1>4. LET k == UpdateStatus(Emit(Transition(j, status, level, t[1]), t[2]), job, t[3])
      IN /\ Stands(k, t[3], R) /\ Announced(k) /\ k.revision = j.revision
         /\ Last(k).status = status /\ k.updated = t[3] /\ k.status = job
         /\ Unpacked(j) => Unpacked(k)
  BY <1>1, <1>2, SettleStands
<1> QED
  BY <1>3, <1>4 DEF status

\* The same without a level of its own.
LEMMA StopStands ==
  ASSUME NEW j, NEW now \in Nat, NEW R, Stands(j, now, R), Last(j).status = "running",
         NEW status \in {"failed", "needs_input"},
         NEW t1 \in Nat, NEW t2 \in Nat, NEW t3 \in Nat, now <= t1, t1 <= t2, t2 <= t3
  PROVE  LET k == UpdateStatus(Emit(Transition(j, status, None, t1), t2), status, t3)
         IN /\ Stands(k, t3, R) /\ Announced(k) /\ k.revision = j.revision
            /\ Last(k).status = status /\ k.updated = t3 /\ k.status = status
            /\ Unpacked(j) => Unpacked(k)
<1>1. status \in Ends /\ status \in JobStatus /\ status \notin Successful
  BY DEF Ends, JobStatus, Successful
<1> DEFINE level == None
<1>2. level \in Nat \cup {None}
  OBVIOUS
<1> HIDE DEF level
<1>3. LET k == UpdateStatus(Emit(Transition(j, status, level, t1), t2), status, t3)
      IN /\ Stands(k, t3, R) /\ Announced(k) /\ k.revision = j.revision
         /\ Last(k).status = status /\ k.updated = t3 /\ k.status = status
         /\ Unpacked(j) => Unpacked(k)
  BY <1>1, <1>2, SettleStands
<1> QED
  BY <1>3 DEF level

LEMMA FailedStands ==
  ASSUME NEW j, NEW now \in Nat, NEW R, Stands(j, now, R), Last(j).status = "running",
         NEW t1 \in Nat, NEW t2 \in Nat, NEW t3 \in Nat, now <= t1, t1 <= t2, t2 <= t3
  PROVE  LET k == UpdateStatus(Emit(Transition(j, "failed", None, t1), t2), "failed", t3)
         IN /\ Stands(k, t3, R) /\ Announced(k) /\ k.revision = j.revision
            /\ k.updated = t3 /\ k.status = "failed"
            /\ Unpacked(j) => Unpacked(k)
<1> DEFINE status == "failed"
<1>1. status \in {"failed", "needs_input"}
  OBVIOUS
<1> HIDE DEF status
<1>2. LET k == UpdateStatus(Emit(Transition(j, status, None, t1), t2), status, t3)
      IN /\ Stands(k, t3, R) /\ Announced(k) /\ k.revision = j.revision
         /\ Last(k).status = status /\ k.updated = t3 /\ k.status = status
         /\ Unpacked(j) => Unpacked(k)
  BY <1>1, StopStands
<1> QED
  BY <1>2 DEF status

LEMMA FailStands ==
  ASSUME NEW j, NEW now \in Nat, NEW R, Stands(j, now, R), Last(j).status = "running",
         NEW t, t[1] \in Nat, t[2] \in Nat, t[3] \in Nat, t[4] \in Nat,
         now <= t[1], t[1] <= t[2], t[2] <= t[3], t[3] <= t[4]
  PROVE  LET k == FailStage(j, t)
         IN /\ Stands(k, t[4], R) /\ Announced(k) /\ k.revision = j.revision
            /\ k.updated = t[4] /\ k.status = "failed"
            /\ Unpacked(j) => Unpacked(k)
<1> DEFINE a == Note(j, "error", t[1])
           k == UpdateStatus(Emit(Transition(a, "failed", None, t[2]), t[3]), "failed", t[4])
<1>1. Stands(a, t[1], R) /\ Same(a, j)
  BY NoteStands
<1> HIDE DEF a
<1>2. Last(a).status = "running"
  BY <1>1 DEF Same
<1>3. /\ Stands(k, t[4], R) /\ Announced(k) /\ k.revision = a.revision
      /\ k.updated = t[4] /\ k.status = "failed"
      /\ Unpacked(a) => Unpacked(k)
  BY <1>1, <1>2, FailedStands
<1> HIDE DEF k
<1>4. k = FailStage(j, t)
  BY DEF k, a, FailStage
<1> QED
  BY <1>1, <1>3, <1>4 DEF Same

LEMMA SameOn ==
  ASSUME NEW j, NEW k, NEW m, Same(k, j), Same(m, k)
  PROVE  Same(m, j)
BY DEF Same

\* All roles but those of an attempt have a path of their own.
Plain == Role \ AttemptRole

LEMMA PlainPaths == \A r \in Plain : Path(r) = r
BY DEF Plain, Path, AttemptRole

LEMMA RecordPlain ==
  ASSUME NEW j, NEW now \in Nat, NEW t \in Nat, now <= t, NEW R, Stands(j, now, R),
         j.revision # None, R \subseteq Plain,
         NEW roles \in SUBSET Plain, \A r \in roles : Parents(r) \subseteq R \cup roles,
         roles \cap R = {}
  PROVE  LET k == Record(j, roles, t)
         IN /\ Stands(k, t, R \cup roles) /\ Same(k, j) /\ R \cup roles \subseteq Plain
            /\ k.artifacts =
                 j.artifacts \cup {[role |-> r, run |-> Len(j.runs), at |-> t] : r \in roles}
<1>1. roles \in SUBSET Role
  BY DEF Plain
<1>2. \A r \in roles : \A q \in R \cup roles : Path(r) = Path(q) => r = q
  BY PlainPaths
<1> QED
  BY <1>1, <1>2, RecordStands

LEMMA RoleGroups ==
  /\ CadRole \subseteq Plain /\ AssessedRole \subseteq Plain /\ SlicerRole \subseteq Plain
  /\ CadRole \cap AssessedRole = {} /\ (CadRole \cup AssessedRole) \cap SlicerRole = {}
  /\ CadRole \cup AssessedRole \cup SlicerRole \subseteq Plain
  /\ RequiredRole \subseteq CadRole \cup AssessedRole \cup SlicerRole
  /\ SliceInput \subseteq CadRole \cup AssessedRole
BY DEF CadRole, AssessedRole, SlicerRole, LogRole, AttemptRole, Plain, Role, RequiredRole, SliceInput

LEMMA ParentsOf ==
  /\ Parents("control") = {} /\ Parents("design") = {"control"}
  /\ Parents("geometry_report") = {"design"}
  /\ Parents("profiles") = {} /\ Parents("policy") = {}
  /\ Parents("oriented") = {"design", "profiles"}
  /\ Parents("printability_report") = {"design", "geometry_report", "profiles", "policy", "oriented"}
  /\ Parents("installation") = {}
  /\ Parents("sliced") = SliceInput \cup {"installation"}
  /\ Parents("preflight") = {"sliced", "profiles", "installation"}
  /\ Parents("package_report") = RequiredRole
  /\ \A r \in LogRole \cup AttemptRole : Parents(r) = SliceInput
<1>1. \A r \in LogRole \cup AttemptRole : Parents(r) = SliceInput
  BY DEF Parents, LogRole, AttemptRole
<1>2. /\ "control" \notin LogRole \cup AttemptRole /\ "profiles" \notin LogRole \cup AttemptRole
      /\ "policy" \notin LogRole \cup AttemptRole /\ "installation" \notin LogRole \cup AttemptRole
      /\ "package_report" \notin LogRole \cup AttemptRole
  BY DEF LogRole, AttemptRole
<1>3. /\ Parents("design") = {"control"} /\ Parents("geometry_report") = {"design"}
      /\ Parents("oriented") = {"design", "profiles"}
  BY DEF Parents, LogRole, AttemptRole
<1>4. Parents("printability_report") = {"design", "geometry_report", "profiles", "policy", "oriented"}
  BY DEF Parents, LogRole, AttemptRole
<1>5. Parents("sliced") = SliceInput \cup {"installation"}
  BY DEF Parents, LogRole, AttemptRole
<1>6. Parents("preflight") = {"sliced", "profiles", "installation"}
  BY DEF Parents, LogRole, AttemptRole
<1>7. Parents("control") = {} /\ Parents("profiles") = {}
  BY DEF Parents, LogRole, AttemptRole
<1>8. Parents("policy") = {} /\ Parents("installation") = {}
  BY DEF Parents, LogRole, AttemptRole
<1>9. Parents("package_report") = RequiredRole
  BY <1>2 DEF Parents
<1> QED
  BY <1>1, <1>3, <1>7, <1>8, <1>9, <1>4, <1>5, <1>6

LEMMA AssessedStands ==
  ASSUME NEW now \in Nat, Stands(journey, now, CadRole), journey.revision # None,
         NEW failed \in BOOLEAN, NEW t, \A i \in 1..6 : t[i] \in Nat,
         now <= t[1], \A i \in 1..5 : t[i] <= t[i + 1]
  PROVE  LET k == Assessed(failed, t)
         IN Stands(k, t[6], CadRole \cup AssessedRole) /\ Same(k, journey)
<1> DEFINE j == journey
           inputs == {"profiles", "policy"}
           a == Record(j, inputs, t[1])
           b == Record(a, {"oriented"}, t[2])
           c == Record(b, {"printability_report"}, t[3])
           d == SetInputs(c, inputs \cup {"design", "geometry_report"})
           e == Emit(d, t[4])
           f == NoteIf(failed, e, "error", t[5])
           g == Note(f, "warning", t[6])
           A == CadRole \cup {"profiles", "policy"}
           B == A \cup {"oriented"}
           C == B \cup {"printability_report"}
<1>1. /\ t[1] \in Nat /\ t[2] \in Nat /\ t[3] \in Nat
      /\ t[4] \in Nat /\ t[5] \in Nat /\ t[6] \in Nat
      /\ t[1] <= t[2] /\ t[2] <= t[3] /\ t[3] <= t[4] /\ t[4] <= t[5] /\ t[5] <= t[6]
  OBVIOUS
<1>2. C = CadRole \cup AssessedRole
  BY DEF AssessedRole
<1> HIDE DEF j
<1>3. Stands(j, now, CadRole) /\ j.revision # None
  BY DEF j
<1>4. Stands(a, t[1], A) /\ Same(a, j) /\ A \subseteq Plain
  <2>1. /\ inputs \subseteq Plain /\ CadRole \subseteq Plain /\ inputs \cap CadRole = {}
        /\ \A r \in inputs : Parents(r) \subseteq CadRole \cup inputs
    BY RoleGroups, ParentsOf DEF AssessedRole
  <2> HIDE DEF inputs
  <2> QED
    BY <1>1, <1>3, <2>1, RecordPlain DEF inputs
<1>5. a.revision # None
  BY <1>4, <1>3 DEF Same
<1> HIDE DEF a
<1>6. Stands(b, t[2], B) /\ Same(b, a) /\ B \subseteq Plain
  <2> DEFINE roles == {"oriented"}
  <2>1. /\ roles \subseteq Plain /\ roles \cap A = {}
        /\ \A r \in roles : Parents(r) \subseteq A \cup roles
    BY RoleGroups, ParentsOf DEF AssessedRole, CadRole
  <2> HIDE DEF roles, A
  <2> QED
    BY <1>1, <1>4, <1>5, <2>1, RecordPlain DEF roles
<1>7. b.revision # None
  BY <1>5, <1>6 DEF Same
<1> HIDE DEF b
<1>8. Stands(c, t[3], C) /\ Same(c, b)
  <2> DEFINE roles == {"printability_report"}
  <2>1. /\ roles \subseteq Plain /\ roles \cap B = {}
        /\ \A r \in roles : Parents(r) \subseteq B \cup roles
    BY RoleGroups, ParentsOf DEF AssessedRole, CadRole
  <2> HIDE DEF roles, B
  <2> QED
    BY <1>1, <1>6, <1>7, <2>1, RecordPlain DEF roles
<1> HIDE DEF c
<1>9. Stands(d, t[3], C) /\ Same(d, c)
  <2> DEFINE roles == inputs \cup {"design", "geometry_report"}
  <2>1. roles \subseteq C /\ roles \subseteq Role
    BY <1>2, RoleGroups DEF Plain, CadRole
  <2> HIDE DEF roles, C
  <2> QED
    BY <1>1, <1>8, <2>1, InputsStands DEF roles
<1> HIDE DEF d, C
<1>10. Stands(e, t[4], C) /\ Same(e, d)
  BY <1>1, <1>9, EmitStands
<1> HIDE DEF e
<1>11. Stands(f, t[5], C) /\ Same(f, e)
  BY <1>1, <1>10, NoteIfStands
<1> HIDE DEF f
<1>12. Stands(g, t[6], C) /\ Same(g, f)
  BY <1>1, <1>11, NoteStands
<1> HIDE DEF g
<1>13. Same(g, j)
  BY <1>4, <1>6, <1>8, <1>9, <1>10, <1>11, <1>12, SameOn
<1>14. g = Assessed(failed, t)
  BY DEF Assessed, a, b, c, d, e, f, g, j
<1> QED
  BY <1>12, <1>13, <1>14, <1>2 DEF j

LEMMA RecordedFiles ==
  /\ RecordedUpTo(4) = {"installation"} \cup LogRole
  /\ AllFiles \ RecordedUpTo(4) = {"sliced", "preflight"}
  /\ \A n \in 0..5 : /\ RecordedUpTo(n) \subseteq SlicerRole
                     /\ "sliced" \in RecordedUpTo(n) => "installation" \in RecordedUpTo(n)
                     /\ "preflight" \notin RecordedUpTo(n)
<1>1. /\ RecordOrder[1] = "installation" /\ RecordOrder[2] = "info_logs"
      /\ RecordOrder[3] = "project_logs" /\ RecordOrder[4] = "slice_logs"
      /\ RecordOrder[5] = "sliced" /\ RecordOrder[6] = "preflight" /\ Len(RecordOrder) = 6
  BY DEF RecordOrder
<1>2. RecordedUpTo(4) = {"installation"} \cup LogRole
  BY <1>1 DEF RecordedUpTo, LogRole
<1>3. AllFiles = SlicerRole
  BY <1>1 DEF AllFiles, RecordedUpTo, SlicerRole, LogRole
<1>4. AllFiles \ RecordedUpTo(4) = {"sliced", "preflight"}
  BY <1>2, <1>3 DEF SlicerRole, LogRole
<1>5. ASSUME NEW n \in 0..5
      PROVE  /\ RecordedUpTo(n) \subseteq SlicerRole
             /\ "sliced" \in RecordedUpTo(n) => "installation" \in RecordedUpTo(n)
             /\ "preflight" \notin RecordedUpTo(n)
  <2>1. \A i \in 1..5 : RecordOrder[i] \in SlicerRole /\ RecordOrder[i] # "preflight"
    BY <1>1 DEF SlicerRole, LogRole
  <2>2. \A i \in 1..n : i \in 1..5
    OBVIOUS
  <2>3. "sliced" \in RecordedUpTo(n) => 1 \in 1..n
    BY DEF RecordedUpTo
  <2> QED
    BY <1>1, <2>1, <2>2, <2>3 DEF RecordedUpTo
<1> QED
  BY <1>2, <1>4, <1>5

LEMMA SlicerGateStands ==
  ASSUME NEW now \in Nat, Stands(journey, now, CadRole \cup AssessedRole), journey.revision # None,
         NEW gate, gate.blocked \in BOOLEAN, gate.advised \in BOOLEAN,
         NEW t, \A i \in 1..5 : t[i] \in Nat,
         now <= t[1], \A i \in 1..4 : t[i] <= t[i + 1]
  PROVE  LET k == SlicerGate(gate, t)
         IN /\ Stands(k, t[5], CadRole \cup AssessedRole \cup SlicerRole) /\ Same(k, journey)
<1> DEFINE j == journey
           early == RecordedUpTo(4)
           late == AllFiles \ RecordedUpTo(4)
           a == Record(j, early, t[1])
           b == Record(a, late, t[2])
           c == NoteIf(gate.advised, b, "warning", t[3])
           d == NoteIf(gate.blocked, c, "error", t[4])
           e == Emit(d, t[5])
           R == CadRole \cup AssessedRole
           A == R \cup early
           B == A \cup late
<1>1. /\ t[1] \in Nat /\ t[2] \in Nat /\ t[3] \in Nat /\ t[4] \in Nat /\ t[5] \in Nat
      /\ t[1] <= t[2] /\ t[2] <= t[3] /\ t[3] <= t[4] /\ t[4] <= t[5]
  OBVIOUS
<1>2. B = R \cup SlicerRole
  BY RecordedFiles DEF SlicerRole
<1>3. SliceInput \subseteq R /\ "profiles" \in R /\ R \subseteq Plain /\ R \cap SlicerRole = {}
  BY RoleGroups DEF AssessedRole
<1> HIDE DEF j, R
<1>4. Stands(j, now, R) /\ j.revision # None
  BY DEF j, R
<1>5. Stands(a, t[1], A) /\ Same(a, j) /\ A \subseteq Plain
  <2>1. /\ early \subseteq Plain /\ early \cap R = {}
        /\ \A r \in early : Parents(r) \subseteq R \cup early
    <3>1. early = {"installation"} \cup LogRole /\ early \subseteq SlicerRole
      BY RecordedFiles DEF SlicerRole
    <3> HIDE DEF early
    <3>2. \A r \in early : Parents(r) = {} \/ Parents(r) = SliceInput
      BY <3>1, ParentsOf
    <3> QED
      BY <1>3, <3>1, <3>2, RoleGroups
  <2> HIDE DEF early
  <2> QED
    BY <1>1, <1>4, <1>3, <2>1, RecordPlain
<1>6. a.revision # None
  BY <1>5, <1>4 DEF Same
<1> HIDE DEF a
<1>7. Stands(b, t[2], B) /\ Same(b, a)
  <2>1. /\ late \subseteq Plain /\ late \cap A = {}
        /\ \A r \in late : Parents(r) \subseteq A \cup late
    <3>1. late = {"sliced", "preflight"} /\ early = {"installation"} \cup LogRole
      BY RecordedFiles
    <3> HIDE DEF early, late
    <3>2. late \subseteq SlicerRole /\ late \cap early = {} /\ "installation" \in early
      BY <3>1 DEF SlicerRole, LogRole
    <3>3. /\ Parents("sliced") \subseteq A \cup late /\ Parents("preflight") \subseteq A \cup late
      BY <1>3, <3>1, <3>2, ParentsOf
    <3> QED
      BY <1>3, <3>1, <3>2, <3>3, RoleGroups
  <2> HIDE DEF late, A
  <2> QED
    BY <1>1, <1>5, <1>6, <2>1, RecordPlain
<1> HIDE DEF b, B
<1>8. Stands(c, t[3], B) /\ Same(c, b)
  BY <1>1, <1>7, NoteIfStands
<1> HIDE DEF c
<1>9. Stands(d, t[4], B) /\ Same(d, c)
  BY <1>1, <1>8, NoteIfStands
<1> HIDE DEF d
<1>10. Stands(e, t[5], B) /\ Same(e, d)
  BY <1>1, <1>9, EmitStands
<1> HIDE DEF e
<1>11. Same(e, j)
  BY <1>5, <1>7, <1>8, <1>9, <1>10, SameOn
<1>12. e = SlicerGate(gate, t)
  BY DEF SlicerGate, a, b, c, d, e, j, early, late
<1> QED
  BY <1>10, <1>11, <1>12, <1>2 DEF j, R

\* The files of a slicer run that raised.
LEMMA AttemptsStand ==
  ASSUME NEW j, NEW now \in Nat, NEW t1 \in Nat, NEW t2 \in Nat, now <= t1, t1 <= t2,
         Stands(j, now, CadRole \cup AssessedRole), j.revision # None,
         NEW n \in 0..5, NEW written
  PROVE  LET kept == Record(j, RecordedUpTo(n), t1)
             k == Record(kept, Attempts(kept, written), t2)
         IN /\ \E R : Stands(k, t2, R)
            /\ Same(k, j)
<1> DEFINE R == CadRole \cup AssessedRole
           files == RecordedUpTo(n)
           kept == Record(j, files, t1)
           tries == Attempts(kept, written)
           k == Record(kept, tries, t2)
<1>1. SliceInput \subseteq R /\ "profiles" \in R /\ R \subseteq Plain /\ R \cap SlicerRole = {}
  BY RoleGroups DEF AssessedRole
<1> HIDE DEF R
<1>2. Stands(kept, t1, R \cup files) /\ Same(kept, j)
  <2>1. /\ files \subseteq SlicerRole /\ "preflight" \notin files
        /\ "sliced" \in files => "installation" \in files
    BY RecordedFiles
  <2> HIDE DEF files
  <2>2. ASSUME NEW r \in files PROVE Parents(r) \subseteq R \cup files
    <3>1. r \in {"installation", "sliced"} \cup LogRole
      BY <2>1 DEF SlicerRole
    <3>2. CASE r = "sliced"
      BY <1>1, <2>1, <3>2, ParentsOf
    <3>3. CASE r # "sliced"
      <4>1. Parents(r) = {} \/ Parents(r) = SliceInput
        BY <3>1, <3>3, ParentsOf
      <4> QED
        BY <1>1, <4>1
    <3> QED
      BY <3>2, <3>3
  <2>3. files \subseteq Plain /\ files \cap R = {}
    BY <1>1, <2>1, RoleGroups
  <2> QED
    BY <1>1, <2>2, <2>3, RecordPlain DEF R
<1>3. kept.revision # None /\ RolesOf(kept) = R \cup files
  BY <1>2 DEF Same, Stands
<1> HIDE DEF kept, files
<1>4. tries \subseteq AttemptRole /\ \A r \in tries : \A q \in R \cup files : Path(r) # Path(q)
  BY <1>3 DEF Attempts
<1> HIDE DEF tries
<1>5. tries \subseteq Role /\ tries \cap (R \cup files) = {}
  BY <1>4, ReportRoles
<1>6. \A r \in tries : Parents(r) \subseteq (R \cup files) \cup tries
  BY <1>1, <1>4, ParentsOf
<1>7. \A r, q \in AttemptRole : Path(r) = Path(q) => r = q
  BY DEF AttemptRole, Path
<1>8. \A r \in tries : \A q \in (R \cup files) \cup tries : Path(r) = Path(q) => r = q
  BY <1>4, <1>7
<1>9. Stands(k, t2, (R \cup files) \cup tries) /\ Same(k, kept)
  <2> DEFINE all == R \cup files
  <2> HIDE DEF all
  <2>1. Stands(kept, t1, all) /\ tries \cap all = {}
        /\ (\A r \in tries : Parents(r) \subseteq all \cup tries)
        /\ (\A r \in tries : \A q \in all \cup tries : Path(r) = Path(q) => r = q)
    BY <1>2, <1>5, <1>6, <1>8 DEF all
  <2> QED
    BY <1>3, <1>5, <2>1, RecordStands DEF all
<1> HIDE DEF k
<1>10. Same(k, j)
  BY <1>2, <1>9, SameOn
<1> QED
  BY <1>9, <1>10 DEF k, kept, tries, files

\* What is sound has all that the repository asks for, package and manifest aside.
LEMMA SealedAccepted ==
  ASSUME NEW j, Sealed(j), NEW m, NEW p, ManifestAgrees(j, m), PackageConsistent(j, m, p)
  PROVE  Accepts(j, m, p)
<1> DEFINE n == Len(j.runs)
           now == j.updated
<1>1. /\ j \in FabricationJourney /\ j.created \in Nat /\ now \in Nat /\ j.revision \in Nat
      /\ Len(j.events) \in Nat /\ n \in Nat /\ j # None /\ j.revision # None
      /\ DOMAIN j.runs = 1..n /\ DOMAIN j.events = 1..Len(j.events)
  <2>1. j \in FabricationJourney
    BY DEF Sealed, Sound
  <2> QED
    BY <2>1, JourneyParts, NoneFacts DEF Sealed
<1>2. OwnedRuns(j) = {i \in 1..n : j.runs[i].owned}
  BY <1>1 DEF OwnedRuns
<1>3. /\ \A i \in 1..n : /\ j.runs[i].started \in Nat \cup {None}
                         /\ j.runs[i].completed \in Nat \cup {None}
      /\ \A e \in 1..Len(j.events) : j.events[e].at \in Nat
      /\ \A a \in j.artifacts : a.at \in Nat
      /\ \A f \in j.findings : f.at \in Nat
  BY <1>1, RecordTypes
<1>4. RecordTimesValid(j)
  <2>1. {a.run : a \in j.artifacts} \subseteq OwnedRuns(j)
    BY <1>2 DEF Sealed, Sound, RecordsSound
  <2>2. j.created <= j.revision /\ j.revision <= j.updated
    BY <1>1 DEF Sealed, Sound, RunsSound, Within
  <2>3. \A a \in j.artifacts : Within(a.at, j.revision, j.updated)
    BY DEF Sealed, Sound, RecordsSound
  <2>4. \A f \in OwnedFindings(j) : Within(f.at, j.revision, j.updated)
    BY DEF Sealed, Sound, RecordsSound, OwnedFindings, Within
  <2> QED
    BY <2>1, <2>2, <2>3, <2>4 DEF RecordTimesValid
<1>5. \A i \in OwnedRuns(j) : RunValid(j, j.runs[i])
  BY <1>2 DEF Sealed, Sound, RunsSound, RunSound, RunValid
<1>6. RunsFollow(j)
  <2> SUFFICES ASSUME NEW i \in OwnedRuns(j), NEW k \in OwnedRuns(j), i < k,
                      j.runs[i].started # None, j.runs[k].started # None
               PROVE  j.runs[k].started >= IF j.runs[i].completed # None THEN j.runs[i].completed
                                                                         ELSE j.runs[i].started
    BY DEF RunsFollow
  <2>1. i \in 1..n /\ k \in 1..n
    BY <1>2
  <2>2. Follows(j.runs[k], j.runs[i])
    BY <2>1 DEF Sealed, Sound, RunsSound
  <2> QED
    BY <1>3, <2>1, <2>2 DEF Follows
<1>7. EventsValid(j)
  <2>1. OwnedEvents(j) = {e \in 1..Len(j.events) : j.events[e].run \in OwnedRuns(j)}
    BY <1>1 DEF OwnedEvents
  <2>2. ASSUME NEW e \in OwnedEvents(j) PROVE EventValid(j, j.events[e])
    <3>1. /\ EventSound(j.events[e], j.runs[j.events[e].run])
          /\ Within(j.events[e].at, j.created, j.updated)
          /\ e \in 1..Len(j.events) /\ j.events[e].run \in 1..n
      BY <2>1 DEF Sealed, Sound, EventsSound
    <3> QED
      BY <1>3, <3>1 DEF EventSound, EventValid
  <2>3. ASSUME NEW e \in OwnedEvents(j)
        PROVE  \/ j.events[e].status = j.runs[j.events[e].run].status
               \/ \E d \in OwnedEvents(j) : d > e /\ j.events[d].run = j.events[e].run
    <3>1. e \in 1..Len(j.events) /\ j.events[e].run \in 1..n /\ j.events[e].run \in OwnedRuns(j)
      BY <1>2, <2>1
    <3>2. CASE j.events[e].run < n
      <4>1. \/ j.events[e].status = j.runs[j.events[e].run].status
            \/ \E d \in 1..Len(j.events) : d > e /\ j.events[d].run = j.events[e].run
        BY <3>1, <3>2 DEF Sealed, Sound, EventsSound
      <4> QED
        BY <2>1, <3>1, <4>1
    <3>3. CASE j.events[e].run = n
      <4>1. /\ Len(j.events) \in 1..Len(j.events) /\ j.events[Len(j.events)].run = n
            /\ j.events[Len(j.events)].status = j.runs[n].status
        BY <1>1, <3>1 DEF Sealed, Announced, Last
      <4>2. CASE e = Len(j.events)
        BY <3>3, <4>1, <4>2
      <4>3. CASE e < Len(j.events)
        <5>1. Len(j.events) \in OwnedEvents(j)
          BY <2>1, <3>1, <3>3, <4>1
        <5> QED
          BY <3>3, <4>1, <4>3, <5>1
      <4> QED
        BY <1>1, <3>1, <4>2, <4>3
    <3> QED
      BY <1>1, <3>1, <3>2, <3>3
  <2>4. \A e, d \in OwnedEvents(j) : e < d => j.events[e].at <= j.events[d].at
    BY <2>1 DEF Sealed, Sound, EventsSound
  <2> QED
    BY <2>2, <2>3, <2>4 DEF EventsValid
<1>8. LineageValid(j)
  <2> DEFINE paths == {Path(a.role) : a \in j.artifacts}
             f == [a \in j.artifacts |-> Path(a.role)]
  <2>1. /\ \A a, b \in j.artifacts : Path(a.role) = Path(b.role) => a = b
        /\ IsFiniteSet(j.artifacts)
    BY DEF Sealed, Sound, LineageSound
  <2>2. f \in Surjection(j.artifacts, paths) /\ f \in Injection(j.artifacts, paths)
    BY <2>1 DEF Surjection, Injection, IsInjective
  <2>3. Cardinality(paths) = Cardinality(j.artifacts)
    <3> HIDE DEF f, paths
    <3> QED
      BY <2>1, <2>2, FS_Surjection
  <2>4. \A i \in OwnedRuns(j) : \A r \in j.runs[i].inputs :
          \E a \in j.artifacts : a.role = r /\ a.run <= i
    BY <1>2 DEF Sealed, Sound, LineageSound
  <2>5. \A a \in j.artifacts : \A r \in Parents(a.role) :
          \E b \in j.artifacts : b.role = r /\ b.run <= a.run /\ b.at <= a.at
    BY DEF Sealed, Sound, LineageSound
  <2> QED
    BY <2>3, <2>4, <2>5 DEF LineageValid
<1> QED
  BY <1>1, <1>4, <1>5, <1>6, <1>7, <1>8 DEF Accepts

LEMMA StandsSealed ==
  ASSUME NEW j, NEW now, NEW R, Stands(j, now, R), j.updated = now, Announced(j),
         j.revision # None
  PROVE  Sealed(j)
BY DEF Stands, Sealed

LEMMA UnpackedPasses ==
  ASSUME NEW j \in FabricationJourney, Unpacked(j)
  PROVE  PassedRuns(j, "fabrication_package") = {} /\ PackageRuns(j) = {}
BY RunsDomain DEF PassedRuns, PackageRuns, OwnedRuns, Unpacked

Evidenced == InMemory /\ OnDisk

-----------------------------------------------------------------------------
(* Steps that write nothing                                                     *)

LEMMA DiskStays ==
  ASSUME Place, OnDisk, UNCHANGED disk, clock' \in Nat, clock <= clock',
         pc' \notin Settled \cup {"indexed"}
  PROVE  OnDisk'
<1>1. clock \in Nat
  BY DEF Place
<1>2. disk.journey # None => Sealed(disk.journey) /\ disk.journey.updated <= clock'
  <2> SUFFICES ASSUME disk.journey # None
               PROVE  Sealed(disk.journey) /\ disk.journey.updated <= clock'
    OBVIOUS
  <2>1. Sealed(disk.journey) /\ disk.journey.updated <= clock
    BY DEF OnDisk
  <2>2. disk.journey.updated \in Nat
    BY <2>1, JourneyParts DEF Sealed, Sound
  <2> QED
    BY <1>1, <2>1, <2>2
<1> QED
  BY <1>2 DEF OnDisk, EvidenceReadable, IndexTorn, PackageOrphaned, Settled

\* On to the next stage of the same pipeline.
LEMMA ToMaking ==
  ASSUME Place, Evidenced, UNCHANGED disk, clock' \in Nat, clock <= clock',
         NEW p \in Making \ {"writing", "written"}, pc' = p,
         Stands(journey', clock', RolesAt(p)), Announced(journey'), Unpacked(journey'),
         p \in Gate => /\ journey'.revision = None
                       /\ \A f \in journey'.findings : f.run # Len(journey'.runs),
         p \in Slicing => disk.package = None /\ Unpacked(disk.journey)
  PROVE  Evidenced'
<1>1. p \notin Settled \cup {"indexed", "confirmed", "indexing"}
  BY DEF Making, Gate, Designing, Slicing, Settled
<1>2. OnDisk'
  BY <1>1, DiskStays DEF Evidenced
<1>3. InMemory'
  BY <1>1 DEF InMemory, Stands, Slicing
<1> QED
  BY <1>2, <1>3 DEF Evidenced

\* On to the disk.
LEMMA ToIndexing ==
  ASSUME Place, Evidenced, UNCHANGED disk, clock' \in Nat, clock <= clock',
         pc' = "indexing", NEW R, Stands(journey', clock', R), journey'.updated = clock',
         Announced(journey'), journey'.revision # None,
         Packed(journey', disk.package),
         journey'.status = "geometry_verified" => R = CadRole
  PROVE  Evidenced'
<1>1. pc' \notin Settled \cup {"indexed", "confirmed"} \cup Making
  BY DEF Making, Gate, Designing, Slicing, Settled
<1>2. OnDisk'
  BY <1>1, DiskStays DEF Evidenced
<1>3. Sealed(journey') /\ RolesOf(journey') = R
  BY StandsSealed DEF Stands
<1>4. InMemory'
  BY <1>1, <1>3 DEF InMemory, Making
<1> QED
  BY <1>2, <1>4 DEF Evidenced

\* Nowhere: the journey is answered, refused or thrown away.
LEMMA ToNowhere ==
  ASSUME Place, Evidenced, UNCHANGED disk, clock' \in Nat, clock <= clock',
         pc' \in {"answered", "refused", "stopped", "unpackaged"}
  PROVE  Evidenced'
<1>1. pc' \notin Settled \cup {"indexed", "confirmed", "indexing"} \cup Making
  BY DEF Making, Gate, Designing, Slicing, Settled
<1>2. OnDisk'
  BY <1>1, DiskStays DEF Evidenced
<1>3. InMemory'
  BY <1>1 DEF InMemory, Making
<1> QED
  BY <1>2, <1>3 DEF Evidenced

LEMMA SameEvidence ==
  ASSUME Evidenced, UNCHANGED <<clock, pc, journey, disk>>
  PROVE  Evidenced'
BY DEF Evidenced, InMemory, OnDisk, EvidenceReadable, IndexTorn, PackageOrphaned

LEMMA MakingFacts ==
  ASSUME Place, Evidenced, pc \in Making
  PROVE  /\ clock \in Nat /\ Stands(journey, clock, RolesAt(pc))
         /\ pc \notin {"writing", "written"} => Announced(journey) /\ Unpacked(journey)
         /\ pc \in Designing \cup Slicing => journey.revision # None
         /\ pc \in {"ready"} \cup Gate \cup Designing => disk = EmptyDisk
         /\ pc \in {"assessing", "slicing", "packaging"} => disk.package = None
         /\ pc \in Slicing => Unpacked(disk.journey)
<1>1. Open(journey) /\ clock \in Nat
  BY DEF Place, Making, Gate, Early, Designing, Slicing, EarlyPlace, DesignPlace, SlicePlace
<1>2. Stands(journey, clock, RolesAt(pc))
  BY <1>1 DEF Evidenced, InMemory, Stands, Open
<1>3. /\ pc \notin {"writing", "written"} => Announced(journey) /\ Unpacked(journey)
      /\ pc \in {"assessing", "slicing", "packaging"} => disk.package = None
      /\ pc \in Slicing => Unpacked(disk.journey)
  BY DEF Evidenced, InMemory
<1>4. pc \in Designing \cup Slicing => journey.revision # None
  BY DEF Place, DesignPlace, SlicePlace
<1>5. pc \in {"ready"} \cup Gate \cup Designing => disk = EmptyDisk
  BY DEF Place, Early, Gate
<1> QED
  BY <1>1, <1>2, <1>3, <1>4, <1>5

\* A stage fails, after files and findings of it were recorded.
LEMMA FailedEvidence ==
  ASSUME Place, Evidenced, pc \in Designing \cup {"assessing", "slicing"},
         CanTransition(journey, "failed"),
         NEW d, NEW now \in Nat, clock <= now, NEW R, Stands(d, now, R), Same(d, journey),
         NEW v, v[1] \in Nat, v[2] \in Nat, v[3] \in Nat, v[4] \in Nat,
         now <= v[1], v[1] <= v[2], v[2] <= v[3], v[3] <= v[4],
         journey' = FailStage(d, v), pc' = "indexing", UNCHANGED disk, clock' = v[4]
  PROVE  Evidenced'
<1>1. pc \in Making /\ pc \notin {"writing", "written"}
  BY DEF Making, Designing, Slicing
<1>2. /\ clock \in Nat /\ Open(journey) /\ Unpacked(journey) /\ journey.revision # None
      /\ disk.package = None
  <2>1. pc \in Designing \cup Slicing
    BY DEF Slicing
  <2>2. pc \in Designing \/ pc \in {"assessing", "slicing", "packaging"}
    OBVIOUS
  <2> QED
    BY <1>1, <2>1, <2>2, MakingFacts, StandsOpen DEF EmptyDisk
<1>3. Last(d).status = "running"
  BY <1>2, MovesFromRunning DEF Same
<1>4. /\ Stands(journey', clock', R) /\ Announced(journey') /\ journey'.revision = d.revision
      /\ journey'.updated = clock' /\ journey'.status = "failed"
      /\ Unpacked(d) => Unpacked(journey')
  BY <1>3, FailStands
<1>5. journey'.revision # None /\ Unpacked(journey')
  BY <1>2, <1>4 DEF Same
<1>6. clock' \in Nat /\ clock <= clock'
  BY <1>2
<1>7. Packed(journey', disk.package)
  BY <1>2, <1>5 DEF Packed
<1> QED
  BY <1>4, <1>5, <1>6, <1>7, ToIndexing

-----------------------------------------------------------------------------
(* The Brief gate                                                               *)

LEMMA RolesThen ==
  /\ \A p \in Gate \cup {"ready", "designing", "waiting", "worked"} : RolesAt(p) = {}
  /\ RolesAt("checking") = CadRole /\ RolesAt("assessing") = CadRole
  /\ RolesAt("slicing") = CadRole \cup AssessedRole
  /\ \A p \in {"packaging", "writing", "written"} :
       RolesAt(p) = CadRole \cup AssessedRole \cup SlicerRole
BY DEF RolesAt, Gate

LEMMA NewSound ==
  ASSUME NEW t \in Nat
  PROVE  LET j == NewJourney(t)
         IN /\ Sound(j, t) /\ j.revision = None /\ Len(j.runs) = 0 /\ RolesOf(j) = {}
            /\ j.findings = {} /\ Unpacked(j)
<1> DEFINE j == NewJourney(t)
<1>1. /\ j.created = t /\ j.updated = t /\ j.revision = None /\ j.runs = << >>
      /\ j.events = << >> /\ j.artifacts = {} /\ j.findings = {}
  BY DEF NewJourney
<1>2. j \in FabricationJourney
  BY NewJourneyFacts
<1>3. IsFiniteSet({})
  BY FS_EmptySet
<1> HIDE DEF j
<1>4. RunsSound(j, t)
  BY <1>1 DEF RunsSound
<1>5. EventsSound(j, t)
  BY <1>1 DEF EventsSound
<1>6. RecordsSound(j, t)
  BY <1>1 DEF RecordsSound
<1>7. LineageSound(j)
  BY <1>1, <1>3 DEF LineageSound
<1> QED
  BY <1>1, <1>2, <1>4, <1>5, <1>6, <1>7 DEF Sound, RolesOf, Unpacked, j

LEMMA StartBriefEvidenced == ASSUME Place, Evidenced, StartBrief PROVE Evidenced'
<1>1. PICK t \in Stamps(4), gate \in Gate :
        Do(gate, StartStage(NewJourney(t[1]), "brief", 1, {}, [i \in 1..3 |-> t[i + 1]]), t[4])
  BY DEF StartBrief
<1>2. clock \in Nat
  BY DEF Place
<1>3. t \in [1..4 -> Nat] /\ t[1] >= clock /\ t[1] <= t[2] /\ t[2] <= t[3] /\ t[3] <= t[4]
  <2>1. /\ t \in [1..4 -> Nat] /\ \A i \in 1..4 : t[i] >= clock
        /\ \A i, k \in 1..4 : i <= k => t[i] <= t[k]
    BY <1>2, StampsAscend
  <2> QED
    BY <2>1
<1> DEFINE u == [i \in 1..3 |-> t[i + 1]]
           t1 == t[1]
           j == NewJourney(t1)
           stage == "brief"
           inputs == {}
<1>4. /\ u[1] \in Nat /\ u[2] \in Nat /\ u[3] \in Nat /\ t1 \in Nat /\ t[4] \in Nat
      /\ t1 <= u[1] /\ u[1] <= u[2] /\ u[2] <= u[3] /\ u[3] = t[4]
  BY <1>3
<1>5. clock <= t[4]
  BY <1>2, <1>3
<1>6. pc' = gate /\ journey' = StartStage(j, stage, 1, inputs, u) /\ clock' = t[4] /\ UNCHANGED disk
  BY <1>1 DEF Do, Moves
<1>7. /\ Sound(j, t1) /\ j.revision = None /\ ~(Len(j.runs) > 0) /\ RolesOf(j) = {}
      /\ j.findings = {} /\ Unpacked(j)
  BY <1>4, NewSound
<1>8. stage \in FabricationStage /\ inputs \in SUBSET Role /\ inputs \subseteq RolesOf(j)
      /\ stage # "fabrication_package"
  BY <1>7, NotYetSuccessful
<1> HIDE DEF u, j, t1, stage, inputs
<1>9. /\ Stands(journey', u[3], RolesOf(j)) /\ Announced(journey') /\ journey'.revision = None
      /\ journey'.findings = {} /\ Unpacked(journey')
  <2> DEFINE a == 1
             s == StartStage(j, stage, a, inputs, u)
  <2>1. a \in Nat /\ journey' = s
    BY <1>6
  <2> HIDE DEF a
  <2>2. Sound(j, t1) /\ t1 \in Nat /\ (Len(j.runs) > 0 => Announced(j))
    BY <1>4, <1>7
  <2>3. /\ stage \in FabricationStage /\ inputs \in SUBSET Role /\ inputs \subseteq RolesOf(j)
        /\ a \in Nat
    BY <1>8, <2>1
  <2>4. /\ u[1] \in Nat /\ u[2] \in Nat /\ u[3] \in Nat
        /\ t1 <= u[1] /\ u[1] <= u[2] /\ u[2] <= u[3]
    BY <1>4
  <2>5. s = StartStage(j, stage, a, inputs, u)
    OBVIOUS
  <2> HIDE DEF s
  <2>6. /\ Stands(s, u[3], RolesOf(j)) /\ Announced(s) /\ s.revision = j.revision
        /\ s.findings = j.findings /\ (Unpacked(j) /\ stage # "fabrication_package" => Unpacked(s))
    BY <2>2, <2>3, <2>4, <2>5, StartStands
  <2> QED
    BY <1>7, <1>8, <2>1, <2>6
<1>10. gate \in Making \ {"writing", "written"} /\ RolesAt(gate) = {} /\ gate \notin Slicing
  BY RolesThen DEF Making, Gate, Slicing
<1>11. clock' \in Nat /\ clock <= clock' /\ Stands(journey', clock', RolesAt(gate))
  BY <1>4, <1>5, <1>6, <1>7, <1>9, <1>10
<1> QED
  BY <1>6, <1>9, <1>10, <1>11, ToMaking

\* The parser failed, and the run is announced as failed once more.
LEMMA RaisedStands ==
  ASSUME NEW j, NEW now \in Nat, NEW R, Stands(j, now, R), Last(j).status = "running",
         NEW t1 \in Nat, NEW t2 \in Nat, NEW t3 \in Nat, NEW t4 \in Nat,
         now <= t1, t1 <= t2, t2 <= t3, t3 <= t4
  PROVE  LET n == Note(j, "error", t1)
             k == Emit(Emit(Transition(n, "failed", None, t2), t3), t4)
         IN /\ Stands(k, t4, R) /\ Announced(k) /\ k.revision = j.revision
            /\ Unpacked(j) => Unpacked(k)
<1> DEFINE kind == "error"
           status == "failed"
           level == None
           n == Note(j, kind, t1)
           m == Transition(n, status, level, t2)
           e == Emit(m, t3)
<1>1. /\ kind \in {"error", "warning", "decision"} /\ status \in Ends
      /\ level \in Nat \cup {None} /\ ~(status \in Successful)
  BY DEF Ends, Successful
<1> HIDE DEF kind, status, level
<1>2. Stands(n, t1, R) /\ Same(n, j)
  BY <1>1, NoteStands
<1>3. Last(n).status = "running"
  BY <1>2 DEF Same
<1> HIDE DEF n
<1>4. Stands(m, t2, R) /\ m.revision = n.revision /\ (Unpacked(n) => Unpacked(m))
  BY <1>1, <1>2, <1>3, EndStands
<1> HIDE DEF m
<1>5. Stands(e, t3, R) /\ Same(e, m)
  BY <1>4, EmitStands
<1> HIDE DEF e
<1>6. Stands(Emit(e, t4), t4, R) /\ Announced(Emit(e, t4)) /\ Same(Emit(e, t4), e)
  BY <1>5, EmitStands
<1>7. /\ Stands(Emit(e, t4), t4, R) /\ Announced(Emit(e, t4)) /\ Emit(e, t4).revision = j.revision
      /\ Unpacked(j) => Unpacked(Emit(e, t4))
  BY <1>2, <1>4, <1>5, <1>6 DEF Same
<1> QED
  BY <1>7 DEF e, m, n, kind, status, level

LEMMA ParseFailsEvidenced == ASSUME Place, Evidenced, ParseFails PROVE Evidenced'
<1> DEFINE attempt == Last(journey).attempt
           Failed1(t) == Emit(Transition(Note(journey, "error", t[1]), "failed", None, t[2]), t[3])
<1>1. PICK t \in Stamps(8) :
        IF attempt < MaxAttempts
        THEN Do("request", StartStage(Emit(Failed1(t), t[4]), "brief", attempt + 1, {},
                                      [i \in 1..3 |-> t[i + 4]]), t[8])
        ELSE Do("answered", UpdateStatus(Failed1(t), "failed", t[4]), t[8])
  BY DEF ParseFails
<1>2. pc = "request" /\ CanTransition(journey, "failed") /\ pc \in Making /\ pc \in Gate
  BY DEF ParseFails, Making, Gate
<1>3. /\ clock \in Nat /\ Stands(journey, clock, {}) /\ Unpacked(journey)
      /\ journey.revision = None /\ Open(journey)
  <2>1. journey.revision = None
    BY <1>2 DEF Evidenced, InMemory
  <2> QED
    BY <1>2, <2>1, MakingFacts, RolesThen, StandsOpen
<1>4. /\ t \in [1..8 -> Nat] /\ clock <= t[1] /\ t[1] <= t[2] /\ t[2] <= t[3] /\ t[3] <= t[4]
      /\ t[4] <= t[5] /\ t[5] <= t[6] /\ t[6] <= t[7] /\ t[7] <= t[8]
  <2>1. /\ t \in [1..8 -> Nat] /\ \A i \in 1..8 : t[i] >= clock
        /\ \A i, k \in 1..8 : i <= k => t[i] <= t[k]
    BY <1>3, StampsAscend
  <2> QED
    BY <1>3, <2>1
<1> DEFINE u == [i \in 1..3 |-> t[i + 4]]
           t1 == t[1]
           t2 == t[2]
           t3 == t[3]
           t4 == t[4]
           t8 == t[8]
           e == Emit(Failed1(t), t4)
<1>5. /\ u[1] \in Nat /\ u[2] \in Nat /\ u[3] \in Nat /\ t1 \in Nat /\ t2 \in Nat
      /\ t3 \in Nat /\ t4 \in Nat /\ t8 \in Nat
      /\ clock <= t1 /\ t1 <= t2 /\ t2 <= t3 /\ t3 <= t4
      /\ t4 <= u[1] /\ u[1] <= u[2] /\ u[2] <= u[3] /\ u[3] <= t8
  BY <1>4
<1>6. e = Emit(Emit(Transition(Note(journey, "error", t1), "failed", None, t2), t3), t4)
  OBVIOUS
<1>7. clock <= t8
  BY <1>3, <1>5
<1> HIDE DEF u, t1, t2, t3, t4
<1>8. Last(journey).status = "running"
  BY <1>2, <1>3, MovesFromRunning
<1>9. /\ Stands(e, t4, {}) /\ Announced(e) /\ e.revision = None /\ Unpacked(e)
  <2> HIDE DEF e
  <2> DEFINE r == Emit(Emit(Transition(Note(journey, "error", t1), "failed", None, t2), t3), t4)
  <2>1. /\ Stands(r, t4, {}) /\ Announced(r) /\ r.revision = journey.revision
        /\ Unpacked(journey) => Unpacked(r)
    BY <1>3, <1>5, <1>8, RaisedStands
  <2> QED
    BY <1>3, <1>6, <2>1
<1>10. CASE attempt < MaxAttempts
  <2>1. /\ journey' = StartStage(e, "brief", attempt + 1, {}, u) /\ pc' = "request"
        /\ clock' = t8 /\ UNCHANGED disk
    BY <1>1, <1>10 DEF Do, Moves, e, u, t4
  <2> DEFINE stage == "brief"
             inputs == {}
             a == attempt + 1
             p == "request"
  <2>2. /\ a \in Nat /\ Sound(e, t4) /\ inputs \in SUBSET Role /\ inputs \subseteq RolesOf(e)
        /\ stage \in FabricationStage /\ stage # "fabrication_package"
        /\ RolesOf(e) = {} /\ e \in FabricationJourney
    BY <1>3, <1>9, LastRun, NotYetSuccessful DEF StageRun, Stands, Sound
  <2>3. journey' = StartStage(e, stage, a, inputs, u)
    BY <2>1
  <2> HIDE DEF stage, inputs, a, e, t8
  <2>4. /\ Stands(journey', u[3], {}) /\ Announced(journey') /\ journey'.revision = None
        /\ journey'.findings = e.findings /\ Unpacked(journey')
        /\ Len(journey'.runs) = Len(e.runs) + 1
    <3> DEFINE s == StartStage(e, stage, a, inputs, u)
    <3>1. Sound(e, t4) /\ t4 \in Nat /\ (Len(e.runs) > 0 => Announced(e))
      BY <1>5, <1>9, <2>2
    <3>2. /\ stage \in FabricationStage /\ inputs \in SUBSET Role /\ inputs \subseteq RolesOf(e)
          /\ a \in Nat
      BY <2>2
    <3>3. /\ u[1] \in Nat /\ u[2] \in Nat /\ u[3] \in Nat
          /\ t4 <= u[1] /\ u[1] <= u[2] /\ u[2] <= u[3]
      BY <1>5
    <3>4. s = StartStage(e, stage, a, inputs, u)
      OBVIOUS
    <3> HIDE DEF s
    <3>5. /\ Stands(s, u[3], RolesOf(e)) /\ Announced(s) /\ s.revision = e.revision
          /\ s.findings = e.findings /\ Len(s.runs) = Len(e.runs) + 1
          /\ (Unpacked(e) /\ stage # "fabrication_package" => Unpacked(s))
      BY <3>1, <3>2, <3>3, <3>4, StartStands
    <3> QED
      BY <1>9, <2>2, <2>3, <3>4, <3>5
  <2>5. \A f \in journey'.findings : f.run # Len(journey'.runs)
    <3>1. \A f \in e.findings : f.run \in 1..Len(e.runs)
      BY <2>2 DEF Sound, RecordsSound
    <3>2. Len(e.runs) \in Nat
      BY <2>2, JourneyParts
    <3> QED
      BY <2>4, <3>1, <3>2
  <2>6. p \in Making \ {"writing", "written"} /\ RolesAt(p) = {} /\ p \notin Slicing /\ pc' = p
    BY <2>1, RolesThen DEF Making, Gate, Slicing
  <2>7. clock' \in Nat /\ clock <= clock' /\ Stands(journey', clock', RolesAt(p))
    BY <1>5, <1>7, <2>1, <2>4, <2>6, StandsLater
  <2> HIDE DEF p
  <2> QED
    BY <2>1, <2>4, <2>5, <2>6, <2>7, ToMaking
<1>11. CASE ~(attempt < MaxAttempts)
  <2>1. pc' = "answered" /\ clock' = t8 /\ UNCHANGED disk
    BY <1>1, <1>11 DEF Do, Moves
  <2> QED
    BY <1>5, <1>7, <2>1, ToNowhere
<1> QED
  BY <1>10, <1>11

LEMMA ToConfirmed ==
  ASSUME Place, Evidenced, UNCHANGED disk, clock' \in Nat, clock <= clock', pc' = "confirmed",
         Sealed(journey'), journey'.updated <= clock', Unpacked(journey')
  PROVE  Evidenced'
<1>1. pc' \notin Settled \cup {"indexed", "indexing"} \cup Making
  BY DEF Making, Gate, Designing, Slicing, Settled
<1>2. OnDisk'
  BY <1>1, DiskStays DEF Evidenced
<1>3. InMemory'
  BY <1>1 DEF InMemory, Making
<1> QED
  BY <1>2, <1>3 DEF Evidenced

\* A stage passed, its job at rest since: what the lemma PassStands says of it later.
LEMMA PassedEvidence ==
  ASSUME NEW j, NEW now \in Nat, NEW R, Stands(j, now, R), Last(j).status = "running",
         j.revision # None, NEW warned, NEW level \in Nat, NEW job \in JobStatus,
         NEW t, t[1] \in Nat, t[2] \in Nat, t[3] \in Nat,
         now <= t[1], t[1] <= t[2], t[2] <= t[3]
  PROVE  LET k == PassStage(j, warned, level, job, t)
         IN /\ Stands(k, t[3], R) /\ Announced(k) /\ Sealed(k) /\ k.revision = j.revision
            /\ k.updated = t[3] /\ k.status = job
            /\ Unpacked(j) => Unpacked(k)
<1>1. LET k == PassStage(j, warned, level, job, t)
      IN /\ Stands(k, t[3], R) /\ Announced(k) /\ k.revision = j.revision
         /\ k.updated = t[3] /\ k.status = job
         /\ Last(k).status = IF warned THEN "passed_with_warnings" ELSE "passed"
         /\ Unpacked(j) => Unpacked(k)
  BY PassStands
<1>2. Sealed(PassStage(j, warned, level, job, t))
  BY <1>1, StandsSealed
<1> QED
  BY <1>1, <1>2

LEMMA CompleteBriefEvidenced == ASSUME Place, Evidenced, CompleteBrief PROVE Evidenced'
<1> DEFINE Parsed(t) == Emit(AddRevision(journey, t[1]), t[2])
           Decided(t, confirmed) == NoteIf(confirmed, Parsed(t), "decision", t[3])
           Asked1(t, confirmed) ==
             UpdateStatus(Emit(Transition(Note(Decided(t, confirmed), "warning", t[4]),
                                          "needs_input", None, t[5]), t[6]), "needs_input", t[7])
           Next1(p) == [request |-> "answered", draft |-> "confirmed", spec |-> "ready"][p]
<1>1. PICK t \in Stamps(7), ready \in BOOLEAN, confirmed \in BOOLEAN :
        IF ready
        THEN /\ CanTransition(journey, "passed")
             /\ Do(Next1(pc), PassStage(Decided(t, confirmed), FALSE, 0, "ready_for_design",
                                        <<t[4], t[5], t[6]>>), t[7])
        ELSE /\ CanTransition(journey, "needs_input")
             /\ Do(IF pc = "request" THEN "answered" ELSE "refused", Asked1(t, confirmed), t[7])
  BY DEF CompleteBrief, Confirmations
<1>2. pc \in Gate /\ pc \in Making /\ pc \notin {"writing", "written"}
  BY DEF CompleteBrief, Gate, Making
<1>3. /\ clock \in Nat /\ Stands(journey, clock, {}) /\ Unpacked(journey) /\ Open(journey)
      /\ journey.revision = None /\ \A f \in journey.findings : f.run # Len(journey.runs)
  <2>1. journey.revision = None /\ \A f \in journey.findings : f.run # Len(journey.runs)
    BY <1>2 DEF Evidenced, InMemory
  <2> QED
    BY <1>2, <2>1, MakingFacts, RolesThen, StandsOpen
<1>4. /\ t \in [1..7 -> Nat] /\ clock <= t[1] /\ t[1] <= t[2] /\ t[2] <= t[3] /\ t[3] <= t[4]
      /\ t[4] <= t[5] /\ t[5] <= t[6] /\ t[6] <= t[7]
  <2>1. /\ t \in [1..7 -> Nat] /\ \A i \in 1..7 : t[i] >= clock
        /\ \A i, k \in 1..7 : i <= k => t[i] <= t[k]
    BY <1>3, StampsAscend
  <2> QED
    BY <1>3, <2>1
<1>5. t[7] \in Nat /\ clock <= t[7]
  BY <1>3, <1>4
<1>6. CASE ~ready
  <2>1. pc' \in {"answered", "refused"} /\ clock' = t[7] /\ UNCHANGED disk
    BY <1>1, <1>6 DEF Do, Moves
  <2> QED
    BY <1>5, <2>1, ToNowhere
<1>7. CASE ready
  <2> DEFINE t1 == t[1]
             t2 == t[2]
             t3 == t[3]
             t7 == t[7]
             v == <<t[4], t[5], t[6]>>
             kind == "decision"
             job == "ready_for_design"
             warned == FALSE
             level == 0
             a == AddRevision(journey, t1)
             p == Emit(a, t2)
             d == NoteIf(confirmed, p, kind, t3)
             r == PassStage(d, warned, level, job, v)
  <2>1. /\ CanTransition(journey, "passed") /\ pc' = Next1(pc) /\ clock' = t7 /\ UNCHANGED disk
        /\ journey' = r
    BY <1>1, <1>7 DEF Do, Moves
  <2>2. /\ t1 \in Nat /\ t2 \in Nat /\ t3 \in Nat /\ t7 \in Nat
        /\ clock <= t1 /\ t1 <= t2 /\ t2 <= t3
    BY <1>4
  <2>3. /\ v[1] \in Nat /\ v[2] \in Nat /\ v[3] \in Nat
        /\ t3 <= v[1] /\ v[1] <= v[2] /\ v[2] <= v[3] /\ v[3] <= t7
    BY <1>4
  <2>4. /\ kind \in {"error", "warning", "decision"} /\ job \in JobStatus /\ level \in Nat
    BY DEF JobStatus
  <2>5. Last(journey).status = "running"
    BY <1>3, <2>1, MovesFromRunning
  <2>6. p = Emit(a, t2) /\ d = NoteIf(confirmed, p, kind, t3)
        /\ r = PassStage(d, warned, level, job, v) /\ a = AddRevision(journey, t1)
    OBVIOUS
  <2> HIDE DEF t1, t2, t3, t7, v, kind, job, warned, level, a, p, d, r
  <2>7. Stands(a, t1, {}) /\ a.revision = t1 /\ Last(a).status = "running" /\ Unpacked(a)
    <3> DEFINE b == AddRevision(journey, t1)
    <3>1. /\ Stands(b, t1, {}) /\ b.revision = t1 /\ Last(b).status = Last(journey).status
          /\ Unpacked(journey) => Unpacked(b)
      BY <1>3, <2>2, RevisionStands
    <3> QED
      BY <1>3, <2>5, <2>6, <3>1
  <2>8. Stands(p, t2, {}) /\ Same(p, a)
    BY <2>2, <2>6, <2>7, EmitStands
  <2>9. Stands(d, t3, {}) /\ Same(d, p)
    BY <2>2, <2>4, <2>6, <2>8, NoteIfStands
  <2>10. Last(d).status = "running" /\ Unpacked(d) /\ d.revision # None
    BY <2>2, <2>7, <2>8, <2>9, NoneFacts DEF Same
  <2>11. /\ Stands(r, v[3], {}) /\ Announced(r) /\ Sealed(r) /\ r.updated = v[3] /\ Unpacked(r)
    BY <2>2, <2>3, <2>4, <2>6, <2>9, <2>10, PassedEvidence
  <2>12. clock' \in Nat /\ clock <= clock' /\ v[3] <= clock'
    BY <1>5, <2>1, <2>2, <2>3 DEF t7
  <2>13. CASE pc' = "confirmed"
    <3>1. Sealed(journey') /\ Unpacked(journey') /\ journey'.updated <= clock'
      BY <2>1, <2>11, <2>12
    <3> QED
      BY <2>1, <2>12, <2>13, <3>1, ToConfirmed
  <2>14. CASE pc' = "ready"
    <3> DEFINE next == "ready"
    <3>1. /\ next \in Making \ {"writing", "written"} /\ RolesAt(next) = {} /\ next \notin Slicing
          /\ next \notin Gate /\ pc' = next
      BY <2>14, RolesThen DEF Making, Gate, Slicing
    <3> HIDE DEF next
    <3>2. Stands(r, clock', {})
      BY <2>3, <2>11, <2>12, StandsLater
    <3>3. Stands(journey', clock', RolesAt(next)) /\ Announced(journey') /\ Unpacked(journey')
      BY <2>1, <2>11, <3>1, <3>2
    <3> QED
      BY <2>1, <2>12, <3>1, <3>3, ToMaking
  <2>15. CASE pc' = "answered"
    BY <2>1, <2>12, <2>15, ToNowhere
  <2>16. pc' \in {"answered", "confirmed", "ready"}
    BY <1>2, <2>1 DEF Gate
  <2> QED
    BY <2>13, <2>14, <2>15, <2>16
<1> QED
  BY <1>6, <1>7

\* What the manifest that was made of a journey says.
LEMMA ManifestOf ==
  ASSUME NEW j \in FabricationJourney, NEW t \in Nat, j.updated <= t
  PROVE  ManifestAgrees(j, Manifest(j, t)) /\ Manifest(j, t) # None
<1>1. Manifest(j, t) \in ArtifactManifest
  BY ManifestType
<1> QED
  BY <1>1, NoneFacts DEF ManifestAgrees, Manifest

LEMMA PublishBriefEvidenced == ASSUME Place, Evidenced, PublishBrief PROVE Evidenced'
<1>1. PICK t \in Stamps(1) :
        /\ disk' = [disk EXCEPT !.journey = journey, !.manifest = Manifest(journey, t[1])]
        /\ clock' = t[1] /\ pc = "confirmed" /\ pc' = "briefed" /\ UNCHANGED journey
  BY DEF PublishBrief
<1>2. clock \in Nat /\ disk = EmptyDisk
  BY <1>1 DEF Place, Early
<1>3. t[1] \in Nat /\ clock <= t[1]
  <2>1. t \in [1..1 -> Nat] /\ \A i \in 1..1 : t[i] >= clock
    BY <1>2, StampsAscend
  <2> QED
    BY <1>2, <2>1
<1>4. Sealed(journey) /\ journey.updated <= clock /\ Unpacked(journey)
  BY <1>1 DEF Evidenced, InMemory
<1>5. journey \in FabricationJourney /\ journey.updated \in Nat
  BY <1>4, JourneyParts DEF Sealed, Sound
<1> DEFINE m == Manifest(journey, t[1])
<1>6. ManifestAgrees(journey, m)
  <2> DEFINE now == t[1]
  <2>1. now \in Nat /\ journey.updated <= now
    BY <1>2, <1>3, <1>4, <1>5
  <2> HIDE DEF now
  <2>2. ManifestAgrees(journey, Manifest(journey, now))
    BY <1>5, <2>1, ManifestOf
  <2> QED
    BY <2>2 DEF now
<1>7. disk' = [journey |-> journey, manifest |-> m, package |-> None]
  BY <1>1, <1>2 DEF EmptyDisk
<1> HIDE DEF m
<1>8. PackageConsistent(journey, m, None)
  BY <1>4, <1>5, UnpackedPasses DEF PackageConsistent
<1>9. Accepts(disk'.journey, disk'.manifest, disk'.package)
  BY <1>4, <1>6, <1>7, <1>8, SealedAccepted
<1>10. OnDisk'
  <2>1. Sealed(disk'.journey) /\ disk'.journey.updated <= clock'
    BY <1>1, <1>2, <1>3, <1>4, <1>5, <1>7
  <2> QED
    BY <1>1, <1>9, <2>1 DEF OnDisk, EvidenceReadable
<1>11. InMemory'
  BY <1>1 DEF InMemory, Making, Gate, Designing, Slicing
<1> QED
  BY <1>10, <1>11 DEF Evidenced

-----------------------------------------------------------------------------
(* The CAD pipeline                                                             *)

LEMMA StageStands ==
  ASSUME NEW j, NEW now \in Nat, NEW R, Stands(j, now, R), Announced(j), Unpacked(j),
         NEW stage \in FabricationStage \ {"fabrication_package"},
         NEW inputs \in SUBSET Role, inputs \subseteq R,
         NEW t, t[1] \in Nat, t[2] \in Nat, t[3] \in Nat,
         now <= t[1], t[1] <= t[2], t[2] <= t[3]
  PROVE  LET k == StartStage(j, stage, 1, inputs, t)
         IN /\ Stands(k, t[3], R) /\ Announced(k) /\ k.revision = j.revision
            /\ Last(k).status = "running" /\ Unpacked(k)
<1> DEFINE a == 1
<1>1. a \in Nat
  OBVIOUS
<1> HIDE DEF a
<1>2. Sound(j, now) /\ RolesOf(j) = R /\ (Len(j.runs) > 0 => Announced(j))
  BY DEF Stands
<1>3. inputs \subseteq RolesOf(j) /\ stage \in FabricationStage /\ stage # "fabrication_package"
  BY <1>2
<1>4. LET k == StartStage(j, stage, a, inputs, t)
      IN /\ Stands(k, t[3], RolesOf(j)) /\ Announced(k) /\ k.revision = j.revision
         /\ Last(k).status = "running" /\ k.findings = j.findings
         /\ Len(k.runs) = Len(j.runs) + 1
         /\ Unpacked(j) /\ stage # "fabrication_package" => Unpacked(k)
  BY <1>1, <1>2, <1>3, StartStands
<1> QED
  BY <1>2, <1>3, <1>4 DEF a

LEMMA StartDesignEvidenced == ASSUME Place, Evidenced, StartDesign PROVE Evidenced'
<1>1. PICK t \in Stamps(3) :
        Do("designing", StartStage(journey, "design", 1, {}, t), t[3])
  BY DEF StartDesign
<1>2. journey.status = "ready_for_design" /\ pc \in {"ready", "refused", "designed"}
  BY DEF StartDesign, RequireReady
<1>3. pc = "ready" /\ pc \in Making /\ pc \notin {"writing", "written"}
  BY <1>2 DEF Place, EarlyPlace, KeptPlace, Early, Kept, Making
<1>4. clock \in Nat /\ Stands(journey, clock, {}) /\ Announced(journey) /\ Unpacked(journey)
  BY <1>3, MakingFacts, RolesThen
<1>5. /\ t \in [1..3 -> Nat] /\ \A i \in 1..3 : t[i] >= clock
      /\ \A i, k \in 1..3 : i <= k => t[i] <= t[k]
  BY <1>4, StampsAscend
<1>6. /\ t[1] \in Nat /\ t[2] \in Nat /\ t[3] \in Nat
      /\ clock <= t[1] /\ t[1] <= t[2] /\ t[2] <= t[3]
  BY <1>4, <1>5
<1> DEFINE stage == "design"
           inputs == {}
           next == "designing"
<1>7. /\ stage \in FabricationStage \ {"fabrication_package"} /\ inputs \in SUBSET Role
      /\ inputs \subseteq {}
  BY NotYetSuccessful
<1>8. /\ journey' = StartStage(journey, stage, 1, inputs, t) /\ pc' = next
      /\ clock' = t[3] /\ UNCHANGED disk
  BY <1>1 DEF Do, Moves
<1>9. /\ next \in Making \ {"writing", "written"} /\ RolesAt(next) = {} /\ next \notin Slicing
      /\ next \notin Gate
  BY RolesThen DEF Making, Gate, Slicing, Designing
<1> HIDE DEF stage, inputs, next
<1>10. LET k == StartStage(journey, stage, 1, inputs, t)
       IN /\ Stands(k, t[3], {}) /\ Announced(k) /\ k.revision = journey.revision
          /\ Last(k).status = "running" /\ Unpacked(k)
  BY <1>4, <1>6, <1>7, StageStands
<1>11. /\ Stands(journey', clock', RolesAt(next)) /\ Announced(journey') /\ Unpacked(journey')
       /\ clock' \in Nat /\ clock <= clock'
  BY <1>4, <1>6, <1>8, <1>9, <1>10
<1> QED
  BY <1>8, <1>9, <1>11, ToMaking

LEMMA RunEvidenced == ASSUME Place, Evidenced, BeginRun \/ FinishRun PROVE Evidenced'
<1>1. /\ pc \in {"designing", "waiting"} /\ pc' \in {"waiting", "worked"}
      /\ UNCHANGED <<clock, journey, disk>>
  BY DEF BeginRun, FinishRun
<1>2. pc \in Making /\ pc \notin {"writing", "written"} /\ RolesAt(pc) = {}
  BY <1>1, RolesThen DEF Making, Designing
<1>3. clock \in Nat /\ Stands(journey, clock, {}) /\ Announced(journey) /\ Unpacked(journey)
  BY <1>2, MakingFacts
<1>4. /\ pc' \in Making \ {"writing", "written"} /\ RolesAt(pc') = {} /\ pc' \notin Slicing
      /\ pc' \notin Gate
  BY <1>1, RolesThen DEF Making, Gate, Slicing, Designing
<1>5. /\ Stands(journey', clock', RolesAt(pc')) /\ Announced(journey') /\ Unpacked(journey')
      /\ clock' \in Nat /\ clock <= clock'
  BY <1>1, <1>3, <1>4
<1> QED
  BY <1>1, <1>4, <1>5, ToMaking

LEMMA DesigningEvidence ==
  ASSUME Place, Evidenced, pc \in Designing
  PROVE  /\ clock \in Nat /\ Stands(journey, clock, RolesAt(pc)) /\ Announced(journey)
         /\ Unpacked(journey) /\ journey.revision # None /\ Open(journey) /\ disk = EmptyDisk
         /\ Same(journey, journey)
<1>1. pc \in Making /\ pc \notin {"writing", "written"}
  BY DEF Making, Designing
<1> QED
  BY <1>1, MakingFacts, StandsOpen DEF Same

LEMMA RunnerRaisesEvidenced == ASSUME Place, Evidenced, RunnerRaises PROVE Evidenced'
<1>1. PICK t \in Stamps(4) : Moves("indexing", FailStage(journey, t), t[4])
  BY DEF RunnerRaises
<1>2. pc \in Designing /\ CanTransition(journey, "failed")
  BY DEF RunnerRaises, Designing
<1>3. clock \in Nat /\ Stands(journey, clock, RolesAt(pc)) /\ Same(journey, journey)
  BY <1>2, DesigningEvidence
<1>4. /\ t \in [1..4 -> Nat] /\ \A i \in 1..4 : t[i] >= clock
      /\ \A i, k \in 1..4 : i <= k => t[i] <= t[k]
  BY <1>3, StampsAscend
<1>5. /\ t[1] \in Nat /\ t[2] \in Nat /\ t[3] \in Nat /\ t[4] \in Nat
      /\ clock <= t[1] /\ t[1] <= t[2] /\ t[2] <= t[3] /\ t[3] <= t[4] /\ clock <= clock
  BY <1>3, <1>4
<1>6. pc' = "indexing" /\ journey' = FailStage(journey, t) /\ clock' = t[4] /\ UNCHANGED disk
  BY <1>1 DEF Moves
<1> QED
  BY <1>2, <1>3, <1>5, <1>6, FailedEvidence

LEMMA DesignFailsEvidenced == ASSUME Place, Evidenced, DesignFails PROVE Evidenced'
<1> DEFINE Recorded(roles, t) == SetInputs(Record(journey, roles, t[1]), roles \cap {"control"})
           Rest(t) == [i \in 1..4 |-> t[i + 1]]
<1>1. PICK t \in Stamps(5), roles \in {{}, {"control"}, {"control", "design"}} :
        Do("indexing", FailStage(Recorded(roles, t), Rest(t)), t[5])
  BY DEF DesignFails
<1>2. pc \in Designing /\ CanTransition(journey, "failed") /\ RolesAt(pc) = {}
  BY RolesThen DEF DesignFails, Designing
<1>3. clock \in Nat /\ Stands(journey, clock, {}) /\ journey.revision # None
  BY <1>2, DesigningEvidence
<1>4. /\ t \in [1..5 -> Nat] /\ \A i \in 1..5 : t[i] >= clock
      /\ \A i, k \in 1..5 : i <= k => t[i] <= t[k]
  BY <1>3, StampsAscend
<1> DEFINE v == Rest(t)
           t1 == t[1]
           r == Record(journey, roles, t1)
           d == Recorded(roles, t)
<1>5. /\ v[1] \in Nat /\ v[2] \in Nat /\ v[3] \in Nat /\ v[4] \in Nat /\ t1 \in Nat
      /\ clock <= t1 /\ t1 <= v[1] /\ v[1] <= v[2] /\ v[2] <= v[3] /\ v[3] <= v[4]
  BY <1>3, <1>4
<1>6. /\ roles \in SUBSET Plain /\ roles \cap {} = {} /\ {} \subseteq Plain
      /\ \A q \in roles : Parents(q) \subseteq {} \cup roles
      /\ roles \cap {"control"} \in SUBSET Role /\ roles \cap {"control"} \subseteq {} \cup roles
  <2>1. "control" \in Plain /\ "design" \in Plain /\ Plain \subseteq Role
    BY RoleGroups DEF CadRole, Plain
  <2>2. Parents("control") = {} /\ Parents("design") = {"control"}
    BY ParentsOf
  <2> QED
    BY <2>1, <2>2
<1>7. pc' = "indexing" /\ journey' = FailStage(d, v) /\ clock' = v[4] /\ UNCHANGED disk
  BY <1>1, <1>4 DEF Do, Moves
<1>8. d = SetInputs(r, roles \cap {"control"})
  OBVIOUS
<1> HIDE DEF v, d, t1
<1>9. Stands(r, t1, {} \cup roles) /\ Same(r, journey)
  BY <1>3, <1>5, <1>6, RecordPlain
<1> HIDE DEF r
<1>10. Stands(d, t1, {} \cup roles) /\ Same(d, r)
  BY <1>5, <1>6, <1>8, <1>9, InputsStands
<1>11. Same(d, journey)
  BY <1>9, <1>10, SameOn
<1> QED
  BY <1>2, <1>5, <1>7, <1>10, <1>11, FailedEvidence

LEMMA GeometryFailsEvidenced == ASSUME Place, Evidenced, GeometryFails PROVE Evidenced'
<1> DEFINE Checked(checked, t) == IF checked THEN Emit(journey, t[1]) ELSE journey
           Rest(t) == [i \in 1..4 |-> t[i + 1]]
<1>1. PICK t \in Stamps(5), checked \in {FALSE, cad.result = "R1"} :
        Do("indexing", FailStage(Checked(checked, t), Rest(t)), t[5])
  BY DEF GeometryFails
<1>2. pc \in Designing /\ CanTransition(journey, "failed")
  BY DEF GeometryFails, Designing
<1>3. clock \in Nat /\ Stands(journey, clock, RolesAt(pc)) /\ Same(journey, journey)
  BY <1>2, DesigningEvidence
<1>4. /\ t \in [1..5 -> Nat] /\ \A i \in 1..5 : t[i] >= clock
      /\ \A i, k \in 1..5 : i <= k => t[i] <= t[k]
  BY <1>3, StampsAscend
<1> DEFINE v == Rest(t)
           t1 == t[1]
           d == Checked(checked, t)
<1>5. /\ v[1] \in Nat /\ v[2] \in Nat /\ v[3] \in Nat /\ v[4] \in Nat /\ t1 \in Nat
      /\ clock <= t1 /\ t1 <= v[1] /\ v[1] <= v[2] /\ v[2] <= v[3] /\ v[3] <= v[4]
  BY <1>3, <1>4
<1>6. pc' = "indexing" /\ journey' = FailStage(d, v) /\ clock' = v[4] /\ UNCHANGED disk
  BY <1>1, <1>4 DEF Do, Moves
<1>7. d = Emit(journey, t1) \/ d = journey
  OBVIOUS
<1> HIDE DEF v, d, t1
<1>8. Stands(d, t1, RolesAt(pc)) /\ Same(d, journey)
  <2>1. CASE d = Emit(journey, t1)
    BY <1>3, <1>5, <2>1, EmitStands
  <2>2. CASE d = journey
    BY <1>3, <1>5, <2>2, StandsLater
  <2> QED
    BY <1>7, <2>1, <2>2
<1> QED
  BY <1>2, <1>5, <1>6, <1>8, FailedEvidence

LEMMA DesignPassesEvidenced == ASSUME Place, Evidenced, DesignPasses PROVE Evidenced'
<1> DEFINE Control(t) == SetInputs(Record(journey, {"control"}, t[1]), {"control"})
           Design(t) == Record(Control(t), {"design"}, t[2])
           Designed(t) == PassStage(Design(t), FALSE, 1, "design_generated", <<t[3], t[4], t[5]>>)
           Started(t) == StartStage(Designed(t), "geometry_validation", 1, {"design"},
                                    <<t[6], t[7], t[8]>>)
<1>1. PICK t \in Stamps(9) :
        Do("checking", Record(Started(t), {"geometry_report"}, t[9]), t[9])
  BY DEF DesignPasses
<1>2. /\ pc \in Designing /\ CanTransition(journey, "passed") /\ RolesAt(pc) = {}
  BY RolesThen DEF DesignPasses, Designing
<1>3. /\ clock \in Nat /\ Stands(journey, clock, {}) /\ journey.revision # None /\ Unpacked(journey)
      /\ Last(journey).status = "running"
  BY <1>2, DesigningEvidence, MovesFromRunning
<1>4. /\ t \in [1..9 -> Nat] /\ \A i \in 1..9 : t[i] >= clock
      /\ \A i, k \in 1..9 : i <= k => t[i] <= t[k]
  BY <1>3, StampsAscend
<1> DEFINE t1 == t[1]
           t2 == t[2]
           t9 == t[9]
           v == <<t[3], t[4], t[5]>>
           u == <<t[6], t[7], t[8]>>
           c1 == {"control"}
           d1 == {"design"}
           g1 == {"geometry_report"}
           warned == FALSE
           level == 1
           job == "design_generated"
           stage == "geometry_validation"
           next == "checking"
           r == Record(journey, c1, t1)
           c == Control(t)
           d == Design(t)
           p == Designed(t)
           s == Started(t)
           k == Record(s, g1, t9)
<1>5. /\ t1 \in Nat /\ t2 \in Nat /\ t9 \in Nat /\ clock <= t1 /\ t1 <= t2 /\ clock <= t9
  BY <1>3, <1>4
<1>6. /\ v[1] \in Nat /\ v[2] \in Nat /\ v[3] \in Nat
      /\ t2 <= v[1] /\ v[1] <= v[2] /\ v[2] <= v[3]
  BY <1>4
<1>7. /\ u[1] \in Nat /\ u[2] \in Nat /\ u[3] \in Nat
      /\ v[3] <= u[1] /\ u[1] <= u[2] /\ u[2] <= u[3] /\ u[3] <= t9
  BY <1>4
<1>8. pc' = next /\ journey' = k /\ clock' = t9 /\ UNCHANGED disk
  BY <1>1 DEF Do, Moves
<1>9. /\ r = Record(journey, c1, t1) /\ c = SetInputs(r, c1) /\ d = Record(c, d1, t2)
      /\ p = PassStage(d, warned, level, job, v)
      /\ s = StartStage(p, stage, 1, d1, u) /\ k = Record(s, g1, t9)
  OBVIOUS
<1>10. /\ level \in Nat /\ job \in JobStatus
       /\ stage \in FabricationStage \ {"fabrication_package"}
  BY NotYetSuccessful DEF JobStatus
<1>11. /\ c1 \in SUBSET Plain /\ d1 \in SUBSET Plain /\ g1 \in SUBSET Plain
       /\ c1 \in SUBSET Role /\ d1 \in SUBSET Role
       /\ {} \subseteq Plain /\ c1 \cap {} = {} /\ d1 \cap c1 = {} /\ g1 \cap (c1 \cup d1) = {}
       /\ c1 \cup d1 \cup g1 = CadRole
  BY RoleGroups DEF CadRole, Plain
<1>12. /\ \A q \in c1 : Parents(q) \subseteq {} \cup c1
       /\ \A q \in d1 : Parents(q) \subseteq c1 \cup d1
       /\ \A q \in g1 : Parents(q) \subseteq (c1 \cup d1) \cup g1
  BY ParentsOf
<1>13. {} \cup c1 = c1 /\ c1 \subseteq Plain /\ c1 \cup d1 \subseteq Plain
  BY <1>11
<1>14. next \in Making \ {"writing", "written"} /\ RolesAt(next) = CadRole /\ next \notin Slicing
       /\ next \notin Gate
  BY RolesThen DEF Making, Gate, Slicing, Designing
<1> HIDE DEF t1, t2, t9, v, u, c1, d1, g1, warned, level, job, stage, next, r, c, d, p, s, k
<1>15. Stands(r, t1, c1) /\ Same(r, journey)
  <2>1. Stands(Record(journey, c1, t1), t1, {} \cup c1) /\ Same(Record(journey, c1, t1), journey)
    BY <1>3, <1>5, <1>11, <1>12, RecordPlain
  <2> QED
    BY <1>9, <1>13, <2>1
<1>16. Stands(c, t1, c1) /\ Same(c, r)
  BY <1>5, <1>9, <1>11, <1>15, InputsStands
<1>17. c.revision # None
  BY <1>3, <1>15, <1>16 DEF Same
<1>18. Stands(d, t2, c1 \cup d1) /\ Same(d, c)
  <2>1. Stands(Record(c, d1, t2), t2, c1 \cup d1) /\ Same(Record(c, d1, t2), c)
    BY <1>5, <1>11, <1>12, <1>13, <1>16, <1>17, RecordPlain
  <2> QED
    BY <1>9, <2>1
<1>19. d.revision # None /\ Last(d).status = "running" /\ Unpacked(d)
  BY <1>3, <1>15, <1>16, <1>18 DEF Same
<1>20. Stands(p, v[3], c1 \cup d1) /\ Announced(p) /\ p.revision # None /\ Unpacked(p)
  <2>1. LET m == PassStage(d, warned, level, job, v)
        IN /\ Stands(m, v[3], c1 \cup d1) /\ Announced(m) /\ Sealed(m) /\ m.revision = d.revision
           /\ m.updated = v[3] /\ m.status = job
           /\ Unpacked(d) => Unpacked(m)
    BY <1>5, <1>6, <1>10, <1>18, <1>19, PassedEvidence
  <2> QED
    BY <1>9, <1>19, <2>1
<1>21. Stands(s, u[3], c1 \cup d1) /\ Announced(s) /\ s.revision # None /\ Unpacked(s)
  <2>1. d1 \subseteq c1 \cup d1
    OBVIOUS
  <2>2. LET m == StartStage(p, stage, 1, d1, u)
        IN /\ Stands(m, u[3], c1 \cup d1) /\ Announced(m) /\ m.revision = p.revision
           /\ Last(m).status = "running" /\ Unpacked(m)
    BY <1>6, <1>7, <1>10, <1>11, <1>20, <2>1, StageStands
  <2> QED
    BY <1>9, <1>20, <2>2
<1>22. Stands(k, t9, CadRole) /\ Announced(k) /\ Unpacked(k)
  <2>1. /\ Stands(Record(s, g1, t9), t9, (c1 \cup d1) \cup g1) /\ Same(Record(s, g1, t9), s)
    BY <1>5, <1>7, <1>11, <1>12, <1>13, <1>21, RecordPlain
  <2> QED
    BY <1>9, <1>11, <1>21, <2>1 DEF Same
<1>23. /\ Stands(journey', clock', RolesAt(next)) /\ Announced(journey') /\ Unpacked(journey')
       /\ clock' \in Nat /\ clock <= clock'
  BY <1>5, <1>8, <1>14, <1>22
<1> QED
  BY <1>8, <1>14, <1>23, ToMaking

LEMMA GeometryPassesEvidenced == ASSUME Place, Evidenced, GeometryPasses PROVE Evidenced'
<1>1. PICK t \in Stamps(4) :
        Do("indexing", PassStage(Emit(journey, t[1]), FALSE, 2, "geometry_verified",
                                 <<t[2], t[3], t[4]>>), t[4])
  BY DEF GeometryPasses
<1>2. pc = "checking" /\ pc \in Designing /\ CanTransition(journey, "passed")
  BY DEF GeometryPasses, Designing
<1>3. /\ clock \in Nat /\ Stands(journey, clock, CadRole) /\ journey.revision # None
      /\ Unpacked(journey) /\ Last(journey).status = "running" /\ disk = EmptyDisk
  BY <1>2, DesigningEvidence, RolesThen, MovesFromRunning
<1>4. /\ t \in [1..4 -> Nat] /\ \A i \in 1..4 : t[i] >= clock
      /\ \A i, k \in 1..4 : i <= k => t[i] <= t[k]
  BY <1>3, StampsAscend
<1> DEFINE v == <<t[2], t[3], t[4]>>
           t1 == t[1]
           e == Emit(journey, t1)
           warned == FALSE
           level == 2
           job == "geometry_verified"
           p == PassStage(e, warned, level, job, v)
<1>5. /\ v[1] \in Nat /\ v[2] \in Nat /\ v[3] \in Nat /\ t1 \in Nat
      /\ clock <= t1 /\ t1 <= v[1] /\ v[1] <= v[2] /\ v[2] <= v[3]
  BY <1>3, <1>4
<1>6. pc' = "indexing" /\ journey' = p /\ clock' = v[3] /\ UNCHANGED disk
  BY <1>1 DEF Do, Moves
<1>7. level \in Nat /\ job \in JobStatus
  BY DEF JobStatus
<1>8. e = Emit(journey, t1) /\ p = PassStage(e, warned, level, job, v)
  OBVIOUS
<1> HIDE DEF t1, warned, level, job, v, e, p
<1>9. Stands(e, t1, CadRole) /\ Same(e, journey)
  BY <1>3, <1>5, <1>8, EmitStands
<1>10. e.revision # None /\ Last(e).status = "running" /\ Unpacked(e)
  BY <1>3, <1>9 DEF Same
<1>11. /\ Stands(p, v[3], CadRole) /\ Announced(p) /\ p.revision # None /\ p.updated = v[3]
       /\ Unpacked(p)
  <2>1. LET m == PassStage(e, warned, level, job, v)
        IN /\ Stands(m, v[3], CadRole) /\ Announced(m) /\ Sealed(m) /\ m.revision = e.revision
           /\ m.updated = v[3] /\ m.status = job
           /\ Unpacked(e) => Unpacked(m)
    BY <1>5, <1>7, <1>9, <1>10, PassedEvidence
  <2> QED
    BY <1>8, <1>10, <2>1
<1>12. Packed(journey', disk.package)
  BY <1>3, <1>6, <1>11 DEF Packed, EmptyDisk
<1>13. clock' \in Nat /\ clock <= clock'
  BY <1>3, <1>5, <1>6
<1> QED
  BY <1>6, <1>11, <1>12, <1>13, ToIndexing

-----------------------------------------------------------------------------
(* Files                                                                        *)

\* The package of a journey that can be accepted.
LEMMA PackedConsistent ==
  ASSUME NEW j \in FabricationJourney, NEW p, Packed(j, p), NEW m, p # None => m # None
  PROVE  PackageConsistent(j, m, p)
BY UnpackedPasses DEF Packed, PackageConsistent

LEMMA IndexJourneyEvidenced ==
  ASSUME Place, Shelf, Evidenced, IndexJourney
  PROVE  Evidenced'
<1>1. /\ disk' = [disk EXCEPT !.journey = journey] /\ pc = "indexing" /\ pc' = "indexed"
      /\ UNCHANGED <<clock, journey>>
  BY DEF IndexJourney
<1>2. /\ disk \in Disk /\ IndexPlace(journey, disk.journey) /\ journey \in FabricationJourney
  BY <1>1 DEF Place, IndexPlace, Open
<1>3. /\ disk'.journey = journey /\ disk'.manifest = disk.manifest /\ disk'.package = disk.package
      /\ journey # None
  BY <1>1, <1>2, NoneFacts DEF Disk
<1>4. /\ Sealed(journey) /\ journey.updated <= clock /\ Packed(journey, disk.package)
      /\ journey.status = "geometry_verified" => RolesOf(journey) = CadRole
  BY <1>1 DEF Evidenced, InMemory
<1>5. Publications = published
  BY <1>1 DEF Publications, Settled
<1>6. ASSUME disk.manifest = None PROVE EvidenceReadable'
  <2>1. ~(\E d \in published : d.journey = disk.journey)
    BY <1>6 DEF Shelf
  <2>2. disk.journey = None
    BY <1>1, <2>1 DEF Shelf, Underway
  <2>3. disk.package = None
    BY <2>2 DEF Shelf, Fresh
  <2>4. PackageConsistent(journey, None, None)
    BY <1>2, <1>4, <2>3, PackedConsistent
  <2>5. ManifestAgrees(journey, None)
    BY DEF ManifestAgrees
  <2>6. Accepts(journey, None, None)
    BY <1>4, <2>4, <2>5, SealedAccepted
  <2>7. Accepts(disk'.journey, disk'.manifest, disk'.package)
    BY <1>3, <1>6, <2>3, <2>6
  <2> QED
    BY <2>7 DEF EvidenceReadable
<1>7. ASSUME disk.manifest # None PROVE EvidenceReadable'
  <2>1. disk.journey # None
    BY <1>1, <1>7 DEF Place, EmptyDisk
  <2>2. PICK d \in published : d.journey = disk.journey
    BY <1>1, <2>1 DEF Shelf, Underway
  <2>3. PICK e \in published : e.manifest = disk.manifest
    BY <1>5, <1>7 DEF Shelf
  <2>4. d = e /\ Shelved(d)
    BY <2>2, <2>3 DEF Shelf
  <2>5. disk.manifest.runs = OwnedRuns(disk.journey)
    BY <2>2, <2>3, <2>4 DEF Shelved
  <2>6. Grown(journey, disk.journey) /\ disk.journey \in FabricationJourney
    BY <1>2, <2>1 DEF IndexPlace, Disk
  <2>7. disk.manifest.runs # OwnedRuns(journey)
    BY <1>2, <2>5, <2>6, GrownOwnsMore
  <2>8. disk'.manifest # None /\ disk'.manifest.runs # OwnedRuns(disk'.journey)
    BY <1>3, <1>7, <2>7
  <2>9. pc' \notin Settled
    BY <1>1 DEF Settled
  <2> QED
    BY <2>8, <2>9 DEF EvidenceReadable, IndexTorn
<1>8. EvidenceReadable'
  BY <1>6, <1>7
<1>9. OnDisk'
  BY <1>1, <1>3, <1>4, <1>8 DEF OnDisk
<1>10. InMemory'
  BY <1>1 DEF InMemory, Making, Gate, Designing, Slicing
<1> QED
  BY <1>9, <1>10 DEF Evidenced

LEMMA IndexManifestEvidenced == ASSUME Place, Evidenced, IndexManifest PROVE Evidenced'
<1>1. PICK t \in Stamps(1) :
        /\ disk' = [disk EXCEPT !.manifest = Manifest(journey, t[1])] /\ clock' = t[1]
        /\ pc = "indexed" /\ UNCHANGED journey
        /\ pc' = IF HasRun(journey, {"printability_validation"}) THEN "fabricated" ELSE "designed"
  BY DEF IndexManifest
<1>2. clock \in Nat /\ disk \in Disk /\ journey = disk.journey /\ journey \in FabricationJourney
  BY <1>1 DEF Place, Kept, KeptPlace, Open
<1>3. /\ Sealed(journey) /\ journey.updated <= clock /\ Packed(journey, disk.package)
      /\ journey.status = "geometry_verified" => RolesOf(journey) = CadRole
  BY <1>1, <1>2, NoneFacts DEF Evidenced, OnDisk
<1>4. t[1] \in Nat /\ clock <= t[1]
  <2>1. t \in [1..1 -> Nat] /\ \A i \in 1..1 : t[i] >= clock
    BY <1>2, StampsAscend
  <2> QED
    BY <1>2, <2>1
<1> DEFINE now == t[1]
           m == Manifest(journey, now)
<1>5. now \in Nat /\ journey.updated <= now /\ clock' = now
  BY <1>1, <1>2, <1>3, <1>4, JourneyParts
<1>6. disk' = [disk EXCEPT !.manifest = m]
  BY <1>1
<1> HIDE DEF now
<1>7. ManifestAgrees(journey, m) /\ m # None
  BY <1>2, <1>5, ManifestOf
<1> HIDE DEF m
<1>8. disk'.journey = journey /\ disk'.manifest = m /\ disk'.package = disk.package
  BY <1>2, <1>6 DEF Disk
<1>9. PackageConsistent(journey, m, disk.package)
  BY <1>2, <1>3, <1>7, PackedConsistent
<1>10. Accepts(disk'.journey, disk'.manifest, disk'.package)
  BY <1>3, <1>7, <1>8, <1>9, SealedAccepted
<1>11. OnDisk'
  BY <1>1, <1>3, <1>5, <1>8, <1>10 DEF OnDisk, EvidenceReadable
<1>12. InMemory'
  BY <1>1 DEF InMemory, Making, Gate, Designing, Slicing
<1> QED
  BY <1>11, <1>12 DEF Evidenced

-----------------------------------------------------------------------------
(* The slicing pipeline                                                         *)

LEMMA StartPrintabilityEvidenced ==
  ASSUME Place, Shelf, Evidenced, StartPrintability
  PROVE  Evidenced'
<1>1. PICK t \in Stamps(3) :
        Do("assessing", StartStage(journey, "printability_validation", 1, {}, t), t[3])
  BY DEF StartPrintability
<1>2. pc \in {"designed", "fabricated"} /\ RequireR2(journey)
  BY DEF StartPrintability
<1>3. /\ clock \in Nat /\ disk.journey = journey /\ Open(journey) /\ KeptPlace(pc, journey)
      /\ journey \in FabricationJourney /\ journey # None
  BY <1>2, NoneFacts DEF Place, KeptPlace, Kept, Open
<1>4. pc = "designed"
  <2>1. ~HasRun(journey, {"printability_validation"})
    BY <1>2 DEF RequireR2, HasRun
  <2> QED
    BY <1>2, <1>3, <2>1, PrintedIsRun DEF KeptPlace
<1>5. disk.package = None
  BY <1>4 DEF Shelf, Fresh
<1>6. Sealed(journey) /\ journey.updated <= clock /\ Unpacked(journey) /\ RolesOf(journey) = CadRole
  BY <1>2, <1>3, <1>4, <1>5 DEF Evidenced, OnDisk, Packed, RequireR2
<1>7. Stands(journey, clock, CadRole) /\ Announced(journey) /\ Unpacked(disk.journey)
  <2> DEFINE now == journey.updated
  <2>1. Sound(journey, now) /\ now \in Nat /\ Len(journey.runs) > 0
    BY <1>3, <1>6, JourneyParts DEF Sealed, Open
  <2>2. now <= clock /\ RolesOf(journey) = CadRole
    BY <1>6
  <2> HIDE DEF now
  <2>3. Sound(journey, clock)
    BY <1>3, <2>1, <2>2, SoundLater
  <2> QED
    BY <1>3, <1>6, <2>1, <2>3 DEF Stands, Sealed
<1>8. /\ t \in [1..3 -> Nat] /\ \A i \in 1..3 : t[i] >= clock
      /\ \A i, k \in 1..3 : i <= k => t[i] <= t[k]
  BY <1>3, StampsAscend
<1>9. /\ t[1] \in Nat /\ t[2] \in Nat /\ t[3] \in Nat
      /\ clock <= t[1] /\ t[1] <= t[2] /\ t[2] <= t[3]
  BY <1>3, <1>8
<1> DEFINE stage == "printability_validation"
           inputs == {}
           next == "assessing"
<1>10. /\ stage \in FabricationStage \ {"fabrication_package"} /\ inputs \in SUBSET Role
       /\ inputs \subseteq CadRole
  BY NotYetSuccessful
<1>11. /\ journey' = StartStage(journey, stage, 1, inputs, t) /\ pc' = next
       /\ clock' = t[3] /\ UNCHANGED disk
  BY <1>1 DEF Do, Moves
<1>12. next \in Making \ {"writing", "written"} /\ RolesAt(next) = CadRole /\ next \notin Gate
  BY RolesThen DEF Making, Gate, Slicing
<1> HIDE DEF stage, inputs, next
<1>13. LET k == StartStage(journey, stage, 1, inputs, t)
       IN /\ Stands(k, t[3], CadRole) /\ Announced(k) /\ k.revision = journey.revision
          /\ Last(k).status = "running" /\ Unpacked(k)
  BY <1>3, <1>6, <1>7, <1>9, <1>10, StageStands
<1>14. /\ Stands(journey', clock', RolesAt(next)) /\ Announced(journey') /\ Unpacked(journey')
       /\ clock' \in Nat /\ clock <= clock'
  BY <1>3, <1>9, <1>11, <1>12, <1>13
<1> QED
  BY <1>5, <1>7, <1>11, <1>12, <1>14, ToMaking

LEMMA SlicingEvidence ==
  ASSUME Place, Evidenced, pc \in {"assessing", "slicing", "packaging"}
  PROVE  /\ clock \in Nat /\ Stands(journey, clock, RolesAt(pc)) /\ Announced(journey)
         /\ Unpacked(journey) /\ journey.revision # None /\ Open(journey)
         /\ disk.package = None /\ Unpacked(disk.journey)
<1>1. pc \in Making /\ pc \in Slicing /\ pc \notin {"writing", "written"}
  BY DEF Making, Slicing
<1> QED
  BY <1>1, MakingFacts, StandsOpen

LEMMA PrintabilityRaisesEvidenced == ASSUME Place, Evidenced, PrintabilityRaises PROVE Evidenced'
<1> DEFINE Rest(t) == [i \in 1..4 |-> t[i + 1]]
<1>1. PICK t \in Stamps(5),
           roles \in {{}, {"profiles"}, {"profiles", "policy"}, {"profiles", "policy", "oriented"},
                      {"profiles", "policy", "oriented", "printability_report"}} :
        Do("indexing", FailStage(Record(journey, roles, t[1]), Rest(t)), t[5])
  BY DEF PrintabilityRaises
<1>2. pc = "assessing" /\ CanTransition(journey, "failed")
  BY DEF PrintabilityRaises
<1>3. clock \in Nat /\ Stands(journey, clock, CadRole) /\ journey.revision # None
  BY <1>2, SlicingEvidence, RolesThen
<1>4. /\ t \in [1..5 -> Nat] /\ \A i \in 1..5 : t[i] >= clock
      /\ \A i, k \in 1..5 : i <= k => t[i] <= t[k]
  BY <1>3, StampsAscend
<1> DEFINE v == Rest(t)
           t1 == t[1]
           d == Record(journey, roles, t1)
<1>5. /\ v[1] \in Nat /\ v[2] \in Nat /\ v[3] \in Nat /\ v[4] \in Nat /\ t1 \in Nat
      /\ clock <= t1 /\ t1 <= v[1] /\ v[1] <= v[2] /\ v[2] <= v[3] /\ v[3] <= v[4]
  BY <1>3, <1>4
<1>6. roles \in SUBSET AssessedRole
  BY DEF AssessedRole
<1>7. /\ roles \in SUBSET Plain /\ roles \cap CadRole = {} /\ CadRole \subseteq Plain
  BY <1>6, RoleGroups
<1>8. \A q \in roles : Parents(q) \subseteq CadRole \cup roles
  <2>1. /\ "oriented" \in roles => "profiles" \in roles
        /\ "printability_report" \in roles => {"profiles", "policy", "oriented"} \subseteq roles
    OBVIOUS
  <2>2. /\ Parents("profiles") = {} /\ Parents("policy") = {}
        /\ Parents("oriented") = {"design", "profiles"}
    BY ParentsOf
  <2>3. Parents("printability_report") =
          {"design", "geometry_report", "profiles", "policy", "oriented"}
    BY ParentsOf
  <2> SUFFICES ASSUME NEW q \in roles PROVE Parents(q) \subseteq CadRole \cup roles
    OBVIOUS
  <2>4. q \in {"profiles", "policy", "oriented", "printability_report"}
    BY <1>6 DEF AssessedRole
  <2>5. CASE q = "printability_report"
    BY <2>1, <2>3, <2>5 DEF CadRole
  <2>6. CASE q # "printability_report"
    BY <2>1, <2>2, <2>4, <2>6 DEF CadRole
  <2> QED
    BY <2>5, <2>6
<1>9. pc' = "indexing" /\ journey' = FailStage(d, v) /\ clock' = v[4] /\ UNCHANGED disk
  BY <1>1, <1>4 DEF Do, Moves
<1> HIDE DEF v, d, t1
<1>10. Stands(d, t1, CadRole \cup roles) /\ Same(d, journey)
  <2>1. /\ Stands(Record(journey, roles, t1), t1, CadRole \cup roles)
        /\ Same(Record(journey, roles, t1), journey)
    BY <1>3, <1>5, <1>7, <1>8, RecordPlain
  <2> QED
    BY <2>1 DEF d
<1> QED
  BY <1>2, <1>5, <1>9, <1>10, FailedEvidence

\* A stage whose own report says that it failed.
LEMMA ReportedEvidence ==
  ASSUME Place, Evidenced, pc \in {"assessing", "slicing"}, CanTransition(journey, "failed"),
         NEW d, NEW now \in Nat, clock <= now, NEW R, Stands(d, now, R), Same(d, journey),
         NEW t1 \in Nat, NEW t2 \in Nat, NEW t3 \in Nat, now <= t1, t1 <= t2, t2 <= t3,
         journey' = UpdateStatus(Emit(Transition(d, "failed", None, t1), t2), "failed", t3),
         pc' = "indexing", UNCHANGED disk, clock' = t3
  PROVE  Evidenced'
<1>1. /\ clock \in Nat /\ Open(journey) /\ Unpacked(journey) /\ journey.revision # None
      /\ disk.package = None
  BY SlicingEvidence
<1>2. Last(d).status = "running" /\ d.revision # None /\ Unpacked(d)
  BY <1>1, MovesFromRunning DEF Same
<1>3. LET k == UpdateStatus(Emit(Transition(d, "failed", None, t1), t2), "failed", t3)
      IN /\ Stands(k, t3, R) /\ Announced(k) /\ k.revision = d.revision
         /\ k.updated = t3 /\ k.status = "failed"
         /\ Unpacked(d) => Unpacked(k)
  BY <1>2, FailedStands
<1>4. /\ Stands(journey', clock', R) /\ Announced(journey') /\ journey'.revision # None
      /\ journey'.updated = clock' /\ journey'.status = "failed" /\ Unpacked(journey')
  BY <1>2, <1>3
<1>5. Packed(journey', disk.package) /\ clock' \in Nat /\ clock <= clock'
  BY <1>1, <1>4 DEF Packed
<1> QED
  BY <1>4, <1>5, ToIndexing

LEMMA PrintabilityFailsEvidenced == ASSUME Place, Evidenced, PrintabilityFails PROVE Evidenced'
<1>1. PICK t \in Stamps(9) :
        Do("indexing",
           UpdateStatus(Emit(Transition(Assessed(TRUE, t), "failed", None, t[7]), t[8]),
                        "failed", t[9]), t[9])
  BY DEF PrintabilityFails
<1>2. pc = "assessing" /\ CanTransition(journey, "failed")
  BY DEF PrintabilityFails
<1>3. clock \in Nat /\ Stands(journey, clock, CadRole) /\ journey.revision # None
  BY <1>2, SlicingEvidence, RolesThen
<1>4. /\ t \in [1..9 -> Nat] /\ \A i \in 1..9 : t[i] >= clock
      /\ \A i, k \in 1..9 : i <= k => t[i] <= t[k]
  BY <1>3, StampsAscend
<1> DEFINE failed == TRUE
           d == Assessed(failed, t)
           t6 == t[6]
           t7 == t[7]
           t8 == t[8]
           t9 == t[9]
<1>5. /\ t6 \in Nat /\ t7 \in Nat /\ t8 \in Nat /\ t9 \in Nat
      /\ clock <= t6 /\ t6 <= t7 /\ t7 <= t8 /\ t8 <= t9
  BY <1>3, <1>4
<1>6. clock <= t[1] /\ (\A i \in 1..6 : t[i] \in Nat) /\ \A i \in 1..5 : t[i] <= t[i + 1]
  BY <1>3, <1>4
<1>7. /\ journey' = UpdateStatus(Emit(Transition(d, "failed", None, t7), t8), "failed", t9)
      /\ pc' = "indexing" /\ clock' = t9 /\ UNCHANGED disk
  BY <1>1 DEF Do, Moves
<1>8. failed \in BOOLEAN /\ d = Assessed(failed, t) /\ t6 = t[6]
  OBVIOUS
<1> HIDE DEF t6, t7, t8, t9, failed, d
<1>9. Stands(d, t6, CadRole \cup AssessedRole) /\ Same(d, journey)
  BY <1>3, <1>6, <1>8, AssessedStands
<1> QED
  BY <1>2, <1>5, <1>7, <1>9, ReportedEvidence

LEMMA PrintabilityPassesEvidenced ==
  ASSUME Place, Evidenced, PrintabilityPasses
  PROVE  Evidenced'
<1> DEFINE Passed(t) == PassStage(Assessed(FALSE, t), TRUE, 3, "printability_assessed",
                                  <<t[7], t[8], t[9]>>)
<1>1. PICK t \in Stamps(12) :
        Do("slicing", StartStage(Passed(t), "slicing", 1, SliceInput, <<t[10], t[11], t[12]>>),
           t[12])
  BY DEF PrintabilityPasses
<1>2. pc = "assessing" /\ CanTransition(journey, "passed")
  BY DEF PrintabilityPasses
<1>3. /\ clock \in Nat /\ Stands(journey, clock, CadRole) /\ journey.revision # None
      /\ Unpacked(journey) /\ Last(journey).status = "running"
      /\ disk.package = None /\ Unpacked(disk.journey)
  BY <1>2, SlicingEvidence, RolesThen, MovesFromRunning
<1>4. /\ t \in [1..12 -> Nat] /\ \A i \in 1..12 : t[i] >= clock
      /\ \A i, k \in 1..12 : i <= k => t[i] <= t[k]
  BY <1>3, StampsAscend
<1> DEFINE failed == FALSE
           d == Assessed(failed, t)
           t6 == t[6]
           v == <<t[7], t[8], t[9]>>
           u == <<t[10], t[11], t[12]>>
           R == CadRole \cup AssessedRole
           warned == TRUE
           level == 3
           job == "printability_assessed"
           stage == "slicing"
           next == "slicing"
           inputs == SliceInput
           p == PassStage(d, warned, level, job, v)
           s == StartStage(p, stage, 1, inputs, u)
<1>5. /\ v[1] \in Nat /\ v[2] \in Nat /\ v[3] \in Nat /\ t6 \in Nat
      /\ t6 <= v[1] /\ v[1] <= v[2] /\ v[2] <= v[3]
  BY <1>4
<1>6. /\ u[1] \in Nat /\ u[2] \in Nat /\ u[3] \in Nat
      /\ v[3] <= u[1] /\ u[1] <= u[2] /\ u[2] <= u[3] /\ clock <= u[3]
  BY <1>3, <1>4
<1>7. clock <= t[1] /\ (\A i \in 1..6 : t[i] \in Nat) /\ \A i \in 1..5 : t[i] <= t[i + 1]
  BY <1>3, <1>4
<1>8. journey' = s /\ pc' = next /\ clock' = u[3] /\ UNCHANGED disk
  BY <1>1 DEF Do, Moves
<1>9. /\ failed \in BOOLEAN /\ d = Assessed(failed, t) /\ t6 = t[6]
      /\ p = PassStage(d, warned, level, job, v) /\ s = StartStage(p, stage, 1, inputs, u)
  OBVIOUS
<1>10. /\ level \in Nat /\ job \in JobStatus /\ inputs \subseteq R /\ inputs \in SUBSET Role
       /\ stage \in FabricationStage \ {"fabrication_package"}
  BY NotYetSuccessful, RoleGroups DEF JobStatus, Plain
<1>11. next \in Making \ {"writing", "written"} /\ RolesAt(next) = R /\ next \notin Gate
  BY RolesThen DEF Making, Gate, Slicing
<1> HIDE DEF failed, d, t6, v, u, warned, level, job, stage, next, inputs, p, s
<1>12. Stands(d, t6, R) /\ Same(d, journey)
  BY <1>3, <1>7, <1>9, AssessedStands
<1> HIDE DEF R
<1>13. Last(d).status = "running" /\ d.revision # None /\ Unpacked(d)
  BY <1>3, <1>12 DEF Same
<1>14. Stands(p, v[3], R) /\ Announced(p) /\ Unpacked(p)
  <2>1. LET m == PassStage(d, warned, level, job, v)
        IN /\ Stands(m, v[3], R) /\ Announced(m) /\ Sealed(m) /\ m.revision = d.revision
           /\ m.updated = v[3] /\ m.status = job
           /\ Unpacked(d) => Unpacked(m)
    BY <1>5, <1>10, <1>12, <1>13, PassedEvidence
  <2> QED
    BY <1>9, <1>13, <2>1
<1>15. Stands(s, u[3], R) /\ Announced(s) /\ Unpacked(s)
  <2>1. LET m == StartStage(p, stage, 1, inputs, u)
        IN /\ Stands(m, u[3], R) /\ Announced(m) /\ m.revision = p.revision
           /\ Last(m).status = "running" /\ Unpacked(m)
    BY <1>5, <1>6, <1>10, <1>14, StageStands
  <2> QED
    BY <1>9, <2>1
<1>16. /\ Stands(journey', clock', RolesAt(next)) /\ Announced(journey') /\ Unpacked(journey')
       /\ clock' \in Nat /\ clock <= clock'
  BY <1>6, <1>8, <1>11, <1>15
<1> QED
  BY <1>3, <1>8, <1>11, <1>16, ToMaking

LEMMA SlicingRaisesEvidenced == ASSUME Place, Evidenced, SlicingRaises PROVE Evidenced'
<1> DEFINE FirstFiles(n, t) == Record(journey, RecordedUpTo(n), t[1])
           Tried(n, written, t) ==
             Record(FirstFiles(n, t), Attempts(FirstFiles(n, t), written), t[2])
           Rest(t) == [i \in 1..4 |-> t[i + 2]]
<1>1. PICK t \in Stamps(6), n \in 0..Len(RecordOrder) - 1, written \in FailedRunFiles \cup {AllFiles} :
        Do("indexing", FailStage(Tried(n, written, t), Rest(t)), t[6])
  BY DEF SlicingRaises
<1>2. pc = "slicing" /\ CanTransition(journey, "failed")
  BY DEF SlicingRaises
<1>3. clock \in Nat /\ Stands(journey, clock, CadRole \cup AssessedRole) /\ journey.revision # None
  BY <1>2, SlicingEvidence, RolesThen
<1>4. /\ t \in [1..6 -> Nat] /\ \A i \in 1..6 : t[i] >= clock
      /\ \A i, k \in 1..6 : i <= k => t[i] <= t[k]
  BY <1>3, StampsAscend
<1> DEFINE v == Rest(t)
           t1 == t[1]
           t2 == t[2]
           d == Tried(n, written, t)
<1>5. /\ v[1] \in Nat /\ v[2] \in Nat /\ v[3] \in Nat /\ v[4] \in Nat /\ t1 \in Nat /\ t2 \in Nat
      /\ clock <= t1 /\ t1 <= t2 /\ clock <= t2
      /\ t2 <= v[1] /\ v[1] <= v[2] /\ v[2] <= v[3] /\ v[3] <= v[4]
  BY <1>3, <1>4
<1>6. n \in 0..5
  <2>1. Len(RecordOrder) = 6
    BY DEF RecordOrder
  <2> QED
    BY <2>1
<1>7. pc' = "indexing" /\ journey' = FailStage(d, v) /\ clock' = v[4] /\ UNCHANGED disk
  BY <1>1, <1>4 DEF Do, Moves
<1>8. d = Record(Record(journey, RecordedUpTo(n), t1),
                 Attempts(Record(journey, RecordedUpTo(n), t1), written), t2)
  OBVIOUS
<1> HIDE DEF v, d, t1, t2
<1>9. (\E R : Stands(d, t2, R)) /\ Same(d, journey)
  BY <1>3, <1>5, <1>6, <1>8, AttemptsStand
<1>10. PICK R : Stands(d, t2, R)
  BY <1>9
<1> QED
  BY <1>2, <1>5, <1>7, <1>9, <1>10, FailedEvidence

LEMMA SlicingBlockedEvidenced == ASSUME Place, Evidenced, SlicingBlocked PROVE Evidenced'
<1>1. PICK t \in Stamps(8), gate \in GateOutcomes :
        Do("indexing",
           UpdateStatus(Emit(Transition(SlicerGate(gate, t), "failed", None, t[6]), t[7]),
                        "failed", t[8]), t[8])
  BY DEF SlicingBlocked
<1>2. pc = "slicing" /\ CanTransition(journey, "failed")
  BY DEF SlicingBlocked
<1>3. clock \in Nat /\ Stands(journey, clock, CadRole \cup AssessedRole) /\ journey.revision # None
  BY <1>2, SlicingEvidence, RolesThen
<1>4. /\ t \in [1..8 -> Nat] /\ \A i \in 1..8 : t[i] >= clock
      /\ \A i, k \in 1..8 : i <= k => t[i] <= t[k]
  BY <1>3, StampsAscend
<1> DEFINE d == SlicerGate(gate, t)
           t5 == t[5]
           t6 == t[6]
           t7 == t[7]
           t8 == t[8]
<1>5. /\ t5 \in Nat /\ t6 \in Nat /\ t7 \in Nat /\ t8 \in Nat
      /\ clock <= t5 /\ t5 <= t6 /\ t6 <= t7 /\ t7 <= t8
  BY <1>3, <1>4
<1>6. clock <= t[1] /\ (\A i \in 1..5 : t[i] \in Nat) /\ \A i \in 1..4 : t[i] <= t[i + 1]
  BY <1>3, <1>4
<1>7. /\ journey' = UpdateStatus(Emit(Transition(d, "failed", None, t6), t7), "failed", t8)
      /\ pc' = "indexing" /\ clock' = t8 /\ UNCHANGED disk
  BY <1>1 DEF Do, Moves
<1>8. d = SlicerGate(gate, t) /\ t5 = t[5]
  OBVIOUS
<1>9. gate.blocked \in BOOLEAN /\ gate.advised \in BOOLEAN
  BY GateType
<1> HIDE DEF t5, t6, t7, t8, d
<1> DEFINE R == CadRole \cup AssessedRole \cup SlicerRole
<1>10. Stands(d, t5, R) /\ Same(d, journey)
  <2>1. LET m == SlicerGate(gate, t)
        IN /\ Stands(m, t[5], CadRole \cup AssessedRole \cup SlicerRole) /\ Same(m, journey)
    BY <1>3, <1>6, <1>9, SlicerGateStands
  <2> QED
    BY <1>8, <2>1
<1> HIDE DEF R
<1>11. pc \in {"assessing", "slicing"}
  BY <1>2
<1> QED
  BY <1>2, <1>5, <1>7, <1>10, <1>11, ReportedEvidence

LEMMA SlicingPassesEvidenced == ASSUME Place, Evidenced, SlicingPasses PROVE Evidenced'
<1>1. PICK t \in Stamps(8), gate \in GateOutcomes :
        Do("packaging", PassStage(SlicerGate(gate, t), gate.advised, 4, "slicer_verified",
                                  <<t[6], t[7], t[8]>>), t[8])
  BY DEF SlicingPasses
<1>2. pc = "slicing" /\ CanTransition(journey, "passed")
  BY DEF SlicingPasses
<1>3. /\ clock \in Nat /\ Stands(journey, clock, CadRole \cup AssessedRole)
      /\ journey.revision # None
      /\ Unpacked(journey) /\ Last(journey).status = "running"
      /\ disk.package = None /\ Unpacked(disk.journey)
  BY <1>2, SlicingEvidence, RolesThen, MovesFromRunning
<1>4. /\ t \in [1..8 -> Nat] /\ \A i \in 1..8 : t[i] >= clock
      /\ \A i, k \in 1..8 : i <= k => t[i] <= t[k]
  BY <1>3, StampsAscend
<1> DEFINE d == SlicerGate(gate, t)
           t5 == t[5]
           v == <<t[6], t[7], t[8]>>
           R == CadRole \cup AssessedRole \cup SlicerRole
           warned == gate.advised
           level == 4
           job == "slicer_verified"
           next == "packaging"
           p == PassStage(d, warned, level, job, v)
<1>5. /\ v[1] \in Nat /\ v[2] \in Nat /\ v[3] \in Nat /\ t5 \in Nat
      /\ t5 <= v[1] /\ v[1] <= v[2] /\ v[2] <= v[3] /\ clock <= v[3]
  BY <1>3, <1>4
<1>6. clock <= t[1] /\ (\A i \in 1..5 : t[i] \in Nat) /\ \A i \in 1..4 : t[i] <= t[i + 1]
  BY <1>3, <1>4
<1>7. journey' = p /\ pc' = next /\ clock' = v[3] /\ UNCHANGED disk
  BY <1>1 DEF Do, Moves
<1>8. d = SlicerGate(gate, t) /\ t5 = t[5] /\ p = PassStage(d, warned, level, job, v)
  OBVIOUS
<1>9. gate.blocked \in BOOLEAN /\ gate.advised \in BOOLEAN
  BY GateType
<1>10. level \in Nat /\ job \in JobStatus
  BY DEF JobStatus
<1>11. next \in Making \ {"writing", "written"} /\ RolesAt(next) = R /\ next \notin Gate
  BY RolesThen DEF Making, Gate, Slicing
<1> HIDE DEF d, t5, v, warned, level, job, next, p
<1>12. Stands(d, t5, R) /\ Same(d, journey)
  BY <1>3, <1>6, <1>8, <1>9, SlicerGateStands
<1> HIDE DEF R
<1>13. Last(d).status = "running" /\ d.revision # None /\ Unpacked(d)
  BY <1>3, <1>12 DEF Same
<1>14. Stands(p, v[3], R) /\ Announced(p) /\ Unpacked(p)
  <2>1. LET m == PassStage(d, warned, level, job, v)
        IN /\ Stands(m, v[3], R) /\ Announced(m) /\ Sealed(m) /\ m.revision = d.revision
           /\ m.updated = v[3] /\ m.status = job
           /\ Unpacked(d) => Unpacked(m)
    BY <1>5, <1>10, <1>12, <1>13, PassedEvidence
  <2> QED
    BY <1>8, <1>13, <2>1
<1>15. /\ Stands(journey', clock', RolesAt(next)) /\ Announced(journey') /\ Unpacked(journey')
       /\ clock' \in Nat /\ clock <= clock'
  BY <1>5, <1>7, <1>11, <1>14
<1> QED
  BY <1>3, <1>7, <1>11, <1>15, ToMaking

-----------------------------------------------------------------------------
(* The package                                                                  *)

\* As long as package.json is there without its journey, nothing can be read.
LEMMA ToPackage ==
  ASSUME Place, Evidenced, pc \in Slicing, clock' \in Nat, clock <= clock',
         disk'.journey = disk.journey, disk'.package # None,
         NEW p \in {"writing", "written"}, pc' = p,
         Stands(journey', clock', RolesAt(p)), Packing(journey'),
         p = "written" => disk'.package = PackageOf(journey')
  PROVE  Evidenced'
<1>1. /\ p \in Making /\ p \in Slicing
      /\ p \notin Settled \cup {"indexed", "designed", "confirmed", "indexing"} \cup Gate
  BY DEF Making, Slicing, Settled, Gate
<1>2. /\ disk.journey \in FabricationJourney /\ disk.journey # None /\ clock \in Nat
      /\ Unpacked(disk.journey)
  BY SlicingFacts DEF Evidenced, InMemory
<1>3. PackageRuns(disk'.journey) = {}
  BY <1>2, UnpackedPasses
<1>4. PackageOrphaned'
  BY <1>3 DEF PackageOrphaned
<1>5. EvidenceReadable'
  BY <1>1, <1>4 DEF EvidenceReadable
<1>6. Sealed(disk'.journey) /\ disk'.journey.updated <= clock'
  <2>1. Sealed(disk.journey) /\ disk.journey.updated <= clock
    BY <1>2 DEF Evidenced, OnDisk
  <2>2. disk.journey.updated \in Nat
    BY <1>2, JourneyParts
  <2> QED
    BY <1>2, <2>1, <2>2
<1>7. OnDisk'
  BY <1>1, <1>5, <1>6 DEF OnDisk
<1>8. Unpacked(disk'.journey)
  BY <1>2
<1>9. InMemory'
  BY <1>1, <1>8 DEF InMemory, Stands
<1> QED
  BY <1>7, <1>9 DEF Evidenced

\* The first step of the stage: its run, of the files that the package is made of.
LEMMA PackingStands ==
  ASSUME NEW j, NEW now \in Nat, NEW R, Stands(j, now, R), Announced(j), Unpacked(j),
         RequiredRole \subseteq R,
         NEW t1 \in Nat, NEW t2 \in Nat, now <= t1, t1 <= t2
  PROVE  LET k == SetInputs(Transition(Emit(AddStageRun(j, "fabrication_package", 1), t1),
                                       "running", None, t2), RequiredRole)
         IN Stands(k, t2, R) /\ Packing(k)
<1> DEFINE stage == "fabrication_package"
           attempt == 1
           a == AddStageRun(j, stage, attempt)
           q == Emit(a, t1)
           m == Transition(q, "running", None, t2)
           k == SetInputs(m, RequiredRole)
<1>1. /\ stage \in FabricationStage /\ attempt \in Nat /\ Sound(j, now) /\ RolesOf(j) = R
      /\ j \in FabricationJourney /\ "running" \in StageStatus /\ RequiredRole \in SUBSET Role
  BY NotYetSuccessful, StandsOpen, ReportRoles DEF Stands, StageStatus
<1>2. stage = "fabrication_package" /\ attempt = 1
  OBVIOUS
<1> HIDE DEF stage, attempt
<1>3. Stands(a, now, R) /\ Last(a).status = "waiting"
  BY <1>1, AddStands
<1>4. Adds(a, j, stage, "waiting")
  BY <1>1, AddStageRunAdds
<1>5. Open(a) /\ Last(a).level = None
  BY <1>3, <1>4, StandsOpen DEF Adds
<1> HIDE DEF a
<1>6. Stands(q, t1, R) /\ Same(q, a)
  BY <1>3, EmitStands
<1>7. Carries(q, a, "waiting", None)
  BY <1>3, <1>5, EmitCarries
<1>8. Last(q).status = "waiting" /\ Open(q) /\ Last(q).level = None
  BY <1>3, <1>6, <1>7, StandsOpen DEF Same, Carries
<1> HIDE DEF q
<1>9. Stands(m, t2, R)
  BY <1>6, <1>8, BeginStands
<1>10. Carries(m, q, "running", None)
  BY <1>1, <1>8, MoveCarries
<1>11. Open(m) /\ Last(m).status = "running" /\ Last(m).level = None
  BY <1>9, <1>10, StandsOpen DEF Carries
<1> HIDE DEF m
<1>12. Stands(k, t2, R) /\ Last(k).inputs = RequiredRole
  BY <1>1, <1>9, InputsStands
<1>13. Carries(k, m, "running", None)
  BY <1>1, <1>11, SetInputsCarries
<1> HIDE DEF k
<1>14. Adds(q, j, stage, "waiting")
  BY <1>1, <1>4, <1>7, AddsCarries
<1>15. Adds(m, j, stage, "running")
  BY <1>1, <1>10, <1>14, AddsCarries
<1>16. Adds(k, j, stage, "running")
  BY <1>1, <1>13, <1>15, AddsCarries
<1>17. /\ Len(k.runs) = Len(j.runs) + 1 /\ Len(j.runs) \in Nat
       /\ \A i \in 1..Len(j.runs) : k.runs[i] = j.runs[i]
       /\ Last(k).stage = "fabrication_package"
  BY <1>1, <1>2, <1>16, JourneyParts DEF Adds
<1>18. \A i \in 1..Len(k.runs) - 1 : k.runs[i].stage # "fabrication_package"
  <2>1. Len(k.runs) - 1 = Len(j.runs)
    BY <1>17
  <2> QED
    BY <1>17, <2>1 DEF Unpacked
<1>19. Packing(k)
  BY <1>12, <1>17, <1>18 DEF Packing
<1> QED
  BY <1>2, <1>12, <1>19 DEF k, m, q, a

LEMMA StartPackageEvidenced == ASSUME Place, Evidenced, StartPackage PROVE Evidenced'
<1> DEFINE Packaged(t) ==
             SetInputs(Transition(Emit(AddStageRun(journey, "fabrication_package", 1), t[1]),
                                  "running", None, t[2]), RequiredRole)
<1>1. PICK t \in Stamps(2) : journey' = Packaged(t) /\ clock' = t[2]
  BY DEF StartPackage
<1>2. pc = "packaging" /\ pc' = "writing" /\ disk' = [disk EXCEPT !.package = Torn]
  BY DEF StartPackage
<1> DEFINE R == CadRole \cup AssessedRole \cup SlicerRole
           t1 == t[1]
           t2 == t[2]
           next == "writing"
<1>3. /\ clock \in Nat /\ Stands(journey, clock, R) /\ Announced(journey) /\ Unpacked(journey)
  BY <1>2, SlicingEvidence, RolesThen
<1>4. /\ t \in [1..2 -> Nat] /\ \A i \in 1..2 : t[i] >= clock
      /\ \A i, k \in 1..2 : i <= k => t[i] <= t[k]
  BY <1>3, StampsAscend
<1>5. t1 \in Nat /\ t2 \in Nat /\ clock <= t1 /\ t1 <= t2 /\ clock <= t2
  BY <1>3, <1>4
<1>6. /\ journey' = SetInputs(Transition(Emit(AddStageRun(journey, "fabrication_package", 1), t1),
                                         "running", None, t2), RequiredRole)
      /\ clock' = t2 /\ pc' = next
  BY <1>1, <1>2
<1>7. RequiredRole \subseteq R
  BY RoleGroups
<1>8. /\ pc \in Slicing /\ next \in {"writing", "written"} /\ RolesAt(next) = R
      /\ next # "written"
  BY <1>2, RolesThen DEF Slicing
<1>9. disk'.journey = disk.journey /\ disk'.package # None
  <2>1. Torn # None /\ disk \in Disk
    BY NoneFacts DEF Torn, Package, Place
  <2> DEFINE torn == Torn
  <2>2. disk' = [disk EXCEPT !.package = torn] /\ torn # None
    BY <1>2, <2>1
  <2> HIDE DEF torn
  <2> QED
    BY <2>1, <2>2 DEF Disk
<1> HIDE DEF R, t1, t2, next
<1>10. LET k == SetInputs(Transition(Emit(AddStageRun(journey, "fabrication_package", 1), t1),
                                     "running", None, t2), RequiredRole)
       IN Stands(k, t2, R) /\ Packing(k)
  BY <1>3, <1>5, <1>7, PackingStands
<1>11. /\ Stands(journey', clock', RolesAt(next)) /\ Packing(journey')
       /\ clock' \in Nat /\ clock <= clock'
  BY <1>5, <1>6, <1>8, <1>10
<1> QED
  BY <1>6, <1>8, <1>9, <1>11, ToPackage

LEMMA WritePackageEvidenced == ASSUME Place, Evidenced, WritePackage PROVE Evidenced'
<1>1. /\ pc = "writing" /\ pc' = "written" /\ UNCHANGED <<clock, journey>>
      /\ disk' = [disk EXCEPT !.package = PackageOf(journey)]
  BY DEF WritePackage, PackageOf
<1> DEFINE next == "written"
           package == PackageOf(journey)
<1>2. /\ pc \in Slicing /\ pc \in Making /\ next \in {"writing", "written"}
      /\ RolesAt(next) = RolesAt(pc)
  BY <1>1, RolesThen DEF Making, Slicing
<1>3. clock \in Nat /\ Stands(journey, clock, RolesAt(pc))
  BY <1>2, MakingFacts
<1>4. Packing(journey)
  BY <1>1 DEF Evidenced, InMemory
<1>5. package # None
  <2>1. journey.artifacts \subseteq Artifact
    BY <1>3, StandsOpen, JourneyParts
  <2>2. Warned(journey) \in BOOLEAN
    BY DEF Warned
  <2>3. package \in Package
    BY <2>1, <2>2 DEF Package, PackageOf
  <2> QED
    BY <2>3, NoneFacts
<1>6. disk' = [disk EXCEPT !.package = package] /\ disk \in Disk /\ package = PackageOf(journey)
  BY <1>1 DEF Place
<1>7. pc' = next
  BY <1>1
<1> HIDE DEF next, package
<1>8. disk'.journey = disk.journey /\ disk'.package = package
  BY <1>6 DEF Disk
<1>9. /\ clock' \in Nat /\ clock <= clock' /\ Stands(journey', clock', RolesAt(next))
      /\ Packing(journey') /\ disk'.package = PackageOf(journey')
  BY <1>1, <1>2, <1>3, <1>4, <1>6, <1>8
<1>10. disk'.package # None
  BY <1>5, <1>8
<1> QED
  BY <1>2, <1>7, <1>8, <1>9, <1>10, ToPackage

\* A stage that passes changes nothing but its run and the job.
LEMMA PassFields ==
  ASSUME NEW j, NEW now \in Nat, NEW R, Stands(j, now, R), Last(j).status = "running",
         NEW warned \in BOOLEAN, NEW level \in Nat, NEW job \in JobStatus,
         NEW t, t[1] \in Nat, t[2] \in Nat, t[3] \in Nat,
         now <= t[1], t[1] <= t[2], t[2] <= t[3]
  PROVE  LET k == PassStage(j, warned, level, job, t)
         IN /\ k.findings = j.findings /\ k.artifacts = j.artifacts
            /\ Len(k.runs) = Len(j.runs) /\ \A i \in 1..Len(j.runs) - 1 : k.runs[i] = j.runs[i]
            /\ Last(k).stage = Last(j).stage /\ Last(k).inputs = Last(j).inputs
            /\ Last(k).level = level
            /\ warned => Last(k).status = "passed_with_warnings"
            /\ ~warned => Last(k).status = "passed"
<1> DEFINE status == IF warned THEN "passed_with_warnings" ELSE "passed"
           a == Transition(j, status, level, t[1])
           b == Emit(a, t[2])
           c == UpdateStatus(b, job, t[3])
           k == PassStage(j, warned, level, job, t)
<1>1. Open(j) /\ j \in FabricationJourney
  BY StandsOpen
<1>2. k = c
  BY DEF PassStage
<1>3. status \in Ends /\ level \in Nat \cup {None} /\ level # None
  BY NoneFacts DEF Ends
<1>4. \E s \in Successful : Carries(k, j, s, level)
  BY <1>1, PassStageCarries
<1>5. /\ warned => Last(k).status = "passed_with_warnings"
      /\ ~warned => Last(k).status = "passed"
  <2>1. Last(k).status = IF warned THEN "passed_with_warnings" ELSE "passed"
    BY PassStands
  <2> HIDE DEF k
  <2> QED
    BY <2>1
<1> HIDE DEF k, status
<1>6. /\ Len(k.runs) = Len(j.runs) /\ \A i \in 1..Len(j.runs) - 1 : k.runs[i] = j.runs[i]
      /\ Last(k).stage = Last(j).stage /\ Last(k).level = level
  BY <1>4 DEF Carries
<1>7. Stands(a, t[1], R) /\ Last(a).inputs = Last(j).inputs
  BY <1>3, EndStands
<1>8. a.findings = j.findings /\ a.artifacts = j.artifacts
  BY <1>1 DEF Transition, FabricationJourney
<1>9. Open(a)
  BY <1>7, StandsOpen
<1> HIDE DEF a
<1>10. Like(b, a) /\ Stands(b, t[2], R)
  BY <1>7, <1>9, EmitParts, EmitStands
<1>11. b \in FabricationJourney
  BY <1>10, StandsOpen
<1> HIDE DEF b
<1>12. c.findings = b.findings /\ c.artifacts = b.artifacts /\ c.runs = b.runs
  BY <1>11 DEF UpdateStatus, FabricationJourney
<1> HIDE DEF c
<1>13. k.findings = j.findings /\ k.artifacts = j.artifacts /\ Last(k).inputs = Last(j).inputs
  BY <1>2, <1>7, <1>8, <1>10, <1>12 DEF Like, Last
<1> QED
  BY <1>6, <1>5, <1>13 DEF k

\* The package and the journey that say the same.
LEMMA PackedPasses ==
  ASSUME NEW j, NEW now, NEW R, Stands(j, now, R), Packing(j), j.revision # None,
         RequiredRole \subseteq R,
         NEW x, x.role = "package_report", x.run = Len(j.runs),
         NEW k, NEW later, NEW S, Stands(k, later, S), k.revision # None,
         k.findings = j.findings, k.artifacts = j.artifacts \cup {x},
         Len(k.runs) = Len(j.runs), \A i \in 1..Len(j.runs) - 1 : k.runs[i] = j.runs[i],
         Last(k).stage = Last(j).stage, Last(k).inputs = Last(j).inputs, Last(k).level = 4,
         Last(k).status = IF Warned(j) THEN "passed_with_warnings" ELSE "passed"
  PROVE  Packed(k, PackageOf(j))
<1> DEFINE N == Len(k.runs)
           p == PackageOf(j)
<1>1. /\ j \in FabricationJourney /\ k \in FabricationJourney /\ N \in Nat \ {0} /\ N \in 1..N
      /\ k # None
  BY StandsOpen, NoneFacts
<1>2. /\ k.runs[N] = Last(k) /\ j.runs[N] = Last(j) /\ Last(k).owned /\ Last(j).owned
  BY <1>1 DEF Last, Stands, Sound, RecordsSound
<1>3. DOMAIN k.runs = 1..N /\ DOMAIN j.runs = 1..N
  BY <1>1, RunsDomain
<1>4. \A i \in 1..N : i = N \/ i \in 1..N - 1
  BY <1>1
<1>5. \A i \in 1..N : j.runs[i].owned <=> k.runs[i].owned
  BY <1>2, <1>4
<1>6. \A f \in j.findings : f.run \in 1..N
  BY DEF Stands, Sound, RecordsSound
<1>7. OwnedFindings(k) = OwnedFindings(j)
  BY <1>5, <1>6 DEF OwnedFindings
<1>8. Warned(k) = Warned(j)
  BY <1>7 DEF Warned
<1>9. \A i \in 1..N : k.runs[i].stage = "fabrication_package" <=> i = N
  BY <1>1, <1>2, <1>4 DEF Packing
<1>10. Last(k).status \in Successful
  BY DEF Successful
<1>11. PassedRuns(k, "fabrication_package") = {N}
  <2>1. \A i \in PassedRuns(k, "fabrication_package") : i = N
    BY <1>3, <1>9 DEF PassedRuns, OwnedRuns
  <2>2. N \in OwnedRuns(k)
    BY <1>1, <1>2, <1>3 DEF OwnedRuns
  <2>3. N \in PassedRuns(k, "fabrication_package")
    BY <1>1, <1>2, <1>9, <1>10, <2>2 DEF PassedRuns
  <2> QED
    BY <2>1, <2>3
<1>12. \A i \in PackageRuns(k) : i <= N
  BY <1>1, <1>3 DEF PackageRuns, OwnedRuns
<1>13. p.whole /\ p.warned = Warned(j) /\ p.inputs = {a \in j.artifacts : a.role \in RequiredRole}
  BY DEF PackageOf
<1>14. "package_report" \notin RequiredRole
  BY DEF RequiredRole
<1>15. p.inputs = {a \in k.artifacts : a.role \in RequiredRole}
  BY <1>13, <1>14
<1>16. RequiredRole \subseteq RolesOf(k)
  BY DEF Stands, RolesOf
<1>17. k.runs[N].inputs = RequiredRole /\ k.runs[N].level = 4
  BY <1>2 DEF Packing
<1>18. p # None
  <2>1. j.artifacts \subseteq Artifact /\ Warned(j) \in BOOLEAN
    BY <1>1, JourneyParts DEF Warned
  <2>2. p \in Package
    BY <2>1 DEF Package, PackageOf
  <2> QED
    BY <2>2, NoneFacts
<1>19. \E a \in k.artifacts : a.role = "package_report" /\ a.run = N
  OBVIOUS
<1>20. k.runs[N].status = IF Warned(k) THEN "passed_with_warnings" ELSE "passed"
  BY <1>2, <1>8
<1>21. p.warned = Warned(k)
  BY <1>8, <1>13
<1> HIDE DEF N, p
<1>22. PackageConsistent(k, k, p)
  BY <1>1, <1>11, <1>12, <1>13, <1>15, <1>16, <1>17, <1>18, <1>19, <1>20, <1>21
     DEF PackageConsistent
<1> QED
  BY <1>13, <1>18, <1>22 DEF Packed, p

LEMMA CompletePackageEvidenced == ASSUME Place, Evidenced, CompletePackage PROVE Evidenced'
<1>1. PICK t \in Stamps(4) :
        Do("indexing", PassStage(Record(journey, {"package_report"}, t[1]), Warned(journey), 4,
                                 "completed", <<t[2], t[3], t[4]>>), t[4])
  BY DEF CompletePackage
<1>2. pc = "written" /\ CanTransition(journey, "passed")
  BY DEF CompletePackage
<1> DEFINE R == CadRole \cup AssessedRole \cup SlicerRole
           report == {"package_report"}
           t1 == t[1]
           v == <<t[2], t[3], t[4]>>
           d == Record(journey, report, t1)
           x == [role |-> "package_report", run |-> Len(journey.runs), at |-> t1]
           warned == Warned(journey)
           level == 4
           job == "completed"
           p == PassStage(d, warned, level, job, v)
<1>3. pc \in Making /\ pc \in Slicing
  BY <1>2 DEF Making, Slicing
<1>4. /\ clock \in Nat /\ Stands(journey, clock, R) /\ journey.revision # None
      /\ Open(journey) /\ Last(journey).status = "running"
  BY <1>2, <1>3, MakingFacts, RolesThen, StandsOpen, MovesFromRunning
<1>5. Packing(journey) /\ disk.package = PackageOf(journey)
  BY <1>2 DEF Evidenced, InMemory
<1>6. /\ t \in [1..4 -> Nat] /\ \A i \in 1..4 : t[i] >= clock
      /\ \A i, k \in 1..4 : i <= k => t[i] <= t[k]
  BY <1>4, StampsAscend
<1>7. /\ v[1] \in Nat /\ v[2] \in Nat /\ v[3] \in Nat /\ t1 \in Nat /\ clock <= t1
      /\ t1 <= v[1] /\ v[1] <= v[2] /\ v[2] <= v[3] /\ clock <= v[3]
  BY <1>4, <1>6
<1>8. journey' = p /\ pc' = "indexing" /\ clock' = v[3] /\ UNCHANGED disk
  BY <1>1 DEF Do, Moves
<1>9. level \in Nat /\ job \in JobStatus /\ level = 4 /\ job # "geometry_verified"
  BY DEF JobStatus
<1>10. /\ report \in SUBSET Plain /\ report \cap R = {} /\ R \subseteq Plain /\ RequiredRole \subseteq R
       /\ \A r \in report : Parents(r) \subseteq R \cup report
  <2>1. "package_report" \in Plain
    BY DEF Plain, Role, AttemptRole
  <2>2. "package_report" \notin R
    BY DEF CadRole, AssessedRole, SlicerRole, LogRole
  <2>3. RequiredRole \subseteq R /\ R \subseteq Plain
    BY RoleGroups
  <2>4. Parents("package_report") = RequiredRole
    BY ParentsOf
  <2> QED
    BY <2>1, <2>2, <2>3, <2>4
<1>11. /\ d.runs = journey.runs /\ d.findings = journey.findings
       /\ d.artifacts = journey.artifacts \cup {x}
  BY <1>4 DEF Record, Open, FabricationJourney
<1>12. x.role = "package_report" /\ x.run = Len(journey.runs)
  OBVIOUS
<1> HIDE DEF R, report, t1, v, x
<1>13. Stands(d, t1, R \cup report) /\ Same(d, journey)
  BY <1>4, <1>7, <1>10, RecordPlain
<1> DEFINE S == R \cup report
<1>14. Stands(d, t1, S)
  BY <1>13
<1>15. Last(d).status = "running" /\ d.revision # None
  BY <1>4, <1>13 DEF Same
<1>16. warned \in BOOLEAN
  BY DEF Warned
<1>17. warned = Warned(journey) /\ p = PassStage(d, warned, level, job, v)
  OBVIOUS
<1> HIDE DEF S, d, warned, level, job, p
<1>18. LET m == PassStage(d, warned, level, job, v)
       IN /\ Stands(m, v[3], S) /\ Announced(m) /\ Sealed(m) /\ m.revision = d.revision
          /\ m.updated = v[3] /\ m.status = job
          /\ Unpacked(d) => Unpacked(m)
  BY <1>7, <1>9, <1>14, <1>15, PassedEvidence
<1>19. LET m == PassStage(d, warned, level, job, v)
       IN /\ m.findings = d.findings /\ m.artifacts = d.artifacts
          /\ Len(m.runs) = Len(d.runs) /\ \A i \in 1..Len(d.runs) - 1 : m.runs[i] = d.runs[i]
          /\ Last(m).stage = Last(d).stage /\ Last(m).inputs = Last(d).inputs
          /\ Last(m).level = level
          /\ warned => Last(m).status = "passed_with_warnings"
          /\ ~warned => Last(m).status = "passed"
  BY <1>16, <1>7, <1>9, <1>14, <1>15, PassFields
<1>20. /\ p.findings = journey.findings /\ p.artifacts = journey.artifacts \cup {x}
       /\ Len(p.runs) = Len(journey.runs)
       /\ \A i \in 1..Len(journey.runs) - 1 : p.runs[i] = journey.runs[i]
       /\ Last(p).stage = Last(journey).stage /\ Last(p).inputs = Last(journey).inputs
       /\ Last(p).level = 4
  BY <1>9, <1>11, <1>17, <1>19 DEF Last
<1>21. Last(p).status = IF Warned(journey) THEN "passed_with_warnings" ELSE "passed"
  BY <1>17, <1>19
<1>22. Stands(p, v[3], S) /\ Announced(p) /\ p.revision # None /\ p.updated = v[3] /\ p.status = job
  BY <1>15, <1>17, <1>18
<1>23. Packed(p, PackageOf(journey))
  BY <1>4, <1>5, <1>10, <1>12, <1>20, <1>21, <1>22, PackedPasses
<1>24. /\ Stands(journey', clock', S) /\ Announced(journey') /\ journey'.revision # None
       /\ journey'.updated = clock' /\ journey'.status # "geometry_verified"
       /\ Packed(journey', disk.package) /\ clock' \in Nat /\ clock <= clock'
  BY <1>5, <1>7, <1>8, <1>9, <1>22, <1>23
<1> QED
  BY <1>8, <1>24, ToIndexing

-----------------------------------------------------------------------------
(* The evidence can be read                                                     *)

LEMMA InitEvidenced == Init => Evidenced
<1> SUFFICES ASSUME Init PROVE Evidenced
  OBVIOUS
<1>1. pc = "start" /\ disk.journey = None
  BY DEF Init, PipelineInit, EmptyDisk
<1>2. pc \notin Making \cup {"confirmed", "indexing", "indexed", "designed"}
  BY <1>1 DEF Making, Gate, Designing, Slicing
<1>3. InMemory
  BY <1>2 DEF InMemory, Making, Slicing
<1>4. OnDisk
  BY <1>1, <1>2 DEF OnDisk, EvidenceReadable
<1> QED
  BY <1>3, <1>4 DEF Evidenced

LEMMA StopEvidenced ==
  ASSUME Place, Evidenced, UNCHANGED <<clock, disk>>, pc' \in {"stopped", "unpackaged"}
  PROVE  Evidenced'
<1>1. clock \in Nat
  BY DEF Place
<1> QED
  BY <1>1, ToNowhere

LEMMA BriefStepEvidenced == ASSUME Place, Evidenced, BriefStep PROVE Evidenced'
BY StartBriefEvidenced, ParseFailsEvidenced, CompleteBriefEvidenced, PublishBriefEvidenced
   DEF BriefStep

LEMMA CadStepEvidenced == ASSUME Place, Evidenced, CadStep PROVE Evidenced'
BY StartDesignEvidenced, RunEvidenced, RunnerRaisesEvidenced, DesignFailsEvidenced,
   DesignPassesEvidenced, GeometryFailsEvidenced, GeometryPassesEvidenced
   DEF CadStep

LEMMA PersistEvidenced == ASSUME Place, Shelf, Evidenced, Persist PROVE Evidenced'
BY IndexJourneyEvidenced, IndexManifestEvidenced DEF Persist

LEMMA SlicingStepEvidenced == ASSUME Place, Shelf, Evidenced, SlicingStep PROVE Evidenced'
<1>1. CASE PackageRefused
  BY <1>1, StopEvidenced DEF PackageRefused
<1> QED
  BY <1>1, StartPrintabilityEvidenced, PrintabilityRaisesEvidenced, PrintabilityFailsEvidenced,
     PrintabilityPassesEvidenced, SlicingRaisesEvidenced, SlicingBlockedEvidenced,
     SlicingPassesEvidenced, StartPackageEvidenced, WritePackageEvidenced,
     CompletePackageEvidenced
     DEF SlicingStep

LEMMA NextEvidenced == ASSUME Place, Shelf, Evidenced, [Next]_vars PROVE Evidenced'
<1>1. CASE PipelineStep
  <2>1. CASE Beside(WorkerStep)
    BY <2>1, SameEvidence DEF Beside
  <2> QED
    BY <1>1, <2>1, BriefStepEvidenced, CadStepEvidenced, PersistEvidenced, SlicingStepEvidenced
       DEF PipelineStep
<1>2. CASE Stop
  BY <1>2, StopEvidenced DEF Stop
<1>3. CASE DesignTouched
  BY <1>3, SameEvidence DEF DesignTouched, Beside
<1>4. CASE \E r \in Reader : ReaderStep(r)
  BY <1>4, SameEvidence
     DEF ReaderStep, ReadJourney, ReadManifest, ReadPackage, NextRequest, pipelineVars
<1>5. CASE UNCHANGED vars
  BY <1>5, SameEvidence DEF vars
<1> QED
  BY <1>1, <1>2, <1>3, <1>4, <1>5 DEF Next

\* Whatever the pipelines have written can be read back, in every state of every job: all that
\* _load and the checks it calls (api/repository.py) ask of the three files is true of them.
\* The exceptions are the two windows of a pipeline that is not done: a journey ahead of its
\* manifest, and a package ahead of its journey.
THEOREM EvidenceStaysReadable == Spec => []EvidenceReadable
<1> DEFINE Inv == Shelf /\ Evidenced
<1>1. Init => Inv
  BY InitShelf, InitEvidenced
<1>2. Place /\ Inv /\ [Next]_vars => Inv'
  BY NextShelf, NextEvidenced
<1>3. Inv => EvidenceReadable
  BY DEF Evidenced, OnDisk
<1> HIDE DEF Inv
<1> QED
  BY <1>1, <1>2, <1>3, AlwaysPlace, PTL DEF Spec
=============================================================================
