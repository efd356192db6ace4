--------------------------- MODULE ExecutionProofs ---------------------------
(* Proofs about ExecutionStore and ExecutionService, for every value of their          *)
(* constants.  Of the store: its invariants, what its steps may never do, and that it  *)
(* implements ExecutionControl.  Of the service: the threads of the runners stay tied  *)
(* together, every step of the service is a step of the store, and what the log says   *)
(* of evidence is what the runs have published.                                        *)
EXTENDS ExecutionService, FiniteSetTheorems, TLAPS

-----------------------------------------------------------------------------
(* Types *)

\* Each terminal status has its event type, and an interruption has one.
LEMMA TerminalEventTypes ==
  /\ \A s \in TerminalStatus : TerminalEvent[s] \in TerminalEventType
  /\ "execution_interrupted" \in TerminalEventType
  /\ TerminalEventType \subseteq EventType
<1>1. TerminalEvent["interrupted"] = "execution_interrupted"
  BY DEF TerminalEvent
<1>2. "interrupted" \in TerminalStatus
  BY DEF TerminalStatus
<1> QED
  BY <1>1, <1>2 DEF TerminalEventType, EventType

\* Every lifecycle contract returns a well-typed record.
LEMMA QueuedRecordType ==
  ASSUME NEW key \in Key, NEW request \in Request, NEW seq \in Nat, NEW at \in Time
  PROVE  QueuedRecord(key, request, seq, at) \in Row
BY DEF QueuedRecord, AbsentRow, Row, Status

LEMMA StartExecutionType ==
  ASSUME NEW r \in Row, NEW runner \in Runner, NEW generation \in Nat, NEW at \in Time
  PROVE  StartExecution(r, runner, generation, at) \in Row
BY DEF StartExecution, Row, Status, ActiveStatus

LEMMA RequestCancellationType ==
  ASSUME NEW r \in Row, NEW at \in Time
  PROVE  RequestCancellation(r, at) \in Row
<1>1. CASE r.status = "queued"
  <2>1. [r EXCEPT !.status = "cancelled", !.cancelAt = at, !.completed = at] \in Row
    BY DEF Row, Status, TerminalStatus
  <2> QED
    BY <1>1, <2>1 DEF RequestCancellation
<1>2. CASE r.status # "queued"
  <2>1. [r EXCEPT !.status = "cancellation_requested", !.cancelAt = at] \in Row
    BY DEF Row, Status, ActiveStatus
  <2> QED
    BY <1>2, <2>1 DEF RequestCancellation
<1> QED
  BY <1>1, <1>2

LEMMA CompletedType ==
  ASSUME NEW r \in Row, NEW status \in Status, NEW at \in Time
  PROVE  [r EXCEPT !.status = status, !.completed = at] \in Row
BY DEF Row

LEMMA FailureType ==
  ASSUME NEW r \in Row, NEW failure \in FailureCode \cup {None}
  PROVE  [r EXCEPT !.failure = failure] \in Row
BY DEF Row

LEMMA TransitionExecutionType ==
  ASSUME NEW r \in Row, NEW target \in TerminalStatus,
         NEW failure \in FailureCode \cup {None}, NEW at \in Time
  PROVE  TransitionExecution(r, target, failure, at) \in Row
<1> DEFINE completed == [WithoutLease(r) EXCEPT !.status = target, !.completed = at]
<1>1. WithoutLease(r) \in Row
  BY DEF WithoutLease, Row
<1>2. completed \in Row
  BY <1>1, CompletedType DEF Status
<1>3. TransitionExecution(r, target, failure, at) = [completed EXCEPT !.failure = failure]
  BY DEF TransitionExecution
<1> HIDE DEF completed
<1> QED
  BY <1>2, <1>3, FailureType

LEMMA LogEventType ==
  ASSUME NEW r \in Row, r.status \in Status, NEW type \in EventType,
         NEW at \in Time, NEW number \in Nat
  PROVE  LogEvent(r, type, at, number) \in Event
BY DEF LogEvent, Event, Row

\* A commit keeps the types.
LEMMA CommitType ==
  ASSUME TypeOK, NEW e \in Execution, NEW r \in Row, r.status \in Status,
         NEW type \in EventType, NEW at \in Time, NEW number \in Nat,
         Commit(e, r, type, at, number)
  PROVE  TypeOK'
<1>1. LogEvent(r, type, at, number) \in Event
  BY LogEventType
<1> QED
  BY <1>1 DEF TypeOK, Commit

\* So does the reconciliation of stale leases.
LEMMA ReconciledType ==
  ASSUME TypeOK, NEW at \in Time
  PROVE  /\ ReconciledRow(at) \in [Execution -> Row]
         /\ ReconciledUpdatedAt(at) \in [Execution -> Time \cup {None}]
         /\ ReconciledLog(at) \in [Execution -> Seq(Event)]
<1>1. ReconciledRow(at) \in [Execution -> Row]
  <2> SUFFICES ASSUME NEW e \in Execution
               PROVE  InterruptStaleExecution(row[e], at) \in Row
    BY DEF TypeOK, ReconciledRow
  <2>1. /\ row[e] \in Row
        /\ "interrupted" \in TerminalStatus
        /\ "runner_interrupted" \in FailureCode \cup {None}
    BY FailureAssumption DEF TypeOK, TerminalStatus
  <2> QED
    BY <2>1, TransitionExecutionType DEF InterruptStaleExecution
<1>2. ReconciledUpdatedAt(at) \in [Execution -> Time \cup {None}]
  BY DEF TypeOK, ReconciledUpdatedAt
<1>3. ReconciledLog(at) \in [Execution -> Seq(Event)]
  <2> SUFFICES ASSUME NEW e \in Stale(at)
               PROVE  LogEvent(ReconciledRow(at)[e], "execution_interrupted", at, 0) \in Event
    BY DEF TypeOK, ReconciledLog
  <2>1. ReconciledRow(at)[e] \in Row
    BY <1>1 DEF Stale, Active
  <2>2. ReconciledRow(at)[e].status \in Status
    <3>1. e \in Execution
      BY DEF Stale, Active
    <3>2. row[e] \in Row
      BY <3>1 DEF TypeOK
    <3>3. ReconciledRow(at)[e].status = "interrupted"
      BY <3>1, <3>2 DEF ReconciledRow, InterruptStaleExecution, TransitionExecution,
                        WithoutLease, Row
    <3> QED
      BY <3>3 DEF Status, TerminalStatus
  <2> QED
    BY <2>1, <2>2, TerminalEventTypes, LogEventType
<1> QED
  BY <1>1, <1>2, <1>3

-----------------------------------------------------------------------------
(* Type correctness *)

LEMMA InitTypeOK == Init => TypeOK
BY DEF Init, TypeOK, AbsentRow, Row

LEMMA AdmitType ==
  ASSUME TypeOK, NEW e \in Execution, NEW key \in Key, NEW request \in Request,
         NEW at \in Time, Admit(e, key, request, at)
  PROVE  TypeOK'
<1> DEFINE r == QueuedRecord(key, request, nextAccepted, at)
<1>1. nextAccepted \in Nat /\ r \in Row
  BY QueuedRecordType DEF TypeOK
<1>2. LogEvent(r, "request_accepted", at, nextAccepted) \in Event
  <2>1. r.status \in Status
    BY DEF QueuedRecord, AbsentRow, Status
  <2> QED
    BY <1>1, <2>1, LogEventType DEF EventType
<1> HIDE DEF r
<1> QED
  BY <1>1, <1>2 DEF Admit, InsertRecord, TypeOK, r

LEMMA ReconcileStaleType ==
  ASSUME TypeOK, NEW at \in Time, ReconcileStale(at)
  PROVE  TypeOK'
BY ReconciledType DEF ReconcileStale, TypeOK

LEMMA StartHeadType ==
  ASSUME TypeOK, NEW e \in Execution, NEW runner \in Runner, NEW at \in Time,
         StartHead(e, runner, at)
  PROVE  TypeOK'
<1> DEFINE r == StartExecution(row[e], runner, nextGeneration, at)
           started == LogEvent(r, "execution_started", at, nextGeneration)
<1>1. nextGeneration \in Nat \ {0} /\ row[e] \in Row /\ nextAccepted \in Nat \ {0}
  BY DEF TypeOK
<1>2. r \in Row
  BY <1>1, StartExecutionType
<1>3. r.status \in Status
  BY <1>1 DEF StartExecution, Row, Status, ActiveStatus
<1>4. started \in Event
  BY <1>1, <1>2, <1>3, LogEventType DEF EventType
<1>5. /\ row' = [ReconciledRow(at) EXCEPT ![e] = r]
      /\ updatedAt' = [ReconciledUpdatedAt(at) EXCEPT ![e] = at]
      /\ log' = [ReconciledLog(at) EXCEPT ![e] = Append(@, started)]
      /\ nextGeneration' = nextGeneration + 1
      /\ nextAccepted' = nextAccepted
  BY DEF StartHead
<1> HIDE DEF r, started
<1> QED
  BY <1>1, <1>2, <1>4, <1>5, ReconciledType DEF TypeOK

LEMMA FinishType ==
  ASSUME TypeOK, NEW e \in Execution, NEW target \in TerminalStatus,
         NEW failure \in FailureCode \cup {None}, NEW runner, NEW generation,
         NEW at \in Time, Finish(e, target, failure, runner, generation, at)
  PROVE  TypeOK'
<1> DEFINE r == TransitionExecution(row[e], target, failure, at)
<1>1. row[e] \in Row
  BY DEF TypeOK
<1>2. r \in Row
  BY <1>1, TransitionExecutionType
<1>3. r.status = target
  BY <1>1 DEF TransitionExecution, WithoutLease, Row
<1>4. TerminalEvent[target] \in EventType
  BY TerminalEventTypes
<1>5. Commit(e, r, TerminalEvent[target], at, 0)
  BY DEF Finish
<1> HIDE DEF r
<1> QED
  BY <1>2, <1>3, <1>4, <1>5, CommitType DEF Status

LEMMA CancelType ==
  ASSUME TypeOK, NEW e \in Execution, NEW at \in Time, Cancel(e, at)
  PROVE  TypeOK'
<1> DEFINE r == RequestCancellation(row[e], at)
<1>1. row[e] \in Row /\ r \in Row
  BY RequestCancellationType DEF TypeOK
<1>2. r.status \in Status
  BY <1>1 DEF RequestCancellation, Row, Status, ActiveStatus, TerminalStatus
<1>3. CASE CancelQueued(e, at)
  <2>1. /\ LogEvent(r, "cancellation_requested", at, 0) \in Event
        /\ LogEvent(r, "execution_cancelled", at, 0) \in Event
    <3>1. "execution_cancelled" \in EventType /\ "cancellation_requested" \in EventType
      <4>1. TerminalEvent["cancelled"] = "execution_cancelled" /\ "cancelled" \in TerminalStatus
        BY DEF TerminalEvent, TerminalStatus
      <4> QED
        BY <4>1, TerminalEventTypes DEF EventType
    <3> HIDE DEF r
    <3> QED
      BY <1>1, <1>2, <3>1, LogEventType
  <2> DEFINE requested == LogEvent(r, "cancellation_requested", at, 0)
             cancelled == LogEvent(r, "execution_cancelled", at, 0)
  <2>2. /\ row' = [row EXCEPT ![e] = r]
        /\ updatedAt' = [updatedAt EXCEPT ![e] = at]
        /\ log' = [log EXCEPT ![e] = @ \o <<requested, cancelled>>]
        /\ nextGeneration' = nextGeneration /\ nextAccepted' = nextAccepted
    BY <1>3 DEF CancelQueued
  <2> HIDE DEF r, requested, cancelled
  <2>3. <<requested, cancelled>> \in Seq(Event)
    BY <2>1 DEF requested, cancelled
  <2> QED
    BY <1>1, <2>2, <2>3 DEF TypeOK
<1>4. CASE CancelRunning(e, at)
  <2>1. Commit(e, r, "cancellation_requested", at, 0)
    BY <1>4 DEF CancelRunning
  <2> HIDE DEF r
  <2> QED
    BY <1>1, <1>2, <2>1, CommitType DEF EventType
<1> QED
  BY <1>3, <1>4 DEF Cancel

LEMMA RunnerCallType ==
  ASSUME TypeOK, NEW e \in Execution, NEW runner, NEW generation, NEW at \in Time,
         \/ \E journey \in Journey : BindIdentity(e, journey, runner, generation, at)
         \/ \E level \in EvidenceLevel :
              AppendStageSnapshot(e, level, runner, generation, at)
         \/ RenewLease(e, runner, generation, at)
  PROVE  TypeOK'
<1>1. row[e] \in Row
  BY DEF TypeOK
<1>2. ASSUME NEW journey \in Journey, BindIdentity(e, journey, runner, generation, at)
      PROVE  TypeOK'
  <2> DEFINE r == [row[e] EXCEPT !.journey = journey]
  <2>1. r \in Row /\ r.status = row[e].status
    BY <1>1 DEF Row
  <2>2. r.status \in Status
    BY <1>2, <2>1 DEF BindIdentity, BindAllowed, FenceHolds, Status
  <2>3. Commit(e, r, "execution_identity_bound", at, 0)
    BY <1>2 DEF BindIdentity
  <2> HIDE DEF r
  <2> QED
    BY <2>1, <2>2, <2>3, CommitType DEF EventType
<1>3. ASSUME NEW level \in EvidenceLevel,
             AppendStageSnapshot(e, level, runner, generation, at)
      PROVE  TypeOK'
  <2>1. row[e].status \in Status
    BY <1>3 DEF AppendStageSnapshot, SnapshotAllowed, FenceHolds, Status
  <2>2. Commit(e, row[e], "stage_snapshot_persisted", at, level) /\ level \in Nat
    BY <1>3, EvidenceAssumption DEF AppendStageSnapshot
  <2> QED
    BY <1>1, <2>1, <2>2, CommitType DEF EventType
<1>4. CASE RenewLease(e, runner, generation, at)
  <2>1. [row[e] EXCEPT !.heartbeat = at] \in Row
    BY <1>1 DEF Row
  <2>2. row' = [row EXCEPT ![e] = [row[e] EXCEPT !.heartbeat = at]]
    BY <1>4 DEF RenewLease, TypeOK
  <2> QED
    BY <1>4, <2>1, <2>2 DEF RenewLease, TypeOK
<1> QED
  BY <1>2, <1>3, <1>4

LEMMA NextTypeOK == TypeOK /\ [Next]_storeVars => TypeOK'
<1> SUFFICES ASSUME TypeOK, Next
             PROVE  TypeOK'
  BY DEF TypeOK, storeVars
<1> PICK at \in Time :
      \/ \E e \in Execution, key \in Key, request \in Request : Admit(e, key, request, at)
      \/ ReconcileStale(at)
      \/ \E e \in Execution : Cancel(e, at)
      \/ \E runner \in Runner :
           \/ StartNext(runner, at)
           \/ \E e \in Execution, generation \in Generation :
                \/ \E journey \in Journey : BindIdentity(e, journey, runner, generation, at)
                \/ \E level \in EvidenceLevel :
                     AppendStageSnapshot(e, level, runner, generation, at)
                \/ RenewLease(e, runner, generation, at)
                \/ \E target \in TerminalStatus, failure \in FailureCode \cup {None} :
                     Finish(e, target, failure, runner, generation, at)
  BY DEF Next
<1>1. ASSUME NEW runner \in Runner, StartNext(runner, at)
      PROVE  TypeOK'
  <2>1. ReconcileStale(at) \/ \E e \in Execution : StartHead(e, runner, at)
    BY <1>1 DEF StartNext, Queued
  <2> QED
    BY <2>1, ReconcileStaleType, StartHeadType
<1> QED
  BY <1>1, AdmitType, ReconcileStaleType, CancelType, RunnerCallType, FinishType

\* Every column of the store always holds a value of its type, whatever runners and
\* clients call at whatever times.
THEOREM TypeCorrect == Spec => []TypeOK
BY InitTypeOK, NextTypeOK, PTL DEF Spec

-----------------------------------------------------------------------------
(* What a step does to the statuses and the accepted sequences *)

LEMMA QueuedRecordFields ==
  ASSUME NEW key, NEW request, NEW seq, NEW at
  PROVE  /\ QueuedRecord(key, request, seq, at).status = "queued"
         /\ QueuedRecord(key, request, seq, at).seq = seq
         /\ QueuedRecord(key, request, seq, at).started = None
BY DEF QueuedRecord, AbsentRow

LEMMA StartExecutionFields ==
  ASSUME NEW r \in Row, NEW runner, NEW generation, NEW at
  PROVE  /\ StartExecution(r, runner, generation, at).status = "running"
         /\ StartExecution(r, runner, generation, at).seq = r.seq
         /\ StartExecution(r, runner, generation, at).started = at
BY DEF StartExecution, Row

LEMMA RequestCancellationFields ==
  ASSUME NEW r \in Row, NEW at
  PROVE  /\ RequestCancellation(r, at).status =
              IF r.status = "queued" THEN "cancelled" ELSE "cancellation_requested"
         /\ RequestCancellation(r, at).seq = r.seq
         /\ RequestCancellation(r, at).started = r.started
BY DEF RequestCancellation, Row

LEMMA TransitionExecutionFields ==
  ASSUME NEW r \in Row, NEW target, NEW failure, NEW at
  PROVE  /\ TransitionExecution(r, target, failure, at).status = target
         /\ TransitionExecution(r, target, failure, at).seq = r.seq
         /\ TransitionExecution(r, target, failure, at).started = r.started
BY DEF TransitionExecution, WithoutLease, Row

\* A reconciled row differs from the row in its status only where the lease is stale.
LEMMA ReconciledFields ==
  ASSUME TypeOK, NEW at \in Time, NEW e \in Execution
  PROVE  /\ ReconciledRow(at)[e].status =
              IF e \in Stale(at) THEN "interrupted" ELSE row[e].status
         /\ ReconciledRow(at)[e].seq = row[e].seq
         /\ ReconciledRow(at)[e].started = row[e].started
<1>1. row[e] \in Row
  BY DEF TypeOK
<1> QED
  BY <1>1, TransitionExecutionFields DEF ReconciledRow, InterruptStaleExecution

\* e takes the status "to", and every other execution keeps its own.
Moves(e, to) ==
  \A f \in Execution : /\ row'[f].status = IF f = e THEN to ELSE row[f].status
                       /\ row'[f].seq = row[f].seq

StatusesAccept(e) ==
  /\ row[e].status = "absent"
  /\ ~(Cardinality(Queued) >= MaxQueued)
  /\ \A f \in Execution \ {e} : row'[f] = row[f]
  /\ row'[e].status = "queued" /\ row'[e].seq = nextAccepted

StatusesReconcile(at) ==
  \A f \in Execution :
    /\ row'[f].status = IF f \in Stale(at) THEN "interrupted" ELSE row[f].status
    /\ row'[f].seq = row[f].seq

StatusesStart(e, at) ==
  /\ IsFifoHead(e)
  /\ Active \subseteq Stale(at)
  /\ \A f \in Execution :
       /\ row'[f].status = IF f = e THEN "running"
                          ELSE IF f \in Stale(at) THEN "interrupted" ELSE row[f].status
       /\ row'[f].seq = row[f].seq

StatusesEnd(e, to) ==
  /\ Moves(e, to)
  /\ \/ row[e].status = "queued" /\ to = "cancelled"
     \/ row[e].status = "running" /\ to \in {"cancellation_requested", "succeeded", "failed"}
     \/ row[e].status = "cancellation_requested" /\ to \in {"cancelled", "failed"}

StatusesSame == \A f \in Execution : /\ row'[f].status = row[f].status
                                     /\ row'[f].seq = row[f].seq

LEMMA AdmitStatuses ==
  ASSUME TypeOK, NEW e \in Execution, NEW key \in Key, NEW request \in Request,
         NEW at \in Time, Admit(e, key, request, at)
  PROVE  StatusesAccept(e) /\ nextAccepted' = nextAccepted + 1
<1>1. row' = [row EXCEPT ![e] = QueuedRecord(key, request, nextAccepted, at)]
  BY DEF Admit, InsertRecord
<1>2. /\ row'[e] = QueuedRecord(key, request, nextAccepted, at)
      /\ \A f \in Execution \ {e} : row'[f] = row[f]
  BY <1>1 DEF TypeOK
<1>3. ~(Cardinality(Queued) >= MaxQueued)
  BY DEF Admit, InsertRecord, AdmissionDecision
<1>4. row[e].status = "absent" /\ nextAccepted' = nextAccepted + 1
  BY DEF Admit, InsertRecord, Existing
<1> QED
  BY <1>2, <1>3, <1>4, QueuedRecordFields DEF StatusesAccept

LEMMA ReconcileStaleStatuses ==
  ASSUME TypeOK, NEW at \in Time, ReconcileStale(at)
  PROVE  StatusesReconcile(at) /\ nextAccepted' = nextAccepted
BY ReconciledFields DEF ReconcileStale, StatusesReconcile

LEMMA StartHeadStatuses ==
  ASSUME TypeOK, NEW e \in Execution, NEW runner \in Runner, NEW at \in Time,
         ~StartNothing(at), StartHead(e, runner, at)
  PROVE  StatusesStart(e, at) /\ nextAccepted' = nextAccepted
<1> DEFINE r == StartExecution(row[e], runner, nextGeneration, at)
<1>1. /\ IsFifoHead(e) /\ nextAccepted' = nextAccepted
      /\ row' = [ReconciledRow(at) EXCEPT ![e] = r]
  BY DEF StartHead, StartAllowed
<1>2. Active \subseteq Stale(at)
  BY DEF StartNothing
<1>3. row[e] \in Row
  BY DEF TypeOK
<1>4. r.status = "running" /\ r.seq = row[e].seq
  BY <1>3, StartExecutionFields
<1> HIDE DEF r
<1>5. \A f \in Execution : row'[f] = IF f = e THEN r ELSE ReconciledRow(at)[f]
  BY <1>1, ReconciledType
<1> QED
  BY <1>1, <1>2, <1>4, <1>5, ReconciledFields DEF StatusesStart

LEMMA CancelStatuses ==
  ASSUME TypeOK, NEW e \in Execution, NEW at \in Time, Cancel(e, at)
  PROVE  /\ \E to \in Status : StatusesEnd(e, to)
         /\ nextAccepted' = nextAccepted
<1> DEFINE r == RequestCancellation(row[e], at)
<1>1. row' = [row EXCEPT ![e] = r] /\ nextAccepted' = nextAccepted
  BY DEF Cancel, CancelQueued, CancelRunning, Commit
<1>2. row[e] \in Row
  BY DEF TypeOK
<1>3. /\ r.status = IF row[e].status = "queued" THEN "cancelled" ELSE "cancellation_requested"
      /\ r.seq = row[e].seq
  BY <1>2, RequestCancellationFields
<1>4. row[e].status \in {"queued", "running"}
  BY DEF Cancel, CancelQueued, CancelQueuedAllowed, CancelRunning, CancelRunningAllowed, Queued
<1> HIDE DEF r
<1>5. Moves(e, r.status)
  BY <1>1, <1>3 DEF Moves, TypeOK
<1>6. StatusesEnd(e, r.status) /\ r.status \in Status
  BY <1>3, <1>4, <1>5 DEF StatusesEnd, Status, ActiveStatus, TerminalStatus
<1> QED
  BY <1>1, <1>6

LEMMA FinishStatuses ==
  ASSUME TypeOK, NEW e \in Execution, NEW target \in TerminalStatus,
         NEW failure \in FailureCode \cup {None}, NEW runner, NEW generation,
         NEW at \in Time, Finish(e, target, failure, runner, generation, at)
  PROVE  StatusesEnd(e, target) /\ nextAccepted' = nextAccepted
<1> DEFINE r == TransitionExecution(row[e], target, failure, at)
<1>1. row' = [row EXCEPT ![e] = r] /\ nextAccepted' = nextAccepted
  BY DEF Finish, Commit
<1>2. row[e] \in Row
  BY DEF TypeOK
<1>3. r.status = target /\ r.seq = row[e].seq
  BY <1>2, TransitionExecutionFields
<1>4. target \in FinishTarget(row[e])
  BY DEF Finish, FinishAllowed
<1> HIDE DEF r
<1>5. Moves(e, target)
  BY <1>1, <1>3 DEF Moves, TypeOK
<1> QED
  BY <1>1, <1>4, <1>5 DEF StatusesEnd, FinishTarget

LEMMA RunnerCallStatuses ==
  ASSUME TypeOK, NEW e \in Execution, NEW runner, NEW generation, NEW at \in Time,
         \/ \E journey \in Journey : BindIdentity(e, journey, runner, generation, at)
         \/ \E level \in EvidenceLevel :
              AppendStageSnapshot(e, level, runner, generation, at)
         \/ RenewLease(e, runner, generation, at)
  PROVE  StatusesSame /\ nextAccepted' = nextAccepted
<1>1. row[e] \in Row
  BY DEF TypeOK
<1>2. ASSUME NEW journey \in Journey, BindIdentity(e, journey, runner, generation, at)
      PROVE  StatusesSame /\ nextAccepted' = nextAccepted
  <2>1. /\ row' = [row EXCEPT ![e] = [row[e] EXCEPT !.journey = journey]]
        /\ nextAccepted' = nextAccepted
    BY <1>2 DEF BindIdentity, Commit
  <2> QED
    BY <1>1, <2>1 DEF StatusesSame, TypeOK, Row
<1>3. ASSUME NEW level \in EvidenceLevel,
             AppendStageSnapshot(e, level, runner, generation, at)
      PROVE  StatusesSame /\ nextAccepted' = nextAccepted
  BY <1>3 DEF AppendStageSnapshot, Commit, StatusesSame, TypeOK
<1>4. CASE RenewLease(e, runner, generation, at)
  <2>1. /\ row' = [row EXCEPT ![e] = [row[e] EXCEPT !.heartbeat = at]]
        /\ nextAccepted' = nextAccepted
    BY <1>4 DEF RenewLease, TypeOK
  <2> QED
    BY <1>1, <2>1 DEF StatusesSame, TypeOK, Row
<1> QED
  BY <1>2, <1>3, <1>4

\* The lemmas above, for a step of any kind.
LEMMA StatusStep ==
  ASSUME TypeOK, [Next]_storeVars
  PROVE  \/ \E e \in Execution : StatusesAccept(e) /\ nextAccepted' = nextAccepted + 1
         \/ /\ nextAccepted' = nextAccepted
            /\ \/ \E at \in Time : StatusesReconcile(at)
               \/ \E e \in Execution, at \in Time : StatusesStart(e, at)
               \/ \E e \in Execution, to \in Status : StatusesEnd(e, to)
               \/ StatusesSame
<1>1. CASE UNCHANGED storeVars
  BY <1>1 DEF storeVars, StatusesSame
<1>2. CASE Next
  <2> PICK at \in Time :
        \/ \E e \in Execution, key \in Key, request \in Request : Admit(e, key, request, at)
        \/ ReconcileStale(at)
        \/ \E e \in Execution : Cancel(e, at)
        \/ \E runner \in Runner :
             \/ StartNext(runner, at)
             \/ \E e \in Execution, generation \in Generation :
                  \/ \E journey \in Journey : BindIdentity(e, journey, runner, generation, at)
                  \/ \E level \in EvidenceLevel :
                       AppendStageSnapshot(e, level, runner, generation, at)
                  \/ RenewLease(e, runner, generation, at)
                  \/ \E target \in TerminalStatus, failure \in FailureCode \cup {None} :
                       Finish(e, target, failure, runner, generation, at)
    BY <1>2 DEF Next
  <2>1. ASSUME NEW runner \in Runner, StartNext(runner, at)
        PROVE  \/ ReconcileStale(at)
               \/ ~StartNothing(at) /\ \E e \in Execution : StartHead(e, runner, at)
    BY <2>1 DEF StartNext, Queued
  <2>2. ASSUME NEW e \in Execution, NEW target \in TerminalStatus,
               NEW failure \in FailureCode \cup {None},
               NEW runner \in Runner, NEW generation \in Generation,
               Finish(e, target, failure, runner, generation, at)
        PROVE  nextAccepted' = nextAccepted /\ \E to \in Status : StatusesEnd(e, to)
    BY <2>2, FinishStatuses DEF Status
  <2> QED
    BY <2>1, <2>2, AdmitStatuses, ReconcileStaleStatuses, StartHeadStatuses,
       CancelStatuses, RunnerCallStatuses
<1> QED
  BY <1>1, <1>2

-----------------------------------------------------------------------------
(* One execution holds the process tree *)

\* No step makes a second execution active: a start needs every other lease to be
\* stale, and interrupts its holder in the same transaction.
LEMMA NextOneActive == TypeOK /\ OneActive /\ [Next]_storeVars => OneActive'
<1> SUFFICES ASSUME TypeOK, OneActive, [Next]_storeVars,
                    NEW e \in Execution, NEW f \in Execution,
                    row'[e].status \in ActiveStatus, row'[f].status \in ActiveStatus
             PROVE  e = f
  BY DEF OneActive, Active
<1>1. row[e].status \in ActiveStatus /\ row[f].status \in ActiveStatus => e = f
  BY DEF OneActive, Active
<1>2. ASSUME NEW g \in Execution, StatusesAccept(g)
      PROVE  e = f
  BY <1>1, <1>2 DEF StatusesAccept, TypeOK, ActiveStatus
<1>3. ASSUME NEW at \in Time, StatusesReconcile(at)
      PROVE  e = f
  BY <1>1, <1>3 DEF StatusesReconcile, ActiveStatus
<1>4. ASSUME NEW g \in Execution, NEW at \in Time, StatusesStart(g, at)
      PROVE  e = f
  BY <1>4 DEF StatusesStart, Active, ActiveStatus
<1>5. ASSUME NEW g \in Execution, NEW to \in Status, StatusesEnd(g, to)
      PROVE  e = f
  BY <1>1, <1>5 DEF StatusesEnd, Moves, ActiveStatus
<1>6. CASE StatusesSame
  BY <1>1, <1>6 DEF StatusesSame
<1> QED
  BY <1>2, <1>3, <1>4, <1>5, <1>6, StatusStep

\* At most one execution is active, in every reachable state of every instance.
THEOREM AtMostOneActive == Spec => []OneActive
<1>1. Init => OneActive
  BY DEF Init, OneActive, Active, ActiveStatus, AbsentRow
<1> QED
  BY <1>1, TypeCorrect, NextOneActive, PTL DEF Spec

-----------------------------------------------------------------------------
(* The queue *)

QueueFinite == IsFiniteSet(Queued) /\ QueueBounded

\* Only an admission lengthens the queue, by one, after it saw a free place.
LEMMA NextQueueFinite == TypeOK /\ QueueFinite /\ [Next]_storeVars => QueueFinite'
<1> SUFFICES ASSUME TypeOK, QueueFinite, [Next]_storeVars
             PROVE  QueueFinite'
  OBVIOUS
<1>1. IsFiniteSet(Queued) /\ Cardinality(Queued) \in Nat /\ Cardinality(Queued) <= MaxQueued
  BY FS_CardinalityType DEF QueueFinite, QueueBounded
<1>2. ASSUME NEW e \in Execution, StatusesAccept(e)
      PROVE  QueueFinite'
  <2>1. Queued' = Queued \cup {e} /\ e \notin Queued
    BY <1>2 DEF StatusesAccept, Queued
  <2>2. IsFiniteSet(Queued') /\ Cardinality(Queued') = Cardinality(Queued) + 1
    BY <1>1, <2>1, FS_AddElement
  <2>3. ~(Cardinality(Queued) >= MaxQueued)
    BY <1>2 DEF StatusesAccept
  <2> QED
    BY <1>1, <2>2, <2>3, LimitsAssumption DEF QueueFinite, QueueBounded
<1>3. ASSUME Queued' \subseteq Queued
      PROVE  QueueFinite'
  <2>1. IsFiniteSet(Queued') /\ Cardinality(Queued') <= Cardinality(Queued)
    BY <1>1, <1>3, FS_Subset
  <2>2. Cardinality(Queued') \in Nat
    BY <2>1, FS_CardinalityType
  <2> QED
    BY <1>1, <2>1, <2>2, LimitsAssumption DEF QueueFinite, QueueBounded
<1>4. ASSUME NEW at \in Time, StatusesReconcile(at)
      PROVE  Queued' \subseteq Queued
  BY <1>4 DEF StatusesReconcile, Queued
<1>5. ASSUME NEW e \in Execution, NEW at \in Time, StatusesStart(e, at)
      PROVE  Queued' \subseteq Queued
  BY <1>5 DEF StatusesStart, Queued
<1>6. ASSUME NEW e \in Execution, NEW to \in Status, StatusesEnd(e, to)
      PROVE  Queued' \subseteq Queued
  BY <1>6 DEF StatusesEnd, Moves, Queued
<1>7. CASE StatusesSame
  <2>1. Queued' \subseteq Queued
    BY <1>7 DEF StatusesSame, Queued
  <2> QED
    BY <1>3, <2>1
<1> QED
  BY <1>2, <1>3, <1>4, <1>5, <1>6, <1>7, StatusStep

LEMMA AlwaysQueueFinite == Spec => []QueueFinite
<1>1. Init => QueueFinite
  <2> SUFFICES ASSUME Init
               PROVE  QueueFinite
    OBVIOUS
  <2>1. Queued = {}
    BY DEF Init, Queued, AbsentRow
  <2> QED
    BY <2>1, FS_EmptySet, LimitsAssumption DEF QueueFinite, QueueBounded
<1> QED
  BY <1>1, TypeCorrect, NextQueueFinite, PTL DEF Spec

\* At most MaxQueued requests ever wait, whatever admits, starts and cancels interleave.
THEOREM QueueNeverOverfull == Spec => []QueueBounded
<1>1. QueueFinite => QueueBounded
  BY DEF QueueFinite
<1> QED
  BY <1>1, AlwaysQueueFinite, PTL

-----------------------------------------------------------------------------
(* The store implements ExecutionControl *)

SeqBelow == \A e \in Execution : row[e].seq < nextAccepted

LEMMA AlwaysSeqBelow == Spec => []SeqBelow
<1>1. Init => SeqBelow
  BY DEF Init, SeqBelow, AbsentRow
<1>2. TypeOK /\ SeqBelow /\ [Next]_storeVars => SeqBelow'
  <2> SUFFICES ASSUME TypeOK, SeqBelow, [Next]_storeVars, NEW e \in Execution
               PROVE  row'[e].seq < nextAccepted'
    BY DEF SeqBelow
  <2>1. /\ nextAccepted \in Nat /\ row[e].seq < nextAccepted /\ row[e].seq \in Nat
    BY DEF TypeOK, SeqBelow, Row
  <2>2. ASSUME NEW f \in Execution, StatusesAccept(f), nextAccepted' = nextAccepted + 1
        PROVE  row'[e].seq < nextAccepted'
    BY <2>1, <2>2 DEF StatusesAccept
  <2>3. ASSUME row'[e].seq = row[e].seq, nextAccepted' = nextAccepted
        PROVE  row'[e].seq < nextAccepted'
    BY <2>1, <2>3
  <2> QED
    BY <2>2, <2>3, StatusStep
       DEF StatusesReconcile, StatusesStart, StatusesEnd, Moves, StatusesSame
<1> QED
  BY <1>1, <1>2, TypeCorrect, PTL DEF Spec

LEMMA InitImplements == Init => Control!Init
BY DEF Init, AbsentRow, Control!Init

\* The functions the abstract variables stand for, before and after a step.
LEMMA NextImplements ==
  ASSUME TypeOK, OneActive, QueueFinite, SeqBelow, [Next]_storeVars
  PROVE  [Control!Next]_(Control!controlVars)
<1> DEFINE status == [e \in Execution |-> row[e].status]
           ticket == [e \in Execution |-> row[e].seq]
<1>1. Control!Waiting = Queued /\ Control!Running = Active
  BY DEF Control!Waiting, Control!Running, Queued, Active, ActiveStatus
<1>2. ASSUME NEW e \in Execution, StatusesAccept(e)
      PROVE  Control!Accept(e)
  <2>1. Cardinality(Queued) < MaxQueued
    BY <1>2, FS_CardinalityType, LimitsAssumption DEF StatusesAccept, QueueFinite
  <2>2. status' = [status EXCEPT ![e] = "queued"] /\ ticket' = [ticket EXCEPT ![e] = ticket'[e]]
    BY <1>2 DEF StatusesAccept
  <2>3. \A f \in Execution \ {e} : ticket'[e] > ticket[f]
    BY <1>2 DEF StatusesAccept, SeqBelow, TypeOK, Row
  <2>4. status[e] = "absent"
    BY <1>2 DEF StatusesAccept
  <2>5. Control!Moves(e, "queued")
    BY <2>2 DEF Control!Moves
  <2>6. Control!Cardinality(Control!Waiting) < MaxQueued
    BY <1>1, <2>1 DEF Control!Cardinality, Cardinality
  <2> HIDE DEF status, ticket
  <2> QED
    BY <2>2, <2>3, <2>4, <2>5, <2>6 DEF Control!Accept, status, ticket
<1>3. ASSUME NEW at \in Time, StatusesReconcile(at)
      PROVE  (\E e \in Execution : Control!End(e)) \/ UNCHANGED <<status, ticket>>
  <2>1. ticket' = ticket
    BY <1>3 DEF StatusesReconcile
  <2>2. CASE Stale(at) = {}
    BY <1>3, <2>1, <2>2 DEF StatusesReconcile
  <2>3. ASSUME NEW e \in Stale(at)
        PROVE  Control!End(e)
    <3>1. Stale(at) = {e} /\ e \in Active
      BY <2>3 DEF OneActive, Stale
    <3>2. status' = [status EXCEPT ![e] = "interrupted"]
      BY <1>3, <3>1 DEF StatusesReconcile
    <3>3. status[e] \in ActiveStatus
      BY <3>1 DEF Active
    <3> QED
      BY <2>1, <3>2, <3>3 DEF Control!End, Control!Moves, ActiveStatus
  <2> QED
    BY <2>2, <2>3 DEF Stale, Active
<1>4. ASSUME NEW e \in Execution, NEW at \in Time, StatusesStart(e, at)
      PROVE  Control!Start(e)
  <2>1. ticket' = ticket
    BY <1>4 DEF StatusesStart
  <2>2. e \in Queued /\ \A f \in Queued : ticket[e] <= ticket[f]
    BY <1>4 DEF StatusesStart, IsFifoHead, Queued
  <2>3. Stale(at) = Active
    BY <1>4 DEF StatusesStart, Stale
  <2>4. status' = [f \in Execution |-> IF f = e THEN "running"
                                      ELSE IF f \in Active THEN "interrupted"
                                      ELSE status[f]]
    BY <1>4, <2>3 DEF StatusesStart
  <2> QED
    BY <1>1, <2>1, <2>2, <2>4 DEF Control!Start
<1>5. ASSUME NEW e \in Execution, NEW to \in Status, StatusesEnd(e, to)
      PROVE  Control!CancelWaiting(e) \/ Control!CancelRun(e) \/ Control!End(e)
  <2>1. ticket' = ticket /\ status' = [status EXCEPT ![e] = to]
    BY <1>5 DEF StatusesEnd, Moves
  <2>2. \/ e \in Queued /\ to = "cancelled"
        \/ status[e] = "running" /\ to \in {"cancellation_requested", "succeeded", "failed"}
        \/ status[e] = "cancellation_requested" /\ to \in {"cancelled", "failed"}
    BY <1>5 DEF StatusesEnd, Queued
  <2> HIDE DEF status, ticket
  <2> QED
    BY <1>1, <2>1, <2>2
       DEF Control!CancelWaiting, Control!CancelRun, Control!End, Control!Moves, status, ticket
<1>6. CASE StatusesSame
  BY <1>6 DEF StatusesSame, Control!controlVars
<1> QED
  BY <1>2, <1>3, <1>4, <1>5, <1>6, StatusStep DEF Control!Next, Control!controlVars

\* Every behaviour of the store is one its callers were promised.
THEOREM StoreImplementsControl == Spec => ImplementsControl
BY InitImplements, NextImplements, TypeCorrect, AtMostOneActive, AlwaysQueueFinite,
   AlwaysSeqBelow, PTL DEF Spec, ImplementsControl, Control!Spec

-----------------------------------------------------------------------------
(* What a step does to the log of one execution *)

Kept(e) == row'[e] = row[e] /\ updatedAt'[e] = updatedAt[e] /\ log'[e] = log[e]

SameStart(e) == row'[e].seq = row[e].seq /\ row'[e].started = row[e].started

Renewed(e) ==
  /\ row[e].status \in ActiveStatus
  /\ row'[e].status = row[e].status /\ SameStart(e)
  /\ log'[e] = log[e]

Admitted(e) ==
  /\ row[e].status = "absent" /\ row'[e].status = "queued"
  /\ row'[e].seq = nextAccepted /\ row'[e].started = None
  /\ \E x \in Event : log'[e] = <<x>>

Launched(e) ==
  /\ IsFifoHead(e) /\ row'[e].status = "running"
  /\ row'[e].seq = row[e].seq /\ row'[e].started # None
  /\ \E x \in Event : x.number = nextGeneration /\ log'[e] = Append(log[e], x)

Appended(e) ==
  /\ row[e].status \in ActiveStatus /\ SameStart(e)
  /\ \/ row'[e].status \in TerminalStatus
     \/ row'[e].status \in ActiveStatus /\ Len(log[e]) + 1 < MaxEvents
  /\ \E x \in Event : log'[e] = Append(log[e], x)

Dequeued(e) ==
  /\ row[e].status = "queued" /\ row'[e].status = "cancelled" /\ SameStart(e)
  /\ \E x, y \in Event : log'[e] = log[e] \o <<x, y>>

LEMMA TerminalEventTypeValue ==
  TerminalEventType = {"execution_succeeded", "execution_failed",
                       "execution_cancelled", "execution_interrupted"}
<1>1. /\ TerminalEvent["succeeded"] = "execution_succeeded"
      /\ TerminalEvent["failed"] = "execution_failed"
      /\ TerminalEvent["cancelled"] = "execution_cancelled"
      /\ TerminalEvent["interrupted"] = "execution_interrupted"
  BY DEF TerminalEvent
<1> QED
  BY <1>1 DEF TerminalEventType, TerminalStatus

\* A commit appends to one log and keeps the others.
LEMMA CommitLogs ==
  ASSUME TypeOK, NEW e \in Execution, NEW r \in Row, r.status \in Status,
         NEW type \in EventType, NEW at \in Time, NEW number \in Nat,
         row[e].status \in ActiveStatus, r.seq = row[e].seq, r.started = row[e].started,
         \/ r.status \in TerminalStatus
         \/ r.status \in ActiveStatus /\ type \notin TerminalEventType,
         Commit(e, r, type, at, number)
  PROVE  /\ \A f \in Execution : Kept(f) \/ Appended(f)
         /\ nextGeneration' = nextGeneration /\ nextAccepted' = nextAccepted
<1>1. LogEvent(r, type, at, number) \in Event
  BY LogEventType
<1>2. \A f \in Execution \ {e} : Kept(f)
  BY DEF Commit, Kept, TypeOK
<1>3. row'[e] = r /\ log'[e] = Append(log[e], LogEvent(r, type, at, number))
  BY DEF Commit, TypeOK
<1>4. ASSUME r.status \in ActiveStatus, type \notin TerminalEventType
      PROVE  Len(log[e]) + 1 < MaxEvents
  <2>1. Len(log[e]) + 1 <= MaxEvents - 1
    BY <1>4 DEF Commit, CommitAllowed, SlotFree
  <2>2. Len(log[e]) \in Nat
    BY DEF TypeOK
  <2> QED
    BY <2>1, <2>2, LimitsAssumption
<1>5. Appended(e)
  BY <1>1, <1>3, <1>4 DEF Appended, SameStart
<1> QED
  BY <1>2, <1>5 DEF Commit

LEMMA ReconcileLogs ==
  ASSUME TypeOK, NEW at \in Time, NEW f \in Execution,
         row'[f] = ReconciledRow(at)[f],
         updatedAt'[f] = ReconciledUpdatedAt(at)[f],
         log'[f] = ReconciledLog(at)[f]
  PROVE  Kept(f) \/ Appended(f)
<1>1. CASE f \notin Stale(at)
  BY <1>1 DEF ReconciledRow, ReconciledUpdatedAt, ReconciledLog, Kept
<1>2. CASE f \in Stale(at)
  <2> DEFINE x == LogEvent(ReconciledRow(at)[f], "execution_interrupted", at, 0)
  <2>1. /\ row'[f].status = "interrupted" /\ SameStart(f)
    BY <1>2, ReconciledFields DEF SameStart
  <2>2. ReconciledRow(at)[f] \in Row /\ ReconciledRow(at)[f].status \in Status
    BY <2>1, ReconciledType DEF Status, TerminalStatus
  <2>3. x \in Event
    BY <2>2, LogEventType, TerminalEventTypes
  <2>4. log'[f] = Append(log[f], x)
    BY <1>2 DEF ReconciledLog
  <2>5. row[f].status \in ActiveStatus
    BY <1>2 DEF Stale, Active
  <2> HIDE DEF x
  <2> QED
    BY <2>1, <2>3, <2>4, <2>5 DEF Appended, TerminalStatus
<1> QED
  BY <1>1, <1>2

LEMMA ReconcileStaleLogs ==
  ASSUME TypeOK, NEW at \in Time, ReconcileStale(at)
  PROVE  /\ \A f \in Execution : Kept(f) \/ Appended(f)
         /\ nextGeneration' = nextGeneration /\ nextAccepted' = nextAccepted
BY ReconcileLogs DEF ReconcileStale

LEMMA AdmitLogs ==
  ASSUME TypeOK, NEW e \in Execution, NEW key \in Key, NEW request \in Request,
         NEW at \in Time, Admit(e, key, request, at)
  PROVE  /\ Admitted(e) /\ \A f \in Execution \ {e} : Kept(f)
         /\ nextGeneration' = nextGeneration /\ nextAccepted' = nextAccepted + 1
<1> DEFINE r == QueuedRecord(key, request, nextAccepted, at)
           x == LogEvent(r, "request_accepted", at, nextAccepted)
<1>1. r \in Row /\ nextAccepted \in Nat
  BY QueuedRecordType DEF TypeOK
<1>2. r.status = "queued" /\ r.seq = nextAccepted /\ r.started = None
  BY QueuedRecordFields
<1>3. /\ row' = [row EXCEPT ![e] = r] /\ log' = [log EXCEPT ![e] = <<x>>]
      /\ updatedAt' = [updatedAt EXCEPT ![e] = at]
      /\ nextGeneration' = nextGeneration /\ nextAccepted' = nextAccepted + 1
      /\ row[e].status = "absent"
  BY DEF Admit, InsertRecord, Existing
<1> HIDE DEF r
<1>4. x \in Event
  BY <1>1, <1>2, LogEventType DEF Status, EventType
<1> HIDE DEF x
<1>5. row'[e] = r /\ log'[e] = <<x>>
  BY <1>3 DEF TypeOK
<1>6. \A f \in Execution \ {e} : Kept(f)
  BY <1>3 DEF TypeOK, Kept
<1> QED
  BY <1>2, <1>3, <1>4, <1>5, <1>6 DEF Admitted

LEMMA StartHeadLogs ==
  ASSUME TypeOK, NEW e \in Execution, NEW runner \in Runner, NEW at \in Time,
         StartHead(e, runner, at)
  PROVE  /\ Launched(e) /\ \A f \in Execution \ {e} : Kept(f) \/ Appended(f)
         /\ nextGeneration' = nextGeneration + 1 /\ nextAccepted' = nextAccepted
<1> DEFINE r == StartExecution(row[e], runner, nextGeneration, at)
           x == LogEvent(r, "execution_started", at, nextGeneration)
<1>1. /\ row' = [ReconciledRow(at) EXCEPT ![e] = r]
      /\ updatedAt' = [ReconciledUpdatedAt(at) EXCEPT ![e] = at]
      /\ log' = [ReconciledLog(at) EXCEPT ![e] = Append(@, x)]
      /\ nextGeneration' = nextGeneration + 1 /\ nextAccepted' = nextAccepted
      /\ IsFifoHead(e)
  BY DEF StartHead, StartAllowed
<1>2. row[e] \in Row /\ nextGeneration \in Nat
  BY DEF TypeOK
<1>3. r \in Row /\ r.status = "running" /\ r.seq = row[e].seq /\ r.started = at
  BY <1>2, StartExecutionType, StartExecutionFields
<1> HIDE DEF r
<1>4. x \in Event /\ x.number = nextGeneration
  <2>1. x \in Event
    BY <1>2, <1>3, LogEventType DEF Status, ActiveStatus, EventType
  <2> QED
    BY <2>1 DEF LogEvent
<1> HIDE DEF x
<1>5. row'[e] = r /\ log'[e] = Append(log[e], x)
  <2>1. e \notin Stale(at)
    BY <1>1 DEF IsFifoHead, Queued, Stale, Active, ActiveStatus
  <2>2. ReconciledLog(at)[e] = log[e]
    BY <2>1 DEF ReconciledLog
  <2> QED
    BY <1>1, <2>2, ReconciledType
<1>6. at # None
  BY TimeAssumption, NoneAssumption
<1>7. \A f \in Execution \ {e} :
         /\ row'[f] = ReconciledRow(at)[f] /\ updatedAt'[f] = ReconciledUpdatedAt(at)[f]
         /\ log'[f] = ReconciledLog(at)[f]
  BY <1>1, ReconciledType
<1>8. \A f \in Execution \ {e} : Kept(f) \/ Appended(f)
  BY <1>7, ReconcileLogs
<1>9. Launched(e)
  BY <1>1, <1>3, <1>4, <1>5, <1>6 DEF Launched
<1> QED
  BY <1>1, <1>8, <1>9

LEMMA CancelLogs ==
  ASSUME TypeOK, NEW e \in Execution, NEW at \in Time, Cancel(e, at)
  PROVE  /\ \A f \in Execution : Kept(f) \/ Appended(f) \/ Dequeued(f)
         /\ nextGeneration' = nextGeneration /\ nextAccepted' = nextAccepted
<1> DEFINE r == RequestCancellation(row[e], at)
<1>1. row[e] \in Row /\ r \in Row
  BY RequestCancellationType DEF TypeOK
<1>2. /\ r.status = IF row[e].status = "queued" THEN "cancelled" ELSE "cancellation_requested"
      /\ r.seq = row[e].seq /\ r.started = row[e].started
  BY <1>1, RequestCancellationFields
<1>3. CASE CancelQueued(e, at)
  <2> DEFINE x == LogEvent(r, "cancellation_requested", at, 0)
             y == LogEvent(r, "execution_cancelled", at, 0)
  <2>1. /\ row' = [row EXCEPT ![e] = r] /\ updatedAt' = [updatedAt EXCEPT ![e] = at]
        /\ log' = [log EXCEPT ![e] = @ \o <<x, y>>]
        /\ nextGeneration' = nextGeneration /\ nextAccepted' = nextAccepted
        /\ row[e].status = "queued"
    BY <1>3 DEF CancelQueued, CancelQueuedAllowed, Queued
  <2> HIDE DEF r
  <2>2. x \in Event /\ y \in Event
    <3>1. "execution_cancelled" \in EventType /\ "cancellation_requested" \in EventType
      BY TerminalEventTypeValue DEF EventType
    <3>2. r.status \in Status
      BY <1>2, <2>1 DEF Status, TerminalStatus
    <3> QED
      BY <1>1, <3>1, <3>2, LogEventType
  <2> HIDE DEF x, y
  <2>3. row'[e] = r /\ log'[e] = log[e] \o <<x, y>>
    BY <2>1 DEF TypeOK
  <2>4. Dequeued(e)
    BY <1>2, <2>1, <2>2, <2>3 DEF Dequeued, SameStart
  <2>5. \A f \in Execution \ {e} : Kept(f)
    BY <2>1 DEF Kept, TypeOK
  <2> QED
    BY <2>1, <2>4, <2>5
<1>4. CASE CancelRunning(e, at)
  <2>1. row[e].status = "running" /\ Commit(e, r, "cancellation_requested", at, 0)
    BY <1>4 DEF CancelRunning, CancelRunningAllowed
  <2>2. "cancellation_requested" \in EventType \ TerminalEventType
    BY TerminalEventTypeValue DEF EventType
  <2>3. r.status \in ActiveStatus /\ r.status \in Status /\ row[e].status \in ActiveStatus
    BY <1>2, <2>1 DEF Status, ActiveStatus
  <2> HIDE DEF r
  <2> QED
    BY <1>1, <1>2, <2>1, <2>2, <2>3, CommitLogs
<1> QED
  BY <1>3, <1>4 DEF Cancel

LEMMA FinishLogs ==
  ASSUME TypeOK, NEW e \in Execution, NEW target \in TerminalStatus,
         NEW failure \in FailureCode \cup {None}, NEW runner, NEW generation,
         NEW at \in Time, Finish(e, target, failure, runner, generation, at)
  PROVE  /\ \A f \in Execution : Kept(f) \/ Appended(f)
         /\ nextGeneration' = nextGeneration /\ nextAccepted' = nextAccepted
<1> DEFINE r == TransitionExecution(row[e], target, failure, at)
<1>1. row[e] \in Row /\ r \in Row
  BY TransitionExecutionType DEF TypeOK
<1>2. r.status = target /\ r.seq = row[e].seq /\ r.started = row[e].started
  BY <1>1, TransitionExecutionFields
<1>3. Commit(e, r, TerminalEvent[target], at, 0)
  BY DEF Finish
<1>4. row[e].status \in ActiveStatus
  BY DEF Finish, FinishAllowed, FenceHolds
<1>5. TerminalEvent[target] \in EventType /\ target \in Status
  BY TerminalEventTypes DEF Status
<1> HIDE DEF r
<1> QED
  BY <1>1, <1>2, <1>3, <1>4, <1>5, CommitLogs

LEMMA RunnerCallLogs ==
  ASSUME TypeOK, NEW e \in Execution, NEW runner, NEW generation, NEW at \in Time,
         \/ \E journey \in Journey : BindIdentity(e, journey, runner, generation, at)
         \/ \E level \in EvidenceLevel :
              AppendStageSnapshot(e, level, runner, generation, at)
         \/ RenewLease(e, runner, generation, at)
  PROVE  /\ \A f \in Execution : Kept(f) \/ Renewed(f) \/ Appended(f)
         /\ nextGeneration' = nextGeneration /\ nextAccepted' = nextAccepted
<1>1. row[e] \in Row
  BY DEF TypeOK
<1>2. row[e].status \in ActiveStatus
  BY DEF BindIdentity, BindAllowed, AppendStageSnapshot, SnapshotAllowed, RenewLease,
         RenewAllowed, FenceHolds
<1>3. row[e].status \in Status
  BY <1>2 DEF Status
<1>4. {"execution_identity_bound", "stage_snapshot_persisted"}
        \subseteq EventType \ TerminalEventType
  BY TerminalEventTypeValue DEF EventType
<1>5. ASSUME NEW journey \in Journey, BindIdentity(e, journey, runner, generation, at)
      PROVE  /\ \A f \in Execution : Kept(f) \/ Appended(f)
             /\ nextGeneration' = nextGeneration /\ nextAccepted' = nextAccepted
  <2> DEFINE r == [row[e] EXCEPT !.journey = journey]
  <2>1. /\ r \in Row /\ r.status = row[e].status
        /\ r.seq = row[e].seq /\ r.started = row[e].started
    BY <1>1 DEF Row
  <2>2. Commit(e, r, "execution_identity_bound", at, 0)
    BY <1>5 DEF BindIdentity
  <2> HIDE DEF r
  <2> QED
    BY <1>2, <1>3, <1>4, <2>1, <2>2, CommitLogs
<1>6. ASSUME NEW level \in EvidenceLevel,
             AppendStageSnapshot(e, level, runner, generation, at)
      PROVE  /\ \A f \in Execution : Kept(f) \/ Appended(f)
             /\ nextGeneration' = nextGeneration /\ nextAccepted' = nextAccepted
  <2>1. Commit(e, row[e], "stage_snapshot_persisted", at, level) /\ level \in Nat
    BY <1>6, EvidenceAssumption DEF AppendStageSnapshot
  <2> QED
    BY <1>1, <1>2, <1>3, <1>4, <2>1, CommitLogs
<1>7. CASE RenewLease(e, runner, generation, at)
  <2>1. /\ row' = [row EXCEPT ![e] = [row[e] EXCEPT !.heartbeat = at]]
        /\ \A f \in Execution \ {e} : updatedAt'[f] = updatedAt[f]
        /\ log' = log /\ nextGeneration' = nextGeneration /\ nextAccepted' = nextAccepted
    BY <1>7 DEF RenewLease, TypeOK
  <2>2. Renewed(e)
    BY <1>1, <1>2, <2>1 DEF Renewed, SameStart, TypeOK, Row
  <2>3. \A f \in Execution \ {e} : Kept(f)
    BY <2>1 DEF Kept, TypeOK
  <2> QED
    BY <2>1, <2>2, <2>3
<1> QED
  BY <1>5, <1>6, <1>7

\* The lemmas above, for a step of any kind.
LEMMA LogStep ==
  ASSUME TypeOK, [Next]_storeVars
  PROVE  \/ /\ \E e \in Execution : Admitted(e) /\ \A f \in Execution \ {e} : Kept(f)
            /\ nextGeneration' = nextGeneration /\ nextAccepted' = nextAccepted + 1
         \/ /\ \E e \in Execution :
                 Launched(e) /\ \A f \in Execution \ {e} : Kept(f) \/ Appended(f)
            /\ nextGeneration' = nextGeneration + 1 /\ nextAccepted' = nextAccepted
         \/ /\ \A f \in Execution : Kept(f) \/ Renewed(f) \/ Appended(f) \/ Dequeued(f)
            /\ nextGeneration' = nextGeneration /\ nextAccepted' = nextAccepted
<1>1. CASE UNCHANGED storeVars
  BY <1>1 DEF storeVars, Kept
<1>2. CASE Next
  <2> PICK at \in Time :
        \/ \E e \in Execution, key \in Key, request \in Request : Admit(e, key, request, at)
        \/ ReconcileStale(at)
        \/ \E e \in Execution : Cancel(e, at)
        \/ \E runner \in Runner :
             \/ StartNext(runner, at)
             \/ \E e \in Execution, generation \in Generation :
                  \/ \E journey \in Journey : BindIdentity(e, journey, runner, generation, at)
                  \/ \E level \in EvidenceLevel :
                       AppendStageSnapshot(e, level, runner, generation, at)
                  \/ RenewLease(e, runner, generation, at)
                  \/ \E target \in TerminalStatus, failure \in FailureCode \cup {None} :
                       Finish(e, target, failure, runner, generation, at)
    BY <1>2 DEF Next
  <2>1. ASSUME NEW runner \in Runner, StartNext(runner, at)
        PROVE  ReconcileStale(at) \/ \E e \in Execution : StartHead(e, runner, at)
    BY <2>1 DEF StartNext, Queued
  <2> QED
    BY <2>1, AdmitLogs, ReconcileStaleLogs, StartHeadLogs, CancelLogs, FinishLogs,
       RunnerCallLogs
<1> QED
  BY <1>1, <1>2

-----------------------------------------------------------------------------
(* The evidence of an execution *)

LogShape ==
  \A e \in Execution :
    /\ row[e].status = "absent" => log[e] = << >> /\ row[e].started = None
    /\ row[e].status = "queued" => Len(log[e]) = 1 /\ row[e].started = None
    /\ row[e].status \in ActiveStatus => Len(log[e]) < MaxEvents
    /\ row[e].started # None => /\ Len(log[e]) >= 2
                                /\ log[e][2].number < nextGeneration

LEMMA NextLogShape == TypeOK /\ LogShape /\ [Next]_storeVars => LogShape'
<1> SUFFICES ASSUME TypeOK, LogShape, [Next]_storeVars, NEW e \in Execution
             PROVE  /\ row'[e].status = "absent" => log'[e] = << >> /\ row'[e].started = None
                    /\ row'[e].status = "queued" => Len(log'[e]) = 1 /\ row'[e].started = None
                    /\ row'[e].status \in ActiveStatus => Len(log'[e]) < MaxEvents
                    /\ row'[e].started # None => /\ Len(log'[e]) >= 2
                                                 /\ log'[e][2].number < nextGeneration'
  BY DEF LogShape
<1> DEFINE Shape == /\ row'[e].status = "absent" => log'[e] = << >> /\ row'[e].started = None
                    /\ row'[e].status = "queued" => Len(log'[e]) = 1 /\ row'[e].started = None
                    /\ row'[e].status \in ActiveStatus => Len(log'[e]) < MaxEvents
                    /\ row'[e].started # None => /\ Len(log'[e]) >= 2
                                                 /\ log'[e][2].number < nextGeneration'
<1>1. /\ row[e].status = "absent" => log[e] = << >> /\ row[e].started = None
      /\ row[e].status = "queued" => Len(log[e]) = 1 /\ row[e].started = None
      /\ row[e].status \in ActiveStatus => Len(log[e]) < MaxEvents
      /\ row[e].started # None => Len(log[e]) >= 2 /\ log[e][2].number < nextGeneration
      /\ log[e] \in Seq(Event) /\ nextGeneration \in Nat
  BY DEF LogShape, TypeOK
<1>2. /\ nextGeneration' \in Nat /\ nextGeneration' >= nextGeneration
      /\ \A g \in Nat : g < nextGeneration => g < nextGeneration'
  BY LogStep, <1>1
<1>3. row[e].started # None => log[e][2].number \in Nat
  <2> SUFFICES ASSUME row[e].started # None
               PROVE  log[e][2] \in Event
    BY DEF Event
  <2> QED
    BY <1>1
<1>4. CASE Kept(e) \/ Renewed(e)
  BY <1>1, <1>2, <1>3, <1>4 DEF Kept, Renewed, SameStart
<1>5. CASE Admitted(e)
  BY <1>5, LimitsAssumption DEF Admitted, ActiveStatus
<1>6. CASE Launched(e) /\ nextGeneration' = nextGeneration + 1
  <2>1. row[e].status = "queued"
    BY <1>6 DEF Launched, IsFifoHead, Queued
  <2>2. PICK x \in Event : x.number = nextGeneration /\ log'[e] = Append(log[e], x)
    BY <1>6 DEF Launched
  <2>3. Len(log'[e]) = 2 /\ log'[e][2] = x
    BY <1>1, <2>1, <2>2
  <2> QED
    BY <1>1, <1>6, <2>2, <2>3, LimitsAssumption DEF Launched, ActiveStatus
<1>7. CASE Appended(e)
  <2>1. PICK x \in Event : log'[e] = Append(log[e], x)
    BY <1>7 DEF Appended
  <2>2. /\ Len(log'[e]) = Len(log[e]) + 1
        /\ Len(log[e]) >= 2 => log'[e][2] = log[e][2]
    BY <1>1, <2>1
  <2>3. row'[e].status \notin {"absent", "queued"}
    BY <1>7 DEF Appended, ActiveStatus, TerminalStatus
  <2>4. row'[e].status \in ActiveStatus => Len(log'[e]) < MaxEvents
    BY <1>7, <2>2 DEF Appended, ActiveStatus, TerminalStatus
  <2>5. row'[e].started = row[e].started
    BY <1>7 DEF Appended, SameStart
  <2>6. Len(log[e]) \in Nat
    BY <1>1
  <2> QED
    BY <1>1, <1>2, <1>3, <2>2, <2>3, <2>4, <2>5, <2>6
<1>8. CASE Dequeued(e)
  BY <1>1, <1>8 DEF Dequeued, SameStart, ActiveStatus
<1> QED
  BY <1>4, <1>5, <1>6, <1>7, <1>8, LogStep

LEMMA AlwaysLogShape == Spec => []LogShape
<1>1. Init => LogShape
  BY DEF Init, LogShape, AbsentRow, ActiveStatus
<1> QED
  BY <1>1, TypeCorrect, NextLogShape, PTL DEF Spec

\* No run of snapshots, and no cancellation, ever uses the slot of the terminal event.
THEOREM TerminalSlotAlwaysKept == Spec => []TerminalSlotKept
<1>1. TypeOK /\ LogShape => TerminalSlotKept
  <2> SUFFICES ASSUME TypeOK, LogShape, NEW e \in Execution,
                      row[e].status # "absent", row[e].status \notin TerminalStatus
               PROVE  Len(log[e]) < MaxEvents
    BY DEF TerminalSlotKept, Existing
  <2>1. row[e] \in Row
    BY DEF TypeOK
  <2>2. row[e].status = "queued" \/ row[e].status \in ActiveStatus
    BY <2>1 DEF Row, Status
  <2>3. /\ row[e].status = "queued" => Len(log[e]) = 1
        /\ row[e].status \in ActiveStatus => Len(log[e]) < MaxEvents
    BY DEF LogShape
  <2>4. 1 < MaxEvents
    BY LimitsAssumption
  <2> QED
    BY <2>2, <2>3, <2>4
<1> QED
  BY <1>1, TypeCorrect, AlwaysLogShape, PTL

\* No step rewrites or removes a committed event, or touches an ended execution.
THEOREM EvidenceAlwaysKept == Spec => EvidenceKept
<1>1. ASSUME TypeOK, LogShape, [Next]_storeVars, NEW e \in Execution
      PROVE  /\ Len(log'[e]) >= Len(log[e])
             /\ SubSeq(log'[e], 1, Len(log[e])) = log[e]
             /\ row[e].status \in TerminalStatus =>
                  row'[e] = row[e] /\ updatedAt'[e] = updatedAt[e] /\ log'[e] = log[e]
  <2>1. log[e] \in Seq(Event) /\ Len(log[e]) \in Nat
    BY <1>1 DEF TypeOK
  <2>2. CASE Kept(e)
    BY <2>1, <2>2 DEF Kept
  <2>3. CASE Renewed(e)
    BY <2>1, <2>3 DEF Renewed, ActiveStatus, TerminalStatus
  <2>4. CASE Admitted(e)
    <3>1. log[e] = << >> /\ row[e].status \notin TerminalStatus
      BY <1>1, <2>4 DEF Admitted, LogShape, TerminalStatus
    <3>2. PICK x \in Event : log'[e] = <<x>>
      BY <2>4 DEF Admitted
    <3> QED
      BY <3>1, <3>2
  <2>5. CASE Launched(e) \/ Appended(e)
    <3>1. row[e].status \notin TerminalStatus
      BY <2>5 DEF Launched, IsFifoHead, Queued, Appended, ActiveStatus, TerminalStatus
    <3>2. PICK x \in Event : log'[e] = Append(log[e], x)
      BY <2>5 DEF Launched, Appended
    <3> QED
      BY <2>1, <3>1, <3>2
  <2>6. CASE Dequeued(e)
    <3>1. row[e].status \notin TerminalStatus
      BY <2>6 DEF Dequeued, TerminalStatus
    <3>2. PICK x \in Event, y \in Event : log'[e] = log[e] \o <<x, y>>
      BY <2>6 DEF Dequeued
    <3> QED
      BY <2>1, <3>1, <3>2
  <2> QED
    BY <1>1, <2>2, <2>3, <2>4, <2>5, <2>6, LogStep
<1>2. TypeOK /\ LogShape /\ [Next]_storeVars =>
        [\A e \in Execution :
           /\ Len(log'[e]) >= Len(log[e])
           /\ SubSeq(log'[e], 1, Len(log[e])) = log[e]
           /\ row[e].status \in TerminalStatus =>
                row'[e] = row[e] /\ updatedAt'[e] = updatedAt[e] /\ log'[e] = log[e]]_storeVars
  BY <1>1
<1> QED
  BY <1>2, TypeCorrect, AlwaysLogShape, PTL DEF Spec, EvidenceKept

-----------------------------------------------------------------------------
(* Leases are handed out in the order of acceptance *)

SeqDistinct == \A e, f \in Existing : row[e].seq = row[f].seq => e = f

LEMMA AlwaysSeqDistinct == Spec => []SeqDistinct
<1>1. Init => SeqDistinct
  BY DEF Init, SeqDistinct, Existing, AbsentRow
<1>2. TypeOK /\ SeqBelow /\ SeqDistinct /\ [Next]_storeVars => SeqDistinct'
  <2> SUFFICES ASSUME TypeOK, SeqBelow, SeqDistinct, [Next]_storeVars,
                      NEW e \in Execution, NEW f \in Execution,
                      row'[e].status # "absent", row'[f].status # "absent",
                      row'[e].seq = row'[f].seq
               PROVE  e = f
    BY DEF SeqDistinct, Existing
  <2>1. /\ row[e].seq < nextAccepted /\ row[f].seq < nextAccepted
        /\ row[e].seq \in Nat /\ row[f].seq \in Nat /\ nextAccepted \in Nat
    BY DEF SeqBelow, TypeOK, Row
  <2>2. row[e].status # "absent" /\ row[f].status # "absent" /\ row[e].seq = row[f].seq => e = f
    BY DEF SeqDistinct, Existing
  <2>3. ASSUME NEW g \in Execution, Admitted(g), \A h \in Execution \ {g} : Kept(h)
        PROVE  e = f
    BY <2>1, <2>2, <2>3 DEF Admitted, Kept
  <2>4. ASSUME NEW h \in Execution,
               Kept(h) \/ Renewed(h) \/ Appended(h) \/ Dequeued(h) \/ Launched(h)
        PROVE  /\ row'[h].seq = row[h].seq
               /\ row'[h].status # "absent" => row[h].status # "absent"
    BY <2>4 DEF Kept, Renewed, Appended, Dequeued, Launched, SameStart, ActiveStatus,
                IsFifoHead, Queued
  <2> QED
    BY <2>2, <2>3, <2>4, LogStep
<1> QED
  BY <1>1, <1>2, TypeCorrect, AlwaysSeqBelow, PTL DEF Spec

\* What a step leaves of an execution that was, or was not, started.
LEMMA StartedStep ==
  ASSUME TypeOK, LogShape, NEW e \in Execution,
         Kept(e) \/ Renewed(e) \/ Appended(e) \/ Dequeued(e)
  PROVE  /\ row'[e].seq = row[e].seq
         /\ (e \in Started)' <=> e \in Started
         /\ e \in Started => (StartedWith(e))' = StartedWith(e)
         /\ (e \in Queued)' => e \in Queued
<1>1. row'[e].seq = row[e].seq /\ row'[e].started = row[e].started
  BY DEF Kept, Renewed, Appended, Dequeued, SameStart
<1>2. row'[e].status # "absent" <=> row[e].status # "absent"
  BY DEF Kept, Renewed, Appended, Dequeued, ActiveStatus, TerminalStatus
<1>3. row'[e].status = "queued" => row[e].status = "queued"
  BY DEF Kept, Renewed, Appended, Dequeued, ActiveStatus, TerminalStatus
<1>4. log[e] \in Seq(Event)
  BY DEF TypeOK
<1>5. ASSUME row[e].started # None
      PROVE  log'[e][2] = log[e][2]
  <2>1. Len(log[e]) >= 2 /\ row[e].status # "queued"
    BY <1>5 DEF LogShape
  <2>2. CASE Kept(e) \/ Renewed(e)
    BY <2>2 DEF Kept, Renewed
  <2>3. CASE Appended(e)
    BY <1>4, <2>1, <2>3 DEF Appended
  <2> QED
    BY <2>1, <2>2, <2>3 DEF Dequeued
<1> QED
  BY <1>1, <1>2, <1>3, <1>5 DEF Started, Existing, StartedWith, Queued

LEMMA NextFifoGenerations ==
  ASSUME TypeOK, LogShape, SeqBelow, SeqDistinct, FifoGenerations, [Next]_storeVars
  PROVE  FifoGenerations'
<1>1. /\ \A e \in Execution : row[e].seq \in Nat /\ row[e].seq < nextAccepted
      /\ nextAccepted \in Nat /\ nextGeneration \in Nat
  BY DEF TypeOK, Row, SeqBelow
<1>2. \A e \in Started : e \in Execution /\ StartedWith(e) < nextGeneration
  BY DEF LogShape, Started, Existing, StartedWith
<1>3. \A e \in Queued : e \in Execution /\ e \notin Started
  BY DEF LogShape, Started, Queued
<1>4. ASSUME \A e \in Execution : Kept(e) \/ Renewed(e) \/ Appended(e) \/ Dequeued(e)
      PROVE  FifoGenerations'
  BY <1>4, StartedStep DEF FifoGenerations, Started, Existing, Queued
<1>5. ASSUME NEW g \in Execution, Admitted(g), \A f \in Execution \ {g} : Kept(f)
      PROVE  FifoGenerations'
  <2>1. (g \notin Started)' /\ row'[g].seq = nextAccepted
    BY <1>5 DEF Admitted, Started
  <2>2. \A e \in Execution \ {g} : /\ row'[e].seq = row[e].seq
                                   /\ (e \in Started)' <=> e \in Started
                                   /\ e \in Started => (StartedWith(e))' = StartedWith(e)
                                   /\ (e \in Queued)' => e \in Queued
    BY <1>5, StartedStep
  <2> QED
    BY <1>1, <2>1, <2>2 DEF FifoGenerations, Started, Existing, Queued
<1>6. ASSUME NEW g \in Execution, Launched(g),
             \A f \in Execution \ {g} : Kept(f) \/ Appended(f)
      PROVE  FifoGenerations'
  <2>1. \A e \in Execution \ {g} : /\ row'[e].seq = row[e].seq
                                   /\ (e \in Started)' <=> e \in Started
                                   /\ e \in Started => (StartedWith(e))' = StartedWith(e)
                                   /\ (e \in Queued)' => e \in Queued
    BY <1>6, StartedStep
  <2>2. /\ g \in Queued /\ (g \notin Queued)' /\ row'[g].seq = row[g].seq
        /\ \A f \in Queued : row[g].seq <= row[f].seq
    BY <1>6 DEF Launched, IsFifoHead, Queued
  <2>3. (StartedWith(g))' = nextGeneration
    <3>1. PICK x \in Event : x.number = nextGeneration /\ log'[g] = Append(log[g], x)
      BY <1>6 DEF Launched
    <3>2. log[g] \in Seq(Event) /\ Len(log[g]) = 1
      BY <2>2 DEF TypeOK, LogShape, Queued
    <3> QED
      BY <3>1, <3>2 DEF StartedWith
  <2>4. \A e \in Started : row[e].seq < row[g].seq
    BY <2>2 DEF FifoGenerations
  <2>5. \A f \in Queued : f # g => row[g].seq < row[f].seq
    BY <1>1, <2>2 DEF SeqDistinct, Existing, Queued
  <2> QED
    BY <1>1, <1>2, <1>3, <2>1, <2>2, <2>3, <2>4, <2>5
       DEF FifoGenerations, Started, Existing, Queued
<1> QED
  BY <1>4, <1>5, <1>6, LogStep

\* In every reachable state of every instance, leases follow the order of acceptance.
THEOREM LeasesAreFifo == Spec => []FifoGenerations
<1>1. Init => FifoGenerations
  BY DEF Init, FifoGenerations, Started, Existing, AbsentRow
<1> QED
  BY <1>1, NextFifoGenerations, TypeCorrect, AlwaysLogShape, AlwaysSeqBelow,
     AlwaysSeqDistinct, PTL DEF Spec

-----------------------------------------------------------------------------
(* A key stands for one execution *)

\* None of these executions appears or changes its key.
KeysKept(S) ==
  \A f \in S : /\ row'[f].key = row[f].key
               /\ row'[f].status # "absent" => row[f].status # "absent"

\* The records of the lifecycle contracts keep the key, and are of no new execution.
LEMMA RecordKeys ==
  ASSUME NEW r \in Row, NEW runner, NEW generation, NEW at, NEW target, NEW failure
  PROVE  /\ StartExecution(r, runner, generation, at).key = r.key
         /\ RequestCancellation(r, at).key = r.key
         /\ TransitionExecution(r, target, failure, at).key = r.key
<1>1. StartExecution(r, runner, generation, at).key = r.key
  BY DEF StartExecution, Row
<1>2. RequestCancellation(r, at).key = r.key
  BY DEF RequestCancellation, Row
<1>3. TransitionExecution(r, target, failure, at).key = r.key
  BY DEF TransitionExecution, WithoutLease, Row
<1> QED
  BY <1>1, <1>2, <1>3

LEMMA ReconciledKeys ==
  ASSUME TypeOK, NEW at \in Time, NEW e \in Execution
  PROVE  /\ ReconciledRow(at)[e].key = row[e].key
         /\ ReconciledRow(at)[e].status # "absent" => row[e].status # "absent"
<1>1. row[e] \in Row
  BY DEF TypeOK
<1>2. e \in Stale(at) => row[e].status # "absent"
  BY DEF Stale, Active, ActiveStatus
<1> QED
  BY <1>1, <1>2, RecordKeys DEF ReconciledRow, InterruptStaleExecution

\* A step that gives one existing execution a record with its key.
LEMMA UpdateKeepsKeys ==
  ASSUME TypeOK, NEW e \in Execution, NEW r, r.key = row[e].key, row[e].status # "absent",
         row' = [row EXCEPT ![e] = r]
  PROVE  KeysKept(Execution)
BY DEF KeysKept, TypeOK

LEMMA AdmitKeys ==
  ASSUME TypeOK, NEW e \in Execution, NEW key \in Key, NEW request \in Request,
         NEW at \in Time, Admit(e, key, request, at)
  PROVE  /\ KeysKept(Execution \ {e})
         /\ row'[e].key = key
         /\ \A f \in Existing : row[f].key # key
<1>1. row' = [row EXCEPT ![e] = QueuedRecord(key, request, nextAccepted, at)]
  BY DEF Admit, InsertRecord
<1>2. QueuedRecord(key, request, nextAccepted, at).key = key
  BY DEF QueuedRecord, AbsentRow
<1>3. AdmissionDecision(key, request) = "accept"
  BY DEF Admit, InsertRecord
<1>4. \A f \in Existing : row[f].key # key
  BY <1>3 DEF AdmissionDecision
<1> QED
  BY <1>1, <1>2, <1>4 DEF KeysKept, TypeOK

LEMMA StartHeadKeys ==
  ASSUME TypeOK, NEW e \in Execution, NEW runner \in Runner, NEW at \in Time,
         StartHead(e, runner, at)
  PROVE  KeysKept(Execution)
<1> DEFINE r == StartExecution(row[e], runner, nextGeneration, at)
<1>1. row' = [ReconciledRow(at) EXCEPT ![e] = r]
  BY DEF StartHead
<1>2. row[e] \in Row /\ row[e].status # "absent"
  BY DEF TypeOK, StartHead, StartAllowed, IsFifoHead, Queued
<1>3. r.key = row[e].key
  BY <1>2, RecordKeys
<1> HIDE DEF r
<1>4. \A f \in Execution : row'[f] = IF f = e THEN r ELSE ReconciledRow(at)[f]
  BY <1>1, ReconciledType
<1> QED
  BY <1>2, <1>3, <1>4, ReconciledKeys DEF KeysKept

LEMMA CallKeys ==
  ASSUME TypeOK, NEW e \in Execution, NEW runner, NEW generation, NEW at \in Time,
         \/ Cancel(e, at)
         \/ \E journey \in Journey : BindIdentity(e, journey, runner, generation, at)
         \/ \E level \in EvidenceLevel : AppendStageSnapshot(e, level, runner, generation, at)
         \/ RenewLease(e, runner, generation, at)
         \/ \E target \in TerminalStatus, failure \in FailureCode \cup {None} :
              Finish(e, target, failure, runner, generation, at)
  PROVE  KeysKept(Execution)
<1>1. row[e] \in Row
  BY DEF TypeOK
<1>2. CASE Cancel(e, at)
  <2>1. row' = [row EXCEPT ![e] = RequestCancellation(row[e], at)]
    BY <1>2 DEF Cancel, CancelQueued, CancelRunning, Commit
  <2>2. row[e].status # "absent"
    BY <1>2 DEF Cancel, CancelQueued, CancelQueuedAllowed, CancelRunning, CancelRunningAllowed,
                Queued
  <2> QED
    BY <1>1, <2>1, <2>2, RecordKeys, UpdateKeepsKeys
<1>3. ASSUME FenceHolds(row[e], runner, generation, at)
      PROVE  row[e].status # "absent"
  BY <1>3 DEF FenceHolds, ActiveStatus
<1>4. ASSUME NEW journey \in Journey, BindIdentity(e, journey, runner, generation, at)
      PROVE  KeysKept(Execution)
  <2>1. row' = [row EXCEPT ![e] = [row[e] EXCEPT !.journey = journey]]
    BY <1>4 DEF BindIdentity, Commit
  <2>2. [row[e] EXCEPT !.journey = journey].key = row[e].key
    BY <1>1 DEF Row
  <2> QED
    BY <1>3, <1>4, <2>1, <2>2, UpdateKeepsKeys DEF BindIdentity, BindAllowed
<1>5. ASSUME NEW level \in EvidenceLevel,
             AppendStageSnapshot(e, level, runner, generation, at)
      PROVE  KeysKept(Execution)
  <2>1. row' = [row EXCEPT ![e] = row[e]]
    BY <1>5 DEF AppendStageSnapshot, Commit
  <2> QED
    BY <1>3, <1>5, <2>1, UpdateKeepsKeys DEF AppendStageSnapshot, SnapshotAllowed
<1>6. CASE RenewLease(e, runner, generation, at)
  <2>1. row' = [row EXCEPT ![e] = [row[e] EXCEPT !.heartbeat = at]]
    BY <1>6 DEF RenewLease, TypeOK
  <2>2. [row[e] EXCEPT !.heartbeat = at].key = row[e].key
    BY <1>1 DEF Row
  <2> QED
    BY <1>3, <1>6, <2>1, <2>2, UpdateKeepsKeys DEF RenewLease, RenewAllowed
<1>7. ASSUME NEW target \in TerminalStatus, NEW failure \in FailureCode \cup {None},
             Finish(e, target, failure, runner, generation, at)
      PROVE  KeysKept(Execution)
  <2>1. row' = [row EXCEPT ![e] = TransitionExecution(row[e], target, failure, at)]
    BY <1>7 DEF Finish, Commit
  <2>2. row[e].status # "absent"
    BY <1>3, <1>7 DEF Finish, FinishAllowed
  <2>3. TransitionExecution(row[e], target, failure, at).key = row[e].key
    BY <1>1, RecordKeys
  <2> QED
    BY <2>1, <2>2, <2>3, UpdateKeepsKeys
<1> QED
  BY <1>2, <1>4, <1>5, <1>6, <1>7

\* A step admits one execution with a key that no other has, or leaves the keys alone.
LEMMA KeyStep ==
  ASSUME TypeOK, [Next]_storeVars
  PROVE  \/ KeysKept(Execution)
         \/ \E e \in Execution : 
               KeysKept(Execution \ {e}) /\ \A f \in Existing : row[f].key # row'[e].key
<1>1. CASE UNCHANGED storeVars
  BY <1>1 DEF storeVars, KeysKept
<1>2. CASE Next
  <2> PICK at \in Time :
        \/ \E e \in Execution, key \in Key, request \in Request : Admit(e, key, request, at)
        \/ ReconcileStale(at)
        \/ \E e \in Execution : Cancel(e, at)
        \/ \E runner \in Runner :
             \/ StartNext(runner, at)
             \/ \E e \in Execution, generation \in Generation :
                  \/ \E journey \in Journey : BindIdentity(e, journey, runner, generation, at)
                  \/ \E level \in EvidenceLevel :
                       AppendStageSnapshot(e, level, runner, generation, at)
                  \/ RenewLease(e, runner, generation, at)
                  \/ \E target \in TerminalStatus, failure \in FailureCode \cup {None} :
                       Finish(e, target, failure, runner, generation, at)
    BY <1>2 DEF Next
  <2>1. ASSUME ReconcileStale(at)
        PROVE  KeysKept(Execution)
    BY <2>1, ReconciledKeys DEF ReconcileStale, KeysKept
  <2>2. ASSUME NEW runner \in Runner, StartNext(runner, at)
        PROVE  ReconcileStale(at) \/ \E e \in Execution : StartHead(e, runner, at)
    BY <2>2 DEF StartNext, Queued
  <2>3. ASSUME NEW e \in Execution, NEW key \in Key, NEW request \in Request,
               Admit(e, key, request, at)
        PROVE  KeysKept(Execution \ {e}) /\ \A f \in Existing : row[f].key # row'[e].key
    BY <2>3, AdmitKeys
  <2>4. ASSUME NEW runner \in Runner, StartNext(runner, at)
        PROVE  KeysKept(Execution)
    BY <2>1, <2>2, <2>4, StartHeadKeys
  <2> QED
    BY <2>1, <2>3, <2>4, CallKeys
<1> QED
  BY <1>1, <1>2

\* However many callers look a key up and ask for admission, it gets one execution.
THEOREM KeysAreUsedOnce == Spec => []OneExecutionPerKey
<1>1. Init => OneExecutionPerKey
  BY DEF Init, OneExecutionPerKey, Existing, AbsentRow
<1>2. TypeOK /\ OneExecutionPerKey /\ [Next]_storeVars => OneExecutionPerKey'
  <2> SUFFICES ASSUME TypeOK, OneExecutionPerKey, [Next]_storeVars,
                      NEW e \in Execution, NEW f \in Execution,
                      row'[e].status # "absent", row'[f].status # "absent",
                      row'[e].key = row'[f].key
               PROVE  e = f
    BY DEF OneExecutionPerKey, Existing
  <2>1. CASE KeysKept(Execution)
    BY <2>1 DEF KeysKept, OneExecutionPerKey, Existing
  <2>2. ASSUME NEW x \in Execution, KeysKept(Execution \ {x}),
               \A g \in Existing : row[g].key # row'[x].key
        PROVE  e = f
    BY <2>2 DEF KeysKept, OneExecutionPerKey, Existing
  <2> QED
    BY <2>1, <2>2, KeyStep
<1> QED
  BY <1>1, <1>2, TypeCorrect, PTL DEF Spec

-----------------------------------------------------------------------------
(* What each call does, column by column *)

\* One row rewritten, one event appended, the rest of the store kept.
LEMMA CommitEffect ==
  ASSUME TypeOK, NEW e \in Execution, NEW r, NEW type, NEW at, NEW number,
         Commit(e, r, type, at, number)
  PROVE  /\ row'[e] = r /\ updatedAt'[e] = at
         /\ log'[e] = Append(log[e], LogEvent(r, type, at, number))
         /\ \A f \in Execution \ {e} : Kept(f)
         /\ Chronological(r) /\ at >= updatedAt[e] /\ SlotFree(log[e], type)
<1>1. /\ row' = [row EXCEPT ![e] = r]
      /\ updatedAt' = [updatedAt EXCEPT ![e] = at]
      /\ log' = [log EXCEPT ![e] = Append(@, LogEvent(r, type, at, number))]
      /\ Chronological(r) /\ at >= updatedAt[e] /\ SlotFree(log[e], type)
  BY DEF Commit, CommitAllowed, UpdateAllowed
<1>2. e \in DOMAIN row /\ e \in DOMAIN updatedAt /\ e \in DOMAIN log
  BY DEF TypeOK
<1>3. \A f \in Execution \ {e} : Kept(f)
  BY <1>1 DEF Kept, TypeOK
<1> QED
  BY <1>1, <1>2, <1>3

LEMMA AdmitEffect ==
  ASSUME TypeOK, NEW e \in Execution, NEW key, NEW request, NEW at,
         Admit(e, key, request, at)
  PROVE  LET r == QueuedRecord(key, request, nextAccepted, at)
         IN /\ row[e].status = "absent"
            /\ row'[e] = r /\ updatedAt'[e] = at
            /\ log'[e] = <<LogEvent(r, "request_accepted", at, nextAccepted)>>
            /\ \A f \in Execution \ {e} : Kept(f)
<1> DEFINE r == QueuedRecord(key, request, nextAccepted, at)
           x == LogEvent(r, "request_accepted", at, nextAccepted)
<1>1. /\ row' = [row EXCEPT ![e] = r] /\ updatedAt' = [updatedAt EXCEPT ![e] = at]
      /\ log' = [log EXCEPT ![e] = <<x>>]
      /\ row[e].status = "absent"
  BY DEF Admit, InsertRecord, Existing
<1> HIDE DEF r, x
<1>2. row'[e] = r /\ updatedAt'[e] = at /\ log'[e] = <<x>>
  BY <1>1 DEF TypeOK
<1>3. \A f \in Execution \ {e} : Kept(f)
  BY <1>1 DEF Kept, TypeOK
<1> QED
  BY <1>1, <1>2, <1>3 DEF r, x

\* A lease found stale is taken away, and the end of its execution logged.
Interrupted(f, at) ==
  LET r == InterruptStaleExecution(row[f], at)
  IN /\ row[f].status \in ActiveStatus
     /\ row'[f] = r /\ updatedAt'[f] = at
     /\ log'[f] = Append(log[f], LogEvent(r, "execution_interrupted", at, 0))
     /\ Chronological(r) /\ at >= updatedAt[f]

LEMMA ReconciledEffect ==
  ASSUME TypeOK, NEW at \in Time, ReconcileAllowed(at), NEW f \in Execution,
         row'[f] = ReconciledRow(at)[f],
         updatedAt'[f] = ReconciledUpdatedAt(at)[f],
         log'[f] = ReconciledLog(at)[f]
  PROVE  Kept(f) \/ Interrupted(f, at)
<1>1. CASE f \notin Stale(at)
  BY <1>1 DEF ReconciledRow, ReconciledUpdatedAt, ReconciledLog, Kept
<1>2. CASE f \in Stale(at)
  <2>1. row[f].status \in ActiveStatus
    BY <1>2 DEF Stale, Active
  <2>2. ReconciledRow(at)[f] = InterruptStaleExecution(row[f], at)
    BY <1>2 DEF ReconciledRow
  <2>3. UpdateAllowed(f, InterruptStaleExecution(row[f], at), at)
    BY <1>2 DEF ReconcileAllowed
  <2>4. /\ updatedAt'[f] = at
        /\ log'[f] = Append(log[f], LogEvent(ReconciledRow(at)[f], "execution_interrupted", at, 0))
    BY <1>2 DEF ReconciledUpdatedAt, ReconciledLog
  <2> QED
    BY <2>1, <2>2, <2>3, <2>4 DEF Interrupted, UpdateAllowed
<1> QED
  BY <1>1, <1>2

LEMMA ReconcileStaleEffect ==
  ASSUME TypeOK, NEW at \in Time, ReconcileStale(at)
  PROVE  \A f \in Execution : Kept(f) \/ Interrupted(f, at)
BY ReconciledEffect DEF ReconcileStale

LEMMA StartHeadEffect ==
  ASSUME TypeOK, NEW e \in Execution, NEW runner, NEW at \in Time, StartHead(e, runner, at)
  PROVE  LET r == StartExecution(row[e], runner, nextGeneration, at)
         IN /\ row[e].status = "queued"
            /\ at >= row[e].accepted /\ at >= updatedAt[e]
            /\ row'[e] = r /\ updatedAt'[e] = at
            /\ log'[e] = Append(log[e], LogEvent(r, "execution_started", at, nextGeneration))
            /\ \A f \in Execution \ {e} : Kept(f) \/ Interrupted(f, at)
<1> DEFINE r == StartExecution(row[e], runner, nextGeneration, at)
           x == LogEvent(r, "execution_started", at, nextGeneration)
<1>1. /\ row' = [ReconciledRow(at) EXCEPT ![e] = r]
      /\ updatedAt' = [ReconciledUpdatedAt(at) EXCEPT ![e] = at]
      /\ log' = [ReconciledLog(at) EXCEPT ![e] = Append(@, x)]
      /\ IsFifoHead(e) /\ ReconcileAllowed(at) /\ at >= row[e].accepted /\ at >= updatedAt[e]
  BY DEF StartHead, StartAllowed
<1>2. row[e].status = "queued"
  BY <1>1 DEF IsFifoHead, Queued
<1>3. ReconciledLog(at)[e] = log[e]
  BY <1>2 DEF ReconciledLog, Stale, Active, ActiveStatus
<1> HIDE DEF r, x
<1>4. row'[e] = r /\ updatedAt'[e] = at /\ log'[e] = Append(log[e], x)
  BY <1>1, <1>3, ReconciledType
<1>5. \A f \in Execution \ {e} :
         /\ row'[f] = ReconciledRow(at)[f] /\ updatedAt'[f] = ReconciledUpdatedAt(at)[f]
         /\ log'[f] = ReconciledLog(at)[f]
  BY <1>1, ReconciledType
<1>6. \A f \in Execution \ {e} : Kept(f) \/ Interrupted(f, at)
  BY <1>1, <1>5, ReconciledEffect
<1> QED
  BY <1>1, <1>2, <1>4, <1>6 DEF r, x

LEMMA CancelQueuedEffect ==
  ASSUME TypeOK, NEW e \in Execution, NEW at, CancelQueued(e, at)
  PROVE  LET r == RequestCancellation(row[e], at)
         IN /\ row[e].status = "queued"
            /\ row'[e] = r /\ updatedAt'[e] = at
            /\ log'[e] = log[e] \o <<LogEvent(r, "cancellation_requested", at, 0),
                                     LogEvent(r, "execution_cancelled", at, 0)>>
            /\ \A f \in Execution \ {e} : Kept(f)
            /\ Chronological(r) /\ at >= updatedAt[e]
<1> DEFINE r == RequestCancellation(row[e], at)
           x == LogEvent(r, "cancellation_requested", at, 0)
           y == LogEvent(r, "execution_cancelled", at, 0)
<1>1. /\ row' = [row EXCEPT ![e] = r] /\ updatedAt' = [updatedAt EXCEPT ![e] = at]
      /\ log' = [log EXCEPT ![e] = @ \o <<x, y>>]
      /\ Chronological(r) /\ at >= updatedAt[e] /\ row[e].status = "queued"
  BY DEF CancelQueued, CancelQueuedAllowed, CommitAllowed, UpdateAllowed, Queued
<1> HIDE DEF r, x, y
<1>2. row'[e] = r /\ updatedAt'[e] = at /\ log'[e] = log[e] \o <<x, y>>
  BY <1>1 DEF TypeOK
<1>3. \A f \in Execution \ {e} : Kept(f)
  BY <1>1 DEF Kept, TypeOK
<1> QED
  BY <1>1, <1>2, <1>3 DEF r, x, y

LEMMA RenewLeaseEffect ==
  ASSUME TypeOK, NEW e \in Execution, NEW runner, NEW generation, NEW at,
         RenewLease(e, runner, generation, at)
  PROVE  /\ FenceHolds(row[e], runner, generation, at)
         /\ row'[e] = [row[e] EXCEPT !.heartbeat = at]
         /\ \/ at = row[e].heartbeat /\ updatedAt'[e] = updatedAt[e]
            \/ at >= updatedAt[e] /\ updatedAt'[e] = at
         /\ log'[e] = log[e]
         /\ \A f \in Execution \ {e} : Kept(f)
<1>1. /\ row' = [row EXCEPT ![e] = [row[e] EXCEPT !.heartbeat = at]]
      /\ updatedAt' = [updatedAt EXCEPT ![e] = IF at = row[e].heartbeat THEN updatedAt[e] ELSE at]
      /\ log' = log
      /\ FenceHolds(row[e], runner, generation, at)
      /\ at = row[e].heartbeat \/ at >= updatedAt[e]
  BY DEF RenewLease, RenewAllowed, TypeOK
<1> DEFINE r == [row[e] EXCEPT !.heartbeat = at]
           u == IF at = row[e].heartbeat THEN updatedAt[e] ELSE at
<1>2. \/ u = updatedAt[e] /\ at = row[e].heartbeat
      \/ u = at /\ at >= updatedAt[e]
  BY <1>1
<1> HIDE DEF r, u
<1>3. row'[e] = r /\ updatedAt'[e] = u
  BY <1>1 DEF TypeOK, r, u
<1>4. \A f \in Execution \ {e} : Kept(f)
  BY <1>1 DEF Kept, TypeOK
<1>5. \/ at = row[e].heartbeat /\ updatedAt'[e] = updatedAt[e]
      \/ at >= updatedAt[e] /\ updatedAt'[e] = at
  BY <1>2, <1>3
<1>6. row'[e] = [row[e] EXCEPT !.heartbeat = at]
  BY <1>3 DEF r
<1>7. log'[e] = log[e] /\ FenceHolds(row[e], runner, generation, at)
  BY <1>1
<1> QED
  BY <1>4, <1>5, <1>6, <1>7

-----------------------------------------------------------------------------
(* Counting the events of a log *)

LEMMA AppendElements ==
  ASSUME NEW S, NEW l \in Seq(S), NEW x \in S
  PROVE  /\ Append(l, x) \in Seq(S)
         /\ Len(l) \in Nat /\ Len(Append(l, x)) = Len(l) + 1
         /\ DOMAIN Append(l, x) = DOMAIN l \cup {Len(l) + 1}
         /\ Len(l) + 1 \notin DOMAIN l /\ \A i \in DOMAIN l : i \in Nat /\ i < Len(l) + 1
         /\ \A i \in DOMAIN l : Append(l, x)[i] = l[i]
         /\ Append(l, x)[Len(l) + 1] = x
OBVIOUS

LEMMA AppendTwo ==
  ASSUME NEW S, NEW l \in Seq(S), NEW x \in S, NEW y \in S
  PROVE  l \o <<x, y>> = Append(Append(l, x), y)
OBVIOUS

LEMMA CountIsFinite ==
  ASSUME NEW l \in Seq(Event), NEW T
  PROVE  /\ IsFiniteSet({i \in DOMAIN l : l[i].type \in T})
         /\ CountOf(l, T) \in Nat
<1> DEFINE S == {i \in DOMAIN l : l[i].type \in T}
<1>1. S \subseteq 1..Len(l)
  OBVIOUS
<1>2. IsFiniteSet(1..Len(l))
  BY FS_Interval
<1>3. IsFiniteSet(S)
  BY <1>1, <1>2, FS_Subset
<1>4. Cardinality(S) \in Nat
  BY <1>3, FS_CardinalityType
<1> QED
  BY <1>3, <1>4 DEF CountOf

\* An appended event counts once, or not at all.
LEMMA CountAppend ==
  ASSUME NEW l \in Seq(Event), NEW x \in Event, NEW T
  PROVE  CountOf(Append(l, x), T) = IF x.type \in T THEN CountOf(l, T) + 1 ELSE CountOf(l, T)
<1> DEFINE m == Append(l, x)
           S == {i \in DOMAIN l : l[i].type \in T}
           R == {i \in DOMAIN m : m[i].type \in T}
           n == Len(l) + 1
<1>1. /\ DOMAIN m = DOMAIN l \cup {n} /\ m[n] = x /\ \A i \in DOMAIN l : m[i] = l[i]
      /\ n \notin DOMAIN l
  BY AppendElements
<1> HIDE DEF m, n
<1>2. R = IF x.type \in T THEN S \cup {n} ELSE S
  BY <1>1
<1>3. n \notin S /\ IsFiniteSet(S)
  BY <1>1, CountIsFinite
<1>4. Cardinality(S \cup {n}) = Cardinality(S) + 1
  BY <1>3, FS_AddElement
<1> HIDE DEF S, R
<1>5. Cardinality(R) = IF x.type \in T THEN Cardinality(S) + 1 ELSE Cardinality(S)
  BY <1>2, <1>4
<1> QED
  BY <1>5 DEF CountOf, S, R, m

LEMMA CountZero ==
  ASSUME NEW l \in Seq(Event), NEW T
  PROVE  CountOf(l, T) = 0 <=> \A i \in DOMAIN l : l[i].type \notin T
<1> DEFINE S == {i \in DOMAIN l : l[i].type \in T}
<1>1. IsFiniteSet(S)
  BY CountIsFinite
<1>2. Cardinality(S) = 0 <=> S = {}
  BY <1>1, FS_EmptySet
<1>3. S = {} <=> \A i \in DOMAIN l : l[i].type \notin T
  OBVIOUS
<1> QED
  BY <1>2, <1>3 DEF CountOf

-----------------------------------------------------------------------------
(* A log that replays to its row *)

Bound(l, i) == \E j \in 1..i : l[j].type = "execution_identity_bound"

\* LogReplays in four parts: how a log opens, how its events follow one another, and
\* what each event says of the row.
Opens(r, l) ==
  /\ l # << >>
  /\ l[1] = [type |-> "request_accepted", status |-> "queued", at |-> r.accepted,
             number |-> r.seq, journey |-> None, failure |-> None]
Ordered(l) ==
  \A i \in 2..Len(l) : l[i].at >= l[i-1].at /\ l[i].status \in StatusAfter(l[i-1].status)
LifeFits(r, l) ==
  \A i \in DOMAIN l :
    /\ l[i].type = "execution_started" =>
         /\ i = 2 /\ l[i].at = r.started
         /\ r.status \in ActiveStatus => l[i].number = r.generation
    /\ l[i].type = "cancellation_requested" => l[i].at = r.cancelAt
IdentityFits(r, l) ==
  \A i \in DOMAIN l :
    /\ l[i].type \in {"stage_snapshot_persisted", "execution_succeeded"} => Bound(l, i)
    /\ l[i].journey = (IF Bound(l, i) THEN r.journey ELSE None)

LEMMA LogReplaysParts ==
  ASSUME NEW r \in Row, NEW l
  PROVE  LogReplays(r, l) <=>
           Opens(r, l) /\ Ordered(l) /\ LifeFits(r, l) /\ IdentityFits(r, l)
<1> DEFINE q == [r EXCEPT !.status = "queued", !.failure = None]
<1>1. q.status = "queued" /\ q.failure = None
  BY DEF Row
<1>2. LogEvent(q, "request_accepted", r.accepted, r.seq) =
        [type |-> "request_accepted", status |-> "queued", at |-> r.accepted,
         number |-> r.seq, journey |-> None, failure |-> None]
  BY <1>1 DEF LogEvent
<1> HIDE DEF q
<1>3. Opens(r, l) <=>
        l # << >> /\ l[1] = LogEvent(q, "request_accepted", r.accepted, r.seq)
  BY <1>2 DEF Opens
<1>4. LifeFits(r, l) /\ IdentityFits(r, l) <=>
        \A i \in DOMAIN l :
          /\ l[i].type = "execution_started" =>
               /\ i = 2 /\ l[i].at = r.started
               /\ r.status \in ActiveStatus => l[i].number = r.generation
          /\ l[i].type \in {"stage_snapshot_persisted", "execution_succeeded"} => Bound(l, i)
          /\ l[i].type = "cancellation_requested" => l[i].at = r.cancelAt
          /\ l[i].journey = (IF Bound(l, i) THEN r.journey ELSE None)
  BY Zenon DEF LifeFits, IdentityFits
<1> QED
  BY <1>3, <1>4, Zenon DEF LogReplays, Ordered, Bound, q

\* How one event x takes an execution from the record q to the record r.
Advances(q, l, r, x) ==
  /\ x = LogEvent(r, x.type, x.at, x.number)
  /\ x.type # "request_accepted" /\ x.at >= l[Len(l)].at
  /\ r.status \in StatusAfter(q.status)
  /\ r.accepted = q.accepted /\ r.seq = q.seq
  /\ IF x.type = "execution_started"
     THEN /\ q.started = None /\ r.started = x.at /\ Len(l) = 1
          /\ x.number = r.generation /\ r.journey = None
     ELSE /\ r.started = q.started
          /\ r.status \in ActiveStatus => q.status \in ActiveStatus /\ r.generation = q.generation
  /\ IF x.type = "execution_identity_bound"
     THEN q.journey = None /\ r.journey # None ELSE r.journey = q.journey
  /\ IF x.type = "cancellation_requested"
     THEN q.cancelAt = None /\ r.cancelAt = x.at ELSE r.cancelAt = q.cancelAt
  /\ q.completed = None
  /\ IF x.type \in TerminalEventType
     THEN r.completed = x.at /\ x.type = TerminalEvent[r.status] ELSE r.completed = None
  /\ x.type \in {"stage_snapshot_persisted", "execution_succeeded"} => q.journey # None

\* Events of a type the row says did not happen yet are not in the log.
LEMMA NotYetLogged ==
  ASSUME NEW q \in Row, NEW l \in Seq(Event), TailAgrees(q, l)
  PROVE  /\ q.started = None => \A i \in DOMAIN l : l[i].type # "execution_started"
         /\ q.cancelAt = None => \A i \in DOMAIN l : l[i].type # "cancellation_requested"
         /\ q.journey = None <=> \A i \in DOMAIN l : l[i].type # "execution_identity_bound"
<1>1. /\ CountOf(l, {"execution_started"}) = IsPresent(q.started)
      /\ CountOf(l, {"execution_identity_bound"}) = IsPresent(q.journey)
      /\ CountOf(l, {"cancellation_requested"}) = IsPresent(q.cancelAt)
  BY DEF TailAgrees
<1>2. \A v : IsPresent(v) = 0 <=> v = None
  BY DEF IsPresent
<1>3. /\ q.started = None => CountOf(l, {"execution_started"}) = 0
      /\ q.cancelAt = None => CountOf(l, {"cancellation_requested"}) = 0
      /\ q.journey = None <=> CountOf(l, {"execution_identity_bound"}) = 0
  BY <1>1, <1>2
<1>4. \A t : CountOf(l, {t}) = 0 <=> \A i \in DOMAIN l : l[i].type # t
  BY CountZero
<1> QED
  BY <1>3, <1>4

LEMMA OrderedExtends ==
  ASSUME NEW l \in Seq(Event), l # << >>, NEW x \in Event, Ordered(l),
         x.at >= l[Len(l)].at, x.status \in StatusAfter(l[Len(l)].status)
  PROVE  Ordered(Append(l, x))
<1> DEFINE m == Append(l, x)
           n == Len(l) + 1
<1>1. /\ Len(m) = n /\ DOMAIN l = 1..Len(l) /\ m[n] = x /\ n - 1 = Len(l)
      /\ Len(l) \in Nat \ {0} /\ \A i \in 1..Len(l) : m[i] = l[i]
  BY AppendElements
<1> HIDE DEF m
<1> SUFFICES ASSUME NEW i \in 2..n
             PROVE  m[i].at >= m[i-1].at /\ m[i].status \in StatusAfter(m[i-1].status)
  BY <1>1 DEF Ordered, m
<1>2. CASE i = n
  <2>1. m[i] = x /\ m[i-1] = l[Len(l)]
    BY <1>1, <1>2
  <2> QED
    BY <2>1
<1>3. CASE i \in 2..Len(l)
  <2>1. m[i] = l[i] /\ m[i-1] = l[i-1]
    BY <1>1, <1>3
  <2> QED
    BY <1>3, <2>1 DEF Ordered
<1> QED
  BY <1>1, <1>2, <1>3

LEMMA LifeFitsExtends ==
  ASSUME NEW q \in Row, NEW r \in Row, NEW l \in Seq(Event), NEW x \in Event,
         LifeFits(q, l), TailAgrees(q, l), Advances(q, l, r, x)
  PROVE  LifeFits(r, Append(l, x))
<1> DEFINE m == Append(l, x)
           n == Len(l) + 1
<1>1. /\ DOMAIN m = DOMAIN l \cup {n} /\ m[n] = x /\ \A i \in DOMAIN l : m[i] = l[i]
      /\ Len(l) \in Nat
  BY AppendElements
<1> HIDE DEF m
<1>2. x.type = "execution_started" => Len(l) = 1 /\ x.at = r.started /\ x.number = r.generation
  BY Zenon DEF Advances
<1>3. x.type = "cancellation_requested" => x.at = r.cancelAt
  BY Zenon DEF Advances
<1>4. ASSUME NEW i \in DOMAIN l, l[i].type = "execution_started"
      PROVE  /\ i = 2 /\ l[i].at = r.started
             /\ r.status \in ActiveStatus => l[i].number = r.generation
  <2>1. q.started # None
    BY <1>4, NotYetLogged
  <2>2. /\ r.started = q.started
        /\ r.status \in ActiveStatus => q.status \in ActiveStatus /\ r.generation = q.generation
    BY <2>1 DEF Advances
  <2> QED
    BY <1>4, <2>2 DEF LifeFits
<1>5. ASSUME NEW i \in DOMAIN l, l[i].type = "cancellation_requested"
      PROVE  l[i].at = r.cancelAt
  <2>1. q.cancelAt # None
    BY <1>5, NotYetLogged
  <2>2. r.cancelAt = q.cancelAt
    BY <2>1 DEF Advances
  <2> QED
    BY <1>5, <2>2 DEF LifeFits
<1> QED
  BY <1>1, <1>2, <1>3, <1>4, <1>5 DEF LifeFits, m

LEMMA IdentityFitsExtends ==
  ASSUME NEW q \in Row, NEW r \in Row, NEW l \in Seq(Event), NEW x \in Event,
         IdentityFits(q, l), TailAgrees(q, l), Advances(q, l, r, x)
  PROVE  IdentityFits(r, Append(l, x))
<1> DEFINE m == Append(l, x)
           n == Len(l) + 1
<1>1. /\ DOMAIN m = DOMAIN l \cup {n} /\ m[n] = x /\ \A i \in DOMAIN l : m[i] = l[i]
      /\ Len(l) \in Nat /\ DOMAIN l = 1..Len(l)
  BY AppendElements
<1> HIDE DEF m
<1>2. \A i \in DOMAIN l : Bound(m, i) <=> Bound(l, i)
  BY <1>1 DEF Bound
<1>3. Bound(m, n) <=> x.type = "execution_identity_bound" \/ q.journey # None
  <2>1. q.journey = None <=> \A i \in DOMAIN l : l[i].type # "execution_identity_bound"
    BY NotYetLogged
  <2>2. 1..n = DOMAIN l \cup {n}
    BY <1>1
  <2> QED
    BY <1>1, <2>1, <2>2 DEF Bound
<1>4. /\ x.type \in {"stage_snapshot_persisted", "execution_succeeded"} => q.journey # None
      /\ x.type = "execution_identity_bound" => q.journey = None /\ r.journey # None
      /\ x.type # "execution_identity_bound" /\ x.type # "execution_started" => r.journey = q.journey
      /\ x.type = "execution_started" => r.journey = None /\ q.journey = None
  BY DEF Advances
<1>5. x.journey = IF x.type = "execution_started" THEN None ELSE r.journey
  BY DEF Advances, LogEvent
<1>6. /\ x.type \in {"stage_snapshot_persisted", "execution_succeeded"} => Bound(m, n)
      /\ x.journey = (IF Bound(m, n) THEN r.journey ELSE None)
  BY <1>3, <1>4, <1>5
<1>7. ASSUME NEW i \in DOMAIN l
      PROVE  /\ l[i].type \in {"stage_snapshot_persisted", "execution_succeeded"} => Bound(l, i)
             /\ l[i].journey = (IF Bound(l, i) THEN r.journey ELSE None)
  <2>1. Bound(l, i) => q.journey # None
    BY <1>1, NotYetLogged DEF Bound
  <2>2. q.journey # None => r.journey = q.journey
    BY <1>4
  <2> QED
    BY <2>1, <2>2 DEF IdentityFits
<1> QED
  BY <1>1, <1>2, <1>6, <1>7 DEF IdentityFits, m

LEMMA TimesArePresent ==
  /\ \A t \in Time : t # None /\ t \in Nat /\ IsPresent(t) = 1
  /\ IsPresent(None) = 0
BY TimeAssumption, NoneAssumption DEF IsPresent

\* A count keeps telling whether a column has a value, when the event that gives the
\* column its value is appended.
LEMMA CountFollows ==
  ASSUME NEW l \in Seq(Event), NEW x \in Event, NEW T, NEW v, NEW w,
         CountOf(l, T) = IsPresent(v),
         IF x.type \in T THEN v = None /\ w # None ELSE w = v
  PROVE  CountOf(Append(l, x), T) = IsPresent(w)
<1>1. CountOf(Append(l, x), T) = IF x.type \in T THEN CountOf(l, T) + 1 ELSE CountOf(l, T)
  BY CountAppend
<1> QED
  BY <1>1 DEF IsPresent

LEMMA TailAgreesExtends ==
  ASSUME NEW q \in Row, NEW r \in Row, NEW l \in Seq(Event), NEW x \in Event, l # << >>,
         TailAgrees(q, l), Advances(q, l, r, x)
  PROVE  TailAgrees(r, Append(l, x))
<1> DEFINE m == Append(l, x)
<1>1. /\ Len(m) = Len(l) + 1 /\ m[Len(m)] = x
  BY AppendElements
<1> HIDE DEF m
<1>3. /\ CountOf(l, {"request_accepted"}) = 1
      /\ CountOf(l, {"execution_started"}) = IsPresent(q.started)
      /\ CountOf(l, {"execution_identity_bound"}) = IsPresent(q.journey)
      /\ CountOf(l, {"cancellation_requested"}) = IsPresent(q.cancelAt)
      /\ CountOf(l, TerminalEventType) = IsPresent(q.completed)
  BY Zenon DEF TailAgrees
<1>4. x.at \in Time
  BY DEF Event
<1>5. x.status = r.status /\ x.failure = r.failure
  BY DEF Advances, LogEvent
<1>6. CountOf(m, {"request_accepted"}) = 1
  <2>1. x.type # "request_accepted"
    BY Zenon DEF Advances
  <2> QED
    BY <1>3, <2>1, CountAppend DEF m
<1>7. CountOf(m, {"execution_started"}) = IsPresent(r.started)
  <2>1. IF x.type = "execution_started" THEN q.started = None /\ r.started = x.at
                                        ELSE r.started = q.started
    BY Zenon DEF Advances
  <2>2. IF x.type \in {"execution_started"} THEN q.started = None /\ r.started # None
                           ELSE r.started = q.started
    BY <1>4, <2>1, TimesArePresent
  <2> QED
    BY <1>3, <2>2, CountFollows DEF m
<1>8. CountOf(m, {"cancellation_requested"}) = IsPresent(r.cancelAt)
  <2>1. IF x.type = "cancellation_requested" THEN q.cancelAt = None /\ r.cancelAt = x.at
                                             ELSE r.cancelAt = q.cancelAt
    BY Zenon DEF Advances
  <2>2. IF x.type \in {"cancellation_requested"} THEN q.cancelAt = None /\ r.cancelAt # None
                           ELSE r.cancelAt = q.cancelAt
    BY <1>4, <2>1, TimesArePresent
  <2> QED
    BY <1>3, <2>2, CountFollows DEF m
<1>9. CountOf(m, {"execution_identity_bound"}) = IsPresent(r.journey)
  <2>1. IF x.type = "execution_identity_bound" THEN q.journey = None /\ r.journey # None
                                               ELSE r.journey = q.journey
    BY Zenon DEF Advances
  <2>2. IF x.type \in {"execution_identity_bound"} THEN q.journey = None /\ r.journey # None
                                                   ELSE r.journey = q.journey
    BY <2>1
  <2> QED
    BY <1>3, <2>2, CountFollows DEF m
<1>10. /\ q.completed = None
       /\ IF x.type \in TerminalEventType
          THEN r.completed = x.at /\ x.type = TerminalEvent[r.status] ELSE r.completed = None
  BY Zenon DEF Advances
<1>11. CountOf(m, TerminalEventType) = IsPresent(r.completed)
  <2>1. IF x.type \in TerminalEventType THEN q.completed = None /\ r.completed # None
                                        ELSE r.completed = q.completed
    BY <1>4, <1>10, TimesArePresent
  <2> QED
    BY <1>3, <2>1, CountFollows DEF m
<1>12. r.completed # None =>
         x.type = TerminalEvent[r.status] /\ x.at = r.completed /\ x.failure = r.failure
  BY <1>5, <1>10
<1> QED
  BY <1>1, <1>5, <1>6, <1>7, <1>8, <1>9, <1>11, <1>12, Zenon DEF TailAgrees, m

\* What LoadSnapshot says of the log.
LogAgrees(r, l) ==
  /\ LogReplays(r, l) /\ TailAgrees(r, l)
  /\ \A i \in DOMAIN l : l[i].status \in ReportableStatus(l[i].type)

\* A log that agrees with its record still does, when an event takes the record on.
LEMMA LogExtends ==
  ASSUME NEW q \in Row, NEW r \in Row, NEW l \in Seq(Event), NEW x \in Event,
         LogAgrees(q, l), Advances(q, l, r, x), r.status \in ReportableStatus(x.type)
  PROVE  LogAgrees(r, Append(l, x))
<1> DEFINE m == Append(l, x)
<1>1. Opens(q, l) /\ Ordered(l) /\ LifeFits(q, l) /\ IdentityFits(q, l) /\ TailAgrees(q, l)
  BY LogReplaysParts DEF LogAgrees
<1>2. l # << >> /\ 1 \in DOMAIN l
  BY <1>1 DEF Opens
<1>3. /\ m # << >> /\ m[1] = l[1] /\ DOMAIN m = DOMAIN l \cup {Len(l) + 1}
      /\ \A i \in DOMAIN l : m[i] = l[i]
      /\ m[Len(l) + 1] = x
  BY <1>2, AppendElements
<1> HIDE DEF m
<1>4. r.accepted = q.accepted /\ r.seq = q.seq
  BY Zenon DEF Advances
<1>5. Opens(r, m)
  BY <1>1, <1>3, <1>4 DEF Opens
<1>6. x.status = r.status
  BY DEF Advances, LogEvent
<1>7. x.at >= l[Len(l)].at /\ x.status \in StatusAfter(l[Len(l)].status)
  <2>1. l[Len(l)].status = q.status
    BY <1>1, Zenon DEF TailAgrees
  <2>2. x.at >= l[Len(l)].at /\ r.status \in StatusAfter(q.status)
    BY Zenon DEF Advances
  <2> QED
    BY <1>6, <2>1, <2>2
<1>8. Ordered(m)
  BY <1>1, <1>2, <1>7, OrderedExtends DEF m
<1>9. LifeFits(r, m) /\ IdentityFits(r, m) /\ TailAgrees(r, m)
  BY <1>1, <1>2, LifeFitsExtends, IdentityFitsExtends, TailAgreesExtends DEF m
<1>10. LogReplays(r, m)
  BY <1>5, <1>8, <1>9, LogReplaysParts
<1>11. \A i \in DOMAIN m : m[i].status \in ReportableStatus(m[i].type)
  <2>1. \A i \in DOMAIN l : l[i].status \in ReportableStatus(l[i].type)
    BY DEF LogAgrees
  <2> QED
    BY <1>3, <1>6, <2>1
<1> QED
  BY <1>9, <1>10, <1>11, Zenon DEF LogAgrees, m

-----------------------------------------------------------------------------
(* The load path accepts what a call writes *)

\* LoadSnapshot of an execution with these columns.
Loads(r, u, l) ==
  /\ Constructible(r) /\ u >= r.accepted
  /\ Len(l) <= (IF r.status \in TerminalStatus THEN MaxEvents ELSE MaxEvents - 1)
  /\ LogAgrees(r, l)
  /\ u >= l[Len(l)].at

LEMMA LoadSnapshotLoads ==
  ASSUME NEW e \in Execution
  PROVE  /\ LoadSnapshot(e) <=> Loads(row[e], updatedAt[e], log[e])
         /\ (LoadSnapshot(e))' <=> Loads(row'[e], updatedAt'[e], log'[e])
BY Zenon DEF LoadSnapshot, Loads, LoadRecord, LoadEvents, LogAgrees

\* The times a stored execution has are times, and in order.
LEMMA LoadsTimes ==
  ASSUME NEW q \in Row, NEW u \in Time, NEW l \in Seq(Event), Loads(q, u, l)
  PROVE  /\ q.accepted \in Time /\ l # << >> /\ l[Len(l)] \in Event
         /\ u >= q.accepted /\ u >= l[Len(l)].at
<1>1. Opens(q, l)
  BY LogReplaysParts DEF Loads, LogAgrees
<1>2. l # << >> /\ l[1].at = q.accepted
  BY <1>1 DEF Opens
<1>3. l[1] \in Event /\ l[Len(l)] \in Event
  BY <1>2
<1>4. q.accepted \in Time
  BY <1>2, <1>3 DEF Event
<1> QED
  BY <1>2, <1>3, <1>4 DEF Loads

\* A call that advances an execution by one event leaves it loadable.
LEMMA AdvanceLoads ==
  ASSUME NEW q \in Row, NEW u \in Time, NEW l \in Seq(Event), Loads(q, u, l),
         NEW r \in Row, NEW x \in Event, x.at >= u,
         Advances(q, l, r, x), Constructible(r), r.status \in ReportableStatus(x.type),
         Len(l) + 1 <= (IF r.status \in TerminalStatus THEN MaxEvents ELSE MaxEvents - 1)
  PROVE  Loads(r, x.at, Append(l, x))
<1> DEFINE m == Append(l, x)
<1>1. Len(m) = Len(l) + 1 /\ m[Len(m)] = x
  BY AppendElements
<1>2. LogAgrees(r, m)
  BY LogExtends DEF Loads
<1>3. x.at \in Nat /\ u \in Nat /\ q.accepted \in Nat /\ u >= q.accepted
  BY LoadsTimes, TimeAssumption DEF Event
<1>4. r.accepted = q.accepted
  BY Zenon DEF Advances
<1> HIDE DEF m
<1>5. x.at >= r.accepted /\ x.at >= m[Len(m)].at
  BY <1>1, <1>3, <1>4
<1> QED
  BY <1>1, <1>2, <1>5 DEF Loads, m

\* The statuses the event types of the calls may report, and those that may follow.
LEMMA ReportableStatuses ==
  /\ "queued" \in ReportableStatus("request_accepted")
  /\ "running" \in ReportableStatus("execution_started")
  /\ \A s \in ActiveStatus : /\ s \in ReportableStatus("execution_identity_bound")
                             /\ s \in ReportableStatus("stage_snapshot_persisted")
  /\ \A s \in {"cancellation_requested", "cancelled"} :
       s \in ReportableStatus("cancellation_requested")
  /\ \A s \in TerminalStatus : s \in ReportableStatus(TerminalEvent[s])
<1>1. ASSUME NEW s \in TerminalStatus
      PROVE  s \in ReportableStatus(TerminalEvent[s])
  <2>1. TerminalEvent[s] \in {"execution_succeeded", "execution_failed",
                              "execution_cancelled", "execution_interrupted"}
    BY TerminalEventTypes, TerminalEventTypeValue
  <2>2. ReportableStatus(TerminalEvent[s]) =
          {t \in TerminalStatus : TerminalEvent[t] = TerminalEvent[s]}
    <3> DEFINE type == TerminalEvent[s]
    <3>1. type \notin {"request_accepted", "execution_started", "execution_identity_bound",
                       "stage_snapshot_persisted", "cancellation_requested"}
      BY <2>1
    <3> HIDE DEF type
    <3>2. ReportableStatus(type) = {t \in TerminalStatus : TerminalEvent[t] = type}
      BY <3>1 DEF ReportableStatus
    <3> QED
      BY <3>2 DEF type
  <2> QED
    BY <2>2
<1>2. /\ "queued" \in ReportableStatus("request_accepted")
      /\ "running" \in ReportableStatus("execution_started")
      /\ \A s \in ActiveStatus : /\ s \in ReportableStatus("execution_identity_bound")
                                 /\ s \in ReportableStatus("stage_snapshot_persisted")
      /\ \A s \in {"cancellation_requested", "cancelled"} :
           s \in ReportableStatus("cancellation_requested")
  BY DEF ReportableStatus
<1> QED
  BY <1>1, <1>2

LEMMA StatusesAfter ==
  /\ {"running", "cancelled"} \subseteq StatusAfter("queued")
  /\ {"running", "cancellation_requested", "succeeded", "failed", "interrupted"}
       \subseteq StatusAfter("running")
  /\ {"cancellation_requested", "cancelled", "failed", "interrupted"}
       \subseteq StatusAfter("cancellation_requested")
  /\ StatusAfter("cancelled") = {"cancelled"}
BY DEF StatusAfter

LEMMA TerminalEventValues ==
  /\ TerminalEvent["succeeded"] = "execution_succeeded"
  /\ TerminalEvent["failed"] = "execution_failed"
  /\ TerminalEvent["cancelled"] = "execution_cancelled"
  /\ TerminalEvent["interrupted"] = "execution_interrupted"
BY DEF TerminalEvent

\* The fields of the records the calls produce.
LEMMA StartRecordFields ==
  ASSUME NEW q \in Row, NEW runner, NEW generation, NEW at,
         NEW r, r = StartExecution(q, runner, generation, at)
  PROVE  /\ r.status = "running" /\ r.started = at
         /\ r.runner = runner /\ r.generation = generation /\ r.heartbeat = at
         /\ r.accepted = q.accepted /\ r.seq = q.seq /\ r.cancelAt = q.cancelAt
         /\ r.completed = q.completed /\ r.journey = q.journey /\ r.failure = q.failure
BY DEF StartExecution, Row

LEMMA EndRecordFields ==
  ASSUME NEW q \in Row, NEW target, NEW failure, NEW at,
         NEW r, r = TransitionExecution(q, target, failure, at)
  PROVE  /\ r.status = target /\ r.completed = at /\ r.failure = failure
         /\ r.runner = None /\ r.generation = 0 /\ r.heartbeat = None
         /\ r.accepted = q.accepted /\ r.seq = q.seq /\ r.started = q.started
         /\ r.cancelAt = q.cancelAt /\ r.journey = q.journey
BY DEF TransitionExecution, WithoutLease, Row

\* What a start makes of a queued execution can be loaded.
LEMMA StartLoads ==
  ASSUME NEW q \in Row, NEW u \in Time, NEW l \in Seq(Event), Loads(q, u, l),
         q.status = "queued", q.started = None, Len(l) = 1,
         NEW runner \in Runner, NEW generation \in Nat, NEW at \in Time, at >= u
  PROVE  LET r == StartExecution(q, runner, generation, at)
         IN Loads(r, at, Append(l, LogEvent(r, "execution_started", at, generation)))
<1> DEFINE r == StartExecution(q, runner, generation, at)
           x == LogEvent(r, "execution_started", at, generation)
<1>1. r \in Row
  BY StartExecutionType
<1>2. /\ r.status = "running" /\ r.started = at
      /\ r.runner = runner /\ r.generation = generation /\ r.heartbeat = at
      /\ r.accepted = q.accepted /\ r.seq = q.seq /\ r.cancelAt = q.cancelAt
      /\ r.completed = q.completed /\ r.journey = q.journey /\ r.failure = q.failure
  BY StartRecordFields
<1>3. /\ x.type = "execution_started" /\ x.at = at /\ x.number = generation
      /\ x = LogEvent(r, x.type, x.at, x.number)
  BY DEF LogEvent
<1>4. x \in Event
  BY <1>1, <1>2, LogEventType DEF Status, ActiveStatus, EventType
<1> HIDE DEF r, x
<1>5. Constructible(q)
  BY DEF Loads
<1>6. q.journey = None /\ q.completed = None /\ q.cancelAt = None /\ q.failure = None
  BY <1>5 DEF Constructible, StateComplete, TerminalStatus
<1>7. /\ q.accepted \in Time /\ u >= q.accepted /\ l[Len(l)].at \in Time /\ u >= l[Len(l)].at
  BY LoadsTimes DEF Event
<1>8. at >= l[Len(l)].at /\ at >= q.accepted
  <2>1. at \in Nat /\ u \in Nat /\ q.accepted \in Nat /\ l[Len(l)].at \in Nat
    BY <1>7, TimeAssumption
  <2> QED
    BY <1>7, <2>1
<1>9. /\ r.runner # None /\ r.heartbeat # None /\ r.started # None
  BY <1>2, NoneAssumption, TimesArePresent
<1>10. Chronological(r)
  BY <1>2, <1>6, <1>8 DEF Chronological
<1>11. Constructible(r)
  <2>1. r.failure # "runner_interrupted" /\ r.failure # "cancellation_timeout"
    BY <1>2, <1>6, NoneAssumption, FailureAssumption, Zenon
  <2>2. StateComplete(r)
    BY <1>2, <1>6, <1>9, <2>1 DEF StateComplete, ActiveStatus, TerminalStatus
  <2> QED
    BY <1>10, <2>1, <2>2 DEF Constructible
<1>12. "execution_started" \notin TerminalEventType
  BY TerminalEventTypeValue
<1>13. r.status \in StatusAfter(q.status) /\ r.status \in ReportableStatus(x.type)
  BY <1>2, <1>3, StatusesAfter, ReportableStatuses
<1>14. Advances(q, l, r, x)
  BY <1>2, <1>3, <1>6, <1>8, <1>12, <1>13 DEF Advances
<1>15. Len(l) + 1 <= (IF r.status \in TerminalStatus THEN MaxEvents ELSE MaxEvents - 1)
  BY <1>2, LimitsAssumption DEF TerminalStatus
<1>16. Loads(r, x.at, Append(l, x))
  BY <1>1, <1>3, <1>4, <1>11, <1>13, <1>14, <1>15, AdvanceLoads
<1> QED
  BY <1>3, <1>16 DEF r, x

\* What ends an active execution can be loaded: the target and its failure fit together
\* and with the record.
LEMMA EndLoads ==
  ASSUME NEW q \in Row, NEW u \in Time, NEW l \in Seq(Event), Loads(q, u, l),
         q.status \in ActiveStatus, Len(l) < MaxEvents,
         NEW target \in TerminalStatus, target \in StatusAfter(q.status),
         NEW failure \in FailureCode \cup {None}, NEW at \in Time, at >= u,
         failure # None <=> target \in {"failed", "interrupted"},
         failure = "runner_interrupted" <=> target = "interrupted",
         failure = "cancellation_timeout" => q.cancelAt # None,
         target = "succeeded" => q.journey # None,
         Chronological(TransitionExecution(q, target, failure, at))
  PROVE  LET r == TransitionExecution(q, target, failure, at)
         IN Loads(r, at, Append(l, LogEvent(r, TerminalEvent[target], at, 0)))
<1> DEFINE r == TransitionExecution(q, target, failure, at)
           x == LogEvent(r, TerminalEvent[target], at, 0)
<1>1. r \in Row
  BY TransitionExecutionType
<1>2. /\ r.status = target /\ r.completed = at /\ r.failure = failure
      /\ r.runner = None /\ r.generation = 0 /\ r.heartbeat = None
      /\ r.accepted = q.accepted /\ r.seq = q.seq /\ r.started = q.started
      /\ r.cancelAt = q.cancelAt /\ r.journey = q.journey
  BY EndRecordFields
<1>3. /\ x.type = TerminalEvent[target] /\ x.at = at /\ x = LogEvent(r, x.type, x.at, x.number)
  BY DEF LogEvent
<1>4. x \in Event
  BY <1>1, <1>2, LogEventType, TerminalEventTypes DEF Status
<1>5. Chronological(r)
  OBVIOUS
<1> HIDE DEF r, x
<1>6. Constructible(q)
  BY DEF Loads
<1>7. /\ q.started # None /\ q.completed = None
      /\ q.status = "running" <=> q.cancelAt = None
  BY <1>6 DEF Constructible, StateComplete, ActiveStatus, TerminalStatus
<1>8. /\ target \in {"cancelled"} => q.cancelAt # None
      /\ target \in {"succeeded"} => q.cancelAt = None
  <2>1. /\ target = "cancelled" => q.status # "running"
        /\ target = "succeeded" => q.status # "cancellation_requested"
    BY DEF StatusAfter
  <2> QED
    BY <1>7, <2>1 DEF ActiveStatus
<1>9. /\ l[Len(l)].at \in Time /\ u >= l[Len(l)].at
  BY LoadsTimes DEF Event
<1>10. at >= l[Len(l)].at
  BY <1>9, TimeAssumption
<1>11. r.completed # None
  BY <1>2, TimesArePresent
<1>12. Constructible(r)
  <2>1. StateComplete(r)
    BY <1>2, <1>7, <1>8, <1>11 DEF StateComplete, ActiveStatus, TerminalStatus
  <2>2. r.failure = "runner_interrupted" => r.status = "interrupted"
    BY <1>2
  <2>3. r.failure = "cancellation_timeout" => r.status = "failed" /\ r.cancelAt # None
    BY <1>2, NoneAssumption
  <2> QED
    BY <1>5, <2>1, <2>2, <2>3 DEF Constructible
<1>13. r.status \in StatusAfter(q.status) /\ r.status \in ReportableStatus(x.type)
  BY <1>2, <1>3, ReportableStatuses
<1>14. /\ x.type \in TerminalEventType
       /\ x.type \notin {"request_accepted", "execution_started", "execution_identity_bound",
                         "stage_snapshot_persisted", "cancellation_requested"}
  BY <1>3, TerminalEventTypes, TerminalEventTypeValue
<1>15. x.type = "execution_succeeded" => q.journey # None
  BY <1>3, TerminalEventValues DEF TerminalStatus
<1>16. r.status \notin ActiveStatus
  BY <1>2 DEF ActiveStatus, TerminalStatus
<1>17. Advances(q, l, r, x)
  BY <1>2, <1>3, <1>7, <1>10, <1>13, <1>14, <1>15, <1>16 DEF Advances
<1>18. Len(l) + 1 <= (IF r.status \in TerminalStatus THEN MaxEvents ELSE MaxEvents - 1)
  BY <1>2, LimitsAssumption
<1>19. Loads(r, x.at, Append(l, x))
  BY <1>1, <1>3, <1>4, <1>12, <1>13, <1>17, <1>18, AdvanceLoads
<1> QED
  BY <1>3, <1>19 DEF r, x

\* What the fenced runner writes of an active execution can be loaded: the identity it
\* binds, and a snapshot of a bound one.
LEMMA ReportLoads ==
  ASSUME NEW q \in Row, NEW u \in Time, NEW l \in Seq(Event), Loads(q, u, l),
         q.status \in ActiveStatus, Len(l) + 1 <= MaxEvents - 1,
         NEW type, NEW journey \in Journey, NEW number \in Nat, NEW at \in Time, at >= u,
         \/ type = "execution_identity_bound" /\ q.journey = None
         \/ type = "stage_snapshot_persisted" /\ q.journey = journey
  PROVE  LET r == [q EXCEPT !.journey = journey]
         IN Loads(r, at, Append(l, LogEvent(r, type, at, number)))
<1> DEFINE r == [q EXCEPT !.journey = journey]
           x == LogEvent(r, type, at, number)
<1>1. r \in Row
  BY DEF Row
<1>2. /\ r.status = q.status /\ r.completed = q.completed /\ r.failure = q.failure
      /\ r.runner = q.runner /\ r.generation = q.generation /\ r.heartbeat = q.heartbeat
      /\ r.accepted = q.accepted /\ r.seq = q.seq /\ r.started = q.started
      /\ r.cancelAt = q.cancelAt /\ r.journey = journey
  BY DEF Row
<1>3. /\ x.type = type /\ x.at = at /\ x = LogEvent(r, x.type, x.at, x.number)
  BY DEF LogEvent
<1>4. x \in Event
  BY <1>1, <1>2, LogEventType DEF Status, EventType
<1> HIDE DEF r, x
<1>5. Constructible(q)
  BY DEF Loads
<1>6. q.completed = None /\ q.status \notin {"queued", "succeeded"}
  BY <1>5 DEF Constructible, StateComplete, ActiveStatus, TerminalStatus
<1>7. l[Len(l)].at \in Time /\ u >= l[Len(l)].at
  BY LoadsTimes DEF Event
<1>8. at >= l[Len(l)].at
  <2>1. at \in Nat /\ u \in Nat /\ l[Len(l)].at \in Nat
    BY <1>7, TimeAssumption
  <2> QED
    BY <1>7, <2>1
<1>9. Constructible(r)
  <2>1. Chronological(r)
    BY <1>2, <1>5 DEF Constructible, Chronological
  <2>2. StateComplete(r)
    BY <1>2, <1>5, <1>6 DEF Constructible, StateComplete, ActiveStatus, TerminalStatus
  <2> QED
    BY <1>2, <1>5, <2>1, <2>2 DEF Constructible
<1>10. r.journey # None
  BY <1>2, NoneAssumption
<1>11. x.type \notin TerminalEventType
  BY <1>3, TerminalEventTypeValue
<1>12. r.status \in StatusAfter(q.status) /\ r.status \in ReportableStatus(x.type)
  <2>1. r.status \in StatusAfter(q.status)
    BY <1>2, StatusesAfter DEF ActiveStatus
  <2>2. r.status \in ReportableStatus(x.type)
    BY <1>2, <1>3, ReportableStatuses
  <2> QED
    BY <2>1, <2>2
<1>13. Advances(q, l, r, x)
  BY <1>2, <1>3, <1>6, <1>8, <1>10, <1>11, <1>12 DEF Advances
<1>14. Len(l) + 1 <= (IF r.status \in TerminalStatus THEN MaxEvents ELSE MaxEvents - 1)
  BY <1>2, LimitsAssumption
<1>15. Loads(r, x.at, Append(l, x))
  BY <1>1, <1>3, <1>4, <1>9, <1>12, <1>13, <1>14, AdvanceLoads
<1> QED
  BY <1>3, <1>15 DEF r, x

\* A requested cancellation of a running execution can be loaded.
LEMMA CancelRunningLoads ==
  ASSUME NEW q \in Row, NEW u \in Time, NEW l \in Seq(Event), Loads(q, u, l),
         q.status = "running", Len(l) + 1 <= MaxEvents - 1, NEW at \in Time, at >= u,
         Chronological(RequestCancellation(q, at))
  PROVE  LET r == RequestCancellation(q, at)
         IN Loads(r, at, Append(l, LogEvent(r, "cancellation_requested", at, 0)))
<1> DEFINE r == RequestCancellation(q, at)
           x == LogEvent(r, "cancellation_requested", at, 0)
<1>1. r \in Row
  BY RequestCancellationType
<1>2. /\ r.status = "cancellation_requested" /\ r.completed = q.completed
      /\ r.failure = q.failure
      /\ r.runner = q.runner /\ r.generation = q.generation /\ r.heartbeat = q.heartbeat
      /\ r.accepted = q.accepted /\ r.seq = q.seq /\ r.started = q.started
      /\ r.cancelAt = at /\ r.journey = q.journey
  BY DEF RequestCancellation, Row
<1>3. /\ x.type = "cancellation_requested" /\ x.at = at
      /\ x = LogEvent(r, x.type, x.at, x.number)
  BY DEF LogEvent
<1>4. x \in Event
  BY <1>1, <1>2, LogEventType DEF Status, ActiveStatus, EventType
<1>5. Chronological(r)
  OBVIOUS
<1> HIDE DEF r, x
<1>6. Constructible(q)
  BY DEF Loads
<1>7. q.completed = None /\ q.cancelAt = None
  BY <1>6 DEF Constructible, StateComplete, TerminalStatus
<1>8. l[Len(l)].at \in Time /\ u >= l[Len(l)].at
  BY LoadsTimes DEF Event
<1>9. at >= l[Len(l)].at
  <2>1. at \in Nat /\ u \in Nat /\ l[Len(l)].at \in Nat
    BY <1>8, TimeAssumption
  <2> QED
    BY <1>8, <2>1
<1>10. r.cancelAt # None
  BY <1>2, TimesArePresent
<1>11. Constructible(r)
  <2>1. StateComplete(r)
    BY <1>2, <1>6, <1>10 DEF Constructible, StateComplete, ActiveStatus, TerminalStatus
  <2>2. r.failure # "runner_interrupted" /\ r.failure # "cancellation_timeout"
    BY <1>2, <1>6 DEF Constructible
  <2> QED
    BY <1>5, <2>1, <2>2 DEF Constructible
<1>12. x.type \notin TerminalEventType
  BY <1>3, TerminalEventTypeValue
<1>13. r.status \in StatusAfter(q.status) /\ r.status \in ReportableStatus(x.type)
  BY <1>2, <1>3, StatusesAfter, ReportableStatuses
<1>14. q.status \in ActiveStatus
  BY DEF ActiveStatus
<1>15. Advances(q, l, r, x)
  BY <1>2, <1>3, <1>7, <1>9, <1>12, <1>13, <1>14 DEF Advances
<1>16. Len(l) + 1 <= (IF r.status \in TerminalStatus THEN MaxEvents ELSE MaxEvents - 1)
  BY <1>2, LimitsAssumption DEF TerminalStatus
<1>17. Loads(r, x.at, Append(l, x))
  BY <1>1, <1>3, <1>4, <1>11, <1>13, <1>15, <1>16, AdvanceLoads
<1> QED
  BY <1>3, <1>17 DEF r, x

\* A renewed lease changes nothing the log tells of.
LEMMA RenewLoads ==
  ASSUME NEW q \in Row, NEW u \in Time, NEW l \in Seq(Event), Loads(q, u, l),
         q.status \in ActiveStatus, NEW at \in Time, NEW v \in Time, v = u \/ v >= u
  PROVE  Loads([q EXCEPT !.heartbeat = at], v, l)
<1> DEFINE r == [q EXCEPT !.heartbeat = at]
<1>1. r \in Row
  BY DEF Row
<1>2. /\ r.status = q.status /\ r.completed = q.completed /\ r.failure = q.failure
      /\ r.runner = q.runner /\ r.generation = q.generation /\ r.heartbeat = at
      /\ r.accepted = q.accepted /\ r.seq = q.seq /\ r.started = q.started
      /\ r.cancelAt = q.cancelAt /\ r.journey = q.journey
  BY DEF Row
<1> HIDE DEF r
<1>3. Constructible(q) /\ LogReplays(q, l) /\ TailAgrees(q, l)
  BY DEF Loads, LogAgrees
<1>4. Constructible(r)
  <2>1. Chronological(r)
    BY <1>2, <1>3 DEF Constructible, Chronological
  <2>2. r.heartbeat # None
    BY <1>2, TimesArePresent
  <2>3. StateComplete(q) /\ q.heartbeat # None
    BY <1>3 DEF Constructible, StateComplete
  <2>4. StateComplete(r)
    BY <1>2, <2>2, <2>3, Zenon DEF StateComplete
  <2> QED
    BY <1>2, <1>3, <2>1, <2>4 DEF Constructible
<1>5. LogReplays(r, l)
  <2>1. Opens(q, l) /\ Ordered(l) /\ LifeFits(q, l) /\ IdentityFits(q, l)
    BY <1>3, LogReplaysParts
  <2>2. Opens(r, l) /\ LifeFits(r, l) /\ IdentityFits(r, l)
    BY <1>2, <2>1 DEF Opens, LifeFits, IdentityFits
  <2> QED
    BY <1>1, <2>1, <2>2, LogReplaysParts
<1>6. TailAgrees(r, l)
  BY <1>2, <1>3 DEF TailAgrees
<1>7. v >= r.accepted /\ v >= l[Len(l)].at
  <2>1. /\ q.accepted \in Time /\ l[Len(l)].at \in Time
        /\ u >= q.accepted /\ u >= l[Len(l)].at
    BY LoadsTimes DEF Event
  <2>2. /\ u \in Nat /\ v \in Nat /\ q.accepted \in Nat /\ l[Len(l)].at \in Nat
        /\ r.accepted = q.accepted
    BY <1>2, <2>1, TimeAssumption
  <2> QED
    BY <2>1, <2>2
<1> QED
  BY <1>2, <1>4, <1>5, <1>6, <1>7 DEF Loads, LogAgrees, r

\* A log of one event counts it.
LEMMA CountOne ==
  ASSUME NEW x \in Event, NEW T
  PROVE  CountOf(<<x>>, T) = IF x.type \in T THEN 1 ELSE 0
<1>1. ASSUME NEW l \in Seq(Event), l = << >>
      PROVE  CountOf(Append(l, x), T) = IF x.type \in T THEN 1 ELSE 0
  <2>1. \A i \in DOMAIN l : l[i].type \notin T
    BY <1>1
  <2>2. CountOf(l, T) = 0
    BY <2>1, CountZero
  <2> QED
    BY <2>2, CountAppend
<1>2. Append(<< >>, x) = <<x>> /\ << >> \in Seq(Event)
  OBVIOUS
<1> QED
  BY <1>1, <1>2, Zenon

\* An accepted request can be loaded.
LEMMA AdmitLoads ==
  ASSUME NEW key \in Key, NEW request \in Request, NEW seq \in Nat, NEW at \in Time
  PROVE  LET r == QueuedRecord(key, request, seq, at)
         IN Loads(r, at, <<LogEvent(r, "request_accepted", at, seq)>>)
<1> DEFINE r == QueuedRecord(key, request, seq, at)
           x == LogEvent(r, "request_accepted", at, seq)
           l == <<x>>
<1>1. r \in Row
  BY QueuedRecordType
<1>2. /\ r.status = "queued" /\ r.completed = None /\ r.failure = None
      /\ r.runner = None /\ r.generation = 0 /\ r.heartbeat = None
      /\ r.accepted = at /\ r.seq = seq /\ r.started = None
      /\ r.cancelAt = None /\ r.journey = None
  BY DEF QueuedRecord, AbsentRow
<1>3. x = [type |-> "request_accepted", status |-> "queued", at |-> at, number |-> seq,
           journey |-> None, failure |-> None]
  BY <1>2 DEF LogEvent
<1>4. x \in Event
  BY <1>1, <1>2, LogEventType DEF Status, EventType
<1>5. \A T : CountOf(l, T) = IF x.type \in T THEN 1 ELSE 0
  BY <1>4, CountOne
<1>6. l # << >> /\ Len(l) = 1 /\ l[1] = x /\ DOMAIN l = {1}
  OBVIOUS
<1> HIDE DEF r, x, l
<1>7. x.type = "request_accepted" /\ x.status = "queued" /\ x.at = at /\ x.journey = None
  BY <1>3
<1>8. Constructible(r)
  <2>1. r.failure # "runner_interrupted" /\ r.failure # "cancellation_timeout"
    BY <1>2, NoneAssumption, FailureAssumption, Zenon
  <2>2. Chronological(r)
    BY <1>2 DEF Chronological
  <2>3. StateComplete(r)
    BY <1>2, <2>1 DEF StateComplete, ActiveStatus, TerminalStatus
  <2> QED
    BY <2>1, <2>2, <2>3 DEF Constructible
<1>9. LogReplays(r, l)
  <2>1. Opens(r, l)
    BY <1>2, <1>3, <1>6 DEF Opens
  <2>2. Ordered(l) /\ LifeFits(r, l)
    BY <1>6, <1>7 DEF Ordered, LifeFits
  <2>3. IdentityFits(r, l)
    <3>1. ~Bound(l, 1)
      BY <1>6, <1>7 DEF Bound
    <3> QED
      BY <1>6, <1>7, <3>1 DEF IdentityFits
  <2> QED
    BY <1>1, <2>1, <2>2, <2>3, LogReplaysParts
<1>10. TailAgrees(r, l)
  <2>1. "request_accepted" \notin TerminalEventType
    BY TerminalEventTypeValue
  <2>2. /\ CountOf(l, {"request_accepted"}) = 1
        /\ CountOf(l, {"execution_started"}) = 0
        /\ CountOf(l, {"execution_identity_bound"}) = 0
        /\ CountOf(l, {"cancellation_requested"}) = 0
        /\ CountOf(l, TerminalEventType) = 0
    BY <1>5, <1>7, <2>1
  <2> QED
    BY <1>2, <1>6, <1>7, <2>2, TimesArePresent DEF TailAgrees
<1>11. \A i \in DOMAIN l : l[i].status \in ReportableStatus(l[i].type)
  BY <1>6, <1>7, ReportableStatuses
<1>12. at >= r.accepted /\ at >= l[Len(l)].at
  BY <1>2, <1>6, <1>7, TimeAssumption
<1>13. Len(l) <= (IF r.status \in TerminalStatus THEN MaxEvents ELSE MaxEvents - 1)
  BY <1>6, LimitsAssumption
<1> QED
  BY <1>8, <1>9, <1>10, <1>11, <1>12, <1>13 DEF Loads, LogAgrees, r, x, l

LEMMA CancelAtType ==
  ASSUME NEW r \in Row, NEW status \in Status, NEW at \in Time
  PROVE  [r EXCEPT !.status = status, !.cancelAt = at] \in Row
BY DEF Row

\* A queued execution that is cancelled can be loaded: its two events follow one another.
LEMMA CancelQueuedLoads ==
  ASSUME NEW q \in Row, NEW u \in Time, NEW l \in Seq(Event), Loads(q, u, l),
         q.status = "queued", q.started = None, Len(l) = 1, NEW at \in Time, at >= u,
         Chronological(RequestCancellation(q, at))
  PROVE  LET r == RequestCancellation(q, at)
         IN Loads(r, at, l \o <<LogEvent(r, "cancellation_requested", at, 0),
                                LogEvent(r, "execution_cancelled", at, 0)>>)
<1> DEFINE r == RequestCancellation(q, at)
           p == [q EXCEPT !.status = "cancelled", !.cancelAt = at]
           x == LogEvent(r, "cancellation_requested", at, 0)
           y == LogEvent(r, "execution_cancelled", at, 0)
           m == Append(l, x)
<1>1. r \in Row /\ p \in Row
  <2>1. p \in Row
    BY CancelAtType DEF Status, TerminalStatus
  <2>2. r \in Row
    BY RequestCancellationType
  <2> QED
    BY <2>1, <2>2, Zenon
<1>2. /\ r.status = "cancelled" /\ r.completed = at /\ r.failure = q.failure
      /\ r.runner = q.runner /\ r.generation = q.generation /\ r.heartbeat = q.heartbeat
      /\ r.accepted = q.accepted /\ r.seq = q.seq /\ r.started = q.started
      /\ r.cancelAt = at /\ r.journey = q.journey
  BY DEF RequestCancellation, Row
<1>3. /\ p.status = "cancelled" /\ p.completed = q.completed /\ p.failure = q.failure
      /\ p.accepted = q.accepted /\ p.seq = q.seq /\ p.started = q.started
      /\ p.cancelAt = at /\ p.journey = q.journey
  BY DEF Row
<1>4. /\ x.type = "cancellation_requested" /\ x.at = at
      /\ x = LogEvent(p, x.type, x.at, x.number)
  BY <1>2, <1>3 DEF LogEvent
<1>5. /\ y.type = "execution_cancelled" /\ y.at = at
      /\ y = LogEvent(r, y.type, y.at, y.number)
  BY DEF LogEvent
<1>6. x \in Event /\ y \in Event
  <2>1. /\ "cancellation_requested" \in EventType /\ "execution_cancelled" \in EventType
        /\ r.status \in Status
    BY <1>2, TerminalEventTypeValue DEF Status, TerminalStatus, EventType
  <2> QED
    BY <1>1, <2>1, LogEventType
<1>7. /\ m \in Seq(Event) /\ Len(m) = 2 /\ m[Len(m)] = x
      /\ Len(Append(m, y)) = 3 /\ Append(m, y)[Len(Append(m, y))] = y
      /\ l \o <<x, y>> = Append(m, y)
  BY <1>6, AppendTwo, AppendElements
<1>8. Chronological(r)
  OBVIOUS
<1> HIDE DEF r, p, x, y, m
<1>9. Constructible(q) /\ LogAgrees(q, l)
  BY DEF Loads
<1>10. /\ q.journey = None /\ q.completed = None /\ q.cancelAt = None
       /\ q.failure # "runner_interrupted" /\ q.failure # "cancellation_timeout"
  BY <1>9 DEF Constructible, StateComplete, TerminalStatus
<1>11. at >= l[Len(l)].at /\ at >= q.accepted
  <2>1. /\ q.accepted \in Time /\ l[Len(l)].at \in Time
        /\ u >= q.accepted /\ u >= l[Len(l)].at
    BY LoadsTimes DEF Event
  <2>2. at \in Nat /\ u \in Nat /\ q.accepted \in Nat /\ l[Len(l)].at \in Nat
    BY <2>1, TimeAssumption
  <2> QED
    BY <2>1, <2>2
<1>12. LogAgrees(p, m)
  <2>1. /\ p.status \in StatusAfter(q.status) /\ p.status \notin ActiveStatus
        /\ p.status \in ReportableStatus(x.type)
    BY <1>3, <1>4, StatusesAfter, ReportableStatuses DEF ActiveStatus
  <2>2. x.type \notin TerminalEventType
    BY <1>4, TerminalEventTypeValue
  <2>3. Advances(q, l, p, x)
    BY <1>3, <1>4, <1>10, <1>11, <2>1, <2>2 DEF Advances
  <2> QED
    BY <1>1, <1>6, <1>9, <2>1, <2>3, LogExtends DEF m
<1>13. LogAgrees(r, Append(m, y))
  <2>1. y.type \in TerminalEventType /\ y.type = TerminalEvent[r.status]
    BY <1>2, <1>5, TerminalEventTypeValue, TerminalEventValues
  <2>2. /\ r.status \in StatusAfter(p.status) /\ r.status \notin ActiveStatus
        /\ r.status \in ReportableStatus(y.type)
    BY <1>2, <1>3, <2>1, StatusesAfter, ReportableStatuses DEF ActiveStatus, TerminalStatus
  <2>3. y.at >= m[Len(m)].at
    BY <1>4, <1>5, <1>7, TimeAssumption
  <2>4. Advances(p, m, r, y)
    BY <1>2, <1>3, <1>5, <1>10, <2>1, <2>2, <2>3 DEF Advances
  <2> QED
    BY <1>1, <1>6, <1>7, <1>12, <2>2, <2>4, LogExtends
<1>14. Constructible(r)
  <2>1. r.cancelAt # None /\ r.completed # None
    BY <1>2, TimesArePresent
  <2>2. StateComplete(r)
    BY <1>2, <1>9, <1>10, <2>1 DEF Constructible, StateComplete, ActiveStatus, TerminalStatus
  <2> QED
    BY <1>2, <1>8, <1>10, <2>2 DEF Constructible
<1>15. Len(Append(m, y)) <= (IF r.status \in TerminalStatus THEN MaxEvents ELSE MaxEvents - 1)
  BY <1>2, <1>7, LimitsAssumption DEF TerminalStatus
<1>16. at >= r.accepted /\ at >= Append(m, y)[Len(Append(m, y))].at
  BY <1>2, <1>5, <1>7, <1>11, TimeAssumption
<1>17. Loads(r, at, Append(m, y))
  BY <1>13, <1>14, <1>15, <1>16 DEF Loads
<1> QED
  BY <1>7, <1>17 DEF r, x, y

\* Every execution the store holds can be loaded.
Stored(e) ==
  row[e].status # "absent" => updatedAt[e] \in Time /\ Loads(row[e], updatedAt[e], log[e])
AllStored == \A e \in Execution : Stored(e)

LEMMA KeptStored ==
  ASSUME NEW f \in Execution, Stored(f), Kept(f)
  PROVE  Stored(f)'
BY DEF Stored, Kept

\* What the state says of an execution that has not ended.
LEMMA LiveColumns ==
  ASSUME TypeOK, LogShape, AllStored, NEW e \in Execution, row[e].status # "absent"
  PROVE  /\ row[e] \in Row /\ updatedAt[e] \in Time /\ log[e] \in Seq(Event)
         /\ Loads(row[e], updatedAt[e], log[e])
         /\ row[e].status = "queued" => Len(log[e]) = 1 /\ row[e].started = None
         /\ row[e].status \in ActiveStatus => Len(log[e]) < MaxEvents
BY DEF TypeOK, LogShape, AllStored, Stored

LEMMA InterruptedStored ==
  ASSUME TypeOK, LogShape, AllStored, NEW at \in Time, NEW f \in Execution,
         Interrupted(f, at)
  PROVE  Stored(f)'
<1> DEFINE r == TransitionExecution(row[f], "interrupted", "runner_interrupted", at)
<1>1. /\ row[f].status \in ActiveStatus
      /\ row'[f] = r /\ updatedAt'[f] = at
      /\ log'[f] = Append(log[f], LogEvent(r, "execution_interrupted", at, 0))
      /\ Chronological(r) /\ at >= updatedAt[f]
  BY DEF Interrupted, InterruptStaleExecution
<1>2. row[f].status # "absent"
  BY <1>1 DEF ActiveStatus
<1>3. /\ row[f] \in Row /\ updatedAt[f] \in Time /\ log[f] \in Seq(Event)
      /\ Loads(row[f], updatedAt[f], log[f]) /\ Len(log[f]) < MaxEvents
  BY <1>1, <1>2, LiveColumns
<1>4. "interrupted" \in TerminalStatus /\ "interrupted" \in StatusAfter(row[f].status)
  BY <1>1, StatusesAfter DEF TerminalStatus, ActiveStatus
<1>5. /\ "runner_interrupted" \in FailureCode \cup {None}
      /\ "runner_interrupted" # None
  BY FailureAssumption, NoneAssumption
<1>6. TerminalEvent["interrupted"] = "execution_interrupted"
  BY TerminalEventValues
<1>7. Loads(r, at, Append(log[f], LogEvent(r, TerminalEvent["interrupted"], at, 0)))
  BY <1>1, <1>3, <1>4, <1>5, EndLoads
<1> HIDE DEF r
<1> QED
  BY <1>1, <1>6, <1>7 DEF Stored

LEMMA AdmitStored ==
  ASSUME TypeOK, AllStored, NEW e \in Execution, NEW key \in Key, NEW request \in Request,
         NEW at \in Time, Admit(e, key, request, at)
  PROVE  AllStored'
<1>1. nextAccepted \in Nat
  BY DEF TypeOK
<1> DEFINE r == QueuedRecord(key, request, nextAccepted, at)
           l == <<LogEvent(r, "request_accepted", at, nextAccepted)>>
<1>2. /\ row'[e] = r /\ updatedAt'[e] = at /\ log'[e] = l
      /\ \A f \in Execution \ {e} : Kept(f)
  BY AdmitEffect
<1>3. Loads(r, at, l)
  BY <1>1, AdmitLoads
<1> HIDE DEF r, l
<1>4. Stored(e)'
  BY <1>2, <1>3 DEF Stored
<1>5. \A f \in Execution \ {e} : Stored(f)'
  BY <1>2, KeptStored DEF AllStored
<1> QED
  BY <1>4, <1>5 DEF AllStored

LEMMA StartHeadStored ==
  ASSUME TypeOK, LogShape, AllStored, NEW e \in Execution, NEW runner \in Runner,
         NEW at \in Time, StartHead(e, runner, at)
  PROVE  AllStored'
<1> DEFINE r == StartExecution(row[e], runner, nextGeneration, at)
<1>1. /\ row[e].status = "queued" /\ at >= updatedAt[e]
      /\ row'[e] = r /\ updatedAt'[e] = at
      /\ log'[e] = Append(log[e], LogEvent(r, "execution_started", at, nextGeneration))
      /\ \A f \in Execution \ {e} : Kept(f) \/ Interrupted(f, at)
  BY StartHeadEffect
<1>2. /\ row[e] \in Row /\ updatedAt[e] \in Time /\ log[e] \in Seq(Event)
      /\ Loads(row[e], updatedAt[e], log[e])
      /\ Len(log[e]) = 1 /\ row[e].started = None
  BY <1>1, LiveColumns
<1>3. nextGeneration \in Nat
  BY DEF TypeOK
<1>4. Loads(r, at, Append(log[e], LogEvent(r, "execution_started", at, nextGeneration)))
  BY <1>1, <1>2, <1>3, StartLoads
<1> HIDE DEF r
<1>5. Stored(e)'
  BY <1>1, <1>4 DEF Stored
<1>6. \A f \in Execution \ {e} : Stored(f)'
  BY <1>1, KeptStored, InterruptedStored DEF AllStored
<1> QED
  BY <1>5, <1>6 DEF AllStored

LEMMA CancelStored ==
  ASSUME TypeOK, LogShape, AllStored, NEW e \in Execution, NEW at \in Time, Cancel(e, at)
  PROVE  AllStored'
<1> DEFINE r == RequestCancellation(row[e], at)
           x == LogEvent(r, "cancellation_requested", at, 0)
           y == LogEvent(r, "execution_cancelled", at, 0)
<1>1. CASE CancelQueued(e, at)
  <2>1. /\ row[e].status = "queued" /\ row'[e] = r /\ updatedAt'[e] = at
        /\ log'[e] = log[e] \o <<x, y>>
        /\ \A f \in Execution \ {e} : Kept(f)
        /\ Chronological(r) /\ at >= updatedAt[e]
    BY <1>1, CancelQueuedEffect
  <2>2. /\ row[e] \in Row /\ updatedAt[e] \in Time /\ log[e] \in Seq(Event)
        /\ Loads(row[e], updatedAt[e], log[e])
        /\ Len(log[e]) = 1 /\ row[e].started = None
    BY <2>1, LiveColumns
  <2>3. Loads(r, at, log[e] \o <<x, y>>)
    BY <2>1, <2>2, CancelQueuedLoads
  <2> HIDE DEF r, x, y
  <2>4. Stored(e)'
    BY <2>1, <2>3 DEF Stored
  <2>5. \A f \in Execution \ {e} : Stored(f)'
    BY <2>1, KeptStored DEF AllStored
  <2> QED
    BY <2>4, <2>5 DEF AllStored
<1>2. CASE CancelRunning(e, at)
  <2>1. /\ row[e].status = "running" /\ Commit(e, r, "cancellation_requested", at, 0)
    BY <1>2 DEF CancelRunning, CancelRunningAllowed
  <2>2. /\ row'[e] = r /\ updatedAt'[e] = at /\ log'[e] = Append(log[e], x)
        /\ \A f \in Execution \ {e} : Kept(f)
        /\ Chronological(r) /\ at >= updatedAt[e]
        /\ SlotFree(log[e], "cancellation_requested")
    BY <2>1, CommitEffect
  <2>3. /\ row[e] \in Row /\ updatedAt[e] \in Time /\ log[e] \in Seq(Event)
        /\ Loads(row[e], updatedAt[e], log[e])
    BY <2>1, LiveColumns
  <2>4. Len(log[e]) + 1 <= MaxEvents - 1
    BY <2>2, TerminalEventTypeValue DEF SlotFree
  <2>5. Loads(r, at, Append(log[e], x))
    BY <2>1, <2>2, <2>3, <2>4, CancelRunningLoads
  <2> HIDE DEF r, x, y
  <2>6. Stored(e)'
    BY <2>2, <2>5 DEF Stored
  <2>7. \A f \in Execution \ {e} : Stored(f)'
    BY <2>2, KeptStored DEF AllStored
  <2> QED
    BY <2>6, <2>7 DEF AllStored
<1> QED
  BY <1>1, <1>2 DEF Cancel

\* What the fenced runner reports of its execution.
LEMMA ReportStored ==
  ASSUME TypeOK, LogShape, AllStored, NEW e \in Execution, row[e].status \in ActiveStatus,
         NEW type, NEW journey \in Journey, NEW number \in Nat, NEW at \in Time,
         \/ type = "execution_identity_bound" /\ row[e].journey = None
         \/ type = "stage_snapshot_persisted" /\ row[e].journey = journey,
         Commit(e, [row[e] EXCEPT !.journey = journey], type, at, number)
  PROVE  AllStored'
<1> DEFINE r == [row[e] EXCEPT !.journey = journey]
           x == LogEvent(r, type, at, number)
<1>1. /\ row'[e] = r /\ updatedAt'[e] = at /\ log'[e] = Append(log[e], x)
      /\ \A f \in Execution \ {e} : Kept(f)
      /\ at >= updatedAt[e] /\ SlotFree(log[e], type)
  BY CommitEffect
<1>2. row[e].status # "absent"
  BY DEF ActiveStatus
<1>3. /\ row[e] \in Row /\ updatedAt[e] \in Time /\ log[e] \in Seq(Event)
      /\ Loads(row[e], updatedAt[e], log[e])
  BY <1>2, LiveColumns
<1>4. type \notin TerminalEventType
  BY TerminalEventTypeValue
<1>5. Len(log[e]) + 1 <= MaxEvents - 1
  BY <1>1, <1>4 DEF SlotFree
<1>6. Loads(r, at, Append(log[e], x))
  BY <1>1, <1>3, <1>5, ReportLoads
<1> HIDE DEF r, x
<1>7. Stored(e)'
  BY <1>1, <1>6 DEF Stored
<1>8. \A f \in Execution \ {e} : Stored(f)'
  BY <1>1, KeptStored DEF AllStored
<1> QED
  BY <1>7, <1>8 DEF AllStored

LEMMA FenceActive ==
  ASSUME NEW r, NEW runner, NEW generation, NEW at, FenceHolds(r, runner, generation, at)
  PROVE  r.status \in ActiveStatus
BY DEF FenceHolds

LEMMA RenewLeaseStored ==
  ASSUME TypeOK, LogShape, AllStored, NEW e \in Execution, NEW runner, NEW generation,
         NEW at \in Time, RenewLease(e, runner, generation, at)
  PROVE  AllStored'
<1>1. /\ row[e].status \in ActiveStatus
      /\ row'[e] = [row[e] EXCEPT !.heartbeat = at]
      /\ \/ updatedAt'[e] = updatedAt[e]
         \/ at >= updatedAt[e] /\ updatedAt'[e] = at
      /\ log'[e] = log[e]
      /\ \A f \in Execution \ {e} : Kept(f)
  BY RenewLeaseEffect, FenceActive
<1>2. row[e].status # "absent"
  BY <1>1 DEF ActiveStatus
<1>3. /\ row[e] \in Row /\ updatedAt[e] \in Time /\ log[e] \in Seq(Event)
      /\ Loads(row[e], updatedAt[e], log[e])
  BY <1>2, LiveColumns
<1> DEFINE r == [row[e] EXCEPT !.heartbeat = at]
<1>4. ASSUME NEW v \in Time, v = updatedAt[e] \/ v >= updatedAt[e]
      PROVE  Loads(r, v, log[e])
  BY <1>1, <1>3, <1>4, RenewLoads
<1>5. row'[e] = r
  BY <1>1
<1> HIDE DEF r
<1>6. updatedAt'[e] \in Time /\ Loads(row'[e], updatedAt'[e], log'[e])
  <2>1. CASE updatedAt'[e] = updatedAt[e]
    BY <1>1, <1>3, <1>4, <1>5, <2>1
  <2>2. CASE at >= updatedAt[e] /\ updatedAt'[e] = at
    BY <1>1, <1>4, <1>5, <2>2
  <2> QED
    BY <1>1, <2>1, <2>2
<1>7. Stored(e)'
  BY <1>6 DEF Stored
<1>8. \A f \in Execution \ {e} : Stored(f)'
  BY <1>1, KeptStored DEF AllStored
<1> QED
  BY <1>7, <1>8 DEF AllStored

LEMMA FinishStored ==
  ASSUME TypeOK, LogShape, AllStored, NEW e \in Execution, NEW target \in TerminalStatus,
         NEW failure \in FailureCode \cup {None}, NEW runner, NEW generation,
         NEW at \in Time, Finish(e, target, failure, runner, generation, at)
  PROVE  AllStored'
<1> DEFINE r == TransitionExecution(row[e], target, failure, at)
           x == LogEvent(r, TerminalEvent[target], at, 0)
<1>1. /\ Commit(e, r, TerminalEvent[target], at, 0)
      /\ target \in FinishTarget(row[e]) /\ FailureFits(row[e], target, failure, at)
      /\ row[e].status \in ActiveStatus
  BY FenceActive DEF Finish, FinishAllowed
<1>2. /\ row'[e] = r /\ updatedAt'[e] = at /\ log'[e] = Append(log[e], x)
      /\ \A f \in Execution \ {e} : Kept(f)
      /\ Chronological(r) /\ at >= updatedAt[e]
  BY <1>1, CommitEffect
<1>3. row[e].status # "absent"
  BY <1>1 DEF ActiveStatus
<1>4. /\ row[e] \in Row /\ updatedAt[e] \in Time /\ log[e] \in Seq(Event)
      /\ Loads(row[e], updatedAt[e], log[e]) /\ Len(log[e]) < MaxEvents
  BY <1>1, <1>3, LiveColumns
<1>5. target \in StatusAfter(row[e].status) /\ target # "interrupted"
  <2>1. \/ row[e].status = "running" /\ target \in {"succeeded", "failed"}
        \/ row[e].status = "cancellation_requested" /\ target \in {"cancelled", "failed"}
    BY <1>1 DEF FinishTarget, ActiveStatus
  <2> QED
    BY <2>1, StatusesAfter
<1>6. /\ failure # None <=> target \in {"failed", "interrupted"}
      /\ failure = "runner_interrupted" <=> target = "interrupted"
      /\ failure = "cancellation_timeout" => row[e].cancelAt # None
      /\ target = "succeeded" => row[e].journey # None
  <2>1. CASE target = "succeeded"
    BY <1>1, <2>1, NoneAssumption, FailureAssumption DEF FailureFits
  <2>2. CASE target = "failed"
    BY <1>1, <2>2, NoneAssumption DEF FailureFits
  <2>3. CASE target = "cancelled"
    BY <1>1, <2>3, NoneAssumption, FailureAssumption DEF FailureFits
  <2> QED
    BY <1>5, <2>1, <2>2, <2>3 DEF TerminalStatus
<1>7. Loads(r, at, Append(log[e], x))
  BY <1>1, <1>2, <1>4, <1>5, <1>6, EndLoads
<1> HIDE DEF r, x
<1>8. Stored(e)'
  BY <1>2, <1>7 DEF Stored
<1>9. \A f \in Execution \ {e} : Stored(f)'
  BY <1>2, KeptStored DEF AllStored
<1> QED
  BY <1>8, <1>9 DEF AllStored

LEMMA NextStored == TypeOK /\ LogShape /\ AllStored /\ [Next]_storeVars => AllStored'
<1> SUFFICES ASSUME TypeOK, LogShape, AllStored, [Next]_storeVars
             PROVE  AllStored'
  OBVIOUS
<1>1. CASE UNCHANGED storeVars
  <2>1. \A f \in Execution : Kept(f)
    BY <1>1 DEF storeVars, Kept
  <2> QED
    BY <2>1, KeptStored DEF AllStored
<1>2. CASE Next
  <2> PICK at \in Time :
        \/ \E e \in Execution, key \in Key, request \in Request : Admit(e, key, request, at)
        \/ ReconcileStale(at)
        \/ \E e \in Execution : Cancel(e, at)
        \/ \E runner \in Runner :
             \/ StartNext(runner, at)
             \/ \E e \in Execution, generation \in Generation :
                  \/ \E journey \in Journey : BindIdentity(e, journey, runner, generation, at)
                  \/ \E level \in EvidenceLevel :
                       AppendStageSnapshot(e, level, runner, generation, at)
                  \/ RenewLease(e, runner, generation, at)
                  \/ \E target \in TerminalStatus, failure \in FailureCode \cup {None} :
                       Finish(e, target, failure, runner, generation, at)
    BY <1>2 DEF Next
  <2>1. ASSUME ReconcileStale(at) PROVE AllStored'
    BY <2>1, ReconcileStaleEffect, KeptStored, InterruptedStored DEF AllStored
  <2>2. ASSUME NEW runner \in Runner, StartNext(runner, at)
        PROVE  ReconcileStale(at) \/ \E e \in Execution : StartHead(e, runner, at)
    BY <2>2 DEF StartNext, Queued
  <2>3. ASSUME NEW e \in Execution, NEW runner \in Runner, NEW generation \in Generation,
               NEW journey \in Journey, BindIdentity(e, journey, runner, generation, at)
        PROVE  AllStored'
    <3>1. /\ Commit(e, [row[e] EXCEPT !.journey = journey], "execution_identity_bound", at, 0)
          /\ row[e].status \in ActiveStatus /\ row[e].journey = None
      BY <2>3, FenceActive DEF BindIdentity, BindAllowed
    <3> QED
      BY <3>1, ReportStored
  <2>4. ASSUME NEW e \in Execution, NEW runner \in Runner, NEW generation \in Generation,
               NEW level \in EvidenceLevel,
               AppendStageSnapshot(e, level, runner, generation, at)
        PROVE  AllStored'
    <3>1. /\ Commit(e, row[e], "stage_snapshot_persisted", at, level)
          /\ row[e].status \in ActiveStatus /\ row[e].journey # None
      BY <2>4, FenceActive DEF AppendStageSnapshot, SnapshotAllowed
    <3>2. row[e].journey \in Journey /\ row[e] = [row[e] EXCEPT !.journey = row[e].journey]
      BY <3>1 DEF TypeOK, Row
    <3>3. level \in Nat
      BY EvidenceAssumption
    <3> DEFINE j == row[e].journey
    <3>4. Commit(e, [row[e] EXCEPT !.journey = j], "stage_snapshot_persisted", at, level)
      BY <3>1, <3>2
    <3>5. j \in Journey /\ row[e].journey = j
      BY <3>2
    <3> HIDE DEF j
    <3> QED
      BY <3>1, <3>3, <3>4, <3>5, ReportStored
  <2> QED
    BY <2>1, <2>2, <2>3, <2>4, AdmitStored, StartHeadStored, CancelStored, RenewLeaseStored,
       FinishStored
<1> QED
  BY <1>1, <1>2

\* No sequence of calls writes a store that the load path would refuse: whatever the
\* calls and their times, every record validates, every log replays to its record, and
\* the counters lead, so that no later call fails on what an earlier one committed.
THEOREM StoredStateAlwaysLoads == Spec => []StoredStateLoads
<1>1. Init => AllStored
  BY DEF Init, AllStored, Stored, AbsentRow
<1>2. AllStored /\ SeqBelow => StoredStateLoads
  BY LoadSnapshotLoads
  DEF AllStored, Stored, SeqBelow, StoredStateLoads, CountersLead, Existing
<1> QED
  BY <1>1, <1>2, TypeCorrect, AlwaysLogShape, AlwaysSeqBelow, NextStored, PTL DEF Spec

-----------------------------------------------------------------------------
(* The records of the threads *)

SamePlace(q) == main'[q] = main[q]

\* The run a main thread is in, and what it has learnt in it.
SameRun(r) == /\ main'[r].exec = main[r].exec /\ main'[r].generation = main[r].generation
SameData(r) == /\ main'[r].level = main[r].level /\ main'[r].verified = main[r].verified
               /\ main'[r].raised = main[r].raised /\ main'[r].target = main[r].target

\* Only the main thread of r moves, in its run, to a place of its program.
MovesIn(r, pc) ==
  /\ main' \in [Runner -> MainType]
  /\ \A q \in Runner \ {r} : SamePlace(q)
  /\ main'[r].pc = pc /\ SameRun(r)

LEMMA ClockIsTime == 0 \in Time /\ Time \subseteq Int
BY ServiceAssumption, TimeAssumption

\* The record of one main thread is replaced.
LEMMA MainUpdate ==
  ASSUME main \in [Runner -> MainType], NEW r \in Runner, NEW m \in MainType,
         main' = [main EXCEPT ![r] = m]
  PROVE  /\ main' \in [Runner -> MainType]
         /\ main'[r] = m
         /\ \A q \in Runner \ {r} : SamePlace(q)
BY DEF SamePlace

LEMMA MoveEffect ==
  ASSUME main \in [Runner -> MainType], NEW r \in Runner,
         NEW pc \in {"idle", "starting", "down"} \cup RunPc, NEW at \in Time,
         main' = [main EXCEPT ![r].pc = pc, ![r].at = at]
  PROVE  MovesIn(r, pc) /\ SameData(r)
<1> DEFINE m == [main[r] EXCEPT !.pc = pc, !.at = at]
<1>1. main[r] \in MainType
  OBVIOUS
<1>2. /\ m \in MainType
      /\ m.pc = pc /\ m.exec = main[r].exec /\ m.generation = main[r].generation
      /\ m.level = main[r].level /\ m.verified = main[r].verified
      /\ m.raised = main[r].raised /\ m.target = main[r].target
  BY <1>1 DEF MainType
<1>3. main' = [main EXCEPT ![r] = m]
  OBVIOUS
<1> HIDE DEF m
<1> QED
  BY <1>2, <1>3, MainUpdate DEF MovesIn, SameRun, SameData

LEMMA GotoEffect ==
  ASSUME main \in [Runner -> MainType], NEW r \in Runner,
         NEW pc \in {"idle", "starting", "down"} \cup RunPc, Goto(r, pc)
  PROVE  MovesIn(r, pc) /\ SameData(r)
BY MoveEffect, ClockIsTime DEF Goto

LEMMA StampEffect ==
  ASSUME main \in [Runner -> MainType], clock \in Time, NEW r \in Runner,
         NEW pc \in {"idle", "starting", "down"} \cup RunPc, Stamp(r, pc)
  PROVE  MovesIn(r, pc) /\ SameData(r)
BY MoveEffect DEF Stamp

LEMMA RaiseEffect ==
  ASSUME main \in [Runner -> MainType], NEW r \in Runner, Raise(r)
  PROVE  MovesIn(r, "stopping") /\ main'[r].raised
<1> DEFINE m == [main[r] EXCEPT !.pc = "stopping", !.at = 0, !.raised = TRUE]
<1>1. main[r] \in MainType
  OBVIOUS
<1>2. /\ m \in MainType
      /\ m.pc = "stopping" /\ m.exec = main[r].exec /\ m.generation = main[r].generation
      /\ m.raised
  BY <1>1, ClockIsTime DEF MainType, RunPc
<1>3. main' = [main EXCEPT ![r] = m]
  BY DEF Raise
<1> HIDE DEF m
<1> QED
  BY <1>2, <1>3, MainUpdate DEF MovesIn, SameRun

LEMMA EndedEffect ==
  ASSUME main \in [Runner -> MainType], NEW r \in Runner, NEW pc \in RunPc,
         NEW level \in {0, 2, 3, 4}, NEW verified \in BOOLEAN, Ended(r, pc, level, verified)
  PROVE  MovesIn(r, pc) /\ main'[r].level = level /\ main'[r].verified = verified
<1> DEFINE m == [main[r] EXCEPT !.pc = pc, !.level = level, !.verified = verified]
<1>1. main[r] \in MainType /\ level \in EvidenceLevel
  BY ServiceAssumption
<1>2. /\ m \in MainType
      /\ m.pc = pc /\ m.exec = main[r].exec /\ m.generation = main[r].generation
      /\ m.level = level /\ m.verified = verified
  BY <1>1 DEF MainType
<1>3. main' = [main EXCEPT ![r] = m]
  BY DEF Ended
<1> HIDE DEF m
<1> QED
  BY <1>2, <1>3, MainUpdate DEF MovesIn, SameRun

\* A main thread that is in no run.
LEMMA IdleMainType ==
  /\ IdleMain \in MainType /\ IdleMain.pc = "idle"
  /\ [IdleMain EXCEPT !.pc = "down"] \in MainType
  /\ [IdleMain EXCEPT !.pc = "down"].pc = "down"
<1>1. 0 \in EvidenceLevel /\ 0 \in Time
  BY ServiceAssumption, ClockIsTime
<1> QED
  BY <1>1 DEF IdleMain, MainType

LEMMA LeftEffect ==
  ASSUME main \in [Runner -> MainType], NEW r \in Runner, main' = [main EXCEPT ![r] = IdleMain]
  PROVE  /\ main' \in [Runner -> MainType] /\ main'[r].pc = "idle"
         /\ \A q \in Runner \ {r} : SamePlace(q)
BY MainUpdate, IdleMainType

\* The outcome of a run, from what its threads found.
LEMMA DecideEffect ==
  ASSUME main \in [Runner -> MainType], clock \in Time, NEW r \in Runner, Decide(r)
  PROVE  /\ MovesIn(r, "finishing")
         /\ main'[r].level = main[r].level /\ main'[r].raised = main[r].raised
         /\ main'[r].target = "succeeded" =>
              ~main[r].raised /\ main[r].verified /\ main[r].level = ExpectedLevel(main[r].exec)
         /\ main'[r].verified = main[r].verified
<1> DEFINE cancelling == row[main[r].exec].status = "cancellation_requested"
           failure == IF cancelling THEN None ELSE Failure(r)
           target == IF cancelling THEN "cancelled"
                     ELSE IF failure = None THEN "succeeded" ELSE "failed"
           m == [main[r] EXCEPT !.pc = "finishing", !.at = clock,
                                !.target = target, !.failure = failure]
<1>1. main' = [main EXCEPT ![r] = m]
  BY DEF Decide
<1>2. Failure(r) \in {None, "stage_failed", "internal_error", "persistence_failed"}
  BY DEF Failure
<1>3. failure \in FailureCode \cup {None}
  BY <1>2, ServiceAssumption
<1>4. target \in {"succeeded", "failed", "cancelled"}
  OBVIOUS
<1>5. target = "succeeded" => Failure(r) = None
  OBVIOUS
<1>6. Failure(r) = None =>
        ~main[r].raised /\ main[r].verified /\ main[r].level = ExpectedLevel(main[r].exec)
  <2>1. None \notin {"stage_failed", "internal_error", "persistence_failed"}
    BY ServiceAssumption, NoneAssumption
  <2> QED
    BY <2>1 DEF Failure
<1>7. main[r] \in MainType
  OBVIOUS
<1> HIDE DEF target, failure
<1>8. /\ m \in MainType
      /\ m.pc = "finishing" /\ m.exec = main[r].exec /\ m.generation = main[r].generation
      /\ m.level = main[r].level /\ m.raised = main[r].raised /\ m.verified = main[r].verified
      /\ m.target = target
  BY <1>3, <1>4, <1>7 DEF MainType, RunPc
<1> HIDE DEF m
<1> QED
  BY <1>1, <1>5, <1>6, <1>8, MainUpdate DEF MovesIn, SameRun

\* The record of a run that begins.
Begun(r, e) ==
  /\ main' \in [Runner -> MainType]
  /\ \A q \in Runner \ {r} : SamePlace(q)
  /\ main'[r].pc = "resolving" /\ main'[r].exec = e /\ main'[r].generation = nextGeneration

LEMMA BeginEffect ==
  ASSUME main \in [Runner -> MainType], nextGeneration \in Nat, NEW r \in Runner,
         NEW e \in Execution,
         main' = [main EXCEPT ![r] = [IdleMain EXCEPT !.pc = "resolving", !.exec = e,
                                                      !.generation = nextGeneration]]
  PROVE  Begun(r, e)
<1> DEFINE m == [IdleMain EXCEPT !.pc = "resolving", !.exec = e,
                                 !.generation = nextGeneration]
<1>1. 0 \in EvidenceLevel /\ 0 \in Time
  BY ServiceAssumption, ClockIsTime
<1>2. /\ m \in MainType
      /\ m.pc = "resolving" /\ m.exec = e /\ m.generation = nextGeneration
  BY <1>1 DEF IdleMain, MainType, RunPc
<1> HIDE DEF m
<1> QED
  BY <1>2, MainUpdate DEF Begun, m

-----------------------------------------------------------------------------
(* What ties the threads of a runner together *)

\* What the CAD pipeline, and what the fabrication pipeline, may have returned.
CadOutcome(m) == <<m.level, m.verified>> \in {<<0, FALSE>>, <<2, TRUE>>}
FabricationOutcome(m) ==
  <<m.level, m.verified>> \in {<<2, FALSE>>, <<3, FALSE>>, <<4, TRUE>>}

Thread(r) ==
  /\ InRun(r) => main[r].exec \in Execution /\ main[r].generation \in Generation
  /\ monitor[r].pc # "gone" => InRun(r) /\ main[r].pc # "finishing"
  /\ token[r] => InRun(r)
  /\ main[r].pc = "cad_ended" => CadOutcome(main[r])
  /\ main[r].pc = "slicing_ended" => FabricationOutcome(main[r])
  /\ main[r].pc = "publishing" => CadOutcome(main[r]) \/ FabricationOutcome(main[r])
  /\ main[r].pc = "finishing" /\ main[r].target = "succeeded" =>
       ~main[r].raised /\ main[r].verified /\ main[r].level = ExpectedLevel(main[r].exec)

Threads == \A r \in Runner : Thread(r)

ThreadInv == TypeOK /\ ServiceTypeOK /\ Threads

\* A generation that was handed out stays one.
LEMMA GenerationsGrow ==
  ASSUME NEW n \in Nat, NEW m \in Nat, m >= n, NEW g \in 1..(n - 1)
  PROVE  g \in 1..(m - 1)
OBVIOUS

\* A main thread that is in its run goes on in it.
LEMMA MoveThread ==
  ASSUME ThreadInv, NEW r \in Runner, NEW pc \in RunPc \ {"finishing"}, InRun(r), MovesIn(r, pc),
         nextGeneration \in Nat, nextGeneration' \in Nat, nextGeneration' >= nextGeneration,
         pc = "cad_ended" => CadOutcome(main'[r]),
         pc = "slicing_ended" => FabricationOutcome(main'[r]),
         pc = "publishing" => CadOutcome(main'[r]) \/ FabricationOutcome(main'[r])
  PROVE  Thread(r)'
<1>1. main[r].exec \in Execution /\ main[r].generation \in Generation
  BY DEF ThreadInv, Threads, Thread
<1>2. main'[r].exec \in Execution /\ main'[r].generation \in Generation'
  BY <1>1, GenerationsGrow DEF MovesIn, SameRun, Generation
<1>3. main'[r].pc = pc
  BY DEF MovesIn
<1>4. InRun(r)'
  BY <1>3 DEF InRun
<1>5. pc # "finishing"
  OBVIOUS
<1> QED
  BY <1>2, <1>3, <1>4, <1>5 DEF Thread, CadOutcome, FabricationOutcome

\* The threads of another runner are where they were.
LEMMA OtherThread ==
  ASSUME ThreadInv, NEW q \in Runner, SamePlace(q), monitor'[q] = monitor[q], token'[q] = token[q],
         nextGeneration \in Nat, nextGeneration' \in Nat, nextGeneration' >= nextGeneration
  PROVE  Thread(q)'
<1>1. Thread(q)
  BY DEF ThreadInv, Threads
<1>2. \A g \in Generation : g \in Generation'
  BY GenerationsGrow DEF Generation
<1>3. InRun(q)' = InRun(q)
  BY DEF InRun, SamePlace
<1> QED
  BY <1>1, <1>2, <1>3 DEF Thread, SamePlace

LEMMA OutsideThread ==
  ASSUME NEW r \in Runner, main'[r].pc \in {"idle", "starting", "down"},
         monitor'[r].pc = "gone", ~token'[r]
  PROVE  Thread(r)'
<1>1. ~InRun(r)'
  BY DEF InRun, RunPc, StagePc
<1> QED
  BY <1>1 DEF Thread

-----------------------------------------------------------------------------
(* A step of the service is a step of the store, or leaves it alone *)

LEMMA StoreStep ==
  ASSUME ThreadInv, [ServiceNext]_vars
  PROVE  [Next]_storeVars
<1> USE DEF ThreadInv
<1>1. CASE UNCHANGED vars
  BY <1>1 DEF vars, storeVars
<1>2. ASSUME NEW r \in Runner, MainStep(r)
      PROVE  [Next]_storeVars
  <2>1. main[r] \in MainType
    BY DEF ServiceTypeOK
  <2>2. main[r].at \in Time
    BY <2>1 DEF MainType
  <2>3. InRun(r) => main[r].exec \in Execution /\ main[r].generation \in Generation
    BY DEF Threads, Thread
  <2>4. CASE CallRunNext(r) \/ StartRaises(r)
    BY <2>4 DEF CallRunNext, StartRaises
  <2>5. CASE StartRun(r)
    <3>1. StartNext(r, main[r].at)
      BY <2>5 DEF StartRun, StartNext
    <3> QED
      BY <2>2, <3>1 DEF Next
  <2>6. CASE StartNone(r)
    BY <2>2, <2>6 DEF StartNone, Next
  <2>7. CASE Resolve(r) \/ BindRaises(r)
    BY <2>7 DEF Resolve, BindRaises
  <2>8. CASE Bind(r)
    <3>1. InRun(r)
      BY <2>8 DEF Bind, InRun, RunPc
    <3>2. \E journey \in Journey :
             BindIdentity(main[r].exec, journey, r, main[r].generation, main[r].at)
      BY <2>8 DEF Bind
    <3> QED
      BY <2>2, <2>3, <3>1, <3>2 DEF Next
  <2>9. CASE LaunchCad(r) \/ EndCad(r) \/ EndPrintability(r) \/ EndSlicing(r)
    BY <2>9 DEF LaunchCad, EndCad, EndPrintability, EndSlicing
  <2>10. CASE TakeSnapshot(r) \/ PublishRaises(r) \/ Decide(r) \/ FinishRaises(r)
    BY <2>10 DEF TakeSnapshot, PublishRaises, Decide, FinishRaises
  <2>11. CASE Publish(r)
    <3>1. InRun(r) /\ main[r].level \in EvidenceLevel
      BY <2>1, <2>11 DEF Publish, InRun, RunPc, MainType
    <3>2. AppendStageSnapshot(main[r].exec, main[r].level, r, main[r].generation, main[r].at)
      BY <2>11 DEF Publish
    <3> QED
      BY <2>2, <2>3, <3>1, <3>2 DEF Next
  <2>12. CASE FinishRun(r)
    <3>1. InRun(r) /\ main[r].failure \in FailureCode \cup {None}
      BY <2>1, <2>12 DEF FinishRun, InRun, RunPc, MainType
    <3>2. Finish(main[r].exec, main[r].target, main[r].failure, r, main[r].generation,
                 main[r].at)
      BY <2>12 DEF FinishRun
    <3>3. main[r].target \in TerminalStatus
      BY <3>2 DEF Finish, FinishAllowed, FinishTarget, TerminalStatus
    <3> QED
      BY <2>2, <2>3, <3>1, <3>2, <3>3 DEF Next
  <2> QED
    BY <1>2, <2>4, <2>5, <2>6, <2>7, <2>8, <2>9, <2>10, <2>11, <2>12 DEF MainStep
<1>3. ASSUME NEW r \in Runner, ExecutorRaises(r) \/ Crash(r) \/ Restart(r)
      PROVE  [Next]_storeVars
  BY <1>3 DEF ExecutorRaises, Crash, Restart
<1>4. ASSUME NEW r \in Runner, MonitorStep(r)
      PROVE  [Next]_storeVars
  <2>1. CASE Renew(r)
    <3>1. InRun(r)
      BY <2>1 DEF Renew, Threads, Thread
    <3>2. main[r].exec \in Execution /\ main[r].generation \in Generation
      BY <3>1 DEF Threads, Thread
    <3>3. monitor[r].at \in Time
      BY DEF ServiceTypeOK
    <3>4. RenewLease(main[r].exec, r, main[r].generation, monitor[r].at)
      BY <2>1 DEF Renew
    <3> QED
      BY <3>2, <3>3, <3>4 DEF Next
  <2>2. CASE WakeMonitor(r) \/ ReadRecord(r) \/ MonitorFails(r) \/ StopMonitor(r)
    BY <2>2 DEF WakeMonitor, ReadRecord, MonitorFails, StopMonitor
  <2> QED
    BY <1>4, <2>1, <2>2 DEF MonitorStep
<1>5. ASSUME NEW e \in Execution, ClientAdmit(e)
      PROVE  [Next]_storeVars
  <2>1. e \in Key /\ clock \in Time
    BY ServiceAssumption DEF ServiceTypeOK
  <2> QED
    BY <1>5, <2>1 DEF ClientAdmit, Next
<1>6. ASSUME NEW e \in Execution, CommitCancel(e)
      PROVE  [Next]_storeVars
  <2>1. cancelStamp[e] \in Time
    BY <1>6 DEF CommitCancel, ServiceTypeOK
  <2>2. Cancel(e, cancelStamp[e]) \/ UNCHANGED storeVars
    BY <1>6 DEF CommitCancel
  <2> QED
    BY <2>1, <2>2 DEF Next
<1>7. ASSUME Tick \/ \E e \in Execution : CallCancel(e)
      PROVE  [Next]_storeVars
  BY <1>7 DEF Tick, CallCancel
<1> QED
  BY <1>1, <1>2, <1>3, <1>4, <1>5, <1>6, <1>7 DEF ServiceNext

-----------------------------------------------------------------------------
(* The threads of a runner stay tied together *)

\* Everything but the main threads has its type.
RestTyped ==
  /\ clock \in Time
  /\ monitor \in [Runner -> [pc : {"gone", "waiting", "reading", "renewing"}, at : Time]]
  /\ token \in [Runner -> BOOLEAN] /\ monitorError \in [Runner -> BOOLEAN]
  /\ lock \in [Runner -> {"free", "main", "monitor"}]
  /\ cancelStamp \in [Execution -> Time \cup {None}]

\* The threads of the other runners stay where they are.
OthersStay(r) ==
  \A q \in Runner \ {r} : SamePlace(q) /\ monitor'[q] = monitor[q] /\ token'[q] = token[q]

GenerationGrows ==
  nextGeneration \in Nat /\ nextGeneration' \in Nat /\ nextGeneration' >= nextGeneration

LEMMA StepGrows ==
  ASSUME TypeOK, [Next]_storeVars
  PROVE  GenerationGrows
<1>1. nextGeneration \in Nat
  BY DEF TypeOK
<1>2. nextGeneration' = nextGeneration \/ nextGeneration' = nextGeneration + 1
  BY LogStep
<1> QED
  BY <1>1, <1>2 DEF GenerationGrows

LEMMA ThreadsFrame ==
  ASSUME ThreadInv, GenerationGrows, NEW r \in Runner,
         main' \in [Runner -> MainType], RestTyped', OthersStay(r), Thread(r)'
  PROVE  ServiceTypeOK' /\ Threads'
<1>1. ServiceTypeOK'
  BY DEF ServiceTypeOK, RestTyped
<1>2. ASSUME NEW q \in Runner
      PROVE  Thread(q)'
  BY OtherThread DEF OthersStay, GenerationGrows
<1> QED
  BY <1>1, <1>2 DEF Threads

\* The main thread goes on in its run, and no thread or call but it moves.
LEMMA MainMoves ==
  ASSUME ThreadInv, GenerationGrows, NEW r \in Runner, NEW pc \in RunPc \ {"finishing"},
         InRun(r), MovesIn(r, pc), lock' \in [Runner -> {"free", "main", "monitor"}],
         UNCHANGED <<clock, monitor, token, monitorError, cancelStamp>>,
         pc = "cad_ended" => CadOutcome(main'[r]),
         pc = "slicing_ended" => FabricationOutcome(main'[r]),
         pc = "publishing" => CadOutcome(main'[r]) \/ FabricationOutcome(main'[r])
  PROVE  ServiceTypeOK' /\ Threads'
<1>1. RestTyped'
  BY DEF ThreadInv, ServiceTypeOK, RestTyped
<1>2. main' \in [Runner -> MainType] /\ OthersStay(r)
  BY DEF MovesIn, OthersStay
<1>3. Thread(r)'
  BY MoveThread DEF GenerationGrows
<1> QED
  BY <1>1, <1>2, <1>3, ThreadsFrame

\* The main thread is between two runs, and so are its other threads.
LEMMA MainOutside ==
  ASSUME ThreadInv, GenerationGrows, NEW r \in Runner,
         main' \in [Runner -> MainType], RestTyped', OthersStay(r),
         main'[r].pc \in {"idle", "starting", "down"}, monitor'[r].pc = "gone", ~token'[r]
  PROVE  ServiceTypeOK' /\ Threads'
BY OutsideThread, ThreadsFrame

LEMMA OutsideNow ==
  ASSUME ThreadInv, NEW r \in Runner, ~InRun(r) \/ main[r].pc = "finishing"
  PROVE  monitor[r].pc = "gone"
BY DEF ThreadInv, Threads, Thread

LEMMA FirstOutcomes ==
  /\ \A m : m.level = 0 /\ m.verified = FALSE => CadOutcome(m)
  /\ \A m : m.level = 2 /\ m.verified = TRUE => CadOutcome(m)
  /\ \A m : m.level = 2 /\ m.verified = FALSE => FabricationOutcome(m)
  /\ \A m : m.level = 3 /\ m.verified = FALSE => FabricationOutcome(m)
  /\ \A m : m.level = 4 /\ m.verified = TRUE => FabricationOutcome(m)
BY DEF CadOutcome, FabricationOutcome

LEMMA StartThreads ==
  ASSUME ThreadInv, GenerationGrows, NEW r \in Runner,
         CallRunNext(r) \/ StartRun(r) \/ StartNone(r) \/ StartRaises(r)
  PROVE  ServiceTypeOK' /\ Threads'
<1>1. main \in [Runner -> MainType] /\ clock \in Time /\ RestTyped
  BY DEF ThreadInv, ServiceTypeOK, RestTyped
<1>2. main[r].pc \in {"idle", "starting"}
  BY DEF CallRunNext, StartRun, StartNone, StartRaises
<1>3. ~InRun(r)
  BY <1>2 DEF InRun, RunPc, StagePc
<1>4. monitor[r].pc = "gone" /\ ~token[r]
  BY <1>3 DEF ThreadInv, Threads, Thread
<1>5. CASE CallRunNext(r)
  <2>1. Stamp(r, "starting") /\ UNCHANGED <<clock, threadVars, cancelStamp>>
    BY <1>5 DEF CallRunNext
  <2>2. MovesIn(r, "starting")
    BY <1>1, <2>1, StampEffect
  <2> QED
    BY <1>1, <1>4, <2>1, <2>2, MainOutside DEF MovesIn, RestTyped, OthersStay, threadVars
<1>6. CASE StartNone(r) \/ StartRaises(r)
  <2>1. main' = [main EXCEPT ![r] = IdleMain] /\ UNCHANGED <<clock, threadVars, cancelStamp>>
    BY <1>6 DEF StartNone, StartRaises
  <2> QED
    BY <1>1, <1>4, <2>1, LeftEffect, MainOutside DEF RestTyped, OthersStay, threadVars
<1>7. CASE StartRun(r)
  <2>1. PICK e \in Execution :
          /\ StartHead(e, r, main[r].at)
          /\ main' = [main EXCEPT ![r] = [IdleMain EXCEPT !.pc = "resolving", !.exec = e,
                                                         !.generation = nextGeneration]]
    BY <1>7 DEF StartRun, Queued
  <2>2. /\ monitor' = [monitor EXCEPT ![r] = [pc |-> "waiting", at |-> clock]]
        /\ token' = [token EXCEPT ![r] = FALSE]
        /\ monitorError' = [monitorError EXCEPT ![r] = FALSE]
        /\ UNCHANGED <<clock, lock, cancelStamp>>
    BY <1>7 DEF StartRun
  <2>3. Begun(r, e)
    BY <1>1, <2>1, BeginEffect DEF GenerationGrows
  <2>4. RestTyped' /\ ~token'[r] /\ monitor'[r].pc = "waiting"
    BY <1>1, <2>2 DEF RestTyped
  <2>5. OthersStay(r)
    BY <1>1, <2>2, <2>3 DEF RestTyped, Begun, OthersStay
  <2>6. nextGeneration \in Generation'
    <3>1. nextGeneration' = nextGeneration + 1
      BY <2>1 DEF StartHead
    <3>2. nextGeneration \in Nat \ {0}
      BY DEF ThreadInv, TypeOK
    <3> QED
      BY <3>1, <3>2 DEF Generation
  <2>7. Thread(r)'
    <3>1. InRun(r)'
      BY <2>3 DEF Begun, InRun, RunPc
    <3> QED
      BY <2>3, <2>4, <2>6, <3>1 DEF Begun, Thread
  <2> QED
    BY <2>3, <2>4, <2>5, <2>7, ThreadsFrame DEF Begun
<1> QED
  BY <1>5, <1>6, <1>7

LEMMA ExecutorThreads ==
  ASSUME ThreadInv, GenerationGrows, NEW r \in Runner,
         \/ Resolve(r) \/ Bind(r) \/ BindRaises(r)
         \/ LaunchCad(r) \/ EndCad(r) \/ EndPrintability(r) \/ EndSlicing(r)
         \/ TakeSnapshot(r) \/ Publish(r) \/ PublishRaises(r) \/ ExecutorRaises(r)
  PROVE  ServiceTypeOK' /\ Threads'
<1>1. main \in [Runner -> MainType] /\ clock \in Time /\ RestTyped
  BY DEF ThreadInv, ServiceTypeOK, RestTyped
<1>2. InRun(r) /\ main[r].pc # "finishing"
  BY DEF Resolve, Bind, BindRaises, LaunchCad, EndCad, EndPrintability, EndSlicing,
         TakeSnapshot, Publish, PublishRaises, ExecutorRaises, InRun, RunPc, StagePc
<1>3. UNCHANGED <<clock, monitor, token, monitorError, cancelStamp>>
  BY DEF Resolve, Bind, BindRaises, LaunchCad, EndCad, EndPrintability, EndSlicing,
         TakeSnapshot, Publish, PublishRaises, ExecutorRaises, threadVars
<1>4. lock' \in [Runner -> {"free", "main", "monitor"}]
  <2>1. \/ lock' = lock
        \/ lock' = [lock EXCEPT ![r] = "main"] \/ lock' = [lock EXCEPT ![r] = "free"]
    BY DEF Resolve, Bind, BindRaises, LaunchCad, EndCad, EndPrintability, EndSlicing,
           TakeSnapshot, Publish, PublishRaises, ExecutorRaises, threadVars
  <2> QED
    BY <1>1, <2>1 DEF RestTyped
<1>5. {"resolving", "binding", "bound", "cad", "cad_ended", "publishing", "printability",
       "slicing", "slicing_ended", "stopping"} \subseteq RunPc
  BY DEF RunPc, StagePc
<1>6. ASSUME NEW pc \in {"binding", "bound", "cad", "printability", "slicing", "stopping"},
             MovesIn(r, pc)
      PROVE  ServiceTypeOK' /\ Threads'
  BY <1>2, <1>3, <1>4, <1>5, <1>6, MainMoves
<1>7. CASE Resolve(r)
  BY <1>1, <1>5, <1>6, <1>7, StampEffect DEF Resolve
<1>8. CASE Bind(r)
  BY <1>1, <1>5, <1>6, <1>8, GotoEffect DEF Bind
<1>9. CASE BindRaises(r) \/ PublishRaises(r) \/ ExecutorRaises(r)
  BY <1>1, <1>6, <1>9, RaiseEffect DEF BindRaises, PublishRaises, ExecutorRaises
<1>10. CASE LaunchCad(r) \/ EndCad(r)
  <2>1. \/ Goto(r, "cad") \/ Ended(r, "cad_ended", 0, FALSE) \/ Ended(r, "cad_ended", 2, TRUE)
    BY <1>10 DEF LaunchCad, EndCad
  <2>2. CASE Goto(r, "cad")
    BY <1>1, <1>5, <1>6, <2>2, GotoEffect
  <2>3. CASE Ended(r, "cad_ended", 0, FALSE) \/ Ended(r, "cad_ended", 2, TRUE)
    <3>1. MovesIn(r, "cad_ended") /\ CadOutcome(main'[r])
      BY <1>1, <1>5, <2>3, EndedEffect, FirstOutcomes
    <3> QED
      BY <1>2, <1>3, <1>4, <1>5, <3>1, MainMoves
  <2> QED
    BY <2>1, <2>2, <2>3
<1>11. CASE EndPrintability(r) \/ EndSlicing(r)
  <2>1. \/ Goto(r, "slicing") \/ Ended(r, "slicing_ended", 2, FALSE)
        \/ Ended(r, "slicing_ended", 3, FALSE) \/ Ended(r, "slicing_ended", 4, TRUE)
    BY <1>11 DEF EndPrintability, EndSlicing
  <2>2. CASE Goto(r, "slicing")
    BY <1>1, <1>5, <1>6, <2>2, GotoEffect
  <2>3. CASE \/ Ended(r, "slicing_ended", 2, FALSE)
             \/ Ended(r, "slicing_ended", 3, FALSE) \/ Ended(r, "slicing_ended", 4, TRUE)
    <3>1. MovesIn(r, "slicing_ended") /\ FabricationOutcome(main'[r])
      BY <1>1, <1>5, <2>3, EndedEffect, FirstOutcomes
    <3> QED
      BY <1>2, <1>3, <1>4, <1>5, <3>1, MainMoves
  <2> QED
    BY <2>1, <2>2, <2>3
<1>12. CASE TakeSnapshot(r)
  <2>1. MovesIn(r, "publishing") /\ SameData(r)
    BY <1>1, <1>5, <1>12, StampEffect DEF TakeSnapshot
  <2>2. CadOutcome(main[r]) \/ FabricationOutcome(main[r])
    BY <1>12 DEF TakeSnapshot, ThreadInv, Threads, Thread
  <2>3. CadOutcome(main'[r]) \/ FabricationOutcome(main'[r])
    BY <2>1, <2>2 DEF SameData, CadOutcome, FabricationOutcome
  <2> QED
    BY <1>2, <1>3, <1>4, <1>5, <2>1, <2>3, MainMoves
<1>13. CASE Publish(r)
  <2>1. Goto(r, NextPc(r)) /\ NextPc(r) \in {"printability", "stopping"}
    BY <1>13 DEF Publish, NextPc
  <2> QED
    BY <1>1, <1>5, <1>6, <2>1, GotoEffect
<1> QED
  BY <1>7, <1>8, <1>9, <1>10, <1>11, <1>12, <1>13

LEMMA OutcomeThreads ==
  ASSUME ThreadInv, GenerationGrows, NEW r \in Runner,
         \/ Decide(r) \/ FinishRun(r) \/ FinishRaises(r) \/ Crash(r) \/ Restart(r)
  PROVE  ServiceTypeOK' /\ Threads'
<1>1. main \in [Runner -> MainType] /\ clock \in Time /\ RestTyped
  BY DEF ThreadInv, ServiceTypeOK, RestTyped
<1>2. CASE Decide(r)
  <2>1. /\ main[r].pc = "stopping" /\ monitor[r].pc = "gone"
        /\ UNCHANGED <<clock, threadVars, cancelStamp>>
    BY <1>2 DEF Decide
  <2>2. /\ MovesIn(r, "finishing")
        /\ main'[r].level = main[r].level /\ main'[r].raised = main[r].raised
        /\ main'[r].verified = main[r].verified
        /\ main'[r].target = "succeeded" =>
              ~main[r].raised /\ main[r].verified /\ main[r].level = ExpectedLevel(main[r].exec)
    BY <1>1, <1>2, DecideEffect
  <2>3. RestTyped' /\ OthersStay(r) /\ monitor'[r].pc = "gone"
    BY <1>1, <2>1, <2>2 DEF RestTyped, threadVars, OthersStay, MovesIn
  <2>4. InRun(r) /\ InRun(r)'
    BY <2>1, <2>2 DEF InRun, RunPc, MovesIn
  <2>5. main'[r].exec \in Execution /\ main'[r].generation \in Generation'
    <3>1. main[r].exec \in Execution /\ main[r].generation \in Generation
      BY <2>4 DEF ThreadInv, Threads, Thread
    <3> QED
      BY <2>2, <3>1, GenerationsGrow DEF MovesIn, SameRun, GenerationGrows, Generation
  <2>6. main'[r].pc = "finishing" /\ main'[r].exec = main[r].exec
    BY <2>2 DEF MovesIn, SameRun
  <2>7. main'[r].target = "succeeded" =>
          ~main'[r].raised /\ main'[r].verified /\ main'[r].level = ExpectedLevel(main'[r].exec)
    BY <2>2, <2>6
  <2>8. Thread(r)'
    BY <2>3, <2>4, <2>5, <2>6, <2>7 DEF Thread, ExpectedLevel
  <2> QED
    BY <2>2, <2>3, <2>8, ThreadsFrame DEF MovesIn
<1>3. CASE FinishRun(r) \/ FinishRaises(r)
  <2>1. main[r].pc = "finishing" /\ LeaveRun(r)
    BY <1>3 DEF FinishRun, FinishRaises
  <2>2. monitor[r].pc = "gone"
    BY <2>1, OutsideNow
  <2>3. /\ main' = [main EXCEPT ![r] = IdleMain]
        /\ token' = [token EXCEPT ![r] = FALSE]
        /\ monitorError' = [monitorError EXCEPT ![r] = FALSE]
        /\ UNCHANGED <<clock, monitor, lock, cancelStamp>>
    BY <2>1 DEF LeaveRun
  <2>4. RestTyped' /\ ~token'[r] /\ monitor'[r].pc = "gone"
    BY <1>1, <2>2, <2>3 DEF RestTyped
  <2>5. OthersStay(r) /\ main'[r].pc = "idle" /\ main' \in [Runner -> MainType]
    BY <1>1, <2>3, LeftEffect DEF OthersStay, RestTyped
  <2> QED
    BY <2>4, <2>5, MainOutside
<1>4. CASE Crash(r)
  <2>1. /\ main' = [main EXCEPT ![r] = [IdleMain EXCEPT !.pc = "down"]]
        /\ monitor' = [monitor EXCEPT ![r] = GoneMonitor]
        /\ token' = [token EXCEPT ![r] = FALSE]
        /\ monitorError' = [monitorError EXCEPT ![r] = FALSE]
        /\ lock' = [lock EXCEPT ![r] = "free"]
        /\ UNCHANGED <<clock, cancelStamp>>
    BY <1>4 DEF Crash
  <2>2. GoneMonitor \in [pc : {"gone", "waiting", "reading", "renewing"}, at : Time]
        /\ GoneMonitor.pc = "gone"
    BY ClockIsTime DEF GoneMonitor
  <2>3. RestTyped' /\ ~token'[r] /\ monitor'[r].pc = "gone"
    BY <1>1, <2>1, <2>2 DEF RestTyped
  <2>4. /\ main' \in [Runner -> MainType] /\ main'[r].pc = "down"
        /\ \A q \in Runner \ {r} : SamePlace(q)
    BY <1>1, <2>1, IdleMainType, MainUpdate
  <2>5. OthersStay(r)
    BY <1>1, <2>1, <2>4 DEF OthersStay, RestTyped
  <2> QED
    BY <2>3, <2>4, <2>5, MainOutside
<1>5. CASE Restart(r)
  <2>1. main[r].pc = "down" /\ Goto(r, "idle") /\ UNCHANGED <<clock, threadVars, cancelStamp>>
    BY <1>5 DEF Restart
  <2>2. MovesIn(r, "idle")
    BY <1>1, <2>1, GotoEffect
  <2>3. ~InRun(r)
    BY <2>1 DEF InRun, RunPc, StagePc
  <2>4. monitor[r].pc = "gone" /\ ~token[r]
    BY <2>3 DEF ThreadInv, Threads, Thread
  <2> QED
    BY <1>1, <2>1, <2>2, <2>4, MainOutside DEF MovesIn, RestTyped, OthersStay, threadVars
<1> QED
  BY <1>2, <1>3, <1>4, <1>5

LEMMA MonitorThreads ==
  ASSUME ThreadInv, GenerationGrows, NEW r \in Runner, MonitorStep(r)
  PROVE  ServiceTypeOK' /\ Threads'
<1>1. main \in [Runner -> MainType] /\ clock \in Time /\ RestTyped
  BY DEF ThreadInv, ServiceTypeOK, RestTyped
<1>2. GoneMonitor \in [pc : {"gone", "waiting", "reading", "renewing"}, at : Time]
  BY ClockIsTime DEF GoneMonitor
<1>3. main' = main /\ monitor[r].pc # "gone"
  BY DEF MonitorStep, WakeMonitor, ReadRecord, Renew, MonitorFails, StopMonitor
<1>4. InRun(r) /\ main[r].pc # "finishing"
  BY <1>3 DEF ThreadInv, Threads, Thread
<1>5. RestTyped'
  <2>1. CASE WakeMonitor(r)
    BY <1>1, <2>1 DEF WakeMonitor, RestTyped
  <2>2. CASE ReadRecord(r)
    <3>1. /\ token' \in [Runner -> BOOLEAN]
          /\ UNCHANGED <<clock, monitorError, cancelStamp>>
      BY <1>1, <2>2 DEF ReadRecord, RestTyped
    <3>2. /\ \/ monitor' = [monitor EXCEPT ![r] = [pc |-> "renewing", at |-> clock]]
             \/ monitor' = [monitor EXCEPT ![r] = GoneMonitor]
          /\ lock' = lock \/ lock' = [lock EXCEPT ![r] = "free"]
      BY <2>2 DEF ReadRecord
    <3>3. monitor' \in [Runner -> [pc : {"gone", "waiting", "reading", "renewing"}, at : Time]]
      BY <1>1, <1>2, <3>2 DEF RestTyped
    <3>4. lock' \in [Runner -> {"free", "main", "monitor"}]
      BY <1>1, <3>2 DEF RestTyped
    <3> QED
      BY <1>1, <3>1, <3>3, <3>4 DEF RestTyped
  <2>3. CASE Renew(r)
    BY <1>1, <2>3 DEF Renew, RestTyped
  <2>4. CASE MonitorFails(r)
    BY <1>1, <1>2, <2>4 DEF MonitorFails, RestTyped
  <2>5. CASE StopMonitor(r)
    BY <1>1, <1>2, <2>5 DEF StopMonitor, RestTyped
  <2> QED
    BY <2>1, <2>2, <2>3, <2>4, <2>5 DEF MonitorStep
<1>6. \A q \in Runner \ {r} : monitor'[q] = monitor[q] /\ token'[q] = token[q]
  BY <1>1 DEF MonitorStep, WakeMonitor, ReadRecord, Renew, MonitorFails, StopMonitor, RestTyped
<1>7. OthersStay(r)
  BY <1>3, <1>6 DEF OthersStay, SamePlace
<1>8. Thread(r)'
  <2>1. Thread(r)
    BY DEF ThreadInv, Threads
  <2>2. InRun(r)' /\ main'[r].pc # "finishing"
    BY <1>3, <1>4 DEF InRun
  <2>3. main'[r].exec \in Execution /\ main'[r].generation \in Generation'
    BY <1>3, <1>4, <2>1, GenerationsGrow DEF Thread, GenerationGrows, Generation
  <2> QED
    BY <1>3, <2>1, <2>2, <2>3 DEF Thread
<1> QED
  BY <1>1, <1>3, <1>5, <1>7, <1>8, ThreadsFrame

LEMMA HostThreads ==
  ASSUME ThreadInv, GenerationGrows,
         Tick \/ \E e \in Execution : ClientAdmit(e) \/ CallCancel(e) \/ CommitCancel(e)
  PROVE  ServiceTypeOK' /\ Threads'
<1>1. main \in [Runner -> MainType] /\ clock \in Time /\ RestTyped
  BY DEF ThreadInv, ServiceTypeOK, RestTyped
<1>2. UNCHANGED <<main, monitor, token, monitorError, lock>>
  BY DEF Tick, ClientAdmit, CallCancel, CommitCancel, serviceVars, threadVars
<1>3. clock' \in Time
  <2>1. clock' = clock \/ (clock < MaxTime /\ clock' = clock + 1)
    BY DEF Tick, ClientAdmit, CallCancel, CommitCancel, serviceVars
  <2> QED
    BY <1>1, <2>1, ServiceAssumption
<1>4. cancelStamp' \in [Execution -> Time \cup {None}]
  <2>1. \/ cancelStamp' = cancelStamp
        \/ \E e \in Execution : \/ cancelStamp' = [cancelStamp EXCEPT ![e] = clock]
                                \/ cancelStamp' = [cancelStamp EXCEPT ![e] = None]
    BY DEF Tick, ClientAdmit, CallCancel, CommitCancel, serviceVars
  <2> QED
    BY <1>1, <2>1 DEF RestTyped
<1>5. ServiceTypeOK'
  BY <1>1, <1>2, <1>3, <1>4 DEF ServiceTypeOK, RestTyped
<1>6. \A q \in Runner : Thread(q)'
  BY <1>2, OtherThread DEF SamePlace, GenerationGrows
<1> QED
  BY <1>5, <1>6 DEF Threads

LEMMA NextThreadInv == ThreadInv /\ [ServiceNext]_vars => ThreadInv'
<1> SUFFICES ASSUME ThreadInv, [ServiceNext]_vars
             PROVE  ThreadInv'
  OBVIOUS
<1>1. [Next]_storeVars
  BY StoreStep
<1>2. TypeOK' /\ GenerationGrows
  BY <1>1, NextTypeOK, StepGrows DEF ThreadInv
<1>3. CASE UNCHANGED vars
  <2>1. UNCHANGED <<clock, main, monitor, token, monitorError, lock, cancelStamp>>
    BY <1>3 DEF vars, serviceVars, threadVars
  <2>2. \A q \in Runner : Thread(q)'
    BY <1>2, <2>1, OtherThread DEF SamePlace, GenerationGrows
  <2>3. ServiceTypeOK'
    BY <2>1 DEF ThreadInv, ServiceTypeOK
  <2> QED
    BY <1>2, <2>2, <2>3 DEF ThreadInv, Threads
<1>4. CASE ServiceNext
  <2>1. ServiceTypeOK' /\ Threads'
    BY <1>2, <1>4, StartThreads, ExecutorThreads, OutcomeThreads, MonitorThreads, HostThreads
       DEF ServiceNext, MainStep
  <2> QED
    BY <1>2, <2>1 DEF ThreadInv
<1> QED
  BY <1>3, <1>4

LEMMA InitThreadInv == ServiceInit => ThreadInv
<1> SUFFICES ASSUME ServiceInit
             PROVE  ThreadInv
  OBVIOUS
<1>1. TypeOK
  BY InitTypeOK DEF ServiceInit
<1>2. ServiceTypeOK
  <2>1. clock \in Time
    BY ClockIsTime DEF ServiceInit
  <2>2. GoneMonitor \in [pc : {"gone", "waiting", "reading", "renewing"}, at : Time]
    BY ClockIsTime DEF GoneMonitor
  <2> QED
    BY <2>1, <2>2, IdleMainType DEF ServiceInit, ServiceTypeOK
<1>3. ASSUME NEW r \in Runner
      PROVE  Thread(r)
  <2>1. main[r].pc = "idle" /\ monitor[r].pc = "gone" /\ ~token[r]
    BY IdleMainType DEF ServiceInit, GoneMonitor
  <2>2. ~InRun(r)
    BY <2>1 DEF InRun, RunPc, StagePc
  <2> QED
    BY <2>1, <2>2 DEF Thread
<1> QED
  BY <1>1, <1>2, <1>3 DEF ThreadInv, Threads

LEMMA AlwaysThreadInv == ServiceSpec => []ThreadInv
BY InitThreadInv, NextThreadInv, PTL DEF ServiceSpec

\* In every state run_next and its lease monitor can reach, whichever runner crashes and
\* whichever call of the store raises, every thread, token, lock and stamp has a
\* value of its type.
THEOREM ServiceTypeCorrect == ServiceSpec => []ServiceTypeOK
<1>1. ThreadInv => ServiceTypeOK
  BY DEF ThreadInv
<1> QED
  BY <1>1, AlwaysThreadInv, PTL

\* Whatever the threads of run_next, the clients and the crashes do, the store's columns
\* only change by a call of the store: one transition of ExecutionStore, with arguments
\* that transition allows, or none.  All that is proved of the store holds in the service.
THEOREM ServiceImplementsStore == ServiceSpec => Spec
<1>1. ServiceInit => Init
  BY DEF ServiceInit
<1>2. ThreadInv /\ [ServiceNext]_vars => [Next]_storeVars
  BY StoreStep
<1> QED
  BY <1>1, <1>2, AlwaysThreadInv, PTL DEF ServiceSpec, Spec

\* So what the store promises, the service keeps: one active execution, a bounded queue,
\* one execution per key, leases in order of acceptance, a slot for the last event, and a
\* stored state that loads.
THEOREM ServiceKeepsPromises ==
  ServiceSpec => [](/\ OneActive /\ QueueBounded /\ OneExecutionPerKey /\ FifoGenerations
                   /\ TerminalSlotKept /\ StoredStateLoads)
BY ServiceImplementsStore, AtMostOneActive, QueueNeverOverfull, KeysAreUsedOnce,
   LeasesAreFifo, TerminalSlotAlwaysKept, StoredStateAlwaysLoads, PTL

\* Nor does the service rewrite what is logged, or serve requests in another order.
THEOREM ServiceImplementsControl == ServiceSpec => EvidenceKept /\ ImplementsControl
BY ServiceImplementsStore, EvidenceAlwaysKept, StoreImplementsControl, Zenon

-----------------------------------------------------------------------------
(* Snapshots and cancellations in a log *)

IsSnapshot(x) == x.type = "stage_snapshot_persisted"

NoSnapshot(l) == \A i \in DOMAIN l : ~IsSnapshot(l[i])

\* The R2 snapshot is the only one.
FirstSnapshotOnly(l) ==
  \E i \in DOMAIN l : /\ IsSnapshot(l[i]) /\ l[i].number = 2
                      /\ \A j \in DOMAIN l : IsSnapshot(l[j]) => j = i

EndsWithSnapshot(l, level) == l # << >> /\ IsSnapshot(l[Len(l)]) /\ l[Len(l)].number = level

CancelLogged(l) == \E i \in DOMAIN l : l[i].type = "cancellation_requested"

\* SnapshotsAscend, of one log.
Ascends(l) ==
  \A i, j \in DOMAIN l :
    i < j /\ IsSnapshot(l[i]) /\ IsSnapshot(l[j]) =>
      /\ l[i].number = 2 /\ l[j].number \in 2..4
      /\ \A k \in DOMAIN l : IsSnapshot(l[k]) => k \in {i, j}


\* An event that is no snapshot leaves what the log says of snapshots.
LEMMA AppendOther ==
  ASSUME NEW l \in Seq(Event), NEW x \in Event, ~IsSnapshot(x)
  PROVE  /\ NoSnapshot(l) => NoSnapshot(Append(l, x))
         /\ FirstSnapshotOnly(l) => FirstSnapshotOnly(Append(l, x))
         /\ Ascends(l) => Ascends(Append(l, x))
<1> DEFINE m == Append(l, x)
           n == Len(l) + 1
<1>1. /\ DOMAIN m = DOMAIN l \cup {n} /\ m[n] = x /\ \A i \in DOMAIN l : m[i] = l[i]
  BY AppendElements
<1> HIDE DEF m, n
<1>2. \A i \in DOMAIN m : IsSnapshot(m[i]) => i \in DOMAIN l /\ IsSnapshot(l[i]) /\ m[i] = l[i]
  BY <1>1
<1>3. NoSnapshot(l) => NoSnapshot(m)
  BY <1>2 DEF NoSnapshot
<1>4. FirstSnapshotOnly(l) => FirstSnapshotOnly(m)
  BY <1>1, <1>2 DEF FirstSnapshotOnly
<1>5. Ascends(l) => Ascends(m)
  BY <1>2 DEF Ascends
<1> QED
  BY <1>3, <1>4, <1>5 DEF m

\* The first snapshot of a log, and the one after the R2 snapshot.
LEMMA AppendSnapshot ==
  ASSUME NEW l \in Seq(Event), NEW x \in Event, IsSnapshot(x)
  PROVE  /\ NoSnapshot(l) /\ x.number = 2 => FirstSnapshotOnly(Append(l, x))
         /\ NoSnapshot(l) => Ascends(Append(l, x))
         /\ FirstSnapshotOnly(l) /\ x.number \in 2..4 => Ascends(Append(l, x))
         /\ EndsWithSnapshot(Append(l, x), x.number)
<1> DEFINE m == Append(l, x)
           n == Len(l) + 1
<1>1. /\ DOMAIN m = DOMAIN l \cup {n} /\ m[n] = x /\ \A i \in DOMAIN l : m[i] = l[i]
      /\ n \notin DOMAIN l /\ n \in Nat /\ \A i \in DOMAIN l : i \in Nat /\ i < n
      /\ Len(m) = n
  BY AppendElements
<1> HIDE DEF m, n
<1>2. NoSnapshot(l) => \A i \in DOMAIN m : IsSnapshot(m[i]) => i = n
  BY <1>1 DEF NoSnapshot
<1>3. NoSnapshot(l) /\ x.number = 2 => FirstSnapshotOnly(m)
  BY <1>1, <1>2 DEF FirstSnapshotOnly
<1>4. NoSnapshot(l) => Ascends(m)
  <2> SUFFICES ASSUME NoSnapshot(l), NEW i \in DOMAIN m, NEW j \in DOMAIN m, i < j,
                      IsSnapshot(m[i]), IsSnapshot(m[j])
               PROVE  FALSE
    BY DEF Ascends
  <2>1. i = n /\ j = n
    BY <1>2
  <2> QED
    BY <1>1, <2>1
<1>5. FirstSnapshotOnly(l) /\ x.number \in 2..4 => Ascends(m)
  <2> SUFFICES ASSUME FirstSnapshotOnly(l), x.number \in 2..4,
                      NEW i \in DOMAIN m, NEW j \in DOMAIN m, i < j,
                      IsSnapshot(m[i]), IsSnapshot(m[j])
               PROVE  /\ m[i].number = 2 /\ m[j].number \in 2..4
                      /\ \A k \in DOMAIN m : IsSnapshot(m[k]) => k \in {i, j}
    BY DEF Ascends
  <2>1. PICK p \in DOMAIN l : /\ IsSnapshot(l[p]) /\ l[p].number = 2
                              /\ \A q \in DOMAIN l : IsSnapshot(l[q]) => q = p
    BY DEF FirstSnapshotOnly
  <2>2. \A k \in DOMAIN m : IsSnapshot(m[k]) => k = p \/ k = n
    BY <1>1, <2>1
  <2>3. i = p /\ j = n
    BY <1>1, <2>1, <2>2
  <2> QED
    BY <1>1, <2>1, <2>2, <2>3
<1>6. EndsWithSnapshot(m, x.number)
  <2>1. m # << >>
    BY <1>1
  <2> QED
    BY <1>1, <2>1 DEF EndsWithSnapshot
<1> QED
  BY <1>3, <1>4, <1>5, <1>6 DEF m

\* A cancellation stays in the log.
LEMMA AppendCancel ==
  ASSUME NEW l \in Seq(Event), NEW x \in Event
  PROVE  /\ CancelLogged(l) => CancelLogged(Append(l, x))
         /\ x.type = "cancellation_requested" => CancelLogged(Append(l, x))
BY AppendElements DEF CancelLogged

-----------------------------------------------------------------------------
(* What a call of the store does to what the log says *)

\* No snapshot is added to the log, and what it says of snapshots and cancellation stays.
Quiet(f) ==
  /\ NoSnapshot(log[f]) => NoSnapshot(log'[f])
  /\ FirstSnapshotOnly(log[f]) => FirstSnapshotOnly(log'[f])
  /\ Ascends(log[f]) => Ascends(log'[f])
  /\ row'[f].status \in {"absent", "queued"} => row[f].status \in {"absent", "queued"}
  /\ row'[f].status = "cancellation_requested" =>
       row[f].status = "cancellation_requested" \/ CancelLogged(log'[f])
  /\ CancelLogged(log[f]) => CancelLogged(log'[f])

\* A lease is kept, or lost.
LeaseSame(f) ==
  row'[f].status \in ActiveStatus =>
    /\ row[f].status \in ActiveStatus
    /\ row'[f].runner = row[f].runner /\ row'[f].generation = row[f].generation

\* Nothing is logged for an execution that runs on, or that has succeeded.
Still(f) ==
  row'[f].status \in {"running", "succeeded"} =>
    row'[f].status = row[f].status /\ log'[f] = log[f]

\* Any of these is what a step does to an execution that is not its own.
Aside(f) == Quiet(f) /\ LeaseSame(f) /\ Still(f)

LEMMA KeptAside ==
  ASSUME NEW f, Kept(f)
  PROVE  Aside(f)
BY DEF Kept, Aside, Quiet, LeaseSame, Still

LEMMA LogEventFields ==
  ASSUME NEW r, NEW type, NEW at, NEW number
  PROVE  /\ LogEvent(r, type, at, number).type = type
         /\ LogEvent(r, type, at, number).number = number
BY DEF LogEvent

\* The log conjuncts of Quiet, when an event that is no snapshot is appended.
LEMMA QuietAppend ==
  ASSUME NEW f, log[f] \in Seq(Event), NEW x \in Event, x.type # "stage_snapshot_persisted",
         log'[f] = Append(log[f], x),
         row'[f].status \notin {"absent", "queued"},
         row'[f].status = "cancellation_requested" =>
           row[f].status = "cancellation_requested" \/ x.type = "cancellation_requested"
  PROVE  Quiet(f)
BY AppendOther, AppendCancel DEF Quiet, IsSnapshot

LEMMA InterruptedAside ==
  ASSUME TypeOK, NEW f \in Execution, NEW at \in Time, Interrupted(f, at)
  PROVE  Aside(f)
<1> DEFINE r == InterruptStaleExecution(row[f], at)
           x == LogEvent(r, "execution_interrupted", at, 0)
<1>1. log[f] \in Seq(Event) /\ row[f] \in Row
  BY DEF TypeOK
<1>2. r \in Row /\ r.status = "interrupted"
  <2>1. "interrupted" \in TerminalStatus /\ "runner_interrupted" \in FailureCode \cup {None}
    BY FailureAssumption DEF TerminalStatus
  <2> QED
    BY <1>1, <2>1, TransitionExecutionType, TransitionExecutionFields
       DEF InterruptStaleExecution
<1> HIDE DEF r
<1>3. x \in Event /\ x.type = "execution_interrupted"
  BY <1>2, LogEventType, LogEventFields, TerminalEventTypes DEF Status, TerminalStatus
<1>4. row'[f] = r /\ log'[f] = Append(log[f], x)
  BY DEF Interrupted, r
<1> HIDE DEF x
<1>5. Quiet(f)
  BY <1>1, <1>2, <1>3, <1>4, QuietAppend
<1> QED
  BY <1>2, <1>4, <1>5 DEF Aside, LeaseSame, Still, ActiveStatus

LEMMA ReconcileStaleAside ==
  ASSUME TypeOK, NEW at \in Time, ReconcileStale(at)
  PROVE  \A f \in Execution : Aside(f)
BY ReconcileStaleEffect, InterruptedAside, KeptAside

LEMMA AdmitAside ==
  ASSUME TypeOK, LogShape, NEW e \in Execution, NEW key \in Key, NEW request \in Request,
         NEW at \in Time, Admit(e, key, request, at)
  PROVE  \A f \in Execution : Aside(f)
<1> DEFINE r == QueuedRecord(key, request, nextAccepted, at)
           x == LogEvent(r, "request_accepted", at, nextAccepted)
<1>1. /\ row[e].status = "absent" /\ row'[e] = r /\ log'[e] = <<x>>
      /\ \A f \in Execution \ {e} : Kept(f)
  BY AdmitEffect
<1>2. r \in Row /\ r.status = "queued" /\ nextAccepted \in Nat
  BY QueuedRecordType, QueuedRecordFields DEF TypeOK
<1> HIDE DEF r
<1>3. x \in Event /\ x.type = "request_accepted"
  BY <1>2, LogEventType, LogEventFields DEF Status, EventType
<1> HIDE DEF x
<1>4. log[e] = << >> /\ log'[e] = Append(<< >>, x) /\ << >> \in Seq(Event)
  BY <1>1, <1>3 DEF LogShape
<1>5. Quiet(e)
  BY <1>1, <1>2, <1>3, <1>4, AppendOther, AppendCancel DEF Quiet, IsSnapshot
<1>6. Aside(e)
  BY <1>1, <1>2, <1>5 DEF Aside, LeaseSame, Still, ActiveStatus
<1> QED
  BY <1>1, <1>6, KeptAside

LEMMA StartHeadBegins ==
  ASSUME TypeOK, NEW e \in Execution, NEW runner \in Runner, NEW at \in Time,
         StartHead(e, runner, at)
  PROVE  /\ \A f \in Execution \ {e} : Aside(f)
         /\ Quiet(e) /\ row[e].status = "queued"
         /\ row'[e].status = "running" /\ row'[e].runner = runner
         /\ row'[e].generation = nextGeneration
<1> DEFINE r == StartExecution(row[e], runner, nextGeneration, at)
           x == LogEvent(r, "execution_started", at, nextGeneration)
<1>1. /\ row[e].status = "queued" /\ row'[e] = r /\ log'[e] = Append(log[e], x)
      /\ \A f \in Execution \ {e} : Kept(f) \/ Interrupted(f, at)
  BY StartHeadEffect
<1>2. row[e] \in Row /\ log[e] \in Seq(Event) /\ nextGeneration \in Nat
  BY DEF TypeOK
<1>3. r \in Row /\ r.status = "running" /\ r.runner = runner /\ r.generation = nextGeneration
  <2>1. r \in Row
    BY <1>2, StartExecutionType
  <2> QED
    BY <1>2, <2>1 DEF StartExecution, Row
<1> HIDE DEF r
<1>4. x \in Event /\ x.type = "execution_started"
  BY <1>2, <1>3, LogEventType, LogEventFields DEF Status, ActiveStatus, EventType
<1> HIDE DEF x
<1>5. Quiet(e)
  BY <1>1, <1>2, <1>3, <1>4, QuietAppend
<1> QED
  BY <1>1, <1>3, <1>5, InterruptedAside, KeptAside

LEMMA CancelAside ==
  ASSUME TypeOK, NEW e \in Execution, NEW at \in Time, Cancel(e, at)
  PROVE  \A f \in Execution : Aside(f)
<1> DEFINE r == RequestCancellation(row[e], at)
           x == LogEvent(r, "cancellation_requested", at, 0)
<1>1. row[e] \in Row /\ r \in Row /\ log[e] \in Seq(Event)
  BY RequestCancellationType DEF TypeOK
<1>2. CASE CancelQueued(e, at)
  <2> DEFINE y == LogEvent(r, "execution_cancelled", at, 0)
  <2>1. /\ row[e].status = "queued" /\ row'[e] = r /\ log'[e] = log[e] \o <<x, y>>
        /\ \A f \in Execution \ {e} : Kept(f)
    BY <1>2, CancelQueuedEffect
  <2>2. r.status = "cancelled"
    BY <1>1, <2>1, RequestCancellationFields
  <2> HIDE DEF r
  <2>3. /\ x \in Event /\ x.type = "cancellation_requested"
        /\ y \in Event /\ y.type = "execution_cancelled"
    <3>1. "execution_cancelled" \in EventType /\ "cancellation_requested" \in EventType
      BY TerminalEventTypeValue DEF EventType
    <3> QED
      BY <1>1, <2>2, <3>1, LogEventType, LogEventFields DEF Status, TerminalStatus
  <2> HIDE DEF x, y
  <2>4. log'[e] = Append(Append(log[e], x), y) /\ Append(log[e], x) \in Seq(Event)
    BY <1>1, <2>1, <2>3, AppendTwo, AppendElements
  <2>5. ~IsSnapshot(x) /\ ~IsSnapshot(y)
    BY <2>3 DEF IsSnapshot
  <2>6. Quiet(e)
    BY <1>1, <2>1, <2>2, <2>3, <2>4, <2>5, AppendOther, AppendCancel DEF Quiet
  <2>7. Aside(e)
    BY <2>1, <2>2, <2>6 DEF Aside, LeaseSame, Still, ActiveStatus
  <2> QED
    BY <2>1, <2>7, KeptAside
<1>3. CASE CancelRunning(e, at)
  <2>1. row[e].status = "running" /\ Commit(e, r, "cancellation_requested", at, 0)
    BY <1>3 DEF CancelRunning, CancelRunningAllowed
  <2>2. r.status = "cancellation_requested" /\ r.runner = row[e].runner
        /\ r.generation = row[e].generation
    BY <1>1, <2>1 DEF RequestCancellation, Row
  <2> HIDE DEF r
  <2>3. /\ row'[e] = r /\ log'[e] = Append(log[e], x) /\ \A f \in Execution \ {e} : Kept(f)
    BY <2>1, CommitEffect
  <2>4. x \in Event /\ x.type = "cancellation_requested"
    BY <1>1, <2>2, LogEventType, LogEventFields DEF Status, ActiveStatus, EventType
  <2> HIDE DEF x
  <2>5. Quiet(e)
    BY <1>1, <2>2, <2>3, <2>4, QuietAppend
  <2>6. Aside(e)
    BY <2>1, <2>2, <2>3, <2>5 DEF Aside, LeaseSame, Still, ActiveStatus
  <2> QED
    BY <2>3, <2>6, KeptAside
<1> QED
  BY <1>2, <1>3 DEF Cancel

LEMMA RenewLeaseAside ==
  ASSUME TypeOK, NEW e \in Execution, NEW runner, NEW generation, NEW at \in Time,
         RenewLease(e, runner, generation, at)
  PROVE  \A f \in Execution : Aside(f)
<1>1. /\ row'[e] = [row[e] EXCEPT !.heartbeat = at] /\ log'[e] = log[e]
      /\ \A f \in Execution \ {e} : Kept(f)
  BY RenewLeaseEffect
<1>2. row[e] \in Row
  BY DEF TypeOK
<1>3. /\ row'[e].status = row[e].status /\ row'[e].runner = row[e].runner
      /\ row'[e].generation = row[e].generation
  BY <1>1, <1>2 DEF Row
<1>4. Aside(e)
  BY <1>1, <1>3 DEF Aside, Quiet, LeaseSame, Still
<1> QED
  BY <1>1, <1>4, KeptAside

LEMMA BindIdentityQuiet ==
  ASSUME TypeOK, NEW e \in Execution, NEW journey \in Journey, NEW runner, NEW generation,
         NEW at \in Time, BindIdentity(e, journey, runner, generation, at)
  PROVE  /\ FenceHolds(row[e], runner, generation, at)
         /\ \A f \in Execution \ {e} : Kept(f)
         /\ Quiet(e) /\ LeaseSame(e) /\ row'[e].status \in ActiveStatus
<1> DEFINE r == [row[e] EXCEPT !.journey = journey]
           x == LogEvent(r, "execution_identity_bound", at, 0)
<1>1. FenceHolds(row[e], runner, generation, at) /\ row[e].status \in ActiveStatus
  BY DEF BindIdentity, BindAllowed, FenceHolds
<1>2. row[e] \in Row /\ log[e] \in Seq(Event)
  BY DEF TypeOK
<1>3. /\ r \in Row /\ r.status = row[e].status /\ r.runner = row[e].runner
      /\ r.generation = row[e].generation
  BY <1>2 DEF Row
<1>4. Commit(e, r, "execution_identity_bound", at, 0)
  BY DEF BindIdentity
<1> HIDE DEF r
<1>5. row'[e] = r /\ log'[e] = Append(log[e], x) /\ \A f \in Execution \ {e} : Kept(f)
  BY <1>4, CommitEffect
<1>6. x \in Event /\ x.type = "execution_identity_bound"
  BY <1>1, <1>3, LogEventType, LogEventFields DEF Status, EventType
<1> HIDE DEF x
<1>7. Quiet(e)
  BY <1>1, <1>2, <1>3, <1>5, <1>6, QuietAppend DEF ActiveStatus
<1> QED
  BY <1>1, <1>3, <1>5, <1>7 DEF LeaseSame

LEMMA AppendStageSnapshotEffect ==
  ASSUME TypeOK, NEW e \in Execution, NEW level \in EvidenceLevel, NEW runner, NEW generation,
         NEW at \in Time, AppendStageSnapshot(e, level, runner, generation, at)
  PROVE  /\ FenceHolds(row[e], runner, generation, at)
         /\ \A f \in Execution \ {e} : Kept(f)
         /\ row'[e] = row[e]
         /\ \E x \in Event : /\ IsSnapshot(x) /\ x.number = level
                             /\ log'[e] = Append(log[e], x)
<1> DEFINE x == LogEvent(row[e], "stage_snapshot_persisted", at, level)
<1>1. FenceHolds(row[e], runner, generation, at) /\ row[e].status \in Status
  BY DEF AppendStageSnapshot, SnapshotAllowed, FenceHolds, Status
<1>2. Commit(e, row[e], "stage_snapshot_persisted", at, level)
  BY DEF AppendStageSnapshot
<1>3. row'[e] = row[e] /\ log'[e] = Append(log[e], x) /\ \A f \in Execution \ {e} : Kept(f)
  BY <1>2, CommitEffect
<1>4. x \in Event /\ x.type = "stage_snapshot_persisted" /\ x.number = level
  <2>1. row[e] \in Row /\ level \in Nat
    BY EvidenceAssumption DEF TypeOK
  <2> QED
    BY <1>1, <2>1, LogEventType, LogEventFields DEF EventType
<1> HIDE DEF x
<1>5. IsSnapshot(x)
  BY <1>4 DEF IsSnapshot
<1>6. \E y \in Event : /\ IsSnapshot(y) /\ y.number = level
                      /\ log'[e] = Append(log[e], y)
  BY <1>3, <1>4, <1>5
<1> QED
  BY <1>1, <1>3, <1>6

LEMMA FinishQuiet ==
  ASSUME TypeOK, NEW e \in Execution, NEW target \in TerminalStatus,
         NEW failure \in FailureCode \cup {None}, NEW runner, NEW generation,
         NEW at \in Time, Finish(e, target, failure, runner, generation, at)
  PROVE  /\ FenceHolds(row[e], runner, generation, at)
         /\ \A f \in Execution \ {e} : Kept(f)
         /\ Quiet(e) /\ row'[e].status = target
         /\ \E x \in Event : log'[e] = Append(log[e], x)
         /\ target = "succeeded" => row[e].status = "running"
<1> DEFINE r == TransitionExecution(row[e], target, failure, at)
           x == LogEvent(r, TerminalEvent[target], at, 0)
<1>1. /\ FenceHolds(row[e], runner, generation, at) /\ target \in FinishTarget(row[e])
      /\ Commit(e, r, TerminalEvent[target], at, 0)
  BY DEF Finish, FinishAllowed
<1>2. row[e] \in Row /\ log[e] \in Seq(Event)
  BY DEF TypeOK
<1>3. r \in Row /\ r.status = target
  <2>1. r \in Row
    BY <1>2, TransitionExecutionType
  <2>2. r.status = target
    BY <1>2, TransitionExecutionFields
  <2> QED
    BY <2>1, <2>2
<1> HIDE DEF r
<1>4. row'[e] = r /\ log'[e] = Append(log[e], x) /\ \A f \in Execution \ {e} : Kept(f)
  BY <1>1, CommitEffect
<1>5. TerminalEvent[target] \in TerminalEventType /\ TerminalEvent[target] \in EventType
  BY TerminalEventTypes
<1>6. x \in Event /\ x.type = TerminalEvent[target]
  BY <1>3, <1>5, LogEventType, LogEventFields DEF Status
<1> HIDE DEF x
<1>7. x.type # "stage_snapshot_persisted" /\ x.type # "cancellation_requested"
  BY <1>5, <1>6, TerminalEventTypeValue
<1>8. Quiet(e)
  BY <1>2, <1>3, <1>4, <1>6, <1>7, QuietAppend DEF TerminalStatus
<1>9. target = "succeeded" => row[e].status = "running"
  BY <1>1 DEF FinishTarget
<1> QED
  BY <1>1, <1>3, <1>4, <1>6, <1>8, <1>9

-----------------------------------------------------------------------------
(* The evidence a run has published, at each place of its main thread *)

BeforeFirst(m) == \/ m.pc \in {"resolving", "binding", "bound", "cad", "cad_ended"}
                  \/ m.pc = "publishing" /\ CadOutcome(m)
BeforeSecond(m) == \/ m.pc \in {"printability", "slicing", "slicing_ended"}
                   \/ m.pc = "publishing" /\ FabricationOutcome(m)
Returned(m) == m.pc \in {"stopping", "finishing"} /\ ~m.raised

\* As long as the lease is its own, the log is where the main thread is: before its
\* first snapshot, before its second, or at the snapshot its outcome claims.
Phase(r) ==
  Holds(r) =>
    LET e == main[r].exec
    IN /\ row[e].runner = r
       /\ BeforeFirst(main[r]) => NoSnapshot(log[e])
       /\ BeforeSecond(main[r]) => FirstSnapshotOnly(log[e])
       /\ Returned(main[r]) /\ row[e].status = "running" =>
            EndsWithSnapshot(log[e], main[r].level)

\* What the log of an execution has, whoever ran it.
Recorded(e) ==
  /\ row[e].status \in {"absent", "queued"} => NoSnapshot(log[e])
  /\ row[e].status = "cancellation_requested" => CancelLogged(log[e])
  /\ Ascends(log[e])
  /\ row[e].status = "succeeded" =>
       /\ log[e][Len(log[e]) - 1].type = "stage_snapshot_persisted"
       /\ log[e][Len(log[e]) - 1].number = ExpectedLevel(e)

EvidenceInv == (\A r \in Runner : Phase(r)) /\ \A e \in Execution : Recorded(e)

LEMMA PhaseAside ==
  ASSUME NEW q, SamePlace(q), Phase(q), Holds(q)' => Aside(main[q].exec)
  PROVE  Phase(q)'
<1> DEFINE e == main[q].exec
<1> SUFFICES ASSUME Holds(q)'
             PROVE  /\ row'[e].runner = q
                    /\ BeforeFirst(main[q]) => NoSnapshot(log'[e])
                    /\ BeforeSecond(main[q]) => FirstSnapshotOnly(log'[e])
                    /\ Returned(main[q]) /\ row'[e].status = "running" =>
                         EndsWithSnapshot(log'[e], main[q].level)
  BY DEF Phase, SamePlace
<1>1. /\ InRun(q) /\ row'[e].status \in ActiveStatus
      /\ row'[e].generation = main[q].generation
  BY DEF Holds, InRun, SamePlace
<1>2. Quiet(e) /\ LeaseSame(e) /\ Still(e)
  BY DEF Aside
<1>3. row[e].status \in ActiveStatus /\ row'[e].runner = row[e].runner
      /\ row'[e].generation = row[e].generation
  BY <1>1, <1>2 DEF LeaseSame
<1>4. Holds(q)
  BY <1>1, <1>3 DEF Holds
<1>5. /\ row[e].runner = q
      /\ BeforeFirst(main[q]) => NoSnapshot(log[e])
      /\ BeforeSecond(main[q]) => FirstSnapshotOnly(log[e])
      /\ Returned(main[q]) /\ row[e].status = "running" =>
           EndsWithSnapshot(log[e], main[q].level)
  BY <1>4 DEF Phase
<1> HIDE DEF e
<1> QED
  BY <1>2, <1>3, <1>5 DEF Quiet, Still

\* The main thread goes on, and the store is not called.
LEMMA PhaseMoves ==
  ASSUME NEW r, NEW pc, MovesIn(r, pc), InRun(r), UNCHANGED <<row, log>>, Phase(r),
         BeforeFirst(main'[r]) => BeforeFirst(main[r]),
         BeforeSecond(main'[r]) => BeforeSecond(main[r]),
         Returned(main'[r]) => Returned(main[r]) /\ main'[r].level = main[r].level
  PROVE  Phase(r)'
<1> DEFINE e == main[r].exec
<1>1. main'[r].exec = e /\ main'[r].generation = main[r].generation
  BY DEF MovesIn, SameRun
<1>2. Holds(r)' => Holds(r)
  BY <1>1 DEF Holds
<1> QED
  BY <1>1, <1>2 DEF Phase

LEMMA PhaseOutside ==
  ASSUME NEW r, ~InRun(r)'
  PROVE  Phase(r)'
BY DEF Phase, Holds

\* A call that holds the fence of a lease is of the runner the lease is of.
LEMMA PhaseFenced ==
  ASSUME EvidenceInv, NEW r \in Runner, NEW e, NEW generation, NEW at,
         FenceHolds(row[e], r, generation, at), \A f \in Execution \ {e} : Kept(f), LeaseSame(e),
         NEW q \in Runner \ {r}, SamePlace(q), InRun(q) => main[q].exec \in Execution
  PROVE  Phase(q)'
<1>1. Phase(q)
  BY DEF EvidenceInv
<1>2. ASSUME Holds(q)'
      PROVE  Aside(main[q].exec)
  <2>1. InRun(q) /\ main[q].exec \in Execution
    BY <1>2 DEF Holds, InRun, SamePlace
  <2>2. CASE main[q].exec # e
    BY <2>1, <2>2, KeptAside
  <2>3. CASE main[q].exec = e
    <3>1. row'[e].status \in ActiveStatus /\ row'[e].generation = main[q].generation
      BY <1>2, <2>3 DEF Holds, SamePlace
    <3>2. Holds(q)
      BY <2>1, <2>3, <3>1 DEF Holds, LeaseSame
    <3>3. row[e].runner = q
      BY <1>1, <2>3, <3>2 DEF Phase
    <3>4. row[e].runner = r
      BY DEF FenceHolds
    <3> QED
      BY <3>3, <3>4
  <2> QED
    BY <2>2, <2>3
<1> QED
  BY <1>1, <1>2, PhaseAside

LEMMA RecordedAside ==
  ASSUME NEW f, Recorded(f), Aside(f)
  PROVE  Recorded(f)'
<1>1. Quiet(f) /\ Still(f)
  BY DEF Aside
<1>2. row'[f].status = "succeeded" => row[f].status = "succeeded" /\ log'[f] = log[f]
  BY <1>1 DEF Still
<1>3. row'[f].status = "succeeded" =>
       /\ log'[f][Len(log'[f]) - 1].type = "stage_snapshot_persisted"
       /\ log'[f][Len(log'[f]) - 1].number = ExpectedLevel(f)
  BY <1>2 DEF Recorded
<1> QED
  BY <1>1, <1>3 DEF Recorded, Quiet, ExpectedLevel

\* A step that is aside for every execution, in which the main threads stay or leave.
LEMMA EvidenceAside ==
  ASSUME ThreadInv, EvidenceInv, \A f \in Execution : Aside(f),
         \A q \in Runner : SamePlace(q) \/ ~InRun(q)'
  PROVE  EvidenceInv'
<1>1. \A f \in Execution : Recorded(f)'
  BY RecordedAside DEF EvidenceInv
<1>2. ASSUME NEW q \in Runner
      PROVE  Phase(q)'
  <2>1. Phase(q)
    BY DEF EvidenceInv
  <2>2. CASE SamePlace(q)
    <3>1. ASSUME Holds(q)'
          PROVE  main[q].exec \in Execution
      <4>1. InRun(q)
        BY <2>2, <3>1 DEF Holds, InRun, SamePlace
      <4> QED
        BY <4>1 DEF ThreadInv, Threads, Thread
    <3> QED
      BY <2>1, <2>2, <3>1, PhaseAside
  <2> QED
    BY <2>2, PhaseOutside
<1> QED
  BY <1>1, <1>2 DEF EvidenceInv

\* The store is not called, and one main thread goes on.
LEMMA EvidenceMoves ==
  ASSUME ThreadInv, EvidenceInv, NEW r \in Runner, NEW pc, MovesIn(r, pc), InRun(r),
         UNCHANGED storeVars,
         BeforeFirst(main'[r]) => BeforeFirst(main[r]),
         BeforeSecond(main'[r]) => BeforeSecond(main[r]),
         Returned(main'[r]) => Returned(main[r]) /\ main'[r].level = main[r].level
  PROVE  EvidenceInv'
<1>1. \A f \in Execution : Aside(f)
  BY KeptAside DEF Kept, storeVars
<1>2. \A f \in Execution : Recorded(f)'
  BY <1>1, RecordedAside DEF EvidenceInv
<1>3. Phase(r)'
  BY PhaseMoves DEF EvidenceInv, storeVars
<1>4. ASSUME NEW q \in Runner \ {r}
      PROVE  Phase(q)'
  <2>1. Phase(q) /\ SamePlace(q)
    BY DEF EvidenceInv, MovesIn
  <2>2. UNCHANGED <<row, log>>
    BY DEF storeVars
  <2> QED
    BY <2>1, <2>2 DEF Phase, Holds, InRun, SamePlace
<1> QED
  BY <1>2, <1>3, <1>4 DEF EvidenceInv

-----------------------------------------------------------------------------
(* Every step of the service keeps the evidence in order *)

LEMMA OutcomesApart ==
  ASSUME NEW m \in MainType
  PROVE  /\ ~(CadOutcome(m) /\ FabricationOutcome(m))
         /\ CadOutcome(m) /\ m.verified => m.level = 2
         /\ FabricationOutcome(m) => m.level \in 2..4 /\ ~(m.verified /\ m.level = 2)
<1>1. CadOutcome(m) =>
        (m.level = 0 /\ m.verified = FALSE) \/ (m.level = 2 /\ m.verified = TRUE)
  BY DEF CadOutcome
<1>2. FabricationOutcome(m) =>
        (m.level \in {2, 3} /\ m.verified = FALSE) \/ (m.level = 4 /\ m.verified = TRUE)
  BY DEF FabricationOutcome
<1>3. m.verified \in BOOLEAN
  BY DEF MainType
<1> QED
  BY <1>1, <1>2, <1>3

LEMMA StartEvidence ==
  ASSUME ThreadInv, EvidenceInv, NEW r \in Runner,
         CallRunNext(r) \/ StartRun(r) \/ StartNone(r) \/ StartRaises(r)
  PROVE  EvidenceInv'
<1>1. main \in [Runner -> MainType] /\ clock \in Time /\ TypeOK
  BY DEF ThreadInv, ServiceTypeOK
<1>2. main[r].at \in Time
  BY <1>1 DEF MainType
<1>3. ASSUME main'[r].pc \in {"idle", "starting"}, \A q \in Runner \ {r} : SamePlace(q)
      PROVE  \A q \in Runner : SamePlace(q) \/ ~InRun(q)'
  BY <1>3 DEF InRun, RunPc, StagePc
<1>4. CASE CallRunNext(r)
  <2>1. Stamp(r, "starting") /\ UNCHANGED storeVars
    BY <1>4 DEF CallRunNext
  <2>2. MovesIn(r, "starting")
    BY <1>1, <2>1, StampEffect
  <2>3. \A f \in Execution : Aside(f)
    BY <2>1, KeptAside DEF Kept, storeVars
  <2> QED
    BY <1>3, <2>2, <2>3, EvidenceAside DEF MovesIn
<1>5. CASE StartNone(r) \/ StartRaises(r)
  <2>1. main' = [main EXCEPT ![r] = IdleMain] /\ (ReconcileStale(main[r].at) \/ UNCHANGED storeVars)
    BY <1>5 DEF StartNone, StartRaises
  <2>2. \A f \in Execution : Aside(f)
    BY <1>1, <1>2, <2>1, ReconcileStaleAside, KeptAside DEF Kept, storeVars
  <2> QED
    BY <1>1, <1>3, <2>1, <2>2, LeftEffect, EvidenceAside
<1>6. CASE StartRun(r)
  <2>1. PICK e \in Execution :
          /\ StartHead(e, r, main[r].at)
          /\ main' = [main EXCEPT ![r] = [IdleMain EXCEPT !.pc = "resolving", !.exec = e,
                                                         !.generation = nextGeneration]]
    BY <1>6 DEF StartRun, Queued
  <2>2. nextGeneration \in Nat
    BY <1>1 DEF TypeOK
  <2>3. Begun(r, e)
    BY <1>1, <2>1, <2>2, BeginEffect
  <2>4. /\ \A f \in Execution \ {e} : Aside(f)
        /\ Quiet(e) /\ row[e].status = "queued"
        /\ row'[e].status = "running" /\ row'[e].runner = r
        /\ row'[e].generation = nextGeneration
    BY <1>1, <1>2, <2>1, StartHeadBegins
  <2>5. \A f \in Execution : Recorded(f)'
    <3>1. Recorded(e) /\ \A f \in Execution \ {e} : Recorded(f)'
      BY <2>4, RecordedAside DEF EvidenceInv
    <3>2. Recorded(e)'
      BY <2>4, <3>1 DEF Recorded, Quiet
    <3> QED
      BY <3>1, <3>2
  <2>6. Phase(r)'
    <3>1. main'[r].pc = "resolving" /\ main'[r].exec = e
      BY <2>3 DEF Begun
    <3>2. NoSnapshot(log'[e])
      BY <2>4 DEF EvidenceInv, Recorded, Quiet
    <3> QED
      BY <2>4, <3>1, <3>2 DEF Phase, BeforeSecond, Returned
  <2>7. ASSUME NEW q \in Runner \ {r}
        PROVE  Phase(q)'
    <3>1. SamePlace(q) /\ Phase(q)
      BY <2>3 DEF Begun, EvidenceInv
    <3>2. ASSUME Holds(q)'
          PROVE  Aside(main[q].exec)
      <4>1. InRun(q) /\ row'[main[q].exec].generation = main[q].generation
        BY <3>1, <3>2 DEF Holds, InRun, SamePlace
      <4>2. main[q].exec \in Execution /\ main[q].generation \in Generation
        BY <4>1 DEF ThreadInv, Threads, Thread
      <4>3. main[q].generation # nextGeneration
        BY <2>2, <4>2 DEF Generation
      <4>4. main[q].exec # e
        BY <2>4, <4>1, <4>3
      <4> QED
        BY <2>4, <4>2, <4>4
    <3> QED
      BY <3>1, <3>2, PhaseAside
  <2> QED
    BY <2>5, <2>6, <2>7 DEF EvidenceInv
<1> QED
  BY <1>4, <1>5, <1>6

LEMMA RaiseEvidence ==
  ASSUME ThreadInv, EvidenceInv, NEW r \in Runner,
         BindRaises(r) \/ PublishRaises(r) \/ ExecutorRaises(r)
  PROVE  EvidenceInv'
<1>1. main \in [Runner -> MainType]
  BY DEF ThreadInv, ServiceTypeOK
<1>2. Raise(r) /\ InRun(r) /\ UNCHANGED storeVars
  BY DEF BindRaises, PublishRaises, ExecutorRaises, InRun, RunPc, StagePc
<1>3. MovesIn(r, "stopping") /\ main'[r].raised
  BY <1>1, <1>2, RaiseEffect
<1> QED
  BY <1>2, <1>3, EvidenceMoves DEF MovesIn, BeforeFirst, BeforeSecond, Returned

LEMMA ExecutorEvidence ==
  ASSUME ThreadInv, EvidenceInv, NEW r \in Runner,
         \/ Resolve(r) \/ LaunchCad(r) \/ EndCad(r) \/ EndPrintability(r) \/ EndSlicing(r)
         \/ TakeSnapshot(r) \/ Decide(r)
  PROVE  EvidenceInv'
<1>1. main \in [Runner -> MainType] /\ clock \in Time
  BY DEF ThreadInv, ServiceTypeOK
<1>2. InRun(r) /\ UNCHANGED storeVars
  BY DEF Resolve, LaunchCad, EndCad, EndPrintability, EndSlicing, TakeSnapshot, Decide,
         InRun, RunPc, StagePc
<1>3. {"binding", "cad", "cad_ended", "slicing", "slicing_ended", "publishing", "finishing"}
        \subseteq RunPc
  BY DEF RunPc, StagePc
<1>4. CASE Resolve(r)
  <2>1. MovesIn(r, "binding") /\ main[r].pc = "resolving"
    BY <1>1, <1>3, <1>4, StampEffect DEF Resolve
  <2> QED
    BY <1>2, <2>1, EvidenceMoves DEF MovesIn, BeforeFirst, BeforeSecond, Returned
<1>5. CASE LaunchCad(r) \/ EndCad(r)
  <2>1. main[r].pc \in {"bound", "cad"}
    BY <1>5 DEF LaunchCad, EndCad
  <2>2. \/ Goto(r, "cad") \/ Ended(r, "cad_ended", 0, FALSE) \/ Ended(r, "cad_ended", 2, TRUE)
    BY <1>5 DEF LaunchCad, EndCad
  <2>3. MovesIn(r, "cad") \/ MovesIn(r, "cad_ended")
    BY <1>1, <1>3, <2>2, GotoEffect, EndedEffect
  <2> QED
    BY <1>2, <2>1, <2>3, EvidenceMoves DEF MovesIn, BeforeFirst, BeforeSecond, Returned
<1>6. CASE EndPrintability(r) \/ EndSlicing(r)
  <2>1. main[r].pc \in {"printability", "slicing"}
    BY <1>6 DEF EndPrintability, EndSlicing
  <2>2. \/ Goto(r, "slicing") \/ Ended(r, "slicing_ended", 2, FALSE)
        \/ Ended(r, "slicing_ended", 3, FALSE) \/ Ended(r, "slicing_ended", 4, TRUE)
    BY <1>6 DEF EndPrintability, EndSlicing
  <2>3. MovesIn(r, "slicing") \/ MovesIn(r, "slicing_ended")
    BY <1>1, <1>3, <2>2, GotoEffect, EndedEffect
  <2> QED
    BY <1>2, <2>1, <2>3, EvidenceMoves DEF MovesIn, BeforeFirst, BeforeSecond, Returned
<1>7. CASE TakeSnapshot(r)
  <2>1. MovesIn(r, "publishing") /\ SameData(r)
    BY <1>1, <1>3, <1>7, StampEffect DEF TakeSnapshot
  <2>2. \/ main[r].pc = "cad_ended" /\ CadOutcome(main[r])
        \/ main[r].pc = "slicing_ended" /\ FabricationOutcome(main[r])
    BY <1>7 DEF TakeSnapshot, ThreadInv, Threads, Thread
  <2>3. /\ CadOutcome(main'[r]) = CadOutcome(main[r])
        /\ FabricationOutcome(main'[r]) = FabricationOutcome(main[r])
    BY <2>1 DEF SameData, CadOutcome, FabricationOutcome
  <2>4. BeforeFirst(main'[r]) => BeforeFirst(main[r])
    BY <1>1, <2>1, <2>2, <2>3, OutcomesApart DEF MovesIn, BeforeFirst
  <2>5. BeforeSecond(main'[r]) => BeforeSecond(main[r])
    BY <1>1, <2>1, <2>2, <2>3, OutcomesApart DEF MovesIn, BeforeSecond
  <2>6. ~Returned(main'[r])
    BY <2>1 DEF MovesIn, Returned
  <2> QED
    BY <1>2, <2>1, <2>4, <2>5, <2>6, EvidenceMoves
<1>8. CASE Decide(r)
  <2>1. /\ MovesIn(r, "finishing") /\ main[r].pc = "stopping"
        /\ main'[r].level = main[r].level /\ main'[r].raised = main[r].raised
    BY <1>1, <1>8, DecideEffect DEF Decide
  <2> QED
    BY <1>2, <2>1, EvidenceMoves DEF MovesIn, BeforeFirst, BeforeSecond, Returned
<1> QED
  BY <1>4, <1>5, <1>6, <1>7, <1>8

\* The runs of the other runners, in a fenced call of this one.
LEMMA FencedEvidence ==
  ASSUME ThreadInv, EvidenceInv, NEW r \in Runner, NEW e \in Execution, NEW generation, NEW at,
         FenceHolds(row[e], r, generation, at), \A f \in Execution \ {e} : Kept(f), LeaseSame(e),
         \A q \in Runner \ {r} : SamePlace(q), Phase(r)', Recorded(e)'
  PROVE  EvidenceInv'
<1>1. \A f \in Execution : Recorded(f)'
  BY RecordedAside, KeptAside DEF EvidenceInv
<1>2. ASSUME NEW q \in Runner \ {r}
      PROVE  Phase(q)'
  <2>1. InRun(q) => main[q].exec \in Execution
    BY DEF ThreadInv, Threads, Thread
  <2> QED
    BY <2>1, PhaseFenced
<1> QED
  BY <1>1, <1>2 DEF EvidenceInv

LEMMA BindEvidence ==
  ASSUME ThreadInv, EvidenceInv, NEW r \in Runner, Bind(r)
  PROVE  EvidenceInv'
<1>1. main \in [Runner -> MainType] /\ TypeOK /\ main[r].at \in Time
  BY DEF ThreadInv, ServiceTypeOK, MainType
<1>2. main[r].pc = "binding" /\ Goto(r, "bound") /\ InRun(r)
  BY DEF Bind, InRun, RunPc
<1>3. PICK e \in Execution : e = main[r].exec
  BY <1>2 DEF ThreadInv, Threads, Thread
<1>4. PICK journey \in Journey : BindIdentity(e, journey, r, main[r].generation, main[r].at)
  BY <1>3 DEF Bind
<1>5. /\ FenceHolds(row[e], r, main[r].generation, main[r].at)
      /\ \A f \in Execution \ {e} : Kept(f)
      /\ Quiet(e) /\ LeaseSame(e) /\ row'[e].status \in ActiveStatus
  BY <1>1, <1>3, <1>4, BindIdentityQuiet
<1>6. MovesIn(r, "bound")
  BY <1>1, <1>2, GotoEffect DEF RunPc
<1>7. Holds(r) /\ row'[e].runner = r
  BY <1>2, <1>3, <1>5 DEF Holds, FenceHolds, LeaseSame
<1>8. Phase(r)'
  <2>1. NoSnapshot(log[e])
    BY <1>2, <1>3, <1>7 DEF EvidenceInv, Phase, BeforeFirst
  <2>2. NoSnapshot(log'[e])
    BY <1>5, <2>1 DEF Quiet
  <2>3. main'[r].exec = e /\ main'[r].pc = "bound"
    BY <1>3, <1>6 DEF MovesIn, SameRun
  <2> QED
    BY <1>7, <2>2, <2>3 DEF Phase, BeforeSecond, Returned
<1>9. Recorded(e)'
  <2>1. Recorded(e)
    BY <1>3 DEF EvidenceInv
  <2>2. row'[e].status # "succeeded"
    BY <1>5 DEF ActiveStatus
  <2> QED
    BY <1>5, <2>1, <2>2 DEF Recorded, Quiet
<1> QED
  BY <1>3, <1>5, <1>6, <1>8, <1>9, FencedEvidence DEF MovesIn

LEMMA PublishEvidence ==
  ASSUME ThreadInv, EvidenceInv, NEW r \in Runner, Publish(r)
  PROVE  EvidenceInv'
<1>1. /\ main \in [Runner -> MainType] /\ TypeOK /\ main[r].at \in Time
      /\ main[r].level \in EvidenceLevel
  BY DEF ThreadInv, ServiceTypeOK, MainType
<1>2. main[r].pc = "publishing" /\ Goto(r, NextPc(r)) /\ InRun(r)
  BY DEF Publish, InRun, RunPc
<1>3. PICK e \in Execution : e = main[r].exec
  BY <1>2 DEF ThreadInv, Threads, Thread
<1>4. AppendStageSnapshot(e, main[r].level, r, main[r].generation, main[r].at)
  BY <1>3 DEF Publish
<1>5. /\ FenceHolds(row[e], r, main[r].generation, main[r].at)
      /\ \A f \in Execution \ {e} : Kept(f)
      /\ row'[e] = row[e]
  BY <1>1, <1>3, <1>4, AppendStageSnapshotEffect
<1>6. PICK x \in Event : IsSnapshot(x) /\ x.number = main[r].level /\ log'[e] = Append(log[e], x)
  BY <1>1, <1>3, <1>4, AppendStageSnapshotEffect
<1>7. NextPc(r) \in {"printability", "stopping"}
  BY DEF NextPc
<1>8. MovesIn(r, NextPc(r)) /\ SameData(r)
  BY <1>1, <1>2, <1>7, GotoEffect DEF RunPc, StagePc
<1>9. Holds(r) /\ row'[e].runner = r
  BY <1>2, <1>3, <1>5 DEF Holds, FenceHolds
<1>10. log[e] \in Seq(Event)
  BY <1>1, <1>3 DEF TypeOK
<1>11. CadOutcome(main[r]) \/ FabricationOutcome(main[r])
  BY <1>2 DEF ThreadInv, Threads, Thread
<1>12. /\ CadOutcome(main[r]) => NoSnapshot(log[e])
       /\ FabricationOutcome(main[r]) => FirstSnapshotOnly(log[e])
  BY <1>2, <1>3, <1>9 DEF EvidenceInv, Phase, BeforeFirst, BeforeSecond
<1>13. Ascends(log'[e])
  <2>1. CASE CadOutcome(main[r])
    BY <1>6, <1>10, <1>12, <2>1, AppendSnapshot
  <2>2. CASE FabricationOutcome(main[r])
    BY <1>1, <1>6, <1>10, <1>12, <2>2, AppendSnapshot, OutcomesApart
  <2> QED
    BY <1>11, <2>1, <2>2
<1>14. EndsWithSnapshot(log'[e], main[r].level)
  BY <1>6, <1>10, AppendSnapshot
<1>15. NextPc(r) = "printability" => FirstSnapshotOnly(log'[e])
  <2> SUFFICES ASSUME NextPc(r) = "printability"
               PROVE  FirstSnapshotOnly(log'[e])
    OBVIOUS
  <2>1. main[r].verified /\ main[r].level = 2
    BY DEF NextPc
  <2>2. CadOutcome(main[r])
    BY <1>1, <1>11, <2>1, OutcomesApart
  <2> QED
    BY <1>6, <1>10, <1>12, <2>1, <2>2, AppendSnapshot
<1>16. CancelLogged(log[e]) => CancelLogged(log'[e])
  BY <1>6, <1>10, AppendCancel
<1>17. row[e].status \in ActiveStatus
  BY <1>5 DEF FenceHolds
<1>18. Recorded(e)'
  BY <1>3, <1>5, <1>13, <1>16, <1>17 DEF EvidenceInv, Recorded, ActiveStatus
<1>19. /\ main'[r].exec = e /\ main'[r].level = main[r].level
       /\ main'[r].pc = NextPc(r)
  BY <1>3, <1>8 DEF MovesIn, SameRun, SameData
<1>20. LeaseSame(e)
  BY <1>5 DEF LeaseSame
<1>21. Phase(r)'
  BY <1>7, <1>9, <1>14, <1>15, <1>19 DEF Phase, BeforeFirst, BeforeSecond, Returned
<1> QED
  BY <1>3, <1>5, <1>8, <1>18, <1>20, <1>21, FencedEvidence DEF MovesIn

LEMMA FinishEvidence ==
  ASSUME ThreadInv, EvidenceInv, NEW r \in Runner, FinishRun(r)
  PROVE  EvidenceInv'
<1> DEFINE target == main[r].target
<1>1. /\ main \in [Runner -> MainType] /\ TypeOK /\ main[r].at \in Time
      /\ main[r].failure \in FailureCode \cup {None}
  BY DEF ThreadInv, ServiceTypeOK, MainType
<1>2. main[r].pc = "finishing" /\ LeaveRun(r) /\ InRun(r)
  BY DEF FinishRun, InRun, RunPc
<1>3. PICK e \in Execution : e = main[r].exec
  BY <1>2 DEF ThreadInv, Threads, Thread
<1>4. Finish(e, target, main[r].failure, r, main[r].generation, main[r].at)
  BY <1>3 DEF FinishRun
<1>5. target \in TerminalStatus
  BY <1>4 DEF Finish, FinishAllowed, FinishTarget, TerminalStatus
<1>6. target = "succeeded" =>
        ~main[r].raised /\ main[r].level = ExpectedLevel(e)
  BY <1>2, <1>3 DEF ThreadInv, Threads, Thread
<1> HIDE DEF target
<1>7. /\ FenceHolds(row[e], r, main[r].generation, main[r].at)
      /\ \A f \in Execution \ {e} : Kept(f)
      /\ Quiet(e) /\ row'[e].status = target
      /\ \E x \in Event : log'[e] = Append(log[e], x)
      /\ target = "succeeded" => row[e].status = "running"
  BY <1>1, <1>3, <1>4, <1>5, FinishQuiet
<1>8. PICK x \in Event : log'[e] = Append(log[e], x)
  BY <1>7
<1>9. Holds(r)
  BY <1>2, <1>3, <1>7 DEF Holds, FenceHolds
<1>10. log[e] \in Seq(Event) /\ Recorded(e)
  BY <1>1, <1>3 DEF TypeOK, EvidenceInv
<1>11. target = "succeeded" =>
         /\ log'[e][Len(log'[e]) - 1].type = "stage_snapshot_persisted"
         /\ log'[e][Len(log'[e]) - 1].number = ExpectedLevel(e)
  <2> SUFFICES ASSUME target = "succeeded"
               PROVE  /\ log'[e][Len(log'[e]) - 1].type = "stage_snapshot_persisted"
                      /\ log'[e][Len(log'[e]) - 1].number = ExpectedLevel(e)
    OBVIOUS
  <2>1. EndsWithSnapshot(log[e], ExpectedLevel(e))
    BY <1>2, <1>3, <1>6, <1>7, <1>9 DEF EvidenceInv, Phase, Returned
  <2>2. Len(log'[e]) - 1 = Len(log[e]) /\ log'[e][Len(log[e])] = log[e][Len(log[e])]
    BY <1>8, <1>10, <2>1 DEF EndsWithSnapshot
  <2> QED
    BY <2>1, <2>2 DEF EndsWithSnapshot, IsSnapshot
<1>12. Recorded(e)'
  <2>1. row'[e].status \notin {"absent", "queued", "cancellation_requested"}
    BY <1>5, <1>7 DEF TerminalStatus
  <2>2. Ascends(log'[e])
    BY <1>7, <1>10 DEF Quiet, Recorded
  <2> QED
    BY <1>7, <1>11, <2>1, <2>2 DEF Recorded, ExpectedLevel
<1>13. main'[r].pc = "idle" /\ \A q \in Runner \ {r} : SamePlace(q)
  BY <1>1, <1>2, LeftEffect DEF LeaveRun
<1>14. Phase(r)'
  BY <1>13, PhaseOutside DEF InRun, RunPc, StagePc
<1>15. LeaseSame(e)
  BY <1>5, <1>7 DEF LeaseSame, TerminalStatus, ActiveStatus
<1> QED
  BY <1>3, <1>7, <1>12, <1>13, <1>14, <1>15, FencedEvidence

LEMMA NextEvidenceInv ==
  ThreadInv /\ LogShape /\ EvidenceInv /\ [ServiceNext]_vars => EvidenceInv'
<1> SUFFICES ASSUME ThreadInv, LogShape, EvidenceInv, [ServiceNext]_vars
             PROVE  EvidenceInv'
  OBVIOUS
<1>1. main \in [Runner -> MainType] /\ clock \in Time /\ TypeOK
  BY DEF ThreadInv, ServiceTypeOK
<1>2. UNCHANGED storeVars => \A f \in Execution : Aside(f)
  BY KeptAside DEF Kept, storeVars
<1>3. UNCHANGED main => \A q \in Runner : SamePlace(q)
  BY DEF SamePlace
<1>4. CASE UNCHANGED vars
  BY <1>2, <1>3, <1>4, EvidenceAside DEF vars, serviceVars
<1>5. ASSUME NEW r \in Runner, MainStep(r) \/ ExecutorRaises(r)
      PROVE  EvidenceInv'
  <2>1. CASE FinishRaises(r)
    <3>1. UNCHANGED storeVars /\ main' = [main EXCEPT ![r] = IdleMain]
      BY <2>1 DEF FinishRaises, LeaveRun
    <3>2. \A q \in Runner : SamePlace(q) \/ ~InRun(q)'
      BY <1>1, <3>1, LeftEffect DEF InRun, RunPc, StagePc
    <3> QED
      BY <1>2, <3>1, <3>2, EvidenceAside
  <2> QED
    BY <1>5, <2>1, StartEvidence, RaiseEvidence, ExecutorEvidence, BindEvidence,
       PublishEvidence, FinishEvidence DEF MainStep
<1>6. ASSUME NEW r \in Runner, MonitorStep(r)
      PROVE  EvidenceInv'
  <2>1. UNCHANGED main
    BY <1>6 DEF MonitorStep, WakeMonitor, ReadRecord, Renew, MonitorFails, StopMonitor
  <2>2. CASE Renew(r)
    <3>1. main[r].exec \in Execution /\ monitor[r].at \in Time
      BY <2>2 DEF Renew, ThreadInv, Threads, Thread, ServiceTypeOK
    <3>2. RenewLease(main[r].exec, r, main[r].generation, monitor[r].at)
      BY <2>2 DEF Renew
    <3> QED
      BY <1>1, <1>3, <2>1, <3>1, <3>2, RenewLeaseAside, EvidenceAside
  <2>3. CASE UNCHANGED storeVars
    BY <1>2, <1>3, <2>1, <2>3, EvidenceAside
  <2> QED
    BY <1>6, <2>2, <2>3 DEF MonitorStep, WakeMonitor, ReadRecord, MonitorFails, StopMonitor
<1>7. ASSUME NEW r \in Runner, Crash(r) \/ Restart(r)
      PROVE  EvidenceInv'
  <2>1. UNCHANGED storeVars
    BY <1>7 DEF Crash, Restart
  <2>2. main'[r].pc \in {"down", "idle"} /\ \A q \in Runner \ {r} : SamePlace(q)
    <3>1. CASE Crash(r)
      BY <1>1, <3>1, IdleMainType, MainUpdate DEF Crash
    <3>2. CASE Restart(r)
      BY <1>1, <3>2, GotoEffect DEF Restart, MovesIn
    <3> QED
      BY <1>7, <3>1, <3>2
  <2>3. \A q \in Runner : SamePlace(q) \/ ~InRun(q)'
    BY <2>2 DEF InRun, RunPc, StagePc
  <2> QED
    BY <1>2, <2>1, <2>3, EvidenceAside
<1>8. ASSUME Tick \/ \E e \in Execution : ClientAdmit(e) \/ CallCancel(e) \/ CommitCancel(e)
      PROVE  EvidenceInv'
  <2>1. UNCHANGED main
    BY <1>8 DEF Tick, ClientAdmit, CallCancel, CommitCancel, serviceVars
  <2>2. \/ UNCHANGED storeVars
        \/ \E e \in Execution, request \in Request : Admit(e, e, request, clock)
        \/ \E e \in Execution : cancelStamp[e] # None /\ Cancel(e, cancelStamp[e])
    BY <1>8 DEF Tick, ClientAdmit, CallCancel, CommitCancel
  <2>3. \A e \in Execution : e \in Key /\ (cancelStamp[e] # None => cancelStamp[e] \in Time)
    BY ServiceAssumption DEF ThreadInv, ServiceTypeOK
  <2>4. \A f \in Execution : Aside(f)
    BY <1>1, <1>2, <2>2, <2>3, AdmitAside, CancelAside
  <2> QED
    BY <1>3, <2>1, <2>4, EvidenceAside
<1> QED
  BY <1>4, <1>5, <1>6, <1>7, <1>8 DEF ServiceNext

LEMMA AlwaysEvidenceInv == ServiceSpec => []EvidenceInv
<1>1. ServiceInit => EvidenceInv
  <2> SUFFICES ASSUME ServiceInit
               PROVE  EvidenceInv
    OBVIOUS
  <2>1. \A r \in Runner : ~InRun(r)
    BY IdleMainType DEF ServiceInit, InRun, RunPc, StagePc
  <2>2. \A e \in Execution : row[e].status = "absent" /\ log[e] = << >>
    BY DEF ServiceInit, Init, AbsentRow
  <2> QED
    BY <2>1, <2>2 DEF EvidenceInv, Phase, Holds, Recorded, NoSnapshot, Ascends
<1> QED
  BY <1>1, NextEvidenceInv, AlwaysThreadInv, ServiceImplementsStore, AlwaysLogShape, PTL
     DEF ServiceSpec

\* A success is never a stronger claim than its evidence: run_next only asks finish for
\* succeeded after the executor's last snapshot reached the level its target expects, and
\* a cancellation that commits after it rules the success out, so the event before
\* execution_succeeded is that snapshot.
THEOREM SuccessIsAlwaysEvidenced == ServiceSpec => []SuccessIsEvidenced
<1>1. EvidenceInv => SuccessIsEvidenced
  BY DEF EvidenceInv, Recorded, SuccessIsEvidenced
<1> QED
  BY <1>1, AlwaysEvidenceInv, PTL

\* The evidence snapshot_persisted publishes for an execution only grows: the R2 snapshot
\* comes first, at most one follows it, and no retry of a run publishes a level again.
THEOREM SnapshotsAlwaysAscend == ServiceSpec => []SnapshotsAscend
<1>1. EvidenceInv => SnapshotsAscend
  BY DEF EvidenceInv, Recorded, SnapshotsAscend, Ascends, IsSnapshot
<1> QED
  BY <1>1, AlwaysEvidenceInv, PTL

-----------------------------------------------------------------------------
(* The token of a run *)

LEMMA CancelStays ==
  ASSUME TypeOK, LogShape, [Next]_storeVars, NEW f \in Execution, CancelLogged(log[f])
  PROVE  CancelLogged(log'[f])
<1>1. log[f] \in Seq(Event)
  BY DEF TypeOK
<1>2. CASE Kept(f) \/ Renewed(f)
  BY <1>2 DEF Kept, Renewed
<1>3. CASE Admitted(f)
  BY <1>3 DEF Admitted, LogShape, CancelLogged
<1>4. CASE Launched(f) \/ Appended(f)
  BY <1>1, <1>4, AppendCancel DEF Launched, Appended
<1>5. CASE Dequeued(f)
  <2>1. PICK x \in Event, y \in Event : log'[f] = log[f] \o <<x, y>>
    BY <1>5 DEF Dequeued
  <2>2. log'[f] = Append(Append(log[f], x), y) /\ Append(log[f], x) \in Seq(Event)
    BY <1>1, <2>1, AppendTwo, AppendElements
  <2> QED
    BY <1>1, <2>2, AppendCancel
<1> QED
  BY <1>2, <1>3, <1>4, <1>5, LogStep

\* The token of one run is justified, or not set.
Justified(r) ==
  token[r] =>
    \/ monitorError[r]
    \/ main[r].exec # None /\ CancelLogged(log[main[r].exec])

\* A run that stays where it was keeps its token justified.
LEMMA JustifiedStays ==
  ASSUME ThreadInv, LogShape, [Next]_storeVars, NEW q \in Runner, Justified(q),
         token'[q] => token[q] /\ main'[q].exec = main[q].exec,
         token'[q] /\ monitorError[q] => monitorError'[q]
  PROVE  Justified(q)'
<1> SUFFICES ASSUME token'[q], ~monitorError'[q]
             PROVE  main'[q].exec # None /\ CancelLogged(log'[main'[q].exec])
  BY DEF Justified
<1>1. InRun(q)
  BY DEF ThreadInv, Threads, Thread
<1>2. main[q].exec \in Execution
  BY <1>1 DEF ThreadInv, Threads, Thread
<1>3. main[q].exec # None /\ CancelLogged(log[main[q].exec])
  BY DEF Justified
<1> QED
  BY <1>2, <1>3, CancelStays DEF ThreadInv

LEMMA SameExec ==
  ASSUME main \in [Runner -> MainType], clock \in Time, NEW r \in Runner, NEW q \in Runner,
         \/ \E pc \in {"idle", "starting", "down"} \cup RunPc : Goto(r, pc) \/ Stamp(r, pc)
         \/ Raise(r) \/ Decide(r)
         \/ \E pc \in RunPc, level \in {0, 2, 3, 4}, verified \in BOOLEAN :
              Ended(r, pc, level, verified)
  PROVE  main'[q].exec = main[q].exec
<1>1. \E pc : MovesIn(r, pc)
  BY GotoEffect, StampEffect, RaiseEffect, EndedEffect, DecideEffect
<1> QED
  BY <1>1 DEF MovesIn, SameRun, SamePlace

\* No step of a main thread, and no crash, sets a token that it does not take away with
\* the run.
LEMMA RunStays ==
  ASSUME ThreadInv, NEW r \in Runner, NEW q \in Runner,
         MainStep(r) \/ ExecutorRaises(r) \/ Crash(r) \/ Restart(r)
  PROVE  /\ token'[q] => token[q] /\ main'[q].exec = main[q].exec
         /\ token'[q] /\ monitorError[q] => monitorError'[q]
<1>1. /\ main \in [Runner -> MainType] /\ token \in [Runner -> BOOLEAN]
      /\ monitorError \in [Runner -> BOOLEAN] /\ clock \in Time
  BY DEF ThreadInv, ServiceTypeOK
<1>2. {"idle", "starting"} \cup {"binding", "bound", "cad", "cad_ended", "slicing",
       "slicing_ended", "publishing", "printability", "stopping"}
        \subseteq {"idle", "starting", "down"} \cup RunPc
      /\ {"cad_ended", "slicing_ended"} \subseteq RunPc
  BY DEF RunPc, StagePc
<1>3. CASE \/ CallRunNext(r) \/ Restart(r) \/ Resolve(r) \/ Bind(r) \/ BindRaises(r)
           \/ LaunchCad(r) \/ EndCad(r) \/ EndPrintability(r) \/ EndSlicing(r)
           \/ TakeSnapshot(r) \/ Publish(r) \/ PublishRaises(r) \/ Decide(r) \/ ExecutorRaises(r)
  <2>1. UNCHANGED <<token, monitorError>>
    BY <1>3 DEF CallRunNext, Restart, Resolve, Bind, BindRaises, LaunchCad, EndCad,
                EndPrintability, EndSlicing, TakeSnapshot, Publish, PublishRaises, Decide,
                ExecutorRaises, threadVars
  <2>2. CASE \/ CallRunNext(r) \/ Restart(r) \/ Resolve(r) \/ Bind(r) \/ TakeSnapshot(r)
             \/ Publish(r)
    <3>1. \/ Stamp(r, "starting") \/ Goto(r, "idle") \/ Stamp(r, "binding")
          \/ Goto(r, "bound") \/ Stamp(r, "publishing")
          \/ Goto(r, "printability") \/ Goto(r, "stopping")
      BY <2>2 DEF CallRunNext, Restart, Resolve, Bind, TakeSnapshot, Publish, NextPc
    <3> QED
      BY <1>1, <1>2, <2>1, <3>1, SameExec
  <2>3. CASE LaunchCad(r) \/ EndCad(r) \/ EndPrintability(r) \/ EndSlicing(r)
    <3>1. \/ Goto(r, "cad") \/ Goto(r, "slicing")
          \/ Ended(r, "cad_ended", 0, FALSE) \/ Ended(r, "cad_ended", 2, TRUE)
          \/ Ended(r, "slicing_ended", 2, FALSE) \/ Ended(r, "slicing_ended", 3, FALSE)
          \/ Ended(r, "slicing_ended", 4, TRUE)
      BY <2>3 DEF LaunchCad, EndCad, EndPrintability, EndSlicing
    <3> QED
      BY <1>1, <1>2, <2>1, <3>1, SameExec
  <2>4. CASE BindRaises(r) \/ PublishRaises(r) \/ ExecutorRaises(r) \/ Decide(r)
    <3>1. Raise(r) \/ Decide(r)
      BY <2>4 DEF BindRaises, PublishRaises, ExecutorRaises
    <3> QED
      BY <1>1, <2>1, <3>1, SameExec
  <2> QED
    BY <1>3, <2>2, <2>3, <2>4
<1>4. CASE StartNone(r) \/ StartRaises(r)
  <2>1. main' = [main EXCEPT ![r] = IdleMain] /\ UNCHANGED <<token, monitorError>>
    BY <1>4 DEF StartNone, StartRaises, threadVars
  <2>2. ~token[r]
    <3>1. ~InRun(r)
      BY <1>4 DEF StartNone, StartRaises, InRun, RunPc, StagePc
    <3> QED
      BY <3>1 DEF ThreadInv, Threads, Thread
  <2> QED
    BY <1>1, <2>1, <2>2
<1>5. CASE StartRun(r) \/ FinishRun(r) \/ FinishRaises(r) \/ Crash(r)
  <2>1. /\ token' = [token EXCEPT ![r] = FALSE]
        /\ monitorError' = [monitorError EXCEPT ![r] = FALSE]
    BY <1>5 DEF StartRun, FinishRun, FinishRaises, LeaveRun, Crash
  <2>2. q # r => main'[q] = main[q]
    BY <1>1, <1>5 DEF StartRun, FinishRun, FinishRaises, LeaveRun, Crash
  <2> QED
    BY <1>1, <2>1, <2>2
<1> QED
  BY <1>3, <1>4, <1>5 DEF MainStep

LEMMA NextJustified ==
  ASSUME ThreadInv, LogShape, EvidenceInv, TokenJustified, [ServiceNext]_vars, NEW q \in Runner
  PROVE  Justified(q)'
<1>1. token \in [Runner -> BOOLEAN] /\ monitorError \in [Runner -> BOOLEAN]
  BY DEF ThreadInv, ServiceTypeOK
<1>2. [Next]_storeVars
  BY StoreStep
<1>3. Justified(q)
  BY DEF TokenJustified, Justified, CancelLogged
<1>4. ASSUME UNCHANGED <<main, token, monitorError>>
      PROVE  Justified(q)'
  BY <1>2, <1>3, <1>4, JustifiedStays
<1>5. CASE UNCHANGED vars
  BY <1>4, <1>5 DEF vars, serviceVars, threadVars
<1>6. CASE Tick \/ \E e \in Execution : ClientAdmit(e) \/ CallCancel(e) \/ CommitCancel(e)
  BY <1>4, <1>6 DEF Tick, ClientAdmit, CallCancel, CommitCancel, serviceVars, threadVars
<1>7. ASSUME NEW r \in Runner, MainStep(r) \/ ExecutorRaises(r) \/ Crash(r) \/ Restart(r)
      PROVE  Justified(q)'
  BY <1>2, <1>3, <1>7, RunStays, JustifiedStays
<1>8. ASSUME NEW r \in Runner, MonitorStep(r)
      PROVE  Justified(q)'
  <2>1. CASE WakeMonitor(r) \/ Renew(r) \/ StopMonitor(r)
    BY <1>4, <2>1 DEF WakeMonitor, Renew, StopMonitor
  <2>2. CASE MonitorFails(r)
    <3>1. /\ main' = main /\ monitorError' = [monitorError EXCEPT ![r] = TRUE]
          /\ token' = [token EXCEPT ![r] = TRUE]
      BY <2>2 DEF MonitorFails
    <3>2. CASE q = r
      BY <1>1, <3>1, <3>2 DEF Justified
    <3>3. CASE q # r
      BY <1>1, <1>2, <1>3, <3>1, <3>3, JustifiedStays
    <3> QED
      BY <3>2, <3>3
  <2>3. CASE ReadRecord(r)
    <3> DEFINE cancelled == row[main[r].exec].status = "cancellation_requested"
    <3>1. /\ main' = main /\ monitorError' = monitorError /\ log' = log
          /\ token' = [token EXCEPT ![r] = token[r] \/ cancelled]
      BY <2>3 DEF ReadRecord, storeVars
    <3>2. CASE q = r /\ cancelled
      <4>1. main[r].exec \in Execution
        BY <2>3 DEF ReadRecord, ThreadInv, Threads, Thread
      <4>2. CancelLogged(log[main[r].exec])
        BY <3>2, <4>1 DEF EvidenceInv, Recorded
      <4>3. main[r].exec # None
        BY <4>1, ServiceAssumption, NoneAssumption
      <4> QED
        BY <3>1, <3>2, <4>2, <4>3 DEF Justified
    <3>3. CASE ~(q = r /\ cancelled)
      <4>1. token'[q] = token[q]
        BY <1>1, <3>1, <3>3
      <4> QED
        BY <1>2, <1>3, <3>1, <4>1, JustifiedStays
    <3> QED
      BY <3>2, <3>3
  <2> QED
    BY <1>8, <2>1, <2>2, <2>3 DEF MonitorStep
<1> QED
  BY <1>5, <1>6, <1>7, <1>8 DEF ServiceNext

\* A run is only told to stop for a reason of its own: when its token is set, either its own
\* monitor failed or a cancellation of the execution it runs is in the log, never that of
\* another execution or of an earlier run of the process.
THEOREM TokensAreJustified == ServiceSpec => []TokenJustified
<1>1. ServiceInit => TokenJustified
  BY DEF ServiceInit, TokenJustified
<1>2. ThreadInv /\ LogShape /\ EvidenceInv /\ TokenJustified /\ [ServiceNext]_vars
        => TokenJustified'
  <2> SUFFICES ASSUME ThreadInv, LogShape, EvidenceInv, TokenJustified, [ServiceNext]_vars
               PROVE  TokenJustified'
    OBVIOUS
  <2>1. \A q \in Runner : Justified(q)'
    BY NextJustified
  <2> QED
    BY <2>1 DEF TokenJustified, Justified, CancelLogged
<1> QED
  BY <1>1, <1>2, AlwaysThreadInv, AlwaysEvidenceInv, ServiceImplementsStore, AlwaysLogShape,
     PTL DEF ServiceSpec
=============================================================================
