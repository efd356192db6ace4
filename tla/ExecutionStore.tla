--------------------------- MODULE ExecutionStore ---------------------------
(***************************************************************************)
(* The transactional control store of execution/store.py and the lifecycle *)
(* contracts of execution/contracts.py it applies: idempotent admission    *)
(* into a bounded queue, the lease and its fence, cancellation, terminal   *)
(* commits, interruption of a stale lease, and the append-only event log.  *)
(*                                                                         *)
(* Every mutating method is one BEGIN IMMEDIATE transaction that rolls     *)
(* back on any exception, so a call that succeeds is one action here and a *)
(* call that raises is no step at all.  A caller passes each call its own  *)
(* timestamp "at"; the store orders calls by transaction, never by clock,  *)
(* so "at" is any member of Time in every call.                            *)
(***************************************************************************)
EXTENDS Integers, Sequences, FiniteSets

CONSTANTS
  Execution,          \* execution identifiers
  Key,                \* idempotency keys
  Request,            \* canonical request digests
  Runner,             \* runner_instance_id values
  Journey,            \* (job_id, revision_id) pairs
  Time,               \* timestamps
  FailureCode,        \* failure codes in use
  EvidenceLevel,      \* evidence levels a snapshot may report, 2 for R2
  MaxQueued,          \* max_queued_executions, 4 in the frozen policy
  MaxEvents,          \* max_events, 10000 in the frozen policy
  LeaseSeconds,       \* 30 in the frozen policy
  CancellationGrace,  \* cancellation_grace_seconds, 10 in the frozen policy
  None                \* Python's None, SQL's NULL

ASSUME TimeAssumption   == Time \subseteq Nat
ASSUME LimitsAssumption == /\ MaxQueued \in Nat \ {0}
                           /\ MaxEvents \in Nat \ {0, 1, 2}
                           /\ LeaseSeconds \in Nat \ {0}
                           /\ CancellationGrace \in Nat
ASSUME EvidenceAssumption == EvidenceLevel \subseteq Nat
ASSUME NoneAssumption   == /\ None \notin Int
                           /\ None \notin Key \cup Request \cup Runner \cup Journey
                           /\ None \notin FailureCode \cup {"cancellation_timeout"}
ASSUME FailureAssumption == "runner_interrupted" \in FailureCode

VARIABLES
  row,             \* the executions table: one record per execution
  updatedAt,       \* its updated_at column
  log,             \* the execution_events table: one sequence per execution
  nextAccepted,    \* execution_counters.next_accepted_sequence
  nextGeneration   \* execution_counters.next_lease_generation

storeVars == <<row, updatedAt, log, nextAccepted, nextGeneration>>

-----------------------------------------------------------------------------
(* Records *)

ActiveStatus   == {"running", "cancellation_requested"}
TerminalStatus == {"succeeded", "failed", "cancelled", "interrupted"}
Status         == {"queued"} \cup ActiveStatus \cup TerminalStatus

\* A row that was never inserted.
AbsentRow ==
  [status |-> "absent", key |-> None, request |-> None, seq |-> 0,
   accepted |-> None, started |-> None, cancelAt |-> None, completed |-> None,
   journey |-> None, runner |-> None, generation |-> 0, heartbeat |-> None,
   failure |-> None]

Row ==
  [status : Status \cup {"absent"}, key : Key \cup {None},
   request : Request \cup {None}, seq : Nat,
   accepted : Time \cup {None}, started : Time \cup {None},
   cancelAt : Time \cup {None}, completed : Time \cup {None},
   journey : Journey \cup {None}, runner : Runner \cup {None},
   generation : Nat, heartbeat : Time \cup {None},
   failure : FailureCode \cup {None}]

TerminalEvent ==
  [succeeded   |-> "execution_succeeded", failed      |-> "execution_failed",
   cancelled   |-> "execution_cancelled", interrupted |-> "execution_interrupted"]
TerminalEventType == {TerminalEvent[s] : s \in TerminalStatus}
EventType ==
  {"request_accepted", "execution_started", "execution_identity_bound",
   "stage_snapshot_persisted", "cancellation_requested"} \cup TerminalEventType

\* An event's data: a number (the accepted sequence, the lease generation or the
\* evidence level of a snapshot, 0 on the others), and the failure of a terminal one.
Event == [type : EventType, status : Status, at : Time, number : Nat,
          journey : Journey \cup {None}, failure : FailureCode \cup {None}]

Existing == {e \in Execution : row[e].status # "absent"}
Queued   == {e \in Execution : row[e].status = "queued"}
Active   == {e \in Execution : row[e].status \in ActiveStatus}

\* Mutant: ORDER BY accepted_sequence DESC.
IsLifoHead(e) == e \in Queued /\ \A f \in Queued : row[e].seq >= row[f].seq

\* SELECT ... WHERE status = 'queued' ORDER BY accepted_sequence ASC LIMIT 1.
IsFifoHead(e) == e \in Queued /\ \A f \in Queued : row[e].seq <= row[f].seq

-----------------------------------------------------------------------------
(* The lease and its fence *)

Expiry(r) == r.heartbeat + LeaseSeconds

\* validate_execution_fence: the owner and generation match, and the call's time
\* lies in [heartbeat, heartbeat + 30).
FenceHolds(r, runner, generation, at) ==
  /\ r.status \in ActiveStatus
  /\ r.runner = runner
  /\ r.generation = generation
  /\ r.heartbeat <= at
  /\ at < Expiry(r)

WithoutLease(r) ==
  [r EXCEPT !.runner = None, !.generation = 0, !.heartbeat = None]

-----------------------------------------------------------------------------
(* Lifecycle contracts: the record each operation produces *)

QueuedRecord(key, request, seq, at) ==
  [AbsentRow EXCEPT !.status = "queued", !.key = key, !.request = request,
                    !.seq = seq, !.accepted = at]

\* Mutant: the first heartbeat is recorded as the expiry of the lease.
StartExecutionAtExpiry(r, runner, generation, at) ==
  [r EXCEPT !.status = "running", !.started = at, !.runner = runner,
            !.generation = generation, !.heartbeat = at + LeaseSeconds]

StartExecution(r, runner, generation, at) ==
  [r EXCEPT !.status = "running", !.started = at, !.runner = runner,
            !.generation = generation, !.heartbeat = at]

\* A queued execution is cancelled outright; a running one only records the
\* request, because its runner still owns the process tree.
RequestCancellation(r, at) ==
  IF r.status = "queued"
  THEN [r EXCEPT !.status = "cancelled", !.cancelAt = at, !.completed = at]
  ELSE [r EXCEPT !.status = "cancellation_requested", !.cancelAt = at]

TransitionExecution(r, target, failure, at) ==
  [WithoutLease(r) EXCEPT !.status = target, !.completed = at, !.failure = failure]

InterruptStaleExecution(r, at) ==
  TransitionExecution(r, "interrupted", "runner_interrupted", at)

\* Mutant: a cancelling execution may still commit the success of its last stage.
FinishTargetAfterCancel(r) ==
  IF r.status \in ActiveStatus THEN {"succeeded", "failed", "cancelled"} ELSE {}

\* The terminal targets a fenced runner may commit from each status.
FinishTarget(r) ==
  CASE r.status = "running"                -> {"succeeded", "failed"}
    [] r.status = "cancellation_requested" -> {"cancelled", "failed"}
    [] OTHER                               -> {}

\* Which failure must, and may, come with a terminal target.
FailureFits(r, target, failure, at) ==
  CASE target = "succeeded" -> failure = None /\ r.journey # None
    [] target = "failed" ->
         /\ failure \in FailureCode \ {"runner_interrupted"}
         /\ failure = "cancellation_timeout" =>
              /\ r.cancelAt # None
              /\ at >= r.cancelAt + CancellationGrace
    [] OTHER -> failure = None

\* ExecutionRecord._validate_chronology.
Chronological(r) ==
  LET Follows(later, earlier) ==
        later # None /\ earlier # None => later >= earlier
  IN /\ \A t \in {r.started, r.cancelAt, r.completed} : Follows(t, r.accepted)
     /\ Follows(r.cancelAt, r.started)
     /\ Follows(r.completed, r.started)
     /\ Follows(r.completed, r.cancelAt)

-----------------------------------------------------------------------------
(* _update_record and _append_event *)

\* Mutant: updated_at is not compared.
UpdateAllowedAnyTime(e, r, at) == Chronological(r)

\* The compare-and-swap accepts the new record: it is constructible, and
\* updated_at does not move backwards.
UpdateAllowed(e, r, at) == Chronological(r) /\ at >= updatedAt[e]

\* Mutant: no slot is kept.
SlotFreeToLimit(l, type) == Len(l) + 1 <= MaxEvents

\* One event slot is kept for the terminal event.
SlotFree(l, type) ==
  Len(l) + 1 <= (IF type \in TerminalEventType THEN MaxEvents ELSE MaxEvents - 1)

\* The identity columns of an event: never on the first two event types.
LogEvent(r, type, at, number) ==
  [type |-> type, status |-> r.status, at |-> at, number |-> number,
   journey |-> IF type \in {"request_accepted", "execution_started"}
               THEN None ELSE r.journey,
   failure |-> r.failure]

CommitAllowed(e, r, type, at) == UpdateAllowed(e, r, at) /\ SlotFree(log[e], type)

\* One row rewritten and one event appended to its log.
Commit(e, r, type, at, number) ==
  /\ CommitAllowed(e, r, type, at)
  /\ row' = [row EXCEPT ![e] = r]
  /\ updatedAt' = [updatedAt EXCEPT ![e] = at]
  /\ log' = [log EXCEPT ![e] = Append(@, LogEvent(r, type, at, number))]
  /\ UNCHANGED <<nextAccepted, nextGeneration>>

-----------------------------------------------------------------------------
(* Admission *)

\* Mutant: the queue limit is off by one.
AdmissionDecisionOffByOne(key, request) ==
  LET holders == {e \in Existing : row[e].key = key}
  IN IF \E e \in holders : row[e].request = request THEN "idempotent_replay"
     ELSE IF holders # {} THEN "idempotency_conflict"
     ELSE IF Cardinality(Queued) > MaxQueued THEN "queue_full"
     ELSE "accept"

\* Mutant: the key of an execution that has ended is free again.
AdmissionDecisionOfLive(key, request) ==
  LET holders == {e \in Queued \cup Active : row[e].key = key}
  IN IF \E e \in holders : row[e].request = request THEN "idempotent_replay"
     ELSE IF holders # {} THEN "idempotency_conflict"
     ELSE IF Cardinality(Queued) >= MaxQueued THEN "queue_full"
     ELSE "accept"

\* assess_admission: the idempotency key is looked at before the queue limit.
AdmissionDecision(key, request) ==
  LET holders == {e \in Existing : row[e].key = key}
  IN IF \E e \in holders : row[e].request = request THEN "idempotent_replay"
     ELSE IF holders # {} THEN "idempotency_conflict"
     ELSE IF Cardinality(Queued) >= MaxQueued THEN "queue_full"
     ELSE "accept"

\* _insert_record: the index columns are written from the record they index.
InsertRecord(e, r, at) ==
  row' = [row EXCEPT ![e] = r] /\ updatedAt' = [updatedAt EXCEPT ![e] = at]

\* Only an accepted request changes the store.
Admit(e, key, request, at) ==
  /\ e \notin Existing
  /\ AdmissionDecision(key, request) = "accept"
  /\ LET r == QueuedRecord(key, request, nextAccepted, at)
     IN /\ InsertRecord(e, r, at)
        /\ log' = [log EXCEPT ![e] =
                     <<LogEvent(r, "request_accepted", at, nextAccepted)>>]
  /\ nextAccepted' = nextAccepted + 1
  /\ UNCHANGED nextGeneration

-----------------------------------------------------------------------------
(* Stale leases and the next start *)

Stale(at) == {e \in Active : at >= Expiry(row[e])}

\* Every stale execution can be interrupted at this time; if one cannot, the
\* whole transaction rolls back.
ReconcileAllowed(at) ==
  \A e \in Stale(at) : UpdateAllowed(e, InterruptStaleExecution(row[e], at), at)

\* The three columns after _reconcile_stale_locked.
ReconciledRow(at) ==
  [e \in Execution |-> IF e \in Stale(at) THEN InterruptStaleExecution(row[e], at)
                                          ELSE row[e]]
ReconciledUpdatedAt(at) ==
  [e \in Execution |-> IF e \in Stale(at) THEN at ELSE updatedAt[e]]
ReconciledLog(at) ==
  [e \in Execution |->
     IF e \in Stale(at)
     THEN Append(log[e], LogEvent(ReconciledRow(at)[e], "execution_interrupted", at, 0))
     ELSE log[e]]

ReconcileStale(at) ==
  /\ ReconcileAllowed(at)
  /\ row' = ReconciledRow(at)
  /\ updatedAt' = ReconciledUpdatedAt(at)
  /\ log' = ReconciledLog(at)
  /\ UNCHANGED <<nextAccepted, nextGeneration>>

\* Mutant: start_next does not look for an active execution.
StartNothingButEmpty(at) == Queued = {}

\* start_next reconciles first.  With an execution still active, or nothing
\* queued, it returns None and commits just the reconciliation.
StartNothing(at) == Active \ Stale(at) # {} \/ Queued = {}

StartAllowed(e, at) ==
  /\ IsFifoHead(e)
  /\ ReconcileAllowed(at)
  /\ at >= row[e].accepted /\ at >= updatedAt[e]

StartHead(e, runner, at) ==
  LET r == StartExecution(row[e], runner, nextGeneration, at)
  IN /\ StartAllowed(e, at)
     /\ row' = [ReconciledRow(at) EXCEPT ![e] = r]
     /\ updatedAt' = [ReconciledUpdatedAt(at) EXCEPT ![e] = at]
     /\ log' = [ReconciledLog(at) EXCEPT ![e] =
                  Append(@, LogEvent(r, "execution_started", at, nextGeneration))]
     /\ nextGeneration' = nextGeneration + 1
     /\ UNCHANGED nextAccepted

StartNext(runner, at) ==
  IF StartNothing(at)
  THEN ReconcileStale(at)
  ELSE \E e \in Queued : StartHead(e, runner, at)

-----------------------------------------------------------------------------
(* Operations of the fenced runner *)

\* Binding the identity already bound changes nothing; another one is refused.
BindAllowed(e, runner, generation, at) ==
  /\ FenceHolds(row[e], runner, generation, at)
  /\ row[e].journey = None
  /\ CommitAllowed(e, row[e], "execution_identity_bound", at)

BindIdentity(e, journey, runner, generation, at) ==
  /\ BindAllowed(e, runner, generation, at)
  /\ Commit(e, [row[e] EXCEPT !.journey = journey], "execution_identity_bound", at, 0)

\* A stage snapshot event requires the journey identity.
SnapshotAllowed(e, runner, generation, at) ==
  /\ FenceHolds(row[e], runner, generation, at)
  /\ row[e].journey # None
  /\ CommitAllowed(e, row[e], "stage_snapshot_persisted", at)

AppendStageSnapshot(e, level, runner, generation, at) ==
  /\ SnapshotAllowed(e, runner, generation, at)
  /\ Commit(e, row[e], "stage_snapshot_persisted", at, level)

\* A heartbeat at the recorded time is a no-op.  A renewal appends no event.
RenewAllowed(e, runner, generation, at) ==
  /\ FenceHolds(row[e], runner, generation, at)
  /\ at = row[e].heartbeat \/ at >= updatedAt[e]

RenewLease(e, runner, generation, at) ==
  /\ RenewAllowed(e, runner, generation, at)
  /\ row' = [row EXCEPT ![e].heartbeat = at]
  /\ updatedAt' = [updatedAt EXCEPT ![e] = IF at = row[e].heartbeat THEN @ ELSE at]
  /\ UNCHANGED <<log, nextAccepted, nextGeneration>>

FinishAllowed(e, target, failure, runner, generation, at) ==
  /\ target \in FinishTarget(row[e])
  /\ FenceHolds(row[e], runner, generation, at)
  /\ FailureFits(row[e], target, failure, at)
  /\ CommitAllowed(e, TransitionExecution(row[e], target, failure, at),
                   TerminalEvent[target], at)

Finish(e, target, failure, runner, generation, at) ==
  /\ FinishAllowed(e, target, failure, runner, generation, at)
  /\ Commit(e, TransitionExecution(row[e], target, failure, at),
            TerminalEvent[target], at, 0)

-----------------------------------------------------------------------------
(* Cancellation: any client, no fence, no lease check *)

\* Cancelling a terminal or already cancelling execution changes nothing.
CancelQueuedAllowed(e, at) ==
  /\ e \in Queued
  /\ CommitAllowed(e, RequestCancellation(row[e], at), "cancellation_requested", at)

CancelQueued(e, at) ==
  LET r == RequestCancellation(row[e], at)
  IN /\ CancelQueuedAllowed(e, at)
     /\ row' = [row EXCEPT ![e] = r]
     /\ updatedAt' = [updatedAt EXCEPT ![e] = at]
     /\ log' = [log EXCEPT ![e] =
                  @ \o <<LogEvent(r, "cancellation_requested", at, 0),
                         LogEvent(r, "execution_cancelled", at, 0)>>]
     /\ UNCHANGED <<nextAccepted, nextGeneration>>

\* Mutant: the early return for terminal executions is lost.
CancelStartedAllowed(e, at) ==
  /\ row[e].status \notin {"absent", "queued"}
  /\ CommitAllowed(e, RequestCancellation(row[e], at), "cancellation_requested", at)

CancelRunningAllowed(e, at) ==
  /\ row[e].status = "running"
  /\ CommitAllowed(e, RequestCancellation(row[e], at), "cancellation_requested", at)

CancelRunning(e, at) ==
  /\ CancelRunningAllowed(e, at)
  /\ Commit(e, RequestCancellation(row[e], at), "cancellation_requested", at, 0)

Cancel(e, at) == CancelQueued(e, at) \/ CancelRunning(e, at)

-----------------------------------------------------------------------------
(* The specification *)

Init ==
  /\ row = [e \in Execution |-> AbsentRow]
  /\ updatedAt = [e \in Execution |-> None]
  /\ log = [e \in Execution |-> << >>]
  /\ nextAccepted = 1
  /\ nextGeneration = 1

\* A runner may present any generation handed out so far, its own or a stale one.
Generation == 1..(nextGeneration - 1)

Next == \E at \in Time :
  \/ \E e \in Execution, key \in Key, request \in Request : Admit(e, key, request, at)
  \/ ReconcileStale(at)
  \/ \E e \in Execution : Cancel(e, at)
  \/ \E runner \in Runner :
       \/ StartNext(runner, at)
       \/ \E e \in Execution, generation \in Generation :
            \/ \E journey \in Journey : BindIdentity(e, journey, runner, generation, at)
            \/ \E level \in EvidenceLevel :
                 AppendStageSnapshot(e, level, runner, generation, at)
            \/ RenewLease(e, runner, generation, at)
            \/ \E target \in TerminalStatus, failure \in FailureCode \cup {None} :
                 Finish(e, target, failure, runner, generation, at)

Spec == Init /\ [][Next]_storeVars

-----------------------------------------------------------------------------
(* Properties *)

\* Every column holds a value of its type (the STRICT tables of store.py).
TypeOK ==
  /\ row \in [Execution -> Row]
  /\ updatedAt \in [Execution -> Time \cup {None}]
  /\ log \in [Execution -> Seq(Event)]
  /\ nextAccepted \in Nat \ {0}
  /\ nextGeneration \in Nat \ {0}

\* However calls of runners, clients and clocks interleave, at most one
\* execution holds the process tree, and at most MaxQueued wait: the bounds
\* start_next and assess_admission check are never exceeded by another path.
OneActive == \A e, f \in Active : e = f
QueueBounded == Cardinality(Queued) <= MaxQueued

\* A key is used up by the first request that is accepted with it, for ever. A caller
\* that looks a key up and resolves its target before it asks for admission, as
\* RegisteredTargetAdmission.admit does, can rely on this: whoever looked the key up
\* with it and is slower gets a replay or a conflict, and a record that was found
\* stays the one its key stands for.
OneExecutionPerKey == \A e, f \in Existing : row[e].key = row[f].key => e = f

\* Leases are handed out in the order requests were accepted: of two executions
\* that were started, the one accepted first holds the older generation, and no
\* execution was started past a request accepted before it that is still queued.
StartedWith(e) == log[e][2].number
Started == {e \in Existing : row[e].started # None}
FifoGenerations ==
  /\ \A e, f \in Started : row[e].seq < row[f].seq => StartedWith(e) < StartedWith(f)
  /\ \A e \in Started, f \in Queued : row[e].seq < row[f].seq

\* ExecutionRecord._validate_state: which fields each status requires and forbids.
StateComplete(r) ==
  /\ r.started # None \/ r.status \in {"queued", "cancelled"}
  /\ r.status = "queued" => r.journey = None
  /\ r.completed # None <=> r.status \in TerminalStatus
  /\ r.runner # None <=> r.status \in ActiveStatus
  /\ r.heartbeat # None <=> r.status \in ActiveStatus
  /\ r.failure # None <=> r.status \in {"failed", "interrupted"}
  /\ r.failure = "runner_interrupted" <=> r.status = "interrupted"
  /\ r.status \in {"cancellation_requested", "cancelled"} => r.cancelAt # None
  /\ r.status \in {"queued", "running", "succeeded"} => r.cancelAt = None
  /\ r.status = "succeeded" => r.journey # None

\* ExecutionEvent._validate_pair: the statuses an event type may report.
ReportableStatus(type) ==
  CASE type = "request_accepted" -> {"queued"}
    [] type = "execution_started" -> {"running"}
    [] type \in {"execution_identity_bound", "stage_snapshot_persisted"} -> ActiveStatus
    [] type = "cancellation_requested" -> {"cancellation_requested", "cancelled"}
    [] OTHER -> {s \in TerminalStatus : TerminalEvent[s] = type}

\* The statuses that may follow a status in a log.
StatusAfter(status) ==
  CASE status = "queued"  -> {"queued", "running", "cancelled"}
    [] status = "running" -> {"running", "cancellation_requested", "succeeded",
                              "failed", "interrupted"}
    [] status = "cancellation_requested" ->
         {"cancellation_requested", "cancelled", "failed", "interrupted"}
    [] OTHER -> {status}

\* ExecutionRecord.__post_init__: what from_mapping refuses to construct.  Of this the
\* operations can only miss the order of the times, which UpdateAllowed therefore has.
Constructible(r) ==
  /\ r.failure = "runner_interrupted" => r.status = "interrupted"
  /\ r.failure = "cancellation_timeout" => r.status = "failed" /\ r.cancelAt # None
  /\ Chronological(r) /\ StateComplete(r)

LoadRecord(e) == Constructible(row[e]) /\ updatedAt[e] >= row[e].accepted

\* An execution that has not ended must have the slot of its last event left.
LoadEvents(e) ==
  /\ Len(log[e]) <= (IF row[e].status \in TerminalStatus THEN MaxEvents ELSE MaxEvents - 1)
  /\ \A i \in DOMAIN log[e] : log[e][i].status \in ReportableStatus(log[e][i].type)

CountOf(l, types) == Cardinality({i \in DOMAIN l : l[i].type \in types})
IsPresent(v) == IF v = None THEN 0 ELSE 1

\* _validate_event_log, event by event: the log replays to the row.
LogReplays(r, l) ==
  LET bound(i) == \E j \in 1..i : l[j].type = "execution_identity_bound"
  IN /\ l # << >>
     /\ l[1] = LogEvent([r EXCEPT !.status = "queued", !.failure = None], "request_accepted",
                        r.accepted, r.seq)
     /\ \A i \in 2..Len(l) : /\ l[i].at >= l[i-1].at
                             /\ l[i].status \in StatusAfter(l[i-1].status)
     /\ \A i \in DOMAIN l :
          /\ l[i].type = "execution_started" =>
               /\ i = 2 /\ l[i].at = r.started
               /\ r.status \in ActiveStatus => l[i].number = r.generation
          /\ l[i].type \in {"stage_snapshot_persisted", "execution_succeeded"} => bound(i)
          /\ l[i].type = "cancellation_requested" => l[i].at = r.cancelAt
          /\ l[i].journey = (IF bound(i) THEN r.journey ELSE None)

\* Its last part: each step of the life is in the log once, and the last event tells
\* how the row ended.
TailAgrees(r, l) ==
  /\ CountOf(l, {"request_accepted"}) = 1
  /\ CountOf(l, {"execution_started"}) = IsPresent(r.started)
  /\ CountOf(l, {"execution_identity_bound"}) = IsPresent(r.journey)
  /\ CountOf(l, {"cancellation_requested"}) = IsPresent(r.cancelAt)
  /\ l[Len(l)].status = r.status
  /\ CountOf(l, TerminalEventType) = IsPresent(r.completed)
  /\ r.completed # None =>
       /\ l[Len(l)].type = TerminalEvent[r.status]
       /\ l[Len(l)].at = r.completed
       /\ l[Len(l)].failure = r.failure

LoadSnapshot(e) ==
  /\ LoadRecord(e) /\ LoadEvents(e)
  /\ LogReplays(row[e], log[e]) /\ TailAgrees(row[e], log[e])
  /\ updatedAt[e] >= log[e][Len(log[e])].at

\* What every transaction asserts of the counters before it does anything.
CountersLead == \A e \in Existing : row[e].seq < nextAccepted

\* Every transaction a caller can get committed leaves a store the load path accepts:
\* no sequence of calls, at any timestamps, makes _assert_schema, _load_record,
\* _load_events or _validate_event_log reject what the store itself wrote, which would
\* fail every later call on that execution and, for an active one, every start.
StoredStateLoads == CountersLead /\ \A e \in Existing : LoadSnapshot(e)

\* A committed event is never rewritten or removed, and a terminal execution
\* never changes again: not by a late runner, a repeated cancel or a reconcile.
EvidenceKept ==
  [][\A e \in Execution :
       /\ Len(log'[e]) >= Len(log[e])
       /\ SubSeq(log'[e], 1, Len(log[e])) = log[e]
       /\ row[e].status \in TerminalStatus =>
            row'[e] = row[e] /\ updatedAt'[e] = updatedAt[e] /\ log'[e] = log[e]]_storeVars

\* The reserved slot: an execution that has not ended can always still log its end,
\* however many snapshots its runner appended.
TerminalSlotKept ==
  \A e \in Existing : row[e].status \notin TerminalStatus => Len(log[e]) < MaxEvents

\* Every step of the store is a step its callers were promised: the queue is
\* served in order of acceptance, a cancellation that commits first rules out
\* success, and nothing leaves a terminal status.
Control == INSTANCE ExecutionControl WITH
             status <- [e \in Execution |-> row[e].status],
             ticket <- [e \in Execution |-> row[e].seq]
ImplementsControl == Control!Spec
=============================================================================
