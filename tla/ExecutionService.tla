-------------------------- MODULE ExecutionService --------------------------
(***************************************************************************)
(* RegisteredExecutionService.run_next of execution/service.py over the    *)
(* control store: the main thread that executes a plan stage by stage, the *)
(* monitor thread that renews the lease and looks for a cancellation, the  *)
(* cancellation token between them, and clients that admit and cancel.     *)
(*                                                                         *)
(* A store call is two steps: the caller reads its clock for "at", and     *)
(* later the transaction commits or raises, so calls commit in an order    *)
(* their timestamps need not follow.  One tick of the clock stands for at  *)
(* least one heartbeat interval.                                           *)
(***************************************************************************)
EXTENDS ExecutionStore

CONSTANTS
  R4Target,       \* the executions whose plan is golden_part_r4
  MaxTime,        \* bound on the clock
  FaultsUntil,    \* bound on the time of crashes, store faults and cancel calls
  CrashesAllowed, \* whether a runner process may die
  StoreFaults,    \* whether SQLite may fail a call of a live runner
  Timely          \* whether live runners are scheduled well within their lease

ASSUME ServiceAssumption ==
  /\ R4Target \subseteq Execution /\ Execution \subseteq Key
  /\ MaxTime \in Nat /\ Time = 0..MaxTime /\ FaultsUntil \in Nat
  /\ {CrashesAllowed, StoreFaults, Timely} \subseteq BOOLEAN
  /\ {0, 2, 3, 4} \subseteq EvidenceLevel
  /\ {"stage_failed", "internal_error", "persistence_failed"} \subseteq FailureCode

VARIABLES
  clock,        \* the wall clock every process of the host reads
  main,         \* the main thread of each runner process
  monitor,      \* its monitor thread
  token,        \* the CancellationToken of the current run
  monitorError, \* monitor_errors is not empty
  lock,         \* who holds operation_lock
  cancelStamp   \* the timestamp of the cancel call in flight, per execution

threadVars  == <<monitor, token, monitorError, lock>>
serviceVars == <<clock, main, threadVars, cancelStamp>>
vars        == <<storeVars, serviceVars>>

-----------------------------------------------------------------------------
(* Threads *)

\* exec and generation name the run, at is the timestamp of the store call in
\* flight, level and verified the evidence returned so far, raised whether the
\* executor raised, target and failure the outcome run_next decided on.
IdleMain == [pc |-> "idle", exec |-> None, generation |-> 0, at |-> 0, level |-> 0,
             verified |-> FALSE, raised |-> FALSE, target |-> None, failure |-> None]
GoneMonitor == [pc |-> "gone", at |-> 0]

\* A timestamp is not used again after its call.
Goto(r, pc) == main' = [main EXCEPT ![r].pc = pc, ![r].at = 0]
Stamp(r, pc) == main' = [main EXCEPT ![r].pc = pc, ![r].at = clock]

\* An exception of the executor: run_next records it and goes on.
Raise(r) == main' = [main EXCEPT ![r].pc = "stopping", ![r].at = 0, ![r].raised = TRUE]

\* The stages of the executor, printability in-process, the others supervised.
StagePc == {"cad", "printability", "slicing"}
RunPc == {"resolving", "binding", "bound", "cad_ended", "publishing",
          "slicing_ended", "stopping", "finishing"} \cup StagePc
InRun(r) == main[r].pc \in RunPc

Fault == StoreFaults /\ clock <= FaultsUntil

\* The execution still belongs to this run.
Holds(r) == LET e == main[r].exec
            IN /\ InRun(r)
               /\ row[e].status \in ActiveStatus
               /\ row[e].generation = main[r].generation

-----------------------------------------------------------------------------
(* run_next: start_next *)

CallRunNext(r) ==
  /\ main[r].pc = "idle"
  /\ Queued \cup Active # {}
  /\ Stamp(r, "starting")
  /\ UNCHANGED <<storeVars, clock, threadVars, cancelStamp>>

\* The lease is acquired, and the monitor thread started.
StartRun(r) ==
  /\ main[r].pc = "starting"
  /\ ~StartNothing(main[r].at)
  /\ \E e \in Queued :
       /\ StartHead(e, r, main[r].at)
       /\ main' = [main EXCEPT ![r] = [IdleMain EXCEPT !.pc = "resolving", !.exec = e,
                                                        !.generation = nextGeneration]]
  /\ monitor' = [monitor EXCEPT ![r] = [pc |-> "waiting", at |-> clock]]
  /\ token' = [token EXCEPT ![r] = FALSE]
  /\ monitorError' = [monitorError EXCEPT ![r] = FALSE]
  /\ UNCHANGED <<clock, lock, cancelStamp>>

\* Nothing to start: run_next returns None.
StartNone(r) ==
  /\ main[r].pc = "starting"
  /\ StartNothing(main[r].at)
  /\ ReconcileStale(main[r].at)
  /\ main' = [main EXCEPT ![r] = IdleMain]
  /\ UNCHANGED <<clock, threadVars, cancelStamp>>

StartRaises(r) ==
  /\ main[r].pc = "starting"
  /\ \/ Fault
     \/ ~ReconcileAllowed(main[r].at)
     \/ /\ ~StartNothing(main[r].at)
        /\ \A e \in Queued : ~StartAllowed(e, main[r].at)
  /\ main' = [main EXCEPT ![r] = IdleMain]
  /\ UNCHANGED <<storeVars, clock, threadVars, cancelStamp>>

-----------------------------------------------------------------------------
(* run_next: the executor *)

\* reverify and run_spec pass, and the callback takes the lock.
Resolve(r) ==
  /\ main[r].pc = "resolving"
  /\ lock[r] = "free"
  /\ lock' = [lock EXCEPT ![r] = "main"]
  /\ Stamp(r, "binding")
  /\ UNCHANGED <<storeVars, clock, monitor, token, monitorError, cancelStamp>>

Bind(r) ==
  /\ main[r].pc = "binding"
  /\ \E journey \in Journey :
       BindIdentity(main[r].exec, journey, r, main[r].generation, main[r].at)
  /\ Goto(r, "bound")
  /\ lock' = [lock EXCEPT ![r] = "free"]
  /\ UNCHANGED <<clock, monitor, token, monitorError, cancelStamp>>

BindRaises(r) ==
  /\ main[r].pc = "binding"
  /\ Fault \/ ~BindAllowed(main[r].exec, r, main[r].generation, main[r].at)
  /\ Raise(r)
  /\ lock' = [lock EXCEPT ![r] = "free"]
  /\ UNCHANGED <<storeVars, clock, monitor, token, monitorError, cancelStamp>>

\* A launch is refused once the token is set, and the CAD pipeline turns every
\* failure of its worker into a failed Journey.
Ended(r, pc, level, verified) ==
  main' = [main EXCEPT ![r].pc = pc, ![r].level = level, ![r].verified = verified]

LaunchCad(r) ==
  /\ main[r].pc = "bound"
  /\ IF token[r] THEN Ended(r, "cad_ended", 0, FALSE) ELSE Goto(r, "cad")
  /\ UNCHANGED <<storeVars, clock, threadVars, cancelStamp>>

EndCad(r) ==
  /\ main[r].pc = "cad"
  /\ Ended(r, "cad_ended", 2, TRUE) \/ Ended(r, "cad_ended", 0, FALSE)
  /\ UNCHANGED <<storeVars, clock, threadVars, cancelStamp>>

\* Printability runs without looking at the token.  The slicer launch after it
\* looks, and the fabrication pipeline lets exceptions of packaging escape.
EndPrintability(r) ==
  /\ main[r].pc = "printability"
  /\ \/ Ended(r, "slicing_ended", 2, FALSE)
     \/ IF token[r] THEN Ended(r, "slicing_ended", 3, FALSE) ELSE Goto(r, "slicing")
  /\ UNCHANGED <<storeVars, clock, threadVars, cancelStamp>>

EndSlicing(r) ==
  /\ main[r].pc = "slicing"
  /\ Ended(r, "slicing_ended", 4, TRUE) \/ Ended(r, "slicing_ended", 3, FALSE)
  /\ UNCHANGED <<storeVars, clock, threadVars, cancelStamp>>

\* Any part of the executor outside the store may raise: a drifted plan, an
\* unreadable asset or snapshot, a package that cannot be built.
ExecutorRaises(r) ==
  /\ main[r].pc \in {"resolving", "cad_ended", "printability", "slicing", "slicing_ended"}
  /\ Raise(r)
  /\ UNCHANGED <<storeVars, clock, threadVars, cancelStamp>>

\* snapshot_persisted: the callback takes the lock and appends the snapshot event.
TakeSnapshot(r) ==
  /\ main[r].pc \in {"cad_ended", "slicing_ended"}
  /\ lock[r] = "free"
  /\ lock' = [lock EXCEPT ![r] = "main"]
  /\ Stamp(r, "publishing")
  /\ UNCHANGED <<storeVars, clock, monitor, token, monitorError, cancelStamp>>

\* Mutant: any verified snapshot is followed by the fabrication pipeline.
NextPcAfterAnySnapshot(r) ==
  IF main[r].verified /\ main[r].exec \in R4Target THEN "printability" ELSE "stopping"

\* The executor returns, or goes on to the fabrication pipeline after a verified
\* R2 snapshot of an R4 plan.
NextPc(r) ==
  IF main[r].verified /\ main[r].level = 2 /\ main[r].exec \in R4Target
  THEN "printability" ELSE "stopping"

Publish(r) ==
  /\ main[r].pc = "publishing"
  /\ AppendStageSnapshot(main[r].exec, main[r].level, r, main[r].generation, main[r].at)
  /\ Goto(r, NextPc(r))
  /\ lock' = [lock EXCEPT ![r] = "free"]
  /\ UNCHANGED <<clock, monitor, token, monitorError, cancelStamp>>

PublishRaises(r) ==
  /\ main[r].pc = "publishing"
  /\ Fault \/ ~SnapshotAllowed(main[r].exec, r, main[r].generation, main[r].at)
  /\ Raise(r)
  /\ lock' = [lock EXCEPT ![r] = "free"]
  /\ UNCHANGED <<storeVars, clock, monitor, token, monitorError, cancelStamp>>

-----------------------------------------------------------------------------
(* run_next: the outcome *)

ExpectedLevel(e) == IF e \in R4Target THEN 4 ELSE 2

\* Mutant: an exception of the executor is swallowed.
FailureButRaised(r) ==
  IF monitorError[r] THEN "persistence_failed"
  ELSE IF main[r].verified /\ main[r].level = ExpectedLevel(main[r].exec) THEN None
  ELSE "stage_failed"

Failure(r) ==
  IF monitorError[r] THEN "persistence_failed"
  ELSE IF main[r].raised THEN "internal_error"
  ELSE IF main[r].verified /\ main[r].level = ExpectedLevel(main[r].exec) THEN None
  ELSE "stage_failed"

\* Mutant: a cancelling record is finished with the status just read.
DecideStatusRead(r) ==
  LET cancelling == row[main[r].exec].status = "cancellation_requested"
      failure == IF cancelling THEN None ELSE Failure(r)
      target == IF cancelling THEN "cancellation_requested"
                ELSE IF failure = None THEN "succeeded" ELSE "failed"
  IN /\ main[r].pc = "stopping"
     /\ monitor[r].pc = "gone"
     /\ main' = [main EXCEPT ![r].pc = "finishing", ![r].at = clock,
                             ![r].target = target, ![r].failure = failure]
     /\ UNCHANGED <<storeVars, clock, threadVars, cancelStamp>>

\* The monitor is joined, the record read once more, and the outcome decided.
Decide(r) ==
  LET cancelling == row[main[r].exec].status = "cancellation_requested"
      failure == IF cancelling THEN None ELSE Failure(r)
      target == IF cancelling THEN "cancelled"
                ELSE IF failure = None THEN "succeeded" ELSE "failed"
  IN /\ main[r].pc = "stopping"
     /\ monitor[r].pc = "gone"
     /\ main' = [main EXCEPT ![r].pc = "finishing", ![r].at = clock,
                             ![r].target = target, ![r].failure = failure]
     /\ UNCHANGED <<storeVars, clock, threadVars, cancelStamp>>

\* Mutant: the token outlives the run.
LeaveRunWithToken(r) ==
  /\ main' = [main EXCEPT ![r] = IdleMain]
  /\ monitorError' = [monitorError EXCEPT ![r] = FALSE]
  /\ UNCHANGED <<clock, monitor, token, lock, cancelStamp>>

\* run_next returns or raises, and its locals are gone.
LeaveRun(r) ==
  /\ main' = [main EXCEPT ![r] = IdleMain]
  /\ token' = [token EXCEPT ![r] = FALSE]
  /\ monitorError' = [monitorError EXCEPT ![r] = FALSE]
  /\ UNCHANGED <<clock, monitor, lock, cancelStamp>>

FinishRun(r) ==
  /\ main[r].pc = "finishing"
  /\ Finish(main[r].exec, main[r].target, main[r].failure, r, main[r].generation,
            main[r].at)
  /\ LeaveRun(r)

\* get or finish raises out of run_next, and the record keeps its lease.
FinishRaises(r) ==
  /\ main[r].pc = "finishing"
  /\ \/ Fault
     \/ ~FinishAllowed(main[r].exec, main[r].target, main[r].failure, r,
                       main[r].generation, main[r].at)
  /\ LeaveRun(r)
  /\ UNCHANGED storeVars

-----------------------------------------------------------------------------
(* The monitor thread *)

\* stop.wait times out, and the monitor takes the lock.
WakeMonitor(r) ==
  /\ monitor[r].pc = "waiting"
  /\ main[r].pc # "stopping"
  /\ clock > monitor[r].at
  /\ lock[r] = "free"
  /\ lock' = [lock EXCEPT ![r] = "monitor"]
  /\ monitor' = [monitor EXCEPT ![r].pc = "reading"]
  /\ UNCHANGED <<storeVars, clock, main, token, monitorError, cancelStamp>>

ReadRecord(r) ==
  LET status == row[main[r].exec].status
  IN /\ monitor[r].pc = "reading"
     /\ token' = [token EXCEPT ![r] = @ \/ status = "cancellation_requested"]
     /\ IF status \in ActiveStatus
        THEN /\ monitor' = [monitor EXCEPT ![r] = [pc |-> "renewing", at |-> clock]]
             /\ UNCHANGED lock
        ELSE /\ monitor' = [monitor EXCEPT ![r] = GoneMonitor]
             /\ lock' = [lock EXCEPT ![r] = "free"]
     /\ UNCHANGED <<storeVars, clock, main, monitorError, cancelStamp>>

Renew(r) ==
  /\ monitor[r].pc = "renewing"
  /\ RenewLease(main[r].exec, r, main[r].generation, monitor[r].at)
  /\ monitor' = [monitor EXCEPT ![r].pc = "waiting"]
  /\ lock' = [lock EXCEPT ![r] = "free"]
  /\ UNCHANGED <<clock, main, token, monitorError, cancelStamp>>

\* Mutant: the exception leaves the lock held.
MonitorFailsHoldingLock(r) ==
  /\ \/ monitor[r].pc = "reading" /\ Fault
     \/ /\ monitor[r].pc = "renewing"
        /\ \/ Fault
           \/ ~RenewAllowed(main[r].exec, r, main[r].generation, monitor[r].at)
  /\ monitor' = [monitor EXCEPT ![r] = GoneMonitor]
  /\ monitorError' = [monitorError EXCEPT ![r] = TRUE]
  /\ token' = [token EXCEPT ![r] = TRUE]
  /\ UNCHANGED <<storeVars, clock, main, lock, cancelStamp>>

\* Any exception ends the monitor: fail closed.
MonitorFails(r) ==
  /\ \/ monitor[r].pc = "reading" /\ Fault
     \/ /\ monitor[r].pc = "renewing"
        /\ \/ Fault
           \/ ~RenewAllowed(main[r].exec, r, main[r].generation, monitor[r].at)
  /\ monitor' = [monitor EXCEPT ![r] = GoneMonitor]
  /\ monitorError' = [monitorError EXCEPT ![r] = TRUE]
  /\ token' = [token EXCEPT ![r] = TRUE]
  /\ lock' = [lock EXCEPT ![r] = "free"]
  /\ UNCHANGED <<storeVars, clock, main, cancelStamp>>

StopMonitor(r) ==
  /\ monitor[r].pc = "waiting"
  /\ main[r].pc = "stopping"
  /\ monitor' = [monitor EXCEPT ![r] = GoneMonitor]
  /\ UNCHANGED <<storeVars, clock, main, token, monitorError, lock, cancelStamp>>

-----------------------------------------------------------------------------
(* The host: runner processes die and come back, clients call, time passes *)

\* The process ends, its threads and its child processes (kill-on-close) with it.
\* SQLite rolls back what it had not committed.
Crash(r) ==
  /\ CrashesAllowed /\ clock <= FaultsUntil
  /\ main[r].pc # "down"
  /\ main' = [main EXCEPT ![r] = [IdleMain EXCEPT !.pc = "down"]]
  /\ monitor' = [monitor EXCEPT ![r] = GoneMonitor]
  /\ token' = [token EXCEPT ![r] = FALSE]
  /\ monitorError' = [monitorError EXCEPT ![r] = FALSE]
  /\ lock' = [lock EXCEPT ![r] = "free"]
  /\ UNCHANGED <<storeVars, clock, cancelStamp>>

Restart(r) ==
  /\ main[r].pc = "down"
  /\ Goto(r, "idle")
  /\ UNCHANGED <<storeVars, clock, threadVars, cancelStamp>>

\* Each client uses a key of its own; AdmissionDecision's other answers change nothing.
ClientAdmit(e) ==
  /\ \E request \in Request : Admit(e, e, request, clock)
  /\ UNCHANGED serviceVars

CallCancel(e) ==
  /\ e \in Existing /\ cancelStamp[e] = None /\ clock <= FaultsUntil
  /\ cancelStamp' = [cancelStamp EXCEPT ![e] = clock]
  /\ UNCHANGED <<storeVars, clock, main, threadVars>>

\* The call commits, or it is a no-op, or it raises.
CommitCancel(e) ==
  /\ cancelStamp[e] # None
  /\ IF CancelQueuedAllowed(e, cancelStamp[e]) \/ CancelRunningAllowed(e, cancelStamp[e])
     THEN Cancel(e, cancelStamp[e])
     ELSE UNCHANGED storeVars
  /\ cancelStamp' = [cancelStamp EXCEPT ![e] = None]
  /\ UNCHANGED <<clock, main, threadVars>>

\* With Timely, no live runner is left unscheduled in start_next, or in a run until
\* its lease expires.
Tick ==
  /\ clock < MaxTime
  /\ Timely => \A r \in Runner : /\ main[r].pc # "starting"
                                 /\ Holds(r) => clock + 1 < Expiry(row[main[r].exec])
  /\ clock' = clock + 1
  /\ UNCHANGED <<storeVars, main, threadVars, cancelStamp>>

-----------------------------------------------------------------------------
(* The specification *)

ServiceInit ==
  /\ Init
  /\ clock = 0
  /\ main = [r \in Runner |-> IdleMain]
  /\ monitor = [r \in Runner |-> GoneMonitor]
  /\ token = [r \in Runner |-> FALSE]
  /\ monitorError = [r \in Runner |-> FALSE]
  /\ lock = [r \in Runner |-> "free"]
  /\ cancelStamp = [e \in Execution |-> None]

MainStep(r) ==
  \/ CallRunNext(r) \/ StartRun(r) \/ StartNone(r) \/ StartRaises(r)
  \/ Resolve(r) \/ Bind(r) \/ BindRaises(r)
  \/ LaunchCad(r) \/ EndCad(r) \/ EndPrintability(r) \/ EndSlicing(r)
  \/ TakeSnapshot(r) \/ Publish(r) \/ PublishRaises(r)
  \/ Decide(r) \/ FinishRun(r) \/ FinishRaises(r)

MonitorStep(r) ==
  \/ WakeMonitor(r) \/ ReadRecord(r) \/ Renew(r) \/ MonitorFails(r) \/ StopMonitor(r)

ServiceNext ==
  \/ \E r \in Runner :
       MainStep(r) \/ ExecutorRaises(r) \/ MonitorStep(r) \/ Crash(r) \/ Restart(r)
  \/ \E e \in Execution : ClientAdmit(e) \/ CallCancel(e) \/ CommitCancel(e)
  \/ Tick

\* Threads of a live process are scheduled, processes are restarted, and time passes.
\* Nothing makes the executor raise: a main thread that waits for the lock waits.
Fairness ==
  /\ WF_vars(Tick)
  /\ \A r \in Runner :
       WF_vars(MainStep(r)) /\ WF_vars(MonitorStep(r)) /\ WF_vars(Restart(r))

ServiceSpec == ServiceInit /\ [][ServiceNext]_vars
FairServiceSpec == ServiceSpec /\ Fairness

-----------------------------------------------------------------------------
(* Properties *)

MainType ==
  [pc : {"idle", "starting", "down"} \cup RunPc, exec : Execution \cup {None},
   generation : Nat, at : Time, level : EvidenceLevel, verified : BOOLEAN,
   raised : BOOLEAN, target : {"succeeded", "failed", "cancelled", None},
   failure : FailureCode \cup {None}]

ServiceTypeOK ==
  /\ clock \in Time
  /\ main \in [Runner -> MainType]
  /\ monitor \in [Runner -> [pc : {"gone", "waiting", "reading", "renewing"}, at : Time]]
  /\ token \in [Runner -> BOOLEAN] /\ monitorError \in [Runner -> BOOLEAN]
  /\ lock \in [Runner -> {"free", "main", "monitor"}]
  /\ cancelStamp \in [Execution -> Time \cup {None}]

\* Success is never a stronger claim than the evidence: whatever was cancelled,
\* lost or retried on the way, the last event before execution_succeeded is the
\* durable snapshot of the evidence level the target asks for.
SuccessIsEvidenced ==
  \A e \in Execution : row[e].status = "succeeded" =>
    LET l == log[e] IN /\ l[Len(l) - 1].type = "stage_snapshot_persisted"
                       /\ l[Len(l) - 1].number = ExpectedLevel(e)

\* A run is only told to stop for its own reasons: its token is set after a
\* cancellation of its own execution committed, or after its monitor failed, and
\* never by a request for another execution or a stale run of the same process.
TokenJustified ==
  \A r \in Runner : token[r] =>
    \/ monitorError[r]
    \/ /\ main[r].exec # None
       /\ \E i \in DOMAIN log[main[r].exec] :
            log[main[r].exec][i].type = "cancellation_requested"

\* The published evidence of an execution only grows: at most the R2 snapshot and
\* the one after it, in that order, with no level taken back.
SnapshotsAscend ==
  \A e \in Execution :
    LET At(i) == log[e][i].type = "stage_snapshot_persisted"
    IN \A i, j \in DOMAIN log[e] :
         i < j /\ At(i) /\ At(j) => /\ log[e][i].number = 2
                                    /\ log[e][j].number \in 2..4
                                    /\ \A k \in DOMAIN log[e] : At(k) => k \in {i, j}

\* Every accepted execution ends, whichever runner crashes and whichever call of
\* the store fails, as long as a runner comes back and calls run_next.
AllEnd == \A e \in Execution :
  row[e].status = "queued" ~> row[e].status \in TerminalStatus

\* docs/EXECUTION.md:182: an execution is only interrupted because "the runner
\* disappeared and its lease expired".
InterruptedMeansRunnerLost ==
  \A e \in Execution : row[e].status # "interrupted"
=============================================================================
