# Verification of AriadFabrication

TLA+ models of AriadFabrication, a local application that takes a user's idea through a
confirmed brief, CAD, validation and slicing, and keeps for each step the evidence that
supports its claims. The models are translated from the Python package
`src/ariad_fabrication`; paths below are relative to it. `PROJECT.json` maps each
definition to the source lines it stands for.

To check a module: `tlc -config <cfg> <module>`; to check the proofs: `tlapm` on
`ExecutionProofs.tla`, `ProjectStoreProofs.tla`, `CodexConversationProofs.tla`,
`ProcessSupervisorProofs.tla`, `SealedTargetProofs.tla`, `GCodeProofs.tla`,
`JourneyReaderProofs.tla` and `JourneyClaimsProofs.tla` (the last two take about ten minutes
each).

## 1. Inventory

### Execution: requests that run for minutes and must end exactly once

| Part | State | Operations | Correct means |
|---|---|---|---|
| Control store (`execution/store.py`, `contracts.py`) | SQLite: one record per execution, its append-only event log, the acceptance and lease counters | `admit`, `start_next`, `bind_identity`, `append_snapshot`, `renew`, `cancel`, `finish`, `reconcile_stale`, reads | at most one active and `MaxQueued` queued executions; FIFO; a terminal record never changes; the store always accepts what it wrote; a slot for the terminal event is always left |
| Service (`execution/service.py`) | per run: executor thread, lease monitor thread, `operation_lock`, cancellation token, `monitor_errors` | `run_next` and its callbacks `bind_identity`, `snapshot_persisted` | a success rests on durable evidence; a run stops only for a reason of its own; every accepted execution ends |
| Admission (`execution/admission.py`) | none of its own | lookup, resolve, admit | one execution per idempotency key whatever the order of lookups and admits |
| Registry (`execution/registry.py`) | a fixed approval; the checkout, the CAD runtime and the slicer as files | `resolve`, `reverify` | a fingerprint is of one moment of the files; what is executed is what was accepted |
| Bootstrap and adapters (`bootstrap_config.py`, `worker_bootstrap.py`, `cad_adapter.py`, `slicer_adapter.py`) | an import allowlist per worker | reverify, write the allowlist, import under it, run the slicer | nothing is imported or run that was not accepted |
| Supervisor (`execution/windows_job.py`) | a process in a Windows Job, two pipe drains, deadline, limits | create suspended, assign, resume, supervise, drain, close | one stop reason; no process outlives its call; no output after the limit |

`run_next` calls the store from two threads of each runner process while clients admit and
cancel from others. Every call passes its own clock reading and opens its own transaction,
so timestamps and commits need not be in the same order. Hard: a runner that dies or is
late while its lease runs out, a cancellation that races the end of a run, a store that
fails in the middle, an event log at its limit.

### Projects: the files behind the browser's workflow

| Part | State | Operations | Correct means |
|---|---|---|---|
| Project store (`api/project_store.py`) | a directory per project: `project.json`, `draft.json`, `brief.json`, `design-plan.json`; revisions under the runs root; one lock | `create`, `save_draft`, `confirm_brief`, `save_design_plan`, reads | a Brief has its revision, is never replaced and stays bound to the approved draft; plans stay bound to the Brief; crashes leave nothing that reads as evidence |
| HTTP API (`api/app.py`) | the stores, one lazily made conversation | handlers, run in parallel threads | each handler is one call of a store |
| Codex conversation (`codex_conversation.py`) | child process, reader thread, pending requests, active turn, event buffer, watchdog | `start_turn`, `cancel_active_turn`, `events_after`, tool calls, `close` | one active turn; each turn ends, once; the active turn is never left without someone to end it |
| Agent tools (`agent_tools.py`, `api/agent_tool_runtime.py`) | the latest proposal of each project, in memory | five non-mutating tools | a proposal is shown only for the Brief it was made for |

Handlers check preconditions before the lock and write inside it; the tools of a turn run
in the reader thread of the conversation. Hard: checks that are stale when the write comes,
crashes between two renames, notifications that arrive before the state they refer to.

### Journey: what counts as evidence

| Part | State | Operations | Correct means |
|---|---|---|---|
| Domain (`domain/journey.py`, `lifecycle.py`, `spec.py`) | job, revisions, stage runs, events, artifacts | add, replace, transition, validate | status table; contiguous attempts; final event agrees with the stage |
| Orchestrator, intake (`orchestrator.py`, `intake.py`) | a journey under construction | Brief gate with two attempts | R0 only from a confirmed, complete spec |
| CAD worker and runner (`cad/worker.py`, `cad/runner.py`) | a worker process, its design directory and its result file | build, measure, publish; wait, judge | no claim rests on a torn, foreign or wrong result |
| CAD pipeline (`cad/pipeline.py`) | Journey plus `journey.json` and `manifest.json` on disk | R1 and R2 gates, `_persist` | R2 only after validation passed; the manifest is never ahead of the Journey |
| Slicing pipeline (`slicing/pipeline.py`, `prusaslicer.py`) | as above | printability, slicing, risk policy, package | R3 and R4 in order; a failed gate ends the journey |
| G-code readers (`slicing/gcode.py`, `web/src/toolpath.ts`) | position, modes and extruder from line to line | the preflight's verdict, the viewer's drawing | what passes does not hurt the machine; what is drawn is what it does |
| Evidence repository (`api/repository.py`, `api/comparison.py`) | none | reads and integrity checks of persisted revisions, views, downloads, comparison | shows only what verifies, and only one publication |

The pipelines write their files one by one while requests read them one by one; the CAD worker
may die or be killed at any step, and files may be edited behind everyone's back. The registry
hashes hundreds of files, one at a time, in a checkout in which someone works. Hard: results
that are stale when they are used, a stop between two renames, and claims that outlive what they
rest on.

Left aside: the geometry programs, numeric validators, schema and OpenAPI generation, the
React client and the release scripts. Each is a component in `PROJECT.json` with its reason.

## 2. Plan

| Order | Module | Content | State |
|---|---|---|---|
| 1 | `ExecutionControl` | abstract: what a caller of the control store is promised | done |
| 2 | `ExecutionStore` | the control store; implements 1 | done |
| 3 | `ExecutionService` (EXTENDS 2) | `run_next`, monitor, token, crashes, clients | done |
| 4 | `ExecutionProofs`, first half | theorems on 2 | nine theorems; done |
| 5 | `ProjectStore`, `ProjectStoreProofs` | the project files; theorems | done |
| 6 | `CodexConversation`, `CodexConversationProofs` | turns, responses, notifications, reader, watchdogs; theorems | done but for `close` |
| 7 | `EvidenceLadder` | abstract: what a revision on disk may claim, and after what | done |
| 8 | `Journey`, `CadRun`, `SlicerRun` | the aggregate; the CAD worker and its runner; a slicer run and its gate | done |
| 9 | `JourneyPipeline` (EXTENDS 8) | Brief, CAD and slicing gates, persistence, a process that stops | done |
| 10 | `RevisionViews`, `JourneyReader` (EXTENDS 9) | the read API beside the pipelines, its views and comparison; implements 7 | done |
| 11 | `ProcessSupervisor`, `ProcessSupervisorProofs` | launch, poll, drains, end of the tree, clean-up; theorems | done |
| 12 | `SealedTarget`, `SealedTargetProofs` | admission, registry, bootstrap, adapters; theorems | done |
| 13 | `GCode`, `GCodeProofs` | preflight, viewer and machine; theorems | done |
| 14 | `ExecutionProofs`, second half | that the service implements the store; `SuccessIsEvidenced`, `SnapshotsAscend`, `TokenJustified` | done |
| 15 | `JourneyReaderProofs` | `PublishedHistoryKept`, `ImplementsLadder`, `ShowsOnePublication`, `EvidenceReadable` | done |
| 16 | `JourneyClaimsProofs` (EXTENDS 15) | `ClaimsAreBacked` | done |

Admission has two halves. What it relies on in the store is `OneExecutionPerKey`: its lookup
changes nothing, and `ExecutionStore!Admit` may be taken with any key at any time, which is all
that a caller who looked up long ago can do. The resolution that makes the accepted plan is
`Admit` and `Accept` of `SealedTarget`.

## 3. The modules

### ExecutionControl, ExecutionStore

`row[e]` is the record (columns and the JSON it must agree with), `log[e]` its events,
`updatedAt[e]` the `updated_at` of the record, `nextAccepted` and `nextGeneration` the two
counters. Each mutating method is one `BEGIN IMMEDIATE` transaction that rolls back on any
exception, so a call that succeeds is one action and a call that raises is none. The
actions are `Admit`, `StartNext` (with the reconciliation of a stale lease it makes
first), `ReconcileStale`, `BindIdentity`, `AppendStageSnapshot`, `RenewLease`, `Cancel`
(queued or running) and `Finish`. The guard of each has the lease and fence checks, the
lifecycle checks of `contracts.py`, the event limits, and the checks of `_load_record` on
the row it loads. A time passed in is any member of `Time`.

`LoadSnapshot` is the load path, in its parts: `LoadRecord` (with the record's constructor,
`Constructible`), `LoadEvents`, and the replay of the log (`LogReplays`, `TailAgrees`);
`CountersLead` is what `_assert_schema` asks of the counters. `StoredStateLoads` says that all
of it accepts what the operations wrote.

Abstracted: a record's plan and snapshots of host and toolchain (never changed once
accepted), byte limits of JSON (the count limit with its reserved slot is modelled), the
SHA-256 and index columns (written from the record in the same statement), the DDL checks of
`_assert_schema`. Evidence level 0 stands for every level below R2.

`ExecutionControl` keeps a status and a ticket per request: served in order of ticket, one
at a time, and a run that was asked to stop cannot succeed. `ImplementsControl` is
`ExecutionControl!Spec` under the mapping of `row[e].status` and `row[e].seq`.

### ExecutionService

EXTENDS the store and adds, for each runner process, the program counter of `run_next`
(`main`), of its monitor thread (`monitor`), `token`, `monitorError` and `lock`, and a
shared `clock`. A store call is two steps, reading the clock and committing, so a call can
commit long after its stamp. The executor is the order of stages of
`GoldenPartPlanExecutor.execute`: resolve, bind, CAD, and for an R4 plan printability and
slicing; a stage is summarised by what it returns (evidence level, verified or not, or an
exception). Crashes end a process at any step and a restarted host calls `run_next`
again. `StoreFaults` lets any store call of a live runner raise.

Abstracted: the ten-second limit on joining the monitor (a store call of the monitor is
itself bounded by SQLite's five-second busy timeout); the registry's re-verification is a
possible exception.

### ProjectStore

`draft`, `brief`, `plan` are the files, `directory` and `saved` the project's directory and
`project.json`, `runs` the revisions under the runs root, `tmp` the `.tmp` files. `thread`
holds what each request thread read before the lock; `lock` is `ProjectIntentStore._lock`.
A draft is named by a number, which stands for its checksum, since `updated_at` makes every
draft differ. Actions: `CreateDirectory`, `CreateProject`; `SaveDraft` (the unlocked check),
`OpenDraft`, `ReplaceDraft`; `ReadDraft`, `RunBriefGate`, `FindBrief`, `PublishRevision`,
`OpenBrief`, `ReplaceBrief`; `ReadBrief`, `OpenPlan`, `ReplacePlan`; `WriteFails` and `Crash`.

`Readable`, `BriefConsistent` and `PlanConsistent` are what `_read`, `_read_brief_file` and
`get_design_plan` refuse. `list` and `get` take no lock, so between `CreateDirectory` and
`CreateProject` a `list` raises, and the next one does not; `DirectoryIsCreated` is about a
directory that stays so for good.

Abstracted: the contents of the files, the staging directory of a confirmation (it is
renamed as a whole and its name is never used again), and the loss of a rename by a power
failure: a crash is the end of the process.

### CodexConversation

`call[n]` is the n-th request thread that starts or cancels a turn, `watchdog[t]` the
watchdog thread of turn `t`, `reader` the reader thread, `waiter` the queues of
`_responses`, `active` is `_active_turn_id`, `events[t]` the lifecycle events recorded for
turn `t`. `requests` and `stdout` are the pipes; `turn` and `tools` belong to the app
server, which is external: it reads requests in any order, answers or refuses them or stays
silent, and ends or fails a turn when it likes. What the code relies on and the model takes
from it: answers name their request, and an interrupt that is granted comes with the
`turn/completed` of its turn.
Actions: `StartTurn`, `TurnStarted`, `Announce`, `CancelTurn`, `CallReturns`; `Wake`,
`WatchdogInterrupts`, `WatchdogReturns`; `ReadLine`, `StartTool`, `ToolReturns`,
`ReaderDies`. A timeout is a return while still waiting.

Abstracted: `turn_completed`, `turn_failed` and `turn_cancelled` are one end, as the code
treats them alike; text and tool events; the eviction of old events; the five tools
themselves (a tool holds the reader for a while). `close` is left out.

### Journey, CadRun, SlicerRun, JourneyPipeline

`Journey` is the aggregate as a record and its methods as operators: stage runs with the
status table, events, artifacts (one per role), findings, the manifest of its revision.
Every change of the pipelines is to the run added last. `WellFormed` and `ManifestWellFormed`
are what the constructors refuse: a change after which they do not hold raises in the code and
is no step of the model, so that a pipeline that builds such a record is stuck, which
`JobsSettle` would find.

`CadRun` is one CAD run. `cad.worker` is where the worker process is, from `StartWorker` through
`OpenStaging`, `BuildPart`, `PublishDesign` (the rename of the design directory), `OpenResult`
and `WriteResult` (the result file is written in place, so it can be torn) to `LeaveWorker`;
`WorkerDies` at any step. `WorkerTimesOut` is the runner that kills it wherever it is, and
`JudgeResult` the runner's verdict on exit code, result and files. `DesignAltered` is a file that
is not what the result says of it, or is edited later. A worker that was killed, or that exits
with an error, leaves its published design in place beside a result that says failure (the
documents, docs/DECISIONS.md:92 and docs/ARCHITECTURE.md:234, say that rejected output is
quarantined; only a success whose files are wrong is): no claim rests on it, which is part of
`ClaimsAreBacked`, and its directory stops a second run.

`SlicerRun` has the files a run of the slicer leaves, by how far it got, the warnings in its
output (from a heading to the next line of progress), and `EvaluateGate`: the preflight, the
mesh repair and the risks of the warnings against the policy, which has a disposition for each.

In `JourneyPipeline` a stage ends in one action, which does to the journey in memory all that
the code does up to the end of the stage, in its order, each change with its own reading of the
clock (`Stamps(n)`, any n readings that do not step back); geometry, the printability rules and
the slicer's output are outcomes chosen freely, with the files that were recorded before an
exception. `disk` is what a reader could see: `journey.json`, `manifest.json`,
`fabrication/package.json`. `_persist` is two actions (`IndexJourney`, `IndexManifest`), the
package three (`StartPackage`, `WritePackage`, `CompletePackage`), since its file is written in
place. `Stop` is the end of the process and any exception that leaves the pipelines; the journey
in memory is lost then. Three callers come to the Brief gate (`Gate`): the command line with a
request, the only one that is parsed and so retried, which prints the journey; `confirm_brief`
with a draft, which is confirmed at the gate and published; and those who go on to the CAD
pipeline, with a confirmed specification. `PublishBrief` writes both files at once, because
`confirm_brief` renames a directory. A pipeline can be called again with a journey that was
refused or is finished;
`RequireReady` and `RequireR2` say no.

### RevisionViews, JourneyReader, EvidenceLadder

`RevisionViews` is what the API makes of an accepted revision: the row of the list (`Summary`),
the detail with its stages, reports and package (`Detail`), the download of an artifact
(`Download`) and the difference of two details (`Changes`). They are functions of the records
and of the state of the design's files (`Faults`), which are read at that moment.

`JourneyReader` adds requests: `ReadJourney`, `ReadManifest`, `ReadPackage`, and then all checks
of the repository that relate two records or two files (`Accepts`). `published` is a history
variable, the contents of the disk at every outcome a caller had and went on from; with the one
it has now, if any, they are the `Publications`.
`ClaimsAreBacked` has four parts: a level that is shown rests on records of the stages below it
and, for the design, on a run of the worker that said so (`LevelBorneOut`); a completed job comes
with its package, and the package warns when the list does (`PackageBorneOut`); a report or
download whose file was edited is not served as verified (`ContentBorneOut`); and the same
revision read later shows all that was shown, unless a file was edited in between (`ShownStays`).
`EvidenceLadder` is what a revision may claim: Brief, verified design, complete, or a failure
with the level it reached. `ImplementsLadder` maps `disk.journey` to it.

Abstracted: the fields of specifications and reports, further revisions and approvals, which no
pipeline makes, the R0 revision and the one a pipeline continues being in different
directories; limits of size and number, schemas, fixtures and the discovery of revisions.
Edits are of the design's two files, once, at the moments at which somebody looks at them
afterwards.

### ProcessSupervisor

One call of `WindowsJobProcessSupervisor.run`. `pc` is the supervising thread: `Enter`,
`Launch` (suspended), `AssignSuspended`, `Resume`, then the poll in the order of the code, one
action for each thing it looks at, then `ObserveExit`, `Settle`, `Sweep`, the bounded waits
(`WaitRoot`, `WaitTree`, `JoinDrains`), `Judge` and `Close`. `drain[s]` is a drain thread,
`stop` the `_StopState` it shares with the supervisor. `Raise` may happen at any point of the
body, and `CleanUp`, `WaitKilledRoot` and `CloseFailed` are the handler. External are the
processes (`WriteOutput`, `Spawn`, `SpawnRefused`, `ExceedMemory`, `UseWorkspace`, `Exit`) and
the kernel: a process in a terminated Job does nothing more and ends some time later (`Reap`),
and the last handle of the Job kills who is left in it.

`WorkspaceExceeded` is the verdict of `_workspace_size` and `TreeEmpty` that of `wait_empty`.

Abstracted: a limit message is at the completion port as soon as the limit is hit; the
workspace is measured in any poll or in none, as the code does it at intervals; peak values and
accounting; a normal exit has whatever exit code. A log stands for the bytes in it, counted.

### SealedTarget

A content stands for the bytes of a file and their SHA-256, a stamp for size, time and inode,
which every edit is taken to change, as the registry does. `Edit` may happen at any moment.
A resolution goes through `Parts` in order, and in a part through the loops of the code: `List`
the files, `Open` and `Hash` each (with the stamp compared before and after), `Relist` them,
compare with the approval or the manifest (`Agrees`). `Admit` and `Accept` make the plan;
`Execute`, `StartCad`, `StartSlicer` and `StartSlice` resolve again and compare (`Reverified`).
Between them `Read` is the executor's reading of inputs, `Configure` and `Scan` write the import
allowlist, `Launch`, `Find` and `Load` are the worker, whose import hook hashes a module that the
loader then reads again, and `Command` is a run of the slicer. `used` records what each file was
used with.

The loader need not take the source that the hook hashed. `cache` is the bytecode in
`__pycache__`, which the fingerprints and the allowlist leave out (`registry.py:373`, `387`,
`790`, `bootstrap_config.py:54`), which `_SealedFinder` never sees, as the origin of its spec is
the source, and which `-B` only keeps the worker from writing. Other interpreters write it:
`Cached` is what was there before the start, and `Kept`, in `Edit`, the version that goes when a
file is edited. `Imports` gives the loader the source or that bytecode. Which of them it takes is
decided by the size and the time in seconds of the source; two versions may have both in common,
so the choice is left open.

`UsedIsAccepted` says how far the sealing reaches: what is used is what was accepted, unless it is
of another version than the one last found to agree. There are two ways to that. Either the file
was edited since; one case of this is a surprise: `_application_import_files` hashes the
application as it is when the allowlist is written, so a module edited between the reverification
and that moment is approved as edited, although docs/EXECUTION.md:45 has the bundle reverified.
Or a module came from the bytecode of another version, with no edit at all. For what has no bytecode (native modules, the Python executable, the
inputs, the slicer) only the first is left, which the property says as well.

Abstracted: trees are checked one after another; files that a manifest does not list; checks
that can only refuse (links, paths, versions, the lock file, the shape of JSON). One of these is
the second hash of `golden_part_design.py`, which is in the application tree and has a fixed
digest too (`registry.py:56`, `1120`): `Asset` stands for the files outside the application. Both
digests must be what was accepted, so leaving one out lets the model go on where the code may
stop. Bytecode checked by a hash in place of a time is not considered, as nothing here makes it.

### GCode

`parse` has the variables of `GCodeSummary.parse`, `view` those of `parseGCodeToolpath`,
`machine` a printer with the firmware of the profiles: they read the same lines at once. A line
has an operation, its words and a spelling, as the two readers recognise commands by different
rules. The program may end after any line, so that what the preflight says (`Passed`) is a state
predicate. `astray` collects the reasons for which the machine need not do what a reader takes
it to do: inches, arcs, an origin moved away from the position, motion before homing, commands
spelled in a way the reader skips. Both properties are stated under their absence, and each
reason is necessary: without it TLC finds a program. The profiles (flavor marlin2, `G28` in the
start code) and the slicer rule them out for the programs this application makes; the preflight
does not, although docs/RELIABILITY.md:71 speaks of it as a check of the program.

Abstracted: header and footer metadata, times and filament totals, the sampling of a layer, the
rounding of bounds to five decimals, the viewer's refusal of `G20` anywhere, of a program without
`G21` (`toolpath.ts:232`), without segments (`234`) or with more than a million of them, its
layers from the `;LAYER:` marker (`101`, `127`), and the page around the drawing. The refusals
only make it draw less, and a layer only labels a segment.

## 4. The runs

| Run | Question | Result |
|---|---|---|
| `store` | any order of calls and timestamps: one active, bounded queue, one execution per key, FIFO, the store accepts what it wrote, terminal slot, evidence kept, and the abstract specification | holds |
| `service` | two runners with crashes and store faults, one of them late: success is evidenced, snapshots ascend, the token is set only for a reason of its own run | holds |
| `service_live` | every accepted execution ends | holds |
| `service_race` | docs/EXECUTION.md:182, "interrupted" means the runner disappeared | violated |
| `projects` | two threads, two projects, a crash and a failed write: Brief published, kept, one revision, plans bound, stray files only after a crash | holds |
| `project_race` | docs/DECISIONS.md:546, the approved draft is immutable | violated |
| `codex` | two calls, a reader that may die, a silent app server: a turn ends once, is never unattended, and is over in bounded time, if a granted interrupt is followed by `turn/completed` | holds |
| `codex_race` | codex_conversation.py:114, at most one active turn | violated |
| `journey` | one job with a worker that may die, files that may be edited, a process that may stop at every step and a client that reads at any time: what is shown is one publication and is borne out by the files, what was written can be read again, history is only extended, the ladder is climbed, jobs settle | holds |
| `supervisor` | a root with a child and two streams against limits, cancellation, deadline and exceptions: no survivor, a clean exit is clean, logs are exact, force is reported, every call ends | holds |
| `target` | two edits at any moments of an admission and an execution: a fingerprint is of one moment, what is used was accepted or is of another version | holds |
| `gcode` | every program of the instance's lines with two motions: what passes is harmless, what is drawn is what the machine does | holds |

**Violations.** `service_race`: `run_next` chooses the outcome from a read and commits it in a
later transaction; a cancellation in between makes `finish` raise, the record stays
active, and a later start reports the execution interrupted although its runner lives and
had finished. `project_race`: `save_draft` looks for a Brief before the lock and not
inside; a save admitted during a confirmation replaces the approved draft afterwards, and
from then on every read of the Brief raises. `codex_race`: `start_turn` checks for an
active turn, gives up the lock for the request and sets the turn later, so two calls both
start one; whether the second is refused is up to the app server.

**Exceptions the properties name.** Three statements of the documents hold less widely than they
read. docs/EXECUTION.md:104 has no stage start after a cancellation; the executor looks at a
token that the monitor sets at its next heartbeat, so between the commit of a cancellation and
that heartbeat the next stage may start, and `TokenJustified` claims only that the token is set
for a reason. docs/ARCHITECTURE.md:227 has a 120-second watchdog end every turn; a reader that
stops hands an `EOFError` or `ValueError` to whoever waits, the watchdog does not catch it, and
the turn stays active for good: `TurnsEnd` excepts a reader that is gone. docs/DECISIONS.md:446
permits only files whose SHA-256 is in the configuration and rejects changed bytes; the hook
hashes the source of a module, and the loader may execute the bytecode of another version of it:
`UsedIsAccepted` excepts what is of another version than was seen. Stated of every file that
was not edited since it was seen, without that exception, it is violated: TLC finds the worker
with the older bytecode that `MCCached` has, after no edit at all.

**Evidence that cannot be read.** `EvidenceReadable` names two windows in which the repository
refuses what the slicing pipeline wrote, and in which a process that stops leaves it refused
for good: between `journey.json` and `manifest.json` of a later stage (`IndexTorn`), and from
`package.json` to the two (`PackageOrphaned`). The documents know of them:
docs/RELIABILITY.md:222 calls "one stale R2 trace with an orphaned R4 package" explicitly
invalid. The property says that there is no third window: no failure and no order of
records makes a journey that its own reader refuses.

**Bounds.** Store: three requests for a queue of two are enough for a full queue, an
active execution and one waiting behind it; times 0 and 1 with a lease of 1 give every
order of two stamps and both sides of an expiry; five events (`MaxEvents`) make the log
reach its limit with the terminal slot still to be used. Service: in `service` two executions, one R2 and
one R4, two runners, crashes, and store faults, and a lease of one tick, which cannot be renewed
in time: that is how a late runner comes about. In `service_live` (two R2 executions, one runner
that comes back) and `service_race` the lease is two ticks and can be renewed; an exhaustive run
with two runners and a longer lease takes too long. Projects: three drafts and three confirmations
are one more than two threads need to overtake each other. Conversation: two calls are
two racing starts, a start and its cancellation, or two turns one after the other, so that
the watchdog of the first wakes to the second; one tool call holds the reader. Journey: the
clock has two values, and that loses nothing, because no step of a pipeline depends on the
clock and `Accepts` is a conjunction of comparisons `<=` of two stamps: if one of them fails in
some behaviour, it still fails when every stamp up to the smaller of the two becomes 0 and
every other becomes 1. Two attempts of the Brief gate
are one failure and one retry; three lines of the slicer's output are a heading, its warning, and a line between or after; two kinds of edits are told apart by
every check (a file that is gone, and one of another content and the same size).
Supervisor: one child and a limit of two processes make a process too many;
with a log of one byte and two bytes of output a stream can end below, at or above its limit,
in one block or in two, and the two streams can overflow in either order. Target: a file of each
kind, and a module the checkout does not have at first; two edits are one before and one after a
check, of one file or of two, or an edit and its undoing (a third would only repeat one of these
for another check). A module of the application starts with the bytecode of an older version and
one of the runtime without; an edit may leave the last version's. G-code: a plane of X and Z with coordinates on, inside and outside the
volume; two lines that move the machine or its origin are enough for every disagreement of two
positions, as each reader's state is a position and its modes. `MCBounds` does not read a program
on once it went astray for a reason outside both properties, takes the lines that no motion
depends on first, and allows one of the faults they can have.

**Symmetry.** The requests of `store`, the two runners of `service`, and the threads and
projects of `projects` are interchangeable, so these runs use symmetry. No run with a liveness
property does.

**Deadlock** is not checked in instances that stop by their bounds: all requests have ended
and the clock is at its bound, the drafts and jobs are used up, the job has its outcome, the call
has ended, or the program has its last motion. A finished `SealedTarget` stutters (`Ended`).

**Fairness.** `codex` assumes that the threads of the process run: the
reader reads, tools return, waits time out, watchdogs wake. Nothing is asked of the clients
or of the app server. `service_live` assumes more: both threads of a live runner are scheduled, a host
that died is started again and calls `run_next` again, and time passes. In the
repository `run_next` has no caller but the tests, so that the host calls it again is
an assumption on its future caller. An exception of the executor is not required to happen,
nor is a crash. Store faults and crashes stop at `FaultsUntil`; without that nothing need
ever end. `journey` assumes that a pipeline that is not stopped goes on, and that whatever it
calls returns, the CAD worker included, since the workers and the slicer run under the
supervisor; edits, stops and readers are not required; `supervisor`
assumes that its thread runs, that the deadline passes and that the kernel ends what was
killed. Nothing is asked of the processes, which may run and write for ever, nor of the
drains, which may hang.

## 5. What is proved

`ExecutionProofs` proves of `ExecutionStore`, for all sets of executions, keys,
requests, runners and times, and all limits that satisfy the module's assumptions:

- `TypeCorrect`: the type invariant.
- `AtMostOneActive`: `start_next` checks for an active execution and no other transition
  makes one, so by induction there is never a second.
- `QueueNeverOverfull`: needs that the set of queued executions is finite, which is an
  invariant of its own (`QueueFinite`) as the set of executions need not be.
- `StoreImplementsControl`: every step is a step of `ExecutionControl` or stutters.
  Needs `OneActive` and that tickets are distinct and below the counter (`SeqDistinct`,
  `SeqBelow`).
- `TerminalSlotAlwaysKept`: a non-terminal log is shorter than `MaxEvents`.
- `EvidenceAlwaysKept`: the action property; each action appends to the log or leaves it.
- `LeasesAreFifo`: needs the shape of a log (`LogShape`: the second event of a started
  execution is its start and carries the generation, below the counter).

- `KeysAreUsedOnce`: `admit` takes no key that any record has, ended or not, and no step
  changes the key of a record (`KeysKept`).
- `StoredStateAlwaysLoads`: the store never refuses to load what it wrote. A load replays the
  log and compares the outcome with the row. The invariant says of each record the parts that
  check has (how a log opens, the order of its times, that the life of the row fits the events,
  that the identity and the last event agree with it). Each call lengthens a log by one event,
  and the lemmas `Advances` and `LogExtends` say what such a call carries over, so that a call
  has only its own event to account for; `admit` starts the induction. It needs `LogShape` and
  `SeqBelow`, and that the absent value is no failure code, `cancellation_timeout` included.

Each proof has one step per action. Lemmas `StatusStep` and `LogStep` say once what any
step may do to the statuses and to the logs, and the invariants are derived from those.

It also proves of `ExecutionService`, which EXTENDS the store, for all sets of executions, clients,
times and limits that satisfy the assumptions of the store:

- `ServiceTypeCorrect`.
- `ServiceImplementsStore`: each step of a runner, monitor or client is a call of the store or
  leaves it alone. Every theorem above therefore holds of the service too:
  `ServiceKeepsPromises` says so of its invariants, `ServiceImplementsControl` of
  `ExecutionControl`.
- `TokensAreJustified`: from `ThreadInv`, which ties the main thread of a runner, its monitor,
  its lock and its token to the row and to the lease.
- `SuccessIsAlwaysEvidenced` and `SnapshotsAlwaysAscend`: from `EvidenceInv`, which says for
  each place of the main thread which snapshots the log holds by then, and that nobody but
  the holder of the lease adds one.

`ProjectStoreProofs` proves of `ProjectStore`, for all sets of projects and threads and all
bounds:

- `TypeCorrect`, `BriefAlwaysPublished`, `PlansAreBound`, `BriefsAreKept`: from the
  inductive `Inv`, which adds what the threads and the lock carry between steps. Who is
  inside the lock holds it (`LockHeld`), a project being created has a directory and no
  `project.json` (`Creating`, without which even the type invariant is not inductive), a
  confirmation past the lock found no Brief and has published its job (`Publishing`), a plan
  on its way is bound to the Brief that is there (`Planning`).
- `StrayFilesNeedACrash`: on top of `Inv`, since only the holder of the lock opens, renames
  and unlinks.
- `OneRevisionPerBrief`: on top of both, with jobs numbered from one (`JobsPositive`) and a
  revision without a Brief being that of the confirmation inside the lock (`Pending`); it
  needs the stray-file property, because a stray `brief.json.tmp` would make every retry
  publish one more revision.

One lemma per action shows that it keeps `Inv`.

`CodexConversationProofs` proves of `CodexConversation`, for any number of calls and tools:

- `TypeCorrect`: the active turn is one the app server made. The strengthening
  `StartsAreTrue` follows an "ok" from the request through the line to the waiter.
- `TurnsEndOnce` and `EndedTurnsStayEnded`: from `EndedIsOver`, an ended turn is past its
  start and not active.
- `NeverUnattended`: an "ok" to a watchdog leaves the end of its turn on the way
  (`OkMeansEnd`), which needs that a watchdog asks once (`WatchdogsAskOnce`), that what it
  asked is its own turn as long as that turn is active (`WatchdogsAskForTheirs`), that only
  a dead reader hands out `eof`, and that a tool that returns takes only its own line off
  the pipe (`ToolAtHead`).

`ProcessSupervisorProofs` proves of `ProcessSupervisor`, for any set of children, all limits
and every split of the output into blocks:

- `TypeCorrect`, with the control state (`BaseInv`): which of the process, the Job and the
  drains exist at each point of the call.
- `LogsAreKept`: from `StreamInv`, what was read is accepted up to the limit of the log, and a
  drain that ended has read all.
- `NobodySurvives`: from `TreeInv`, processes exist only after the launch, descendants only
  under a root that was resumed and so is in the Job; every path to `raised` kills all of them.
- `ForceIsAlwaysReported`: as long as the call has not failed, who was killed was killed by a
  step that notes it (`CallInv`).
- `ExitsAreClean`: from `RootInv` and `ResultInv`, "exited" after the judgement means that no
  limit, stop or lateness was there to be seen, and nothing can come after the tree is empty.

`SealedTargetProofs` proves of `SealedTarget`, for any sets of files, contents, manifests and
parts that satisfy the module's assumptions, and any number of edits:

- `FingerprintsAreMoments`: stamps only grow and a file with an unchanged stamp has an unchanged
  content (`StampInv`), so what was hashed between the first listing and the second is what was
  there at the second, for all files of the tree at once (`TreeInv`).
- `UsesAreAccepted`: a resolution that ends has covered every file it needs (`CoverInv`), the plan
  is what a resolution found and agrees with the approval and the manifest (`PlanInv`), a
  reverification leaves digests that are the plan's, bytecode is of an older version than its
  source, and of what was hashed if it is of the version last seen (`BytecodeInv`), and from
  there each use is of the version that was seen or of another one (`Faithful`).

`GCodeProofs` proves of `GCode`, for any axes, volumes, ranges and sets of lines:

- `TypeCorrect`.
- `PassedProgramsAreHarmless`: as long as a program is not astray, the preflight and the machine
  have the same position, and what the machine has been and done is in what the preflight
  collected (`Followed`).
- `ViewerDrawsTheMachine`: with the extruder's mode set after `G90`, the viewer has the machine's
  position and modes, and the last segment is the last motion (`Viewed`).

`JourneyReaderProofs` proves of `JourneyReader`, that is of the Brief, CAD and slicing pipelines
with a process that stops and readers beside it, for all sets of roles, findings and readers and
all bounds:

- `AlwaysPlace`: where the process is says how far the journey in memory and the one on disk have
  come. `Place` has one case for each stretch of the pipelines (`EarlyPlace`, `DesignPlace`,
  `SlicePlace`, `IndexPlace`, `KeptPlace`). In each, `Top` counts the stages that have passed,
  `Printed` says that only a job past its printability stage has more than two of them, and
  `Grown` that the journey in memory continues the one that was published. The pipelines are
  compositions of calls on the aggregate, so the lemmas come in layers: what each call does to
  the runs and events (`Carries` for one that stays in the last run, `Adds` for one that opens
  the next, `Works` for one that changes no status), then each composition, then each action.
- `HistoryIsKept`: only two steps write `journey.json` (`JourneyFile`), and both write one that is
  `Grown` from the one they replace.
- `LadderIsClimbed`: each step is one of `EvidenceLadder` or a stutter; `Place` says that the
  level on disk is the number of stages passed there.
- `ShownIsPublished`: a reader takes three files at three moments, so its proof needs what has
  been published and not only what is there now. `Shelf` says so: there has been at most one
  earlier publication, the manifest on disk has the runs of its own journey, and no other journey
  that was ever on disk has those runs (which rests on `StampsAscend`: readings of the clock
  ascend). `Asked` follows a reader that has taken some of its files, `Shown` one that has
  answered.

- `EvidenceStaysReadable`: what the repository asks of a journey is a statement about a finished
  one; the pipelines need one that every call on the aggregate keeps. `Sound` is that statement: no
  time lies past the clock or before the job, a run follows those before it, an event lies within
  its run and the last event of every run but the open one has its status, records belong to owned
  runs, lineage is closed and no two artifacts share a path. It is kept by each call (`EmitStands`,
  `RecordStands`, `BeginStands`, `EndStands`, ...), and with the last event announced and a revision
  (`Sealed`) it gives all that `Accepts` asks (`SealedAccepted`) but for the manifest and the
  package. `InMemory` and `OnDisk` say where in the pipelines a journey is sound, sealed, which
  roles it has by then, and what `package.json` has to do with it (`Packed`). The two exceptions in
  the property are really needed: `IndexJourneyEvidenced` and `ToPackage` end in them.

`StepKinds` splits the steps into those that publish nothing (`Quiet`) and the four that do,
so that `Shelf` and the readers are argued about five times and not once per action.

`JourneyClaimsProofs` goes on from there, to what a request shows:

- `ShownClaimsAreBacked`: a level, a package, a file or a comparison that is shown is borne out
  by what the pipelines and the worker did. `EvidenceReadable` says that the three files agree
  with each other; here they have to agree with the worker, which is another process, and with what
  any later request sees. The inductive invariant adds two parts to `Shelf`, `Requests` and
  `Evidenced`. `Backed` says where in the pipelines a journey has come how far: the i-th run is
  the i-th stage, with the level of that stage once it has passed (`Stages`), a stage is passed
  only with its report recorded and, from the design on, with a worker that is gone and has left a
  success (`BorneByCad`), which no step of the worker can take back (`Steady`). `Claims` is what
  remains true of a journey that was written, failed or not. `Seen` follows a request: the
  journey it took was on disk, the one there now came from it by adding runs and records of runs
  (`Since`), and its view of the design's files is that of the moment it answered.

The four parts follow from the invariant by lemmas about the views. `InOrder` is by counting, so
that what it returns for a set of numbers is proved from the order on its finite subsets
(`LeastElement`, `InOrderMember`, `InOrderUpTo`). `ShownStays` compares two details as sets of
records, area by area: `Stays(A, B)` says that an area keeps its records and gets no other one
under the same key, each area has its lemma (`StageRecordsStay`, ..., `PackageKept`), and
`NothingChanges` puts them together. Only `ReportRecordsStay` needs the files to be as they were.

The proofs rest on the modules' assumptions alone. Those are that bounds are numbers, that the
absent value `None` is no record or number (`NoneAssumption`, `PackageAssumption`,
`ViewAssumption`), that edits are among the faults (`EditsAssumption`) and the like. TLC
evaluates each of them in the run of its module.

Only model-checked: liveness (`AllEnd`, `TurnsEnd`, `JobsSettle`, `CallEnds`), which is out of
reach of the prover. Every invariant and every action property that a passing run checks is
stated by a theorem.

## 6. Not modelled

- Of the registry and the adapters, the checks that can only refuse, command lines and
  environments (section 3, SealedTarget).
- Of the repository, the checks of single fields, schemas, limits, fixtures and discovery.
- Of the supervisor, the ctypes declarations, process images and peak values.
- Of the conversation, `close` and the start of the process; the agent tools, which hold the
  reader for a while and otherwise change no more than the latest proposal of a project.
- Routing and response models of the HTTP API, the command line, the browser client, the
  release scripts and the experiments.
- A wall clock that steps back. The repository then refuses a journey that was recorded without
  an error (`domain/lifecycle.py:84`); nothing in the code prevents it and no property holds.
- Geometry and mesh arithmetic, declarative part programs, printability rules, slicer profiles,
  schemas, OpenAPI, API response models, and the validation of single fields.

Most of the repository's lines are in that last group and in the experiments: they compute a
value from a value and have no state, so a module about them would only repeat them.

SQLite, the file system and the Windows Job API are assumed to do
what the code expects of them: atomic transactions, atomic renames, `O_EXCL`.
