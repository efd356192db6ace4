-------------------------- MODULE ProcessSupervisor --------------------------
(* WindowsJobProcessSupervisor.run (execution/windows_job.py): one command in a *)
(* Windows Job, its two log drains, and the thread that supervises them against *)
(* limits, a cancellation and a deadline.  The processes are external: they     *)
(* write, start others, exceed limits and end when they like.                   *)
(*                                                                              *)
(* Every wait of the supervisor is bounded: it ends with what it waits for, or  *)
(* with a timeout while that has not come.  A process that was killed ends      *)
(* later, and does nothing until then.                                          *)
EXTENDS Integers, FiniteSets

CONSTANTS None, Root, Child,
          MaxProcesses,   \* max_active_processes, which counts the root
          MaxLog,         \* max_log_stream_bytes
          MaxOutput       \* bound of what the processes write

ASSUME SupervisorAssumption ==
  /\ MaxProcesses \in Nat \ {0} /\ MaxLog \in Nat \ {0} /\ MaxOutput \in Nat
  /\ Root \notin Child /\ IsFiniteSet(Child)

Process == {Root} \cup Child
Stream == {"stdout", "stderr"}

\* ProcessTerminationReason
Overflow == [s \in Stream |-> IF s = "stdout" THEN "stdout_limit" ELSE "stderr_limit"]
Reason ==
  {"exited", "cancelled", "wall_timeout", "workspace_limit", "process_limit", "memory_limit",
   "stdout_limit", "stderr_limit"}

ASSUME NoneAssumption == None \notin Reason \cup {"error", "own", "killed"}

VARIABLES
  \* the processes and the Job
  alive,      \* the processes that have not ended
  killed,     \* those that were terminated by the supervisor
  resumed,    \* the initial thread of the root runs
  assigned,   \* the root, and so all processes, are in the Job
  limit,      \* the first limit message at the completion port
  code,       \* how the root ended: by itself or killed
  culled,     \* history: some process ended because it was killed
  \* the streams
  produced,   \* bytes the processes wrote
  unread,     \* bytes in the pipe
  written,    \* bytes in the log
  drain,      \* the drain thread
  stop,       \* _StopState: None, a reason, or "error"
  \* the rest of the world
  token,      \* the CancellationToken
  late,       \* the deadline has passed
  large,      \* the workspace is over its limit
  \* the supervisor
  pc, reason, forced,
  seenLate,   \* the deadline had passed when the poll began
  exitLate    \* the root was seen to have ended, at a time past the deadline

processVars == <<alive, killed, resumed, assigned, limit, code, culled>>
streamVars == <<produced, unread, written, drain, stop>>
worldVars == <<token, late, large>>
supervisorVars == <<pc, reason, forced, seenLate, exitLate>>
vars == <<processVars, streamVars, worldVars, supervisorVars>>

-----------------------------------------------------------------------------
(* The processes, and the rest of the world until the call has ended             *)

Free == IF resumed THEN alive \ killed ELSE {}

PostLimit(r) == limit' = IF limit = None THEN r ELSE limit

Output == produced["stdout"] + produced["stderr"]

\* There is nothing to write to once both ends of a pipe, or the drain's, are closed.
WriteOutput(s) ==
  /\ Free # {} /\ drain[s] \notin {"ended", "failed"} /\ Output < MaxOutput
  /\ produced' = [produced EXCEPT ![s] = @ + 1]
  /\ unread' = [unread EXCEPT ![s] = @ + 1]
  /\ UNCHANGED <<processVars, written, drain, stop, worldVars, supervisorVars>>

Spawn(c) ==
  /\ Free # {} /\ c \notin alive /\ Cardinality(alive) < MaxProcesses
  /\ alive' = alive \cup {c}
  /\ UNCHANGED <<killed, resumed, assigned, limit, code, culled, streamVars, worldVars,
                 supervisorVars>>

\* The Job refuses one process too many.
SpawnRefused ==
  /\ Free # {} /\ Cardinality(alive) = MaxProcesses
  /\ PostLimit("process_limit")
  /\ UNCHANGED <<alive, killed, resumed, assigned, code, culled, streamVars, worldVars,
                 supervisorVars>>

ExceedMemory ==
  /\ Free # {}
  /\ PostLimit("memory_limit")
  /\ UNCHANGED <<alive, killed, resumed, assigned, code, culled, streamVars, worldVars,
                 supervisorVars>>

UseWorkspace ==
  /\ Free # {}
  /\ large' = ~large
  /\ UNCHANGED <<processVars, streamVars, token, late, supervisorVars>>

Exit(p) ==
  /\ p \in Free
  /\ alive' = alive \ {p}
  /\ code' = IF p = Root THEN "own" ELSE code
  /\ UNCHANGED <<killed, resumed, assigned, limit, culled, streamVars, worldVars, supervisorVars>>

Reap(p) ==
  /\ p \in alive \cap killed
  /\ alive' = alive \ {p} /\ killed' = killed \ {p}
  /\ code' = IF p = Root THEN "killed" ELSE code
  /\ culled' = TRUE
  /\ UNCHANGED <<resumed, assigned, limit, streamVars, worldVars, supervisorVars>>

ProcessStep ==
  \/ \E s \in Stream : WriteOutput(s)
  \/ \E c \in Child : Spawn(c)
  \/ SpawnRefused \/ ExceedMemory \/ UseWorkspace
  \/ \E p \in Process : Exit(p)

Done == pc \in {"returned", "raised"}

RequestCancellation ==
  /\ ~token /\ ~Done /\ token' = TRUE
  /\ UNCHANGED <<processVars, streamVars, late, large, supervisorVars>>

DeadlinePasses ==
  /\ ~late /\ ~Done /\ late' = TRUE
  /\ UNCHANGED <<processVars, streamVars, token, large, supervisorVars>>

-----------------------------------------------------------------------------
(* _drain_stream                                                                *)

Request(r) == stop' = IF stop = None THEN r ELSE stop

Accepted(n, room) == IF n <= room THEN n ELSE room

\* Mutant: the block that does not fit is written whole.
AppendWhole(s, n) == written' = [written EXCEPT ![s] = IF @ < MaxLog THEN @ + n ELSE @]

AppendToLog(s, n) == written' = [written EXCEPT ![s] = @ + Accepted(n, MaxLog - @)]

\* What does not fit is read and dropped, so that the process is not blocked.
ReadBlock(s) ==
  /\ drain[s] = "reading"
  /\ \E n \in 1..unread[s] :
       /\ AppendToLog(s, n)
       /\ unread' = [unread EXCEPT ![s] = @ - n]
       /\ IF n > MaxLog - written[s] THEN Request(Overflow[s]) ELSE UNCHANGED stop
  /\ UNCHANGED <<processVars, produced, drain, worldVars, supervisorVars>>

\* Every process of the tree has closed the stream, or ended.
EndOfStream(s) ==
  /\ drain[s] = "reading" /\ unread[s] = 0
  /\ drain' = [drain EXCEPT ![s] = "ended"]
  /\ UNCHANGED <<processVars, produced, unread, written, stop, worldVars, supervisorVars>>

\* The log cannot be opened, or a read or a write raises.
DrainFails(s) ==
  /\ drain[s] = "reading"
  /\ drain' = [drain EXCEPT ![s] = "failed"]
  /\ Request("error")
  /\ UNCHANGED <<processVars, produced, unread, written, worldVars, supervisorVars>>

DrainStep(s) == ReadBlock(s) \/ EndOfStream(s)

-----------------------------------------------------------------------------
(* Launch                                                                       *)

Goto(next) == pc' = next /\ UNCHANGED <<reason, forced, seenLate, exitLate>>

\* An exception: what the call had noted of its result goes with it.
Abandon ==
  /\ pc' = "cleanup"
  /\ reason' = "exited" /\ forced' = FALSE /\ seenLate' = FALSE /\ exitLate' = FALSE

\* A command that was cancelled, or whose deadline has passed, is not launched.
Enter ==
  /\ pc = "start"
  /\ Goto(IF token \/ late THEN "raised" ELSE "launch")
  /\ UNCHANGED <<processVars, streamVars, worldVars>>

Launch ==
  /\ pc = "launch"
  /\ alive' = {Root}
  /\ drain' = [s \in Stream |-> "reading"]
  /\ Goto("assign")
  /\ UNCHANGED <<killed, resumed, assigned, limit, code, culled, produced, unread, written, stop,
                 worldVars>>

AssignSuspended ==
  /\ pc = "assign"
  /\ assigned' = TRUE
  /\ Goto("resume")
  /\ UNCHANGED <<alive, killed, resumed, limit, code, culled, streamVars, worldVars>>

Resume ==
  /\ pc = "resume"
  /\ resumed' = TRUE
  /\ Goto("poll")
  /\ UNCHANGED <<alive, killed, assigned, limit, code, culled, streamVars, worldVars>>

-----------------------------------------------------------------------------
(* The poll                                                                     *)

Terminate(r) ==
  /\ killed' = alive /\ reason' = r /\ forced' = TRUE /\ pc' = "left" /\ seenLate' = FALSE
  /\ UNCHANGED <<alive, resumed, assigned, limit, code, culled, exitLate>>

GoOn(next) == Goto(next) /\ UNCHANGED processVars

Poll ==
  /\ pc = "poll" /\ Root \in alive
  /\ seenLate' = late
  /\ pc' = "limit"
  /\ UNCHANGED <<processVars, streamVars, worldVars, reason, forced, exitLate>>

RootEnded ==
  /\ pc = "poll" /\ Root \notin alive
  /\ GoOn("left")
  /\ UNCHANGED <<streamVars, worldVars>>

PollLimit ==
  /\ pc = "limit"
  /\ IF limit = None THEN GoOn("stop") ELSE Terminate(limit)
  /\ UNCHANGED <<streamVars, worldVars>>

\* An error of a drain leaves the reason for the end of the call.
PollStop ==
  /\ pc = "stop"
  /\ IF stop = None THEN GoOn("cancel")
                    ELSE Terminate(IF stop = "error" THEN reason ELSE stop)
  /\ UNCHANGED <<streamVars, worldVars>>

PollCancellation ==
  /\ pc = "cancel"
  /\ IF token THEN Terminate("cancelled") ELSE GoOn("deadline")
  /\ UNCHANGED <<streamVars, worldVars>>

\* Mutant: the deadline is left to the caller.
PollNoDeadline ==
  /\ pc = "deadline"
  /\ GoOn("workspace")
  /\ UNCHANGED <<streamVars, worldVars>>

PollDeadline ==
  /\ pc = "deadline"
  /\ IF seenLate THEN Terminate("wall_timeout") ELSE GoOn("workspace")
  /\ UNCHANGED <<streamVars, worldVars>>

\* _workspace_size; a link or a directory that cannot be listed makes it raise.
WorkspaceExceeded == large

\* The workspace is measured only now and then.
PollWorkspace ==
  /\ pc = "workspace"
  /\ \/ GoOn("poll")
     \/ WorkspaceExceeded /\ Terminate("workspace_limit")
  /\ UNCHANGED <<streamVars, worldVars>>

-----------------------------------------------------------------------------
(* The end of the tree                                                          *)

ObserveExit ==
  /\ pc = "left"
  /\ exitLate' = (Root \notin alive /\ late)
  /\ pc' = IF Root \in alive THEN "wait" ELSE "settle"
  /\ UNCHANGED <<processVars, streamVars, worldVars, reason, forced, seenLate>>

\* The tree gets a moment to end by itself.
Settle ==
  /\ pc = "settle"
  /\ Goto(IF alive = {} THEN "wait" ELSE "sweep")
  /\ UNCHANGED <<processVars, streamVars, worldVars>>

\* Mutant: the end of the descendants is not reported.
SweepQuietly ==
  /\ pc = "sweep"
  /\ pc' = "wait" /\ killed' = alive
  /\ UNCHANGED <<alive, resumed, assigned, limit, code, culled, streamVars, worldVars, reason,
                 forced, seenLate, exitLate>>

\* A root must not leave descendants behind.
Sweep ==
  /\ pc = "sweep"
  /\ pc' = "wait" /\ killed' = alive /\ forced' = TRUE
  /\ UNCHANGED <<alive, resumed, assigned, limit, code, culled, streamVars, worldVars, reason,
                 seenLate, exitLate>>

WaitFor(here, done, next) ==
  /\ pc = here
  /\ IF done THEN Goto(next) ELSE Abandon
  /\ UNCHANGED <<processVars, streamVars, worldVars>>

WaitRoot == WaitFor("wait", Root \notin alive, "empty")
\* The Job counts no active process, and each one that was tracked has been waited for.
TreeEmpty == alive = {}
WaitTree == WaitFor("empty", TreeEmpty, "join")
JoinDrains == WaitFor("join", \A s \in Stream : drain[s] \in {"ended", "failed"}, "judge")

DrainFailed == stop = "error" \/ \E s \in Stream : drain[s] = "failed"

\* Mutant: what happened after the last poll is not looked at.
LastReason == reason

FinalReason ==
  IF reason # "exited" THEN reason
  ELSE IF limit # None THEN limit
  ELSE IF stop # None THEN stop
  ELSE IF WorkspaceExceeded THEN "workspace_limit"
  ELSE IF exitLate THEN "wall_timeout"
  ELSE "exited"

\* Mutant: an error of a drain is taken for a reason.
JudgeAnyway ==
  /\ pc = "judge"
  /\ pc' = "close" /\ reason' = FinalReason
  /\ UNCHANGED <<processVars, streamVars, worldVars, forced, seenLate, exitLate>>

Judge ==
  /\ pc = "judge"
  /\ IF DrainFailed
     THEN Abandon
     ELSE pc' = "close" /\ reason' = FinalReason /\ UNCHANGED <<forced, seenLate, exitLate>>
  /\ UNCHANGED <<processVars, streamVars, worldVars>>

\* Closing a handle may fail.
Close ==
  /\ pc = "close"
  /\ GoOn("returned") \/ GoOn("raised")
  /\ UNCHANGED <<streamVars, worldVars>>

-----------------------------------------------------------------------------
(* Exceptions                                                                   *)

\* A call of the operating system, the measuring of the workspace or the launch raises.
Raise ==
  /\ pc \notin {"start", "close", "cleanup", "rootwait", "fail", "returned", "raised"}
  /\ Abandon
  /\ UNCHANGED <<processVars, streamVars, worldVars>>

\* The root alone is killed when it is not in the Job, or the Job cannot be terminated.
CleanUp ==
  /\ pc = "cleanup"
  /\ \/ assigned /\ killed' = alive
     \/ killed' = killed \cup (alive \cap {Root})
  /\ Goto("rootwait")
  /\ UNCHANGED <<alive, resumed, assigned, limit, code, culled, streamVars, worldVars>>

\* The root is killed once more when it has not ended in time.
WaitKilledRoot ==
  /\ pc = "rootwait"
  /\ killed' = killed \cup (alive \cap {Root})
  /\ Goto("fail")
  /\ UNCHANGED <<alive, resumed, assigned, limit, code, culled, streamVars, worldVars>>

\* Mutant: the Job was made without its limit for the end of the last handle.
LeftAlone == killed

\* JOB_OBJECT_LIMIT_KILL_ON_JOB_CLOSE
KilledOnClose == IF assigned THEN alive ELSE killed

CloseFailed ==
  /\ pc = "fail"
  /\ killed' = KilledOnClose
  /\ Goto("raised")
  /\ UNCHANGED <<alive, resumed, assigned, limit, code, culled, streamVars, worldVars>>

-----------------------------------------------------------------------------
(* The specification                                                            *)

Init ==
  /\ alive = {} /\ killed = {} /\ resumed = FALSE /\ assigned = FALSE
  /\ limit = None /\ code = None /\ culled = FALSE
  /\ produced = [s \in Stream |-> 0] /\ unread = produced /\ written = produced
  /\ drain = [s \in Stream |-> "none"] /\ stop = None
  /\ token = FALSE /\ late = FALSE /\ large = FALSE
  /\ pc = "start" /\ reason = "exited" /\ forced = FALSE
  /\ seenLate = FALSE /\ exitLate = FALSE

PollStep ==
  Poll \/ RootEnded \/ PollLimit \/ PollStop \/ PollCancellation \/ PollDeadline \/ PollWorkspace

SupervisorStep ==
  \/ Enter \/ Launch \/ AssignSuspended \/ Resume
  \/ PollStep
  \/ ObserveExit \/ Settle \/ Sweep \/ WaitRoot \/ WaitTree \/ JoinDrains \/ Judge \/ Close
  \/ CleanUp \/ WaitKilledRoot \/ CloseFailed

DrainsStep == \E s \in Stream : DrainStep(s) \/ DrainFails(s)

Next ==
  \/ ProcessStep \/ (\E p \in Process : Reap(p)) \/ RequestCancellation \/ DeadlinePasses
  \/ DrainsStep
  \/ SupervisorStep \/ Raise

Spec == Init /\ [][Next]_vars

\* The supervising thread runs, time passes, and the system ends what was killed.
\* Nothing is asked of the processes or of the drains.
FairSpec ==
  /\ Spec
  /\ WF_vars(SupervisorStep) /\ WF_vars(DeadlinePasses) /\ WF_vars(\E p \in Process : Reap(p))

-----------------------------------------------------------------------------
(* Properties                                                                   *)

TreeTypeOK ==
  /\ alive \subseteq Process /\ killed \subseteq alive
  /\ resumed \in BOOLEAN /\ assigned \in BOOLEAN /\ culled \in BOOLEAN
  /\ limit \in {None, "process_limit", "memory_limit"}
  /\ code \in {None, "own", "killed"}

StreamTypeOK ==
  /\ produced \in [Stream -> Nat] /\ unread \in [Stream -> Nat] /\ written \in [Stream -> Nat]
  /\ drain \in [Stream -> {"none", "reading", "ended", "failed"}]
  /\ stop \in {None, "error", "stdout_limit", "stderr_limit"}

CallTypeOK ==
  /\ token \in BOOLEAN /\ late \in BOOLEAN /\ large \in BOOLEAN
  /\ reason \in Reason /\ forced \in BOOLEAN
  /\ seenLate \in BOOLEAN /\ exitLate \in BOOLEAN

\* The type of every variable.
TypeOK == TreeTypeOK /\ StreamTypeOK /\ CallTypeOK

\* No process outlives its call: a call that returns leaves none, and one that raises,
\* at whatever point, leaves none that was not killed.
NoSurvivor ==
  /\ pc = "returned" => alive = {}
  /\ Done => alive \subseteq killed

\* "exited" means that nothing went wrong, however late it did: the root ended by
\* itself and in time, no limit was hit, and the logs hold all that was written.
ExitIsClean ==
  pc = "returned" /\ reason = "exited" =>
    /\ code = "own" /\ ~exitLate
    /\ limit = None /\ ~large
    /\ written = produced

\* A result never has more, nor less, of a stream than its limit allows.
LogsKept ==
  pc = "returned" => \A s \in Stream : written[s] = Accepted(produced[s], MaxLog)

\* A result that does not say so has killed no process.
ForceIsReported ==
  pc = "returned" /\ culled => forced

\* Every call comes to its end, and so does every process it started, although the
\* processes may run, write and hold their pipes open for ever.
CallEnds ==
  pc # "start" ~> Done /\ alive = {}
=============================================================================
