----------------------- MODULE ProcessSupervisorProofs -----------------------
(* Theorems about ProcessSupervisor, for every tree of processes and every limit. *)
EXTENDS ProcessSupervisor, TLAPS

-----------------------------------------------------------------------------
(* What no step of a kind touches                                               *)

WorldStep == RequestCancellation \/ DeadlinePasses
TreeStep == ProcessStep \/ \E p \in Process : Reap(p)

LEMMA TreeStepFrame ==
  ASSUME TreeStep
  PROVE  /\ UNCHANGED <<resumed, assigned, written, drain, stop, token, late, supervisorVars>>
         /\ UNCHANGED streamVars \/ \E s \in Stream : WriteOutput(s)
         /\ UNCHANGED <<limit, large>> \/ Free # {}
         /\ Free = {} => UNCHANGED <<produced, unread>>
<1>1. ASSUME NEW s \in Stream, WriteOutput(s)
      PROVE  /\ UNCHANGED <<resumed, assigned, written, drain, stop, token, late, supervisorVars>>
             /\ UNCHANGED <<limit, large>>
             /\ Free # {}
  BY <1>1 DEF WriteOutput, processVars, worldVars
<1>2. ASSUME NEW c \in Child, Spawn(c)
      PROVE  UNCHANGED <<resumed, assigned, streamVars, limit, worldVars, supervisorVars>>
  BY <1>2 DEF Spawn
<1>3. CASE SpawnRefused \/ ExceedMemory \/ UseWorkspace
  BY <1>3 DEF SpawnRefused, ExceedMemory, UseWorkspace, processVars, streamVars, worldVars
<1>4. ASSUME NEW p \in Process, Exit(p) \/ Reap(p)
      PROVE  UNCHANGED <<resumed, assigned, streamVars, limit, worldVars, supervisorVars>>
  BY <1>4 DEF Exit, Reap
<1> QED
  BY <1>1, <1>2, <1>3, <1>4 DEF TreeStep, ProcessStep, streamVars, worldVars

-----------------------------------------------------------------------------
(* Types                                                                        *)

LEMMA Unchanged ==
  ASSUME TypeOK
  PROVE  /\ UNCHANGED processVars => TreeTypeOK'
         /\ UNCHANGED streamVars => StreamTypeOK'
         /\ UNCHANGED <<worldVars, supervisorVars>> => CallTypeOK'
BY DEF TypeOK, TreeTypeOK, StreamTypeOK, CallTypeOK, processVars, streamVars, worldVars,
       supervisorVars

LEMMA TreeStepTypes ==
  ASSUME TypeOK, TreeStep
  PROVE  TypeOK'
<1>1. ASSUME NEW s \in Stream, WriteOutput(s)
      PROVE  TypeOK'
  <2>1. StreamTypeOK'
    BY <1>1 DEF WriteOutput, TypeOK, StreamTypeOK
  <2> QED
    BY <1>1, <2>1, Unchanged DEF WriteOutput, TypeOK
<1>2. ASSUME NEW c \in Child, Spawn(c)
      PROVE  TypeOK'
  <2>1. TreeTypeOK'
    BY <1>2 DEF Spawn, TypeOK, TreeTypeOK, Process
  <2> QED
    BY <1>2, <2>1, Unchanged DEF Spawn, TypeOK
<1>3. CASE SpawnRefused \/ ExceedMemory
  <2>1. TreeTypeOK'
    BY <1>3 DEF SpawnRefused, ExceedMemory, PostLimit, TypeOK, TreeTypeOK
  <2> QED
    BY <1>3, <2>1, Unchanged DEF SpawnRefused, ExceedMemory, TypeOK
<1>4. CASE UseWorkspace
  <2>1. CallTypeOK'
    BY <1>4 DEF UseWorkspace, TypeOK, CallTypeOK, supervisorVars
  <2> QED
    BY <1>4, <2>1, Unchanged DEF UseWorkspace, TypeOK
<1>5. ASSUME NEW p \in Process, Exit(p) \/ Reap(p)
      PROVE  TypeOK'
  <2>1. TreeTypeOK'
    BY <1>5 DEF Exit, Reap, Free, TypeOK, TreeTypeOK
  <2> QED
    BY <1>5, <2>1, Unchanged DEF Exit, Reap, TypeOK
<1> QED
  BY <1>1, <1>2, <1>3, <1>4, <1>5 DEF TreeStep, ProcessStep

-----------------------------------------------------------------------------
(* The streams                                                                  *)

\* What is in a log is what was read of its stream, up to the limit.
StreamInv ==
  \A s \in Stream :
    /\ unread[s] <= produced[s]
    /\ written[s] = Accepted(produced[s] - unread[s], MaxLog)
    /\ drain[s] = "ended" => unread[s] = 0
    /\ stop = None => written[s] + unread[s] = produced[s]

LEMMA AcceptedMore ==
  ASSUME NEW n \in Nat, NEW k \in Nat, NEW room \in Nat
  PROVE  /\ Accepted(n, room) \in Nat /\ Accepted(n, room) <= room
         /\ Accepted(n, room) + Accepted(k, room - Accepted(n, room)) = Accepted(n + k, room)
BY DEF Accepted

LEMMA ReadBlockStreams ==
  ASSUME TypeOK, StreamInv, NEW s \in Stream, ReadBlock(s)
  PROVE  StreamTypeOK' /\ StreamInv'
<1>1. PICK n \in 1..unread[s] :
        /\ written' = [written EXCEPT ![s] = @ + Accepted(n, MaxLog - @)]
        /\ unread' = [unread EXCEPT ![s] = @ - n]
        /\ IF n > MaxLog - written[s] THEN stop' = IF stop = None THEN Overflow[s] ELSE stop
                                      ELSE stop' = stop
  BY DEF ReadBlock, AppendToLog, Request
<1>2. /\ produced' = produced /\ drain' = drain /\ drain[s] = "reading"
  BY DEF ReadBlock
<1> DEFINE read == produced[s] - unread[s]
<1>3. /\ unread[s] \in Nat /\ produced[s] \in Nat /\ written[s] \in Nat /\ n \in Nat
      /\ read \in Nat /\ MaxLog \in Nat /\ n <= unread[s]
      /\ written[s] = Accepted(read, MaxLog)
  BY <1>1, SupervisorAssumption DEF TypeOK, StreamTypeOK, StreamInv
<1>4. /\ unread'[s] = unread[s] - n /\ written'[s] = written[s] + Accepted(n, MaxLog - written[s])
      /\ \A t \in Stream \ {s} : unread'[t] = unread[t] /\ written'[t] = written[t]
  BY <1>1 DEF TypeOK, StreamTypeOK
<1>5. /\ written'[s] = Accepted(read + n, MaxLog) /\ written'[s] \in Nat
      /\ read + n = produced[s] - unread'[s]
  <2>1. written'[s] = Accepted(read + n, MaxLog)
    BY <1>3, <1>4, AcceptedMore
  <2>2. read + n \in Nat /\ read + n = produced[s] - unread'[s]
    BY <1>3, <1>4
  <2> HIDE DEF read
  <2>3. Accepted(read + n, MaxLog) \in Nat
    BY <1>3, <2>2 DEF Accepted
  <2> QED
    BY <2>1, <2>2, <2>3
<1>6. Overflow[s] \in {"stdout_limit", "stderr_limit"} /\ Overflow[s] # None
  BY NoneAssumption DEF Overflow, Stream, Reason
<1>7. StreamTypeOK'
  <2>1. unread' \in [Stream -> Nat]
    BY <1>1, <1>3 DEF TypeOK, StreamTypeOK
  <2>0. \A t \in Stream : written'[t] \in Nat
    BY <1>4, <1>5 DEF TypeOK, StreamTypeOK
  <2>3. written' \in [Stream -> Nat]
    BY <1>1, <2>0 DEF TypeOK, StreamTypeOK
  <2>2. stop' \in {None, "error", "stdout_limit", "stderr_limit"}
    BY <1>1, <1>6 DEF TypeOK, StreamTypeOK
  <2> QED
    BY <1>2, <2>1, <2>2, <2>3 DEF TypeOK, StreamTypeOK
<1>8. stop' = None => stop = None /\ ~(n > MaxLog - written[s])
  BY <1>1, <1>6
<1>9. stop' = None => written'[s] + unread'[s] = produced[s]
  BY <1>3, <1>4, <1>8 DEF Accepted, StreamInv
<1> QED
  BY <1>2, <1>3, <1>4, <1>5, <1>7, <1>8, <1>9 DEF StreamInv

LEMMA DrainsStepStreams ==
  ASSUME TypeOK, StreamInv, DrainsStep
  PROVE  TypeOK' /\ StreamInv'
<1>1. PICK s \in Stream : ReadBlock(s) \/ EndOfStream(s) \/ DrainFails(s)
  BY DEF DrainsStep, DrainStep
<1>2. UNCHANGED <<processVars, worldVars, supervisorVars>>
  BY <1>1 DEF ReadBlock, EndOfStream, DrainFails
<1>3. CASE EndOfStream(s)
  <2>1. /\ UNCHANGED <<produced, unread, written, stop>> /\ drain' = [drain EXCEPT ![s] = "ended"]
        /\ unread[s] = 0
    BY <1>3 DEF EndOfStream
  <2>2. StreamTypeOK'
    BY <2>1 DEF TypeOK, StreamTypeOK
  <2>3. StreamInv'
    BY <2>1 DEF TypeOK, StreamTypeOK, StreamInv
  <2> QED
    BY <1>2, <2>2, <2>3, Unchanged DEF TypeOK
<1>4. CASE DrainFails(s)
  <2>1. /\ UNCHANGED <<produced, unread, written>> /\ drain' = [drain EXCEPT ![s] = "failed"]
        /\ stop' = IF stop = None THEN "error" ELSE stop
    BY <1>4 DEF DrainFails, Request
  <2>2. StreamTypeOK'
    BY <2>1 DEF TypeOK, StreamTypeOK
  <2>3. StreamInv'
    BY <2>1, NoneAssumption DEF TypeOK, StreamTypeOK, StreamInv
  <2> QED
    BY <1>2, <2>2, <2>3, Unchanged DEF TypeOK
<1> QED
  BY <1>1, <1>2, <1>3, <1>4, ReadBlockStreams, Unchanged DEF TypeOK

LEMMA TreeStepStreams ==
  ASSUME TypeOK, StreamInv, TreeStep
  PROVE  StreamInv'
<1>1. ASSUME NEW s \in Stream, WriteOutput(s)
      PROVE  StreamInv'
  <2>1. /\ produced'[s] = produced[s] + 1 /\ unread'[s] = unread[s] + 1 /\ drain[s] # "ended"
        /\ \A t \in Stream \ {s} : produced'[t] = produced[t] /\ unread'[t] = unread[t]
        /\ UNCHANGED <<written, drain, stop>>
    BY <1>1 DEF WriteOutput, TypeOK, StreamTypeOK
  <2>2. \A t \in Stream : produced[t] \in Nat /\ unread[t] \in Nat /\ written[t] \in Nat
    BY DEF TypeOK, StreamTypeOK
  <2>3. produced'[s] - unread'[s] = produced[s] - unread[s]
    BY <2>1, <2>2
  <2> QED
    BY <2>1, <2>2, <2>3 DEF StreamInv
<1> QED
  BY <1>1, TreeStepFrame DEF StreamInv, streamVars

-----------------------------------------------------------------------------
(* The supervisor                                                               *)

\* Where the call still works towards a result, and where it has given up.
Launched ==
  {"assign", "resume", "poll", "limit", "stop", "cancel", "deadline", "workspace", "left", "settle",
   "sweep", "wait", "empty", "join", "judge", "close", "returned"}
Location == {"start", "launch"} \cup Launched \cup {"cleanup", "rootwait", "fail", "raised"}

\* What is alive where: only the root before the Job has it, nothing once the tree was seen
\* to be empty, and nothing but the dying after a failure.
TreeInv ==
  /\ pc \in Location
  /\ pc \in {"start", "launch"} => alive = {}
  /\ pc = "resume" => assigned
  /\ ~assigned => ~resumed /\ alive \subseteq {Root}
  /\ pc \in {"join", "judge", "close", "returned"} => alive = {}
  /\ pc = "fail" /\ ~assigned => alive \subseteq killed
  /\ pc = "raised" => alive \subseteq killed

\* A step of the supervisor, by what it may change of the tree.
Quiet == UNCHANGED <<processVars, streamVars, worldVars>>
Kills == /\ killed' \subseteq alive
         /\ UNCHANGED <<alive, resumed, assigned, limit, code, culled, streamVars, worldVars>>

LEMMA SupervisorStepKinds ==
  ASSUME TypeOK, SupervisorStep \/ Raise
  PROVE  Launch \/ AssignSuspended \/ Resume \/ Quiet \/ Kills
<1>1. CASE Enter \/ Raise
  BY <1>1 DEF Enter, Raise, Quiet
<1>2. CASE PollStep
  <2>1. CASE Poll \/ RootEnded
    BY <2>1 DEF Poll, RootEnded, GoOn, Quiet, streamVars, worldVars
  <2> QED
    BY <1>2, <2>1 DEF PollStep, PollLimit, PollStop, PollCancellation, PollDeadline,
                      PollWorkspace, WorkspaceExceeded,
                      Terminate, GoOn, Quiet, Kills
<1>3. CASE ObserveExit \/ Settle \/ WaitRoot \/ WaitTree \/ JoinDrains \/ Judge \/ Close
  BY <1>3 DEF ObserveExit, Settle, WaitRoot, WaitTree, TreeEmpty, JoinDrains, WaitFor, Judge,
              Close, GoOn, Quiet
<1>4. CASE Sweep \/ CleanUp \/ WaitKilledRoot \/ CloseFailed
  BY <1>4 DEF Sweep, CleanUp, WaitKilledRoot, CloseFailed, KilledOnClose, Kills, TypeOK, TreeTypeOK
<1> QED
  BY <1>1, <1>2, <1>3, <1>4 DEF SupervisorStep

\* No step makes a reason of an error.
LEMMA SupervisorStepCall ==
  ASSUME TypeOK, SupervisorStep \/ Raise
  PROVE  CallTypeOK'
<1>1. UNCHANGED worldVars
  BY SupervisorStepKinds DEF Launch, AssignSuspended, Resume, Quiet, Kills
<1>2. /\ reason \in Reason /\ forced \in BOOLEAN /\ seenLate \in BOOLEAN /\ exitLate \in BOOLEAN
      /\ late \in BOOLEAN /\ "exited" \in Reason
  BY DEF TypeOK, CallTypeOK, Reason
<1> SUFFICES /\ reason' \in Reason /\ forced' \in BOOLEAN
             /\ seenLate' \in BOOLEAN /\ exitLate' \in BOOLEAN
  BY <1>1 DEF TypeOK, CallTypeOK, worldVars
<1>3. ASSUME UNCHANGED <<reason, forced, seenLate, exitLate>> \/ Abandon
      PROVE  /\ reason' \in Reason /\ forced' \in BOOLEAN
             /\ seenLate' \in BOOLEAN /\ exitLate' \in BOOLEAN
  BY <1>2, <1>3 DEF Abandon
<1>4. CASE \/ Enter \/ Launch \/ AssignSuspended \/ Resume \/ Raise \/ Close
           \/ CleanUp \/ WaitKilledRoot \/ CloseFailed \/ RootEnded \/ Settle
  BY <1>3, <1>4 DEF Enter, Launch, AssignSuspended, Resume, Raise, Close, CleanUp, WaitKilledRoot,
                    CloseFailed, RootEnded, Settle, Goto, GoOn
<1>5. CASE WaitRoot \/ WaitTree \/ JoinDrains
  BY <1>3, <1>5 DEF WaitRoot, WaitTree, TreeEmpty, JoinDrains, WaitFor, Goto
<1>6. CASE Poll \/ ObserveExit \/ Sweep
  BY <1>2, <1>6 DEF Poll, ObserveExit, Sweep
<1>7. ASSUME NEW r \in Reason, GoOn("stop") \/ GoOn("cancel") \/ GoOn("deadline")
                                \/ GoOn("workspace") \/ GoOn("poll") \/ Terminate(r)
      PROVE  /\ reason' \in Reason /\ forced' \in BOOLEAN
             /\ seenLate' \in BOOLEAN /\ exitLate' \in BOOLEAN
  BY <1>2, <1>7 DEF GoOn, Goto, Terminate
<1>8. /\ limit # None => limit \in Reason
      /\ stop # None /\ stop # "error" => stop \in Reason
  BY DEF TypeOK, TreeTypeOK, StreamTypeOK, Reason
<1>9. CASE PollLimit \/ PollStop
  BY <1>2, <1>7, <1>8, <1>9 DEF PollLimit, PollStop
<1>10. CASE PollCancellation \/ PollDeadline \/ PollWorkspace
  <2>1. {"cancelled", "wall_timeout", "workspace_limit"} \subseteq Reason
    BY DEF Reason
  <2> QED
    BY <1>7, <1>10, <2>1 DEF PollCancellation, PollDeadline, PollWorkspace, WorkspaceExceeded
<1>11. CASE Judge
  <2>1. ~DrainFailed => FinalReason \in Reason
    BY <1>2, <1>8 DEF DrainFailed, FinalReason, WorkspaceExceeded, Reason
  <2> QED
    BY <1>2, <1>3, <1>11, <2>1 DEF Judge
<1> QED
  BY <1>4, <1>5, <1>6, <1>9, <1>10, <1>11 DEF SupervisorStep, PollStep

LEMMA SupervisorStepTypes ==
  ASSUME TypeOK, TreeInv, SupervisorStep \/ Raise
  PROVE  TypeOK'
<1>1. CASE Launch
  <2>1. TreeTypeOK'
    <3>1. alive' = {Root} /\ UNCHANGED <<killed, resumed, assigned, limit, code, culled>>
      BY <1>1 DEF Launch
    <3> QED
      BY <1>1, <3>1 DEF TypeOK, TreeTypeOK, Process, TreeInv, Launch
  <2>2. StreamTypeOK'
    BY <1>1 DEF Launch, TypeOK, StreamTypeOK
  <2> QED
    BY <2>1, <2>2, SupervisorStepCall DEF TypeOK
<1>2. CASE AssignSuspended \/ Resume
  <2>1. TreeTypeOK' /\ UNCHANGED streamVars
    BY <1>2 DEF AssignSuspended, Resume, TypeOK, TreeTypeOK
  <2> QED
    BY <2>1, Unchanged, SupervisorStepCall DEF TypeOK
<1>3. CASE Quiet
  BY <1>3, Unchanged, SupervisorStepCall DEF Quiet, TypeOK
<1>4. CASE Kills
  <2>1. TreeTypeOK' /\ UNCHANGED streamVars
    BY <1>4 DEF Kills, TypeOK, TreeTypeOK
  <2> QED
    BY <2>1, Unchanged, SupervisorStepCall DEF TypeOK
<1> QED
  BY <1>1, <1>2, <1>3, <1>4, SupervisorStepKinds

-----------------------------------------------------------------------------
(* The tree                                                                     *)

LEMMA TreeStepTree ==
  ASSUME TypeOK, TreeInv, TreeStep
  PROVE  TreeInv'
<1>1. UNCHANGED <<resumed, assigned, pc>>
  BY TreeStepFrame DEF supervisorVars
<1>2. ASSUME NEW c \in Child, Spawn(c)
      PROVE  TreeInv'
  <2>1. assigned /\ alive # {} /\ ~(alive \subseteq killed)
    BY <1>2 DEF Spawn, Free, TreeInv
  <2> QED
    BY <1>1, <2>1 DEF TreeInv
<1>3. ASSUME alive' \subseteq alive, alive' \cap killed \subseteq killed'
      PROVE  TreeInv'
  BY <1>1, <1>3 DEF TreeInv
<1>4. ASSUME NEW p \in Process, Exit(p) \/ Reap(p)
      PROVE  TreeInv'
  BY <1>3, <1>4 DEF Exit, Reap
<1>5. CASE \/ \E s \in Stream : WriteOutput(s)
           \/ SpawnRefused \/ ExceedMemory \/ UseWorkspace
  BY <1>3, <1>5 DEF WriteOutput, SpawnRefused, ExceedMemory, UseWorkspace, processVars
<1> QED
  BY <1>2, <1>4, <1>5 DEF TreeStep, ProcessStep

LEMMA SupervisorStepTree ==
  ASSUME TypeOK, TreeInv, SupervisorStep \/ Raise
  PROVE  TreeInv'
<1>1. CASE Enter \/ Launch \/ AssignSuspended \/ Resume
  BY <1>1 DEF Enter, Launch, AssignSuspended, Resume, Goto, TreeInv, Location, Launched, processVars
<1>2. CASE PollStep
  <2>1. /\ UNCHANGED <<alive, resumed, assigned>>
        /\ pc' \in {"limit", "stop", "cancel", "deadline", "workspace", "poll", "left"}
    BY <1>2 DEF PollStep, Poll, RootEnded, PollLimit, PollStop, PollCancellation, PollDeadline,
                PollWorkspace, WorkspaceExceeded, Terminate, GoOn, Goto, processVars
  <2> QED
    BY <2>1 DEF TreeInv, Location, Launched
<1>3. CASE ObserveExit \/ Settle \/ Sweep
  BY <1>3 DEF ObserveExit, Settle, Sweep, Goto, TreeInv, Location, Launched, processVars
<1>4. CASE WaitRoot \/ WaitTree \/ JoinDrains \/ Judge \/ Raise
  BY <1>4 DEF WaitRoot, WaitTree, TreeEmpty, JoinDrains, Judge, Raise, WaitFor, Goto, Abandon,
              TreeInv,
              Location, Launched, processVars
<1>5. CASE Close
  BY <1>5 DEF Close, GoOn, Goto, TreeInv, Location, Launched, processVars
<1>6. CASE CleanUp \/ WaitKilledRoot \/ CloseFailed
  BY <1>6 DEF CleanUp, WaitKilledRoot, CloseFailed, KilledOnClose, Goto, TreeInv, Location, Launched
<1> QED
  BY <1>1, <1>2, <1>3, <1>4, <1>5, <1>6 DEF SupervisorStep

-----------------------------------------------------------------------------
(* The first theorems                                                           *)

LEMMA SupervisorStepStreams ==
  ASSUME TypeOK, StreamInv, SupervisorStep \/ Raise
  PROVE  StreamInv'
<1>1. CASE Launch
  <2>1. UNCHANGED <<produced, unread, written, stop>> /\ \A s \in Stream : drain'[s] = "reading"
    BY <1>1 DEF Launch
  <2> QED
    BY <2>1 DEF StreamInv
<1>2. CASE AssignSuspended \/ Resume \/ Quiet \/ Kills
  BY <1>2 DEF AssignSuspended, Resume, Quiet, Kills, StreamInv, streamVars
<1> QED
  BY <1>1, <1>2, SupervisorStepKinds

BaseInv == TypeOK /\ StreamInv /\ TreeInv

LEMMA StepKinds ==
  ASSUME [Next]_vars
  PROVE  \/ TreeStep \/ DrainsStep \/ SupervisorStep \/ Raise
         \/ UNCHANGED <<processVars, streamVars, large, supervisorVars>>
BY DEF Next, TreeStep, RequestCancellation, DeadlinePasses, vars, worldVars

LEMMA InitBase == Init => BaseInv
<1> SUFFICES ASSUME Init
             PROVE  BaseInv
  OBVIOUS
<1>1. produced = [s \in Stream |-> 0] /\ unread = produced /\ written = produced
  BY DEF Init
<1>2. TypeOK
  <2>1. TreeTypeOK
    BY DEF Init, TreeTypeOK
  <2>2. StreamTypeOK
    BY <1>1 DEF Init, StreamTypeOK
  <2>3. CallTypeOK
    BY DEF Init, CallTypeOK, Reason
  <2> QED
    BY <2>1, <2>2, <2>3 DEF TypeOK
<1>3. StreamInv
  <2>1. Accepted(0, MaxLog) = 0 /\ 0 - 0 = 0
    BY SupervisorAssumption DEF Accepted
  <2> QED
    BY <1>1, <2>1 DEF StreamInv
<1>4. TreeInv
  BY DEF Init, TreeInv, Location
<1> QED
  BY <1>2, <1>3, <1>4 DEF BaseInv

LEMMA NextBase == BaseInv /\ [Next]_vars => BaseInv'
<1> SUFFICES ASSUME TypeOK, StreamInv, TreeInv, [Next]_vars
             PROVE  TypeOK' /\ StreamInv' /\ TreeInv'
  BY DEF BaseInv
<1>1. CASE TreeStep
  BY <1>1, TreeStepTypes, TreeStepStreams, TreeStepTree
<1>2. CASE DrainsStep
  <2>1. UNCHANGED <<processVars, supervisorVars>>
    BY <1>2 DEF DrainsStep, DrainStep, ReadBlock, EndOfStream, DrainFails
  <2>2. TreeInv'
    BY <2>1 DEF TreeInv, processVars, supervisorVars
  <2> QED
    BY <1>2, <2>2, DrainsStepStreams
<1>3. CASE SupervisorStep \/ Raise
  BY <1>3, SupervisorStepTypes, SupervisorStepStreams, SupervisorStepTree
<1>4. CASE RequestCancellation \/ DeadlinePasses \/ UNCHANGED vars
  <2>1. UNCHANGED <<processVars, streamVars, large, supervisorVars>>
    BY <1>4 DEF RequestCancellation, DeadlinePasses, vars, worldVars
  <2>2. CallTypeOK'
    BY <1>4 DEF RequestCancellation, DeadlinePasses, TypeOK, CallTypeOK, vars, worldVars,
                supervisorVars
  <2>3. TypeOK'
    BY <2>1, <2>2, Unchanged DEF TypeOK
  <2>4. StreamInv' /\ TreeInv'
    BY <2>1 DEF StreamInv, TreeInv, processVars, streamVars, supervisorVars
  <2> QED
    BY <2>3, <2>4
<1> QED
  BY <1>1, <1>2, <1>3, <1>4 DEF Next, TreeStep

LEMMA AlwaysBase == Spec => []BaseInv
BY InitBase, NextBase, PTL DEF Spec

\* Every variable keeps its type; above all, no error of a drain becomes a reason.
THEOREM TypeCorrect == Spec => []TypeOK
<1>1. BaseInv => TypeOK
  BY DEF BaseInv
<1> QED
  BY <1>1, AlwaysBase, PTL

\* No process survives its call, whatever fails on the way.
THEOREM NobodySurvives == Spec => []NoSurvivor
<1>1. BaseInv => NoSurvivor
  BY DEF BaseInv, TreeInv, NoSurvivor, Done
<1> QED
  BY <1>1, AlwaysBase, PTL

-----------------------------------------------------------------------------
(* How the root ended, and whether that is told                                 *)

\* As long as the call works towards a result, a root that was killed has left a reason, or
\* an error that will end the call, and whatever was killed has been noted.
RootInv ==
  /\ pc \in {"start", "launch"} => ~culled /\ code = None
  /\ pc \in Launched => Root \in alive \/ code # None
  /\ pc \in {"settle", "sweep"} => Root \notin alive
  /\ pc \in Launched /\ (code = "killed" \/ Root \in killed) => reason # "exited" \/ stop = "error"
  /\ pc \in Launched /\ (culled \/ killed # {}) => forced

LEMMA TreeStepRoot ==
  ASSUME TypeOK, TreeInv, RootInv, TreeStep
  PROVE  RootInv'
<1>1. UNCHANGED <<stop, pc, reason, forced>>
  BY TreeStepFrame DEF supervisorVars
<1>2. CASE \/ \E s \in Stream : WriteOutput(s)
           \/ SpawnRefused \/ ExceedMemory \/ UseWorkspace
  BY <1>1, <1>2 DEF WriteOutput, SpawnRefused, ExceedMemory, UseWorkspace, RootInv, processVars
<1>3. ASSUME NEW c \in Child, Spawn(c)
      PROVE  RootInv'
  <2>1. c # Root
    BY SupervisorAssumption
  <2> QED
    BY <1>1, <1>3, <2>1 DEF Spawn, RootInv
<1>4. ASSUME NEW p \in Process, Exit(p)
      PROVE  RootInv'
  <2>1. p \in alive /\ p \notin killed
    BY <1>4 DEF Exit, Free
  <2>2. pc \notin {"start", "launch"}
    BY <2>1 DEF TreeInv
  <2>3. "own" # None
    BY NoneAssumption
  <2> QED
    BY <1>1, <1>4, <2>1, <2>2, <2>3 DEF Exit, RootInv
<1>5. ASSUME NEW p \in Process, Reap(p)
      PROVE  RootInv'
  <2>1. p \in alive /\ p \in killed
    BY <1>5 DEF Reap
  <2>2. pc \notin {"start", "launch"}
    BY <2>1 DEF TreeInv
  <2>3. "killed" # None
    BY NoneAssumption
  <2> QED
    BY <1>1, <1>5, <2>1, <2>2, <2>3 DEF Reap, RootInv
<1> QED
  BY <1>2, <1>3, <1>4, <1>5 DEF TreeStep, ProcessStep

LEMMA SupervisorStepRoot ==
  ASSUME TypeOK, TreeInv, RootInv, SupervisorStep \/ Raise
  PROVE  RootInv'
<1>1. CASE Enter \/ Launch \/ AssignSuspended \/ Resume
  <2>1. pc \in {"start", "launch"} => killed = {}
    BY DEF TypeOK, TreeTypeOK, TreeInv
  <2> QED
    BY <1>1, <2>1, NoneAssumption
       DEF Enter, Launch, AssignSuspended, Resume, Goto, RootInv, Launched, processVars, streamVars
<1>2. CASE Raise \/ CleanUp \/ WaitKilledRoot \/ CloseFailed
  BY <1>2 DEF Raise, CleanUp, WaitKilledRoot, CloseFailed, Abandon, Goto, RootInv, Launched
<1>3. CASE PollStep
  <2>1. /\ pc \in Launched /\ pc' \in Launched /\ pc' \notin {"settle", "sweep", "start", "launch"}
        /\ UNCHANGED <<alive, code, culled, stop>>
    BY <1>3 DEF PollStep, Poll, RootEnded, PollLimit, PollStop, PollCancellation, PollDeadline,
                PollWorkspace, WorkspaceExceeded, Terminate, GoOn, Goto, Launched, processVars,
                streamVars
  <2>2. CASE UNCHANGED <<killed, reason, forced>>
    BY <2>1, <2>2 DEF RootInv
  <2>3. ASSUME NEW r, Terminate(r), r # "exited" \/ stop = "error"
        PROVE  RootInv'
    BY <2>1, <2>3 DEF Terminate, RootInv
  <2>4. limit # None => limit # "exited"
    BY DEF TypeOK, TreeTypeOK
  <2>5. stop # None /\ stop # "error" => stop # "exited"
    BY DEF TypeOK, StreamTypeOK
  <2>6. CASE Poll \/ RootEnded
    BY <2>2, <2>6 DEF Poll, RootEnded, GoOn, Goto, processVars
  <2>7. CASE PollLimit \/ PollStop
    BY <2>2, <2>3, <2>4, <2>5, <2>7 DEF PollLimit, PollStop, GoOn, Goto, processVars
  <2>8. CASE PollCancellation \/ PollDeadline \/ PollWorkspace
    BY <2>2, <2>3, <2>8 DEF PollCancellation, PollDeadline, PollWorkspace, WorkspaceExceeded,
                            GoOn, Goto, processVars
  <2> QED
    BY <1>3, <2>6, <2>7, <2>8 DEF PollStep
<1>4. CASE ObserveExit \/ Settle \/ Sweep
  BY <1>4 DEF ObserveExit, Settle, Sweep, Goto, RootInv, Launched, processVars, streamVars,
              TypeOK, TreeTypeOK
<1>5. CASE WaitRoot \/ WaitTree \/ JoinDrains \/ Close
  BY <1>5 DEF WaitRoot, WaitTree, TreeEmpty, JoinDrains, WaitFor, Close, Goto, GoOn, Abandon,
              RootInv,
              Launched, processVars, streamVars
<1>6. CASE Judge
  BY <1>6 DEF Judge, DrainFailed, FinalReason, WorkspaceExceeded, Abandon, RootInv, Launched,
              processVars, streamVars
<1> QED
  BY <1>1, <1>2, <1>3, <1>4, <1>5, <1>6 DEF SupervisorStep

-----------------------------------------------------------------------------
(* The result                                                                   *)

\* What holds when the outcome is judged still holds when it is returned.
ResultInv ==
  /\ pc = "judge" => \A s \in Stream : drain[s] \in {"ended", "failed"}
  /\ pc \in {"close", "returned"} => \A s \in Stream : drain[s] = "ended"
  /\ pc \in {"close", "returned"} /\ reason = "exited" =>
       stop = None /\ limit = None /\ ~large /\ ~exitLate

LEMMA TreeStepResult ==
  ASSUME TypeOK, TreeInv, ResultInv, TreeStep
  PROVE  ResultInv'
<1>1. UNCHANGED <<drain, stop, supervisorVars>>
  BY TreeStepFrame
<1>2. pc \in {"close", "returned"} => Free = {}
  BY DEF TreeInv, Free
<1>3. pc \in {"close", "returned"} => UNCHANGED <<limit, large>>
  BY <1>2, TreeStepFrame
<1> QED
  BY <1>1, <1>3 DEF ResultInv, supervisorVars

LEMMA DrainsStepResult ==
  ASSUME TypeOK, ResultInv, DrainsStep
  PROVE  ResultInv'
<1>1. PICK s \in Stream : ReadBlock(s) \/ EndOfStream(s) \/ DrainFails(s)
  BY DEF DrainsStep, DrainStep
<1>2. drain[s] = "reading"
  BY <1>1 DEF ReadBlock, EndOfStream, DrainFails
<1>3. pc \notin {"judge", "close", "returned"}
  BY <1>2 DEF ResultInv
<1>4. UNCHANGED pc
  BY <1>1 DEF ReadBlock, EndOfStream, DrainFails, supervisorVars
<1> QED
  BY <1>3, <1>4 DEF ResultInv

LEMMA SupervisorStepResult ==
  ASSUME TypeOK, ResultInv, SupervisorStep \/ Raise
  PROVE  ResultInv'
<1>1. CASE JoinDrains
  BY <1>1 DEF JoinDrains, WaitFor, Goto, Abandon, ResultInv, streamVars
<1>2. CASE Judge
  <2>1. CASE DrainFailed
    BY <1>2, <2>1 DEF Judge, Abandon, ResultInv
  <2>2. CASE ~DrainFailed
    <3>1. limit # "exited" /\ stop # "exited"
      BY NoneAssumption DEF TypeOK, TreeTypeOK, StreamTypeOK, Reason
    <3>2. FinalReason = "exited" => stop = None /\ limit = None /\ ~large /\ ~exitLate
      BY <3>1 DEF FinalReason, WorkspaceExceeded
    <3>3. \A s \in Stream : drain[s] = "ended"
      BY <1>2, <2>2 DEF Judge, DrainFailed, ResultInv
    <3>4. /\ pc' = "close" /\ reason' = FinalReason
          /\ UNCHANGED <<drain, stop, limit, large, exitLate>>
      BY <1>2, <2>2 DEF Judge, processVars, streamVars, worldVars
    <3> QED
      BY <3>2, <3>3, <3>4 DEF ResultInv
  <2> QED
    BY <2>1, <2>2
<1>3. CASE Close
  BY <1>3 DEF Close, GoOn, Goto, ResultInv, processVars, streamVars, worldVars
<1>4. CASE pc' \notin {"judge", "close", "returned"}
  BY <1>4 DEF ResultInv
<1>5. CASE PollStep
  BY <1>4, <1>5 DEF PollStep, Poll, RootEnded, PollLimit, PollStop, PollCancellation, PollDeadline,
                    PollWorkspace, WorkspaceExceeded, Terminate, GoOn, Goto
<1>6. CASE \/ Enter \/ Launch \/ AssignSuspended \/ Resume \/ Raise \/ ObserveExit \/ Settle
           \/ Sweep \/ WaitRoot \/ WaitTree \/ CleanUp \/ WaitKilledRoot \/ CloseFailed
  BY <1>4, <1>6 DEF Enter, Launch, AssignSuspended, Resume, Raise, ObserveExit, Settle, Sweep,
                    WaitRoot, WaitTree, TreeEmpty, WaitFor, CleanUp, WaitKilledRoot, CloseFailed,
                    Goto, Abandon
<1> QED
  BY <1>1, <1>2, <1>3, <1>5, <1>6 DEF SupervisorStep

CallInv == RootInv /\ ResultInv

LEMMA NextCall == BaseInv /\ CallInv /\ [Next]_vars => CallInv'
<1> SUFFICES ASSUME TypeOK, TreeInv, RootInv, ResultInv, [Next]_vars
             PROVE  RootInv' /\ ResultInv'
  BY DEF BaseInv, CallInv
<1>1. CASE TreeStep
  BY <1>1, TreeStepRoot, TreeStepResult
<1>2. CASE DrainsStep
  <2>1. UNCHANGED <<processVars, supervisorVars>> /\ (stop = "error" => stop' = "error")
    BY <1>2, NoneAssumption
       DEF DrainsStep, DrainStep, ReadBlock, EndOfStream, DrainFails, Request
  <2>2. RootInv'
    BY <2>1 DEF RootInv, processVars, supervisorVars
  <2> QED
    BY <1>2, <2>2, DrainsStepResult
<1>3. CASE SupervisorStep \/ Raise
  BY <1>3, SupervisorStepRoot, SupervisorStepResult
<1>4. CASE UNCHANGED <<processVars, streamVars, large, supervisorVars>>
  BY <1>4 DEF RootInv, ResultInv, processVars, streamVars, supervisorVars
<1> QED
  BY <1>1, <1>2, <1>3, <1>4, StepKinds

LEMMA AlwaysCall == Spec => [](BaseInv /\ CallInv)
<1>1. Init => CallInv
  BY DEF Init, CallInv, RootInv, ResultInv, Launched
<1> QED
  BY <1>1, InitBase, NextBase, NextCall, PTL DEF Spec

\* A call that says its command exited has seen a root that ended by itself and in time,
\* with no limit hit by anything it started, and with all of its output in the logs.
THEOREM ExitsAreClean == Spec => []ExitIsClean
<1>1. BaseInv /\ CallInv => ExitIsClean
  <2> SUFFICES ASSUME BaseInv, CallInv, pc = "returned", reason = "exited"
               PROVE  code = "own" /\ ~exitLate /\ limit = None /\ ~large /\ written = produced
    BY DEF ExitIsClean
  <2>1. stop = None /\ limit = None /\ ~large /\ ~exitLate /\ alive = {}
    BY DEF BaseInv, CallInv, ResultInv, TreeInv
  <2>2. code = "own"
    <3>1. code # None
      BY <2>1 DEF CallInv, RootInv, Launched
    <3>2. code # "killed"
      BY <2>1, NoneAssumption DEF CallInv, RootInv, Launched
    <3> QED
      BY <3>1, <3>2 DEF BaseInv, TypeOK, TreeTypeOK
  <2>3. written = produced
    <3>1. written \in [Stream -> Nat] /\ produced \in [Stream -> Nat]
      BY DEF BaseInv, TypeOK, StreamTypeOK
    <3>2. \A s \in Stream : unread[s] = 0 /\ written[s] + unread[s] = produced[s]
      BY <2>1 DEF BaseInv, CallInv, ResultInv, StreamInv
    <3>3. \A s \in Stream : written[s] = produced[s]
      BY <3>1, <3>2
    <3> QED
      BY <3>1, <3>3
  <2> QED
    BY <2>1, <2>2, <2>3
<1> QED
  BY <1>1, AlwaysCall, PTL

\* A result has of each stream what its limit allows, and not a byte less.
THEOREM LogsAreKept == Spec => []LogsKept
<1>1. BaseInv /\ CallInv => LogsKept
  <2> SUFFICES ASSUME BaseInv, CallInv, pc = "returned", NEW s \in Stream
               PROVE  written[s] = Accepted(produced[s], MaxLog)
    BY DEF LogsKept
  <2>1. unread[s] = 0 /\ written[s] = Accepted(produced[s] - unread[s], MaxLog)
    BY DEF BaseInv, CallInv, ResultInv, StreamInv
  <2>2. produced[s] \in Nat
    BY DEF BaseInv, TypeOK, StreamTypeOK
  <2>3. produced[s] - unread[s] = produced[s]
    BY <2>1, <2>2
  <2> QED
    BY <2>1, <2>3
<1> QED
  BY <1>1, AlwaysCall, PTL

\* A result that does not tell of force has killed nothing.
THEOREM ForceIsAlwaysReported == Spec => []ForceIsReported
<1>1. BaseInv /\ CallInv => ForceIsReported
  BY DEF CallInv, RootInv, Launched, ForceIsReported
<1> QED
  BY <1>1, AlwaysCall, PTL
=============================================================================
