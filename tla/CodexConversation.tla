------------------------- MODULE CodexConversation -------------------------
(***************************************************************************)
(* LocalCodexConversation of codex_conversation.py: the turns of one Codex *)
(* thread, their events and the threads that share them.                   *)
(*                                                                         *)
(*   - A call is one HTTP request thread: it starts a turn or asks for the *)
(*     active one to be interrupted.  Calls are numbered; a turn has the   *)
(*     number of the call that started it.                                 *)
(*   - The reader is the one thread that reads the app server's output: it *)
(*     hands each response to the thread that waits for it, runs the tools *)
(*     Codex calls and records the notifications.                          *)
(*   - Each announced turn has a watchdog thread, which wakes once.        *)
(*   - The app server is a program outside this repository.  It reads      *)
(*     requests in any order and may answer, refuse or stay silent.        *)
(*                                                                         *)
(* A send is one step with the check before it: the server may read the    *)
(* request at any later time, so the pause between the two shows nothing   *)
(* new.  turn_completed, turn_failed and turn_cancelled, which no branch of  *)
(* the code tells apart, are one turn_ended.  Text and tool events, the order of the events of different turns  *)
(* and the eviction of old ones change nothing that a property here is     *)
(* about and are left out, as is close, which only the end of the API      *)
(* process calls.                                                          *)
(***************************************************************************)
EXTENDS Integers, Sequences

CONSTANTS MaxCalls,    \* bound: the calls made to start or interrupt a turn
          MaxTools     \* bound: the tool calls the app server makes

ASSUME BoundsAssumption == MaxCalls \in Nat /\ MaxTools \in Nat

VARIABLES
    call,       \* where each call stands
    watchdog,   \* where the watchdog of each turn stands
    waiter,     \* _responses: what each waiting request has received
    active,     \* _active_turn_id
    events,     \* the lifecycle events recorded for each turn, in order
    reader,     \* "reading", "in tool" or "gone"
    requests,   \* requests written to the app server and not read by it
    stdout,     \* lines of the app server the reader has not done with
    turn,       \* the app server's own state of each turn
    tools       \* tool calls the app server has made

ours == <<call, watchdog, waiter, active, events, reader>>
theirs == <<turn, tools>>
vars == <<call, watchdog, waiter, active, events, reader, requests, stdout,
          turn, tools>>

Call == 1..MaxCalls
NoTurn == 0
Request == {"call", "watch"} \X Call     \* a request id: who sent it
EventType == {"turn_started", "turn_ended"}

RequestLine == [id : Request, interrupts : Call \union {NoTurn}]
Response == [kind : {"response"}, id : Request, result : {"ok", "error"}]
Notification == [kind : {"notification"}, turn : Call]
ToolCall == [kind : {"tool"}, turn : Call]
Line == Response \union Notification \union ToolCall

-----------------------------------------------------------------------------
(* What the threads share *)

\* Mutant: the end of a turn is recorded whichever turn is active.
AppendAnyEvent(type, t) ==
    /\ events' = [events EXCEPT ![t] = Append(@, type)]
    /\ active' = IF type = "turn_ended" /\ active = t THEN NoTurn ELSE active

\* _append_event: the end of a turn counts only while that turn is active,
\* and then frees the conversation.
AppendEvent(type, t) ==
    IF type = "turn_ended" /\ active # t
    THEN UNCHANGED <<active, events>>
    ELSE /\ events' = [events EXCEPT ![t] = Append(@, type)]
         /\ active' = IF type = "turn_ended" THEN NoTurn ELSE active

\* _send, up to its wait; interrupts is NoTurn for turn/start.
Send(r, interrupts) ==
    /\ waiter' = [waiter EXCEPT ![r] = "waiting"]
    /\ requests' = requests \union {[id |-> r, interrupts |-> interrupts]}

\* _send's finally clause.
Forget(r) == waiter' = [waiter EXCEPT ![r] = "none"]

Init ==
    /\ call = [n \in Call |-> "none"]
    /\ watchdog = [t \in Call |-> "none"]
    /\ waiter = [r \in Request |-> "none"]
    /\ active = NoTurn
    /\ events = [t \in Call |-> <<>>]
    /\ reader = "reading"
    /\ requests = {}
    /\ stdout = <<>>
    /\ turn = [t \in Call |-> "none"]
    /\ tools = 0

-----------------------------------------------------------------------------
(* Calls of the HTTP threads *)

IsNext(n) == call[n] = "none" /\ \A m \in 1..(n - 1) : call[m] # "none"

\* start_turn is admitted when no turn is active, and sends turn/start.
StartTurn(n) ==
    /\ IsNext(n)
    /\ active = NoTurn
    /\ Send(<<"call", n>>, NoTurn)
    /\ call' = [call EXCEPT ![n] = "starting"]
    /\ UNCHANGED <<watchdog, active, events, reader, stdout, theirs>>

\* Mutant: the response is not examined for an error.
TurnStartedOnAnyResponse(n) ==
    /\ call[n] = "starting"
    /\ waiter[<<"call", n>>] \in {"ok", "error"}
    /\ Forget(<<"call", n>>)
    /\ active' = n
    /\ call' = [call EXCEPT ![n] = "announcing"]
    /\ UNCHANGED <<watchdog, events, reader, requests, stdout, theirs>>

\* The app server made the turn: it becomes the active one.
TurnStarted(n) ==
    /\ call[n] = "starting"
    /\ waiter[<<"call", n>>] = "ok"
    /\ Forget(<<"call", n>>)
    /\ active' = n
    /\ call' = [call EXCEPT ![n] = "announcing"]
    /\ UNCHANGED <<watchdog, events, reader, requests, stdout, theirs>>

\* Mutant: the watchdog is not started.
AnnounceUnwatched(n) ==
    /\ call[n] = "announcing"
    /\ AppendEvent("turn_started", n)
    /\ call' = [call EXCEPT ![n] = "done"]
    /\ UNCHANGED <<watchdog, waiter, reader, requests, stdout, theirs>>

\* start_turn takes the lock again to record the start, and arms the watchdog.
Announce(n) ==
    /\ call[n] = "announcing"
    /\ AppendEvent("turn_started", n)
    /\ watchdog' = [watchdog EXCEPT ![n] = "asleep"]
    /\ call' = [call EXCEPT ![n] = "done"]
    /\ UNCHANGED <<waiter, reader, requests, stdout, theirs>>

\* cancel_active_turn on behalf of a client.
CancelTurn(n) ==
    /\ IsNext(n)
    /\ active # NoTurn
    /\ Send(<<"call", n>>, active)
    /\ call' = [call EXCEPT ![n] = "cancelling"]
    /\ UNCHANGED <<watchdog, active, events, reader, stdout, theirs>>

\* A cancellation returns or raises; a start that was refused, that found the
\* reader gone or that timed out raises.
CallReturns(n) ==
    /\ \/ call[n] = "cancelling"
       \/ call[n] = "starting" /\ waiter[<<"call", n>>] # "ok"
    /\ Forget(<<"call", n>>)
    /\ call' = [call EXCEPT ![n] = "done"]
    /\ UNCHANGED <<watchdog, active, events, reader, requests, stdout, theirs>>

CallStep(n) == TurnStarted(n) \/ Announce(n) \/ CallReturns(n)

-----------------------------------------------------------------------------
(* The watchdog of turn t *)

\* _turn_watchdog wakes after MAX_TURN_SECONDS and looks for its turn.
Wake(t) ==
    /\ watchdog[t] = "asleep"
    /\ watchdog' = [watchdog EXCEPT ![t] = IF active = t THEN "due" ELSE "done"]
    /\ UNCHANGED <<call, waiter, active, events, reader, requests, stdout, theirs>>

\* cancel_active_turn reads the active turn again, which may be none by now,
\* or a newer one.
WatchdogInterrupts(t) ==
    /\ watchdog[t] = "due"
    /\ IF active = NoTurn
       THEN /\ watchdog' = [watchdog EXCEPT ![t] = "done"]
            /\ UNCHANGED <<waiter, requests>>
       ELSE /\ watchdog' = [watchdog EXCEPT ![t] = "interrupting"]
            /\ Send(<<"watch", t>>, active)
    /\ UNCHANGED <<call, active, events, reader, stdout, theirs>>

\* Once answered it leaves the rest to the notification; an error, a failed
\* write or no answer in time fails the turn here.
WatchdogAnswered(t) ==
    /\ waiter[<<"watch", t>>] = "ok"
    /\ watchdog' = [watchdog EXCEPT ![t] = "done"]
    /\ UNCHANGED <<active, events>>

\* Mutant: a refused or unanswered interrupt is passed over in silence.
WatchdogGivesUp(t) ==
    /\ waiter[<<"watch", t>>] \in {"waiting", "error"}
    /\ watchdog' = [watchdog EXCEPT ![t] = "done"]
    /\ UNCHANGED <<active, events>>

WatchdogFailsTurn(t) ==
    /\ waiter[<<"watch", t>>] \in {"waiting", "error"}
    /\ AppendEvent("turn_ended", t)
    /\ watchdog' = [watchdog EXCEPT ![t] = "done"]

\* The EOFError or ValueError of a reader that stopped is not among the
\* exceptions it handles.
WatchdogRaises(t) ==
    /\ waiter[<<"watch", t>>] = "eof"
    /\ watchdog' = [watchdog EXCEPT ![t] = "dead"]
    /\ UNCHANGED <<active, events>>

WatchdogReturns(t) ==
    /\ watchdog[t] = "interrupting"
    /\ WatchdogAnswered(t) \/ WatchdogFailsTurn(t) \/ WatchdogRaises(t)
    /\ Forget(<<"watch", t>>)
    /\ UNCHANGED <<call, reader, requests, stdout, theirs>>

WatchdogStep(t) == Wake(t) \/ WatchdogInterrupts(t) \/ WatchdogReturns(t)

-----------------------------------------------------------------------------
(* The reader thread *)

\* A response nobody waits for any more is ignored.
ReadResponse(m) ==
    /\ m.kind = "response"
    /\ waiter' = IF waiter[m.id] = "waiting"
                 THEN [waiter EXCEPT ![m.id] = m.result] ELSE waiter
    /\ UNCHANGED <<active, events>>

ReadNotification(m) ==
    /\ m.kind = "notification"
    /\ AppendEvent("turn_ended", m.turn)
    /\ UNCHANGED waiter

\* Responses and notifications are done with at once.
ReadLine ==
    /\ reader = "reading"
    /\ stdout # <<>>
    /\ LET m == Head(stdout) IN ReadResponse(m) \/ ReadNotification(m)
    /\ stdout' = Tail(stdout)
    /\ UNCHANGED <<call, watchdog, reader, requests, theirs>>

\* _handle_tool_call runs the tool on the reader's own thread.
StartTool ==
    /\ reader = "reading"
    /\ stdout # <<>>
    /\ Head(stdout).kind = "tool"
    /\ reader' = "in tool"
    /\ UNCHANGED <<call, watchdog, waiter, active, events, requests, stdout, theirs>>

ToolReturns ==
    /\ reader = "in tool"
    /\ stdout # <<>>
    /\ stdout' = Tail(stdout)
    /\ reader' = "reading"
    /\ UNCHANGED <<call, watchdog, waiter, active, events, requests, theirs>>

ReaderStep == ReadLine \/ StartTool \/ ToolReturns

\* End of file, a line too long or not JSON, or a tool answer that cannot be
\* written: _fail_waiters, and no reader after that.
ReaderDies ==
    /\ reader # "gone"
    /\ reader' = "gone"
    /\ waiter' = [r \in Request |->
                    IF waiter[r] = "waiting" THEN "eof" ELSE waiter[r]]
    /\ stdout' = <<>>
    /\ UNCHANGED <<call, watchdog, active, events, requests, theirs>>

-----------------------------------------------------------------------------
(* The app server, as the code uses it *)

Respond(r, result) == [kind |-> "response", id |-> r, result |-> result]
Notify(t) == [kind |-> "notification", turn |-> t]

\* What nobody will read is not kept.
Emit(lines) == stdout' = IF reader = "gone" THEN stdout ELSE stdout \o lines

ServerStarts(q) ==
    /\ q.interrupts = NoTurn
    /\ \/ /\ turn' = [turn EXCEPT ![q.id[2]] = "running"]
          /\ Emit(<<Respond(q.id, "ok")>>)
       \/ /\ Emit(<<Respond(q.id, "error")>>)
          /\ UNCHANGED turn

\* A turn that still runs is interrupted and says so, before or after the
\* answer; the interruption of any other is refused.
ServerInterrupts(q) ==
    /\ q.interrupts # NoTurn
    /\ LET t == q.interrupts
           yes == Respond(q.id, "ok")
           note == Notify(t)
       IN  IF turn[t] \in {"running", "answered"}
           THEN /\ turn' = [turn EXCEPT ![t] = "ended"]
                /\ \E both \in {<<yes, note>>, <<note, yes>>} : Emit(both)
           ELSE /\ Emit(<<Respond(q.id, "error")>>)
                /\ UNCHANGED turn

ServerReads ==
    /\ \E q \in requests :
         /\ ServerStarts(q) \/ ServerInterrupts(q)
         /\ requests' = requests \ {q}
    /\ UNCHANGED <<ours, tools>>

\* item/completed with the final answer already completes the turn for Ariad.
FinalAnswer(t) ==
    /\ turn[t] = "running"
    /\ turn' = [turn EXCEPT ![t] = "answered"]
    /\ Emit(<<Notify(t)>>)
    /\ UNCHANGED <<ours, requests, tools>>

\* turn/completed, whatever its status.
TurnCompleted(t) ==
    /\ turn[t] \in {"running", "answered"}
    /\ turn' = [turn EXCEPT ![t] = "ended"]
    /\ Emit(<<Notify(t)>>)
    /\ UNCHANGED <<ours, requests, tools>>

CallsTool(t) ==
    /\ turn[t] = "running"
    /\ tools < MaxTools
    /\ tools' = tools + 1
    /\ Emit(<<[kind |-> "tool", turn |-> t]>>)
    /\ UNCHANGED <<ours, requests, turn>>

ServerStep == ServerReads \/ \E t \in Call : FinalAnswer(t) \/ TurnCompleted(t) \/ CallsTool(t)

-----------------------------------------------------------------------------

Next ==
    \/ \E n \in Call : StartTurn(n) \/ CancelTurn(n) \/ CallStep(n) \/ WatchdogStep(n)
    \/ ReaderStep \/ ReaderDies
    \/ ServerStep

Spec == Init /\ [][Next]_vars

\* Threads of this process run, their waits time out and a tool returns;
\* nothing is asked of the clients or of the app server.
Fairness ==
    /\ \A n \in Call : WF_vars(CallStep(n)) /\ WF_vars(WatchdogStep(n))
    /\ WF_vars(ReaderStep)

FairSpec == Spec /\ Fairness

-----------------------------------------------------------------------------
(* Properties *)

\* Every variable has a value the code can give it, and the active turn is one
\* the app server made and start_turn announces.
TypeOK ==
    /\ call \in [Call -> {"none", "starting", "announcing", "cancelling", "done"}]
    /\ watchdog \in [Call -> {"none", "asleep", "due", "interrupting", "done", "dead"}]
    /\ waiter \in [Request -> {"none", "waiting", "ok", "error", "eof"}]
    /\ active \in Call \union {NoTurn}
    /\ events \in [Call -> Seq(EventType)]
    /\ reader \in {"reading", "in tool", "gone"}
    /\ requests \subseteq RequestLine
    /\ stdout \in Seq(Line)
    /\ turn \in [Call -> {"none", "running", "answered", "ended"}]
    /\ tools \in 0..MaxTools
    /\ active # NoTurn => turn[active] # "none" /\ call[active] \in {"announcing", "done"}

Ended(t) == \E i \in DOMAIN events[t] : events[t][i] = "turn_ended"
Started(t) == \E i \in DOMAIN events[t] : events[t][i] = "turn_started"

\* A turn ends once: of its final answer, its completion, its interruption and
\* its watchdog, which race, one records an end (the guard of _append_event).
OneEnd ==
    \A t \in Call : \A i, j \in DOMAIN events[t] :
        events[t][i] = "turn_ended" /\ events[t][j] = "turn_ended" => i = j

\* The end of turn t is among the lines.
EndIn(lines, t) ==
    \E i \in DOMAIN lines : lines[i].kind = "notification" /\ lines[i].turn = t

\* The active turn is never left to itself while the reader lives: its start
\* is being announced, its watchdog will act, or its end is on its way.
Attended ==
    active # NoTurn /\ reader # "gone" =>
        \/ call[active] = "announcing"
        \/ watchdog[active] \in {"asleep", "due", "interrupting"}
        \/ EndIn(stdout, active)

\* A turn is active for a bounded time, even if the app server falls silent,
\* unless the reader stopped under its watchdog's interrupt.  It rests on an app
\* server that follows an interrupt it grants with turn/completed, as one that
\* grants it and never does leaves the turn active (_turn_watchdog has no other end).
TurnsEnd ==
    \A t \in Call :
        active = t ~> \/ active # t
                      \/ reader = "gone" /\ watchdog[t] \in {"dead", "done"}

\* "Own one ephemeral Codex thread with at most one active turn."
OneActiveTurn ==
    \A t, u \in Call : Started(t) /\ ~Ended(t) /\ Started(u) /\ ~Ended(u) => t = u
============================================================================
