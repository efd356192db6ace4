---------------------- MODULE CodexConversationProofs ----------------------
(***************************************************************************)
(* Theorems about LocalCodexConversation for any number of calls and tool  *)
(* calls, and any order of the app server's steps.                         *)
(*                                                                         *)
(* Types and the active turn.  An "ok" for a turn/start names a turn the   *)
(* app server made; the argument follows it from the request through the   *)
(* line to the waiter (StartsAreTrue).                                     *)
(*                                                                         *)
(* One end.  A turn that has ended is past its start and is not active     *)
(* (EndedIsOver); it can only become active in TurnStarted, from a call    *)
(* that is still starting, so no second end is recorded.                   *)
(*                                                                         *)
(* Attendance.  A watchdog leaves its turn active only after an "ok", and  *)
(* the end of the turn then precedes or follows that "ok" on the pipe      *)
(* (OkMeansEnd).                                                           *)
(***************************************************************************)
EXTENDS CodexConversation, SequenceTheorems, TLAPS

Past == {"announcing", "done"}

StartsAreTrue ==
    /\ \A q \in requests :
         q.interrupts # NoTurn /\ q.id[1] = "call" => call[q.id[2]] \in {"cancelling", "done"}
    /\ \A i \in DOMAIN stdout :
         stdout[i].kind = "response" /\ stdout[i].result = "ok" /\ stdout[i].id[1] = "call"
             => \/ turn[stdout[i].id[2]] # "none"
                \/ call[stdout[i].id[2]] \in {"cancelling", "done"}
    /\ \A n \in Call :
         call[n] = "starting" /\ waiter[<<"call", n>>] = "ok" => turn[n] # "none"

EndedIsOver == \A t \in Call : Ended(t) => active # t /\ call[t] \in Past

IInv == TypeOK /\ StartsAreTrue /\ EndedIsOver /\ OneEnd

-----------------------------------------------------------------------------
(* Lemmas about the operators *)

LEMMA NoTurnIsNoCall == NoTurn \notin Call
  BY DEF NoTurn, Call

\* A line is of the set its kind names.
LEMMA KindOfLine ==
    ASSUME NEW m \in Line
    PROVE  /\ m.kind \in {"response", "notification", "tool"}
           /\ m.kind = "response" => m \in Response
           /\ m.kind = "notification" => m \in Notification
           /\ m.kind = "tool" => m \in ToolCall
  BY DEF Line, Response, Notification, ToolCall

\* The lines the app server writes are lines.
LEMMA WrittenLines ==
    /\ \A r \in Request, result \in {"ok", "error"} : Respond(r, result) \in Response
    /\ \A t \in Call : /\ Notify(t) \in Notification
                       /\ [kind |-> "tool", turn |-> t] \in ToolCall
  BY DEF Respond, Notify, Response, Notification, ToolCall

\* A response on the way names a request.
LEMMA OkLines ==
    ASSUME TypeOK
    PROVE  \A i \in DOMAIN stdout :
             stdout[i].kind = "response"
                 => /\ stdout[i].id \in Request
                    /\ stdout[i].id[1] \in {"call", "watch"} /\ stdout[i].id[2] \in Call
                    /\ stdout[i].result \in {"ok", "error"}
  <1> SUFFICES ASSUME NEW i \in DOMAIN stdout, stdout[i].kind = "response"
               PROVE  /\ stdout[i].id \in Request
                      /\ stdout[i].id[1] \in {"call", "watch"} /\ stdout[i].id[2] \in Call
                      /\ stdout[i].result \in {"ok", "error"}
    OBVIOUS
  <1>1. stdout[i] \in Line
    <2>1. stdout \in Seq(Line)
      BY DEF TypeOK
    <2>2. i \in 1..Len(stdout)
      BY <2>1, LenProperties
    <2> QED BY <2>1, <2>2, ElementOfSeq
  <1>2. stdout[i] \in Response
    BY <1>1, KindOfLine
  <1> QED BY <1>2 DEF Response, Request

\* A request on the way names the call or the watchdog that sent it.
LEMMA RequestsNamed ==
    ASSUME TypeOK, NEW q \in requests
    PROVE  /\ q.id \in Request /\ q.id[1] \in {"call", "watch"} /\ q.id[2] \in Call
           /\ q.interrupts \in Call \union {NoTurn}
  <1>1. q \in RequestLine
    BY DEF TypeOK
  <1>2. q.id \in Request /\ q.interrupts \in Call \union {NoTurn}
    BY <1>1 DEF RequestLine
  <1> QED BY <1>2 DEF Request

\* AppendEvent keeps the types, and touches the active turn only to free it.
LEMMA AppendEventTypes ==
    ASSUME events \in [Call -> Seq(EventType)], active \in Call \union {NoTurn},
           NEW t \in Call, NEW type \in EventType, AppendEvent(type, t)
    PROVE  /\ events' \in [Call -> Seq(EventType)]
           /\ active' \in {active, NoTurn}
  <1>1. Append(events[t], type) \in Seq(EventType)
    BY AppendProperties
  <1> QED BY <1>1 DEF AppendEvent

\* AppendEvent never gives a turn its second end.
LEMMA AppendEventEnds ==
    ASSUME events \in [Call -> Seq(EventType)], active \in Call \union {NoTurn},
           EndedIsOver, OneEnd, active # NoTurn => call[active] \in Past,
           \A t \in Call : call[t] \in Past => call'[t] \in Past,
           NEW t \in Call, NEW type \in EventType, AppendEvent(type, t)
    PROVE  EndedIsOver' /\ OneEnd'
  <1>1. CASE type = "turn_ended" /\ active # t
    BY <1>1 DEF AppendEvent, EndedIsOver, OneEnd, Ended
  <1>2. CASE ~(type = "turn_ended" /\ active # t)
    <2>1. /\ events' = [events EXCEPT ![t] = Append(@, type)]
          /\ active' = IF type = "turn_ended" THEN NoTurn ELSE active
      BY <1>2 DEF AppendEvent
    <2>2. /\ DOMAIN events'[t] = 1..(Len(events[t]) + 1)
          /\ \A i \in 1..Len(events[t]) : events'[t][i] = events[t][i]
          /\ events'[t][Len(events[t]) + 1] = type
          /\ DOMAIN events[t] = 1..Len(events[t])
          /\ Len(events[t]) \in Nat
      BY <2>1, AppendProperties
    <2>3. \A u \in Call : u # t => events'[u] = events[u]
      BY <2>1
    <2>4. \A u \in Call : Ended(u)' => Ended(u) \/ (u = t /\ type = "turn_ended")
      <3> SUFFICES ASSUME NEW u \in Call, Ended(u)', ~Ended(u)
                   PROVE  u = t /\ type = "turn_ended"
        OBVIOUS
      <3>1. u = t
        BY <2>3 DEF Ended
      <3> QED BY <3>1, <2>2 DEF Ended
    <2>5. EndedIsOver'
      <3> SUFFICES ASSUME NEW u \in Call, Ended(u)'
                   PROVE  active' # u /\ call'[u] \in Past
        BY DEF EndedIsOver
      <3>1. CASE Ended(u)
        BY <3>1, <2>1, NoTurnIsNoCall DEF EndedIsOver
      <3>2. CASE u = t /\ type = "turn_ended"
        BY <3>2, <2>1, <1>2, NoTurnIsNoCall
      <3> QED BY <2>4, <3>1, <3>2
    <2>6. OneEnd'
      <3> SUFFICES ASSUME NEW u \in Call, NEW i \in DOMAIN events'[u], NEW j \in DOMAIN events'[u],
                          events'[u][i] = "turn_ended", events'[u][j] = "turn_ended"
                   PROVE  i = j
        BY DEF OneEnd
      <3>1. CASE u # t
        BY <3>1, <2>3 DEF OneEnd
      <3>2. CASE u = t
        <4>1. type = "turn_ended" => ~Ended(t)
          BY <1>2 DEF EndedIsOver
        <4>2. i \in 1..(Len(events[t]) + 1) /\ j \in 1..(Len(events[t]) + 1)
          BY <3>2, <2>2
        <4>3. CASE type = "turn_ended"
          BY <4>1, <4>2, <4>3, <2>2, <3>2 DEF Ended
        <4>4. CASE type # "turn_ended"
          BY <4>2, <4>4, <2>2, <3>2 DEF OneEnd
        <4> QED BY <4>3, <4>4
      <3> QED BY <3>1, <3>2
    <2> QED BY <2>5, <2>6
  <1> QED BY <1>1, <1>2

\* A step that records nothing and activates nothing keeps the ends.
LEMMA NothingEnds ==
    ASSUME EndedIsOver, OneEnd, UNCHANGED <<active, events>>,
           \A t \in Call : call[t] \in Past => call'[t] \in Past
    PROVE  EndedIsOver' /\ OneEnd'
  BY DEF EndedIsOver, OneEnd, Ended

-----------------------------------------------------------------------------
(* The inductive invariant *)

LEMMA InitInv == Init => IInv
  <1> SUFFICES ASSUME Init PROVE IInv
    OBVIOUS
  <1>1. TypeOK
    BY BoundsAssumption, EmptySeq DEF Init, TypeOK, Call, NoTurn
  <1>2. StartsAreTrue
    BY DEF Init, StartsAreTrue, Call, Request
  <1>3. EndedIsOver /\ OneEnd
    BY DEF Init, EndedIsOver, OneEnd, Ended
  <1> QED BY <1>1, <1>2, <1>3 DEF IInv

\* Sending and forgetting a request keep the type of the waiters.
LEMMA SendTypes ==
    ASSUME TypeOK, NEW n \in Call, NEW who \in {"call", "watch"},
           NEW t \in Call \union {NoTurn}, Send(<<who, n>>, t)
    PROVE  /\ waiter' \in [Request -> {"none", "waiting", "ok", "error", "eof"}]
           /\ requests' \subseteq RequestLine
           /\ requests' = requests \union {[id |-> <<who, n>>, interrupts |-> t]}
           /\ \A r \in Request :
                 waiter'[r] = IF r = <<who, n>> THEN "waiting" ELSE waiter[r]
  <1>1. <<who, n>> \in Request
    BY DEF Request
  <1>2. waiter \in [Request -> {"none", "waiting", "ok", "error", "eof"}] /\ requests \subseteq RequestLine
    BY DEF TypeOK
  <1>3. waiter' = [waiter EXCEPT ![<<who, n>>] = "waiting"]
    BY DEF Send
  <1>4. requests' = requests \union {[id |-> <<who, n>>, interrupts |-> t]}
    BY DEF Send
  <1>5. [id |-> <<who, n>>, interrupts |-> t] \in RequestLine
    BY <1>1 DEF RequestLine
  <1>6. requests' \subseteq RequestLine
    BY <1>2, <1>4, <1>5
  <1> QED BY <1>1, <1>2, <1>3, <1>4, <1>6

LEMMA ForgetTypes ==
    ASSUME TypeOK, NEW n \in Call, NEW who \in {"call", "watch"}, Forget(<<who, n>>)
    PROVE  /\ waiter' \in [Request -> {"none", "waiting", "ok", "error", "eof"}]
           /\ \A r \in Request :
                 waiter'[r] = IF r = <<who, n>> THEN "none" ELSE waiter[r]
  <1>1. <<who, n>> \in Request
    BY DEF Request
  <1>2. waiter \in [Request -> {"none", "waiting", "ok", "error", "eof"}]
    BY DEF TypeOK
  <1> QED BY <1>1, <1>2 DEF Forget

-----------------------------------------------------------------------------
(* Steps of the calls *)

LEMMA StartTurnInv ==
    ASSUME IInv, NEW n \in Call, StartTurn(n)
    PROVE  IInv'
  <1> USE DEF IInv
  <1>1. /\ call[n] = "none"
        /\ call' = [call EXCEPT ![n] = "starting"]
        /\ Send(<<"call", n>>, NoTurn)
        /\ UNCHANGED <<watchdog, active, events, reader, stdout, turn, tools>>
    BY DEF StartTurn, IsNext, theirs
  <1>2. /\ waiter' \in [Request -> {"none", "waiting", "ok", "error", "eof"}]
        /\ requests' \subseteq RequestLine
        /\ requests' = requests \union {[id |-> <<"call", n>>, interrupts |-> NoTurn]}
        /\ \A r \in Request :
              waiter'[r] = IF r = <<"call", n>> THEN "waiting" ELSE waiter[r]
    BY <1>1, SendTypes
  <1>3. TypeOK'
    BY <1>1, <1>2 DEF TypeOK
  <1>4. \A m \in Call : /\ m # n => call'[m] = call[m]
                        /\ call[m] \in Past \union {"cancelling"} => call'[m] = call[m]
    BY <1>1 DEF TypeOK, Past
  <1>5. StartsAreTrue'
    <2>1. \A q \in requests' :
            q.interrupts # NoTurn /\ q.id[1] = "call" => call'[q.id[2]] \in {"cancelling", "done"}
      <3> SUFFICES ASSUME NEW q \in requests', q.interrupts # NoTurn, q.id[1] = "call"
                   PROVE  call'[q.id[2]] \in {"cancelling", "done"}
        OBVIOUS
      <3>1. q \in requests
        BY <1>2
      <3>2. call[q.id[2]] \in {"cancelling", "done"} /\ q.id[2] \in Call
        BY <3>1, RequestsNamed DEF StartsAreTrue
      <3> QED BY <3>2, <1>4 DEF Past
    <2>2. \A i \in DOMAIN stdout' :
            stdout'[i].kind = "response" /\ stdout'[i].result = "ok" /\ stdout'[i].id[1] = "call"
             => \/ turn'[stdout'[i].id[2]] # "none"
                \/ call'[stdout'[i].id[2]] \in {"cancelling", "done"}
      BY <1>1, <1>4, OkLines DEF StartsAreTrue, Past
    <2>3. \A m \in Call :
            call'[m] = "starting" /\ waiter'[<<"call", m>>] = "ok" => turn'[m] # "none"
      BY <1>1, <1>2, <1>4 DEF StartsAreTrue, Request
    <2> QED BY <2>1, <2>2, <2>3 DEF StartsAreTrue
  <1>6. EndedIsOver' /\ OneEnd'
    BY <1>1, <1>4, NothingEnds
  <1> QED BY <1>3, <1>5, <1>6

\* A step that sends nothing, writes no response and moves calls forward keeps
\* StartsAreTrue.
LEMMA StartsStay ==
    ASSUME TypeOK, StartsAreTrue,
           requests' \subseteq requests,
           \A i \in DOMAIN stdout' :
              stdout'[i].kind # "response" \/ \E j \in DOMAIN stdout : stdout'[i] = stdout[j],
           \A m \in Call : turn[m] # "none" => turn'[m] # "none",
           \A m \in Call : call[m] \in {"cancelling", "done"} => call'[m] \in {"cancelling", "done"},
           \A m \in Call : call'[m] = "starting" /\ waiter'[<<"call", m>>] = "ok"
                             => call[m] = "starting" /\ waiter[<<"call", m>>] = "ok"
    PROVE  StartsAreTrue'
  <1>1. \A q \in requests' :
          q.interrupts # NoTurn /\ q.id[1] = "call" => call'[q.id[2]] \in {"cancelling", "done"}
    BY RequestsNamed DEF StartsAreTrue
  <1>2. ASSUME NEW i \in DOMAIN stdout',
               stdout'[i].kind = "response", stdout'[i].result = "ok", stdout'[i].id[1] = "call"
        PROVE  \/ turn'[stdout'[i].id[2]] # "none"
               \/ call'[stdout'[i].id[2]] \in {"cancelling", "done"}
    <2>1. PICK j \in DOMAIN stdout : stdout'[i] = stdout[j]
      BY <1>2
    <2> QED BY <1>2, <2>1, OkLines DEF StartsAreTrue
  <1>3. \A m \in Call :
          call'[m] = "starting" /\ waiter'[<<"call", m>>] = "ok" => turn'[m] # "none"
    BY DEF StartsAreTrue
  <1> QED BY <1>1, <1>2, <1>3 DEF StartsAreTrue

LEMMA TurnStartedInv ==
    ASSUME IInv, NEW n \in Call, TurnStarted(n)
    PROVE  IInv'
  <1> USE DEF IInv
  <1>1. /\ call[n] = "starting"
        /\ waiter[<<"call", n>>] = "ok"
        /\ Forget(<<"call", n>>)
        /\ active' = n
        /\ call' = [call EXCEPT ![n] = "announcing"]
        /\ UNCHANGED <<watchdog, events, reader, requests, stdout, turn, tools>>
    BY DEF TurnStarted, theirs
  <1>2. /\ waiter' \in [Request -> {"none", "waiting", "ok", "error", "eof"}]
        /\ \A r \in Request :
              waiter'[r] = IF r = <<"call", n>> THEN "none" ELSE waiter[r]
    BY <1>1, ForgetTypes
  <1>3. turn[n] # "none"
    BY <1>1 DEF StartsAreTrue
  <1>4. TypeOK'
    BY <1>1, <1>2, <1>3 DEF TypeOK
  <1>5. StartsAreTrue'
    BY <1>1, <1>2, StartsStay DEF TypeOK, Request
  <1>6. ~Ended(n)
    BY <1>1 DEF EndedIsOver, Past
  <1>7. EndedIsOver' /\ OneEnd'
    <2>1. \A t \in Call : Ended(t)' <=> Ended(t)
      BY <1>1 DEF Ended
    <2>2. \A t \in Call : call[t] \in Past => call'[t] \in Past
      BY <1>1 DEF TypeOK, Past
    <2>3. EndedIsOver'
      BY <1>1, <1>6, <2>1, <2>2 DEF EndedIsOver
    <2>4. OneEnd'
      BY <1>1 DEF OneEnd
    <2> QED BY <2>3, <2>4
  <1> QED BY <1>4, <1>5, <1>7

LEMMA AnnounceInv ==
    ASSUME IInv, NEW n \in Call, Announce(n)
    PROVE  IInv'
  <1> USE DEF IInv
  <1>1. /\ call[n] = "announcing"
        /\ AppendEvent("turn_started", n)
        /\ watchdog' = [watchdog EXCEPT ![n] = "asleep"]
        /\ call' = [call EXCEPT ![n] = "done"]
        /\ UNCHANGED <<waiter, reader, requests, stdout, turn, tools>>
    BY DEF Announce, theirs
  <1>2. /\ events' \in [Call -> Seq(EventType)]
        /\ active' \in {active, NoTurn}
    BY <1>1, AppendEventTypes DEF TypeOK, EventType
  <1>3. TypeOK'
    BY <1>1, <1>2 DEF TypeOK
  <1>4. StartsAreTrue'
    BY <1>1, StartsStay DEF TypeOK
  <1>5. EndedIsOver' /\ OneEnd'
    BY <1>1, AppendEventEnds DEF TypeOK, EventType, Past
  <1> QED BY <1>3, <1>4, <1>5

LEMMA CancelTurnInv ==
    ASSUME IInv, NEW n \in Call, CancelTurn(n)
    PROVE  IInv'
  <1> USE DEF IInv
  <1>1. /\ call[n] = "none"
        /\ active \in Call
        /\ call' = [call EXCEPT ![n] = "cancelling"]
        /\ Send(<<"call", n>>, active)
        /\ UNCHANGED <<watchdog, active, events, reader, stdout, turn, tools>>
    BY DEF CancelTurn, IsNext, theirs, TypeOK
  <1>2. /\ waiter' \in [Request -> {"none", "waiting", "ok", "error", "eof"}]
        /\ requests' \subseteq RequestLine
        /\ requests' = requests \union {[id |-> <<"call", n>>, interrupts |-> active]}
        /\ \A r \in Request :
              waiter'[r] = IF r = <<"call", n>> THEN "waiting" ELSE waiter[r]
    BY <1>1, SendTypes
  <1>3. TypeOK'
    BY <1>1, <1>2 DEF TypeOK
  <1>4. \A m \in Call : /\ m # n => call'[m] = call[m]
                        /\ call[m] \in Past \union {"cancelling"} => call'[m] = call[m]
    BY <1>1 DEF TypeOK, Past
  <1>5. StartsAreTrue'
    <2>1. \A q \in requests' :
            q.interrupts # NoTurn /\ q.id[1] = "call" => call'[q.id[2]] \in {"cancelling", "done"}
      <3> SUFFICES ASSUME NEW q \in requests', q.interrupts # NoTurn, q.id[1] = "call"
                   PROVE  call'[q.id[2]] \in {"cancelling", "done"}
        OBVIOUS
      <3>1. CASE q \in requests
        <4>1. call[q.id[2]] \in {"cancelling", "done"} /\ q.id[2] \in Call
          BY <3>1, RequestsNamed DEF StartsAreTrue
        <4> QED BY <4>1, <1>4 DEF Past
      <3>2. CASE q = [id |-> <<"call", n>>, interrupts |-> active]
        BY <3>2, <1>1 DEF TypeOK
      <3> QED BY <3>1, <3>2, <1>2
    <2>2. \A i \in DOMAIN stdout' :
            stdout'[i].kind = "response" /\ stdout'[i].result = "ok" /\ stdout'[i].id[1] = "call"
             => \/ turn'[stdout'[i].id[2]] # "none"
                \/ call'[stdout'[i].id[2]] \in {"cancelling", "done"}
      BY <1>1, <1>4, OkLines DEF StartsAreTrue, Past
    <2>3. \A m \in Call :
            call'[m] = "starting" /\ waiter'[<<"call", m>>] = "ok" => turn'[m] # "none"
      BY <1>1, <1>2, <1>4 DEF StartsAreTrue, Request
    <2> QED BY <2>1, <2>2, <2>3 DEF StartsAreTrue
  <1>6. EndedIsOver' /\ OneEnd'
    BY <1>1, <1>4, NothingEnds
  <1> QED BY <1>3, <1>5, <1>6

LEMMA CallReturnsInv ==
    ASSUME IInv, NEW n \in Call, CallReturns(n)
    PROVE  IInv'
  <1> USE DEF IInv
  <1>1. /\ call[n] \in {"cancelling", "starting"}
        /\ Forget(<<"call", n>>)
        /\ call' = [call EXCEPT ![n] = "done"]
        /\ UNCHANGED <<watchdog, active, events, reader, requests, stdout, turn, tools>>
    BY DEF CallReturns, theirs
  <1>2. /\ waiter' \in [Request -> {"none", "waiting", "ok", "error", "eof"}]
        /\ \A r \in Request :
              waiter'[r] = IF r = <<"call", n>> THEN "none" ELSE waiter[r]
    BY <1>1, ForgetTypes
  <1>3. TypeOK'
    BY <1>1, <1>2 DEF TypeOK
  <1>4. StartsAreTrue'
    BY <1>1, <1>2, StartsStay DEF TypeOK, Request
  <1>5. EndedIsOver' /\ OneEnd'
    BY <1>1, NothingEnds DEF TypeOK, Past
  <1> QED BY <1>3, <1>4, <1>5

-----------------------------------------------------------------------------
(* Steps of the watchdogs *)

LEMMA WakeInv ==
    ASSUME IInv, NEW t \in Call, Wake(t)
    PROVE  IInv'
  <1> USE DEF IInv
  <1>1. /\ watchdog' = [watchdog EXCEPT ![t] = IF active = t THEN "due" ELSE "done"]
        /\ UNCHANGED <<call, waiter, active, events, reader, requests, stdout, turn, tools>>
    BY DEF Wake, theirs
  <1>2. TypeOK'
    BY <1>1 DEF TypeOK
  <1>3. StartsAreTrue'
    BY <1>1, StartsStay
  <1>4. EndedIsOver' /\ OneEnd'
    BY <1>1, NothingEnds
  <1> QED BY <1>2, <1>3, <1>4

LEMMA WatchdogInterruptsInv ==
    ASSUME IInv, NEW t \in Call, WatchdogInterrupts(t)
    PROVE  IInv'
  <1> USE DEF IInv
  <1>1. UNCHANGED <<call, active, events, reader, stdout, turn, tools>>
    BY DEF WatchdogInterrupts, theirs
  <1>2. EndedIsOver' /\ OneEnd'
    BY <1>1, NothingEnds
  <1>3. CASE active = NoTurn
    <2>1. /\ watchdog' = [watchdog EXCEPT ![t] = "done"]
          /\ UNCHANGED <<waiter, requests>>
      BY <1>3 DEF WatchdogInterrupts
    <2>2. TypeOK'
      BY <1>1, <2>1 DEF TypeOK
    <2>3. StartsAreTrue'
      BY <1>1, <2>1, StartsStay
    <2> QED BY <1>2, <2>2, <2>3
  <1>4. CASE active # NoTurn
    <2>1. /\ watchdog' = [watchdog EXCEPT ![t] = "interrupting"]
          /\ Send(<<"watch", t>>, active)
      BY <1>4 DEF WatchdogInterrupts
    <2>2. /\ waiter' \in [Request -> {"none", "waiting", "ok", "error", "eof"}]
          /\ requests' \subseteq RequestLine
          /\ requests' = requests \union {[id |-> <<"watch", t>>, interrupts |-> active]}
          /\ \A r \in Request :
                waiter'[r] = IF r = <<"watch", t>> THEN "waiting" ELSE waiter[r]
      BY <2>1, SendTypes DEF TypeOK
    <2>3. TypeOK'
      BY <1>1, <2>1, <2>2 DEF TypeOK
    <2>4. \A q \in requests' :
            q.interrupts # NoTurn /\ q.id[1] = "call" => call'[q.id[2]] \in {"cancelling", "done"}
      BY <1>1, <2>2 DEF StartsAreTrue
    <2>5. \A m \in Call :
            call'[m] = "starting" /\ waiter'[<<"call", m>>] = "ok" => turn'[m] # "none"
      BY <1>1, <2>2 DEF StartsAreTrue, Request
    <2>6. StartsAreTrue'
      BY <1>1, <2>4, <2>5 DEF StartsAreTrue
    <2> QED BY <1>2, <2>3, <2>6
  <1> QED BY <1>3, <1>4

LEMMA WatchdogReturnsInv ==
    ASSUME IInv, NEW t \in Call, WatchdogReturns(t)
    PROVE  IInv'
  <1> USE DEF IInv
  <1>1. /\ Forget(<<"watch", t>>)
        /\ UNCHANGED <<call, reader, requests, stdout, turn, tools>>
    BY DEF WatchdogReturns, theirs
  <1>2. /\ waiter' \in [Request -> {"none", "waiting", "ok", "error", "eof"}]
        /\ \A r \in Request :
              waiter'[r] = IF r = <<"watch", t>> THEN "none" ELSE waiter[r]
    BY <1>1, ForgetTypes
  <1>3. \/ AppendEvent("turn_ended", t)
        \/ UNCHANGED <<active, events>>
    BY DEF WatchdogReturns, WatchdogAnswered, WatchdogFailsTurn, WatchdogRaises
  <1>4. \/ watchdog' = [watchdog EXCEPT ![t] = "done"]
        \/ watchdog' = [watchdog EXCEPT ![t] = "dead"]
    BY DEF WatchdogReturns, WatchdogAnswered, WatchdogFailsTurn, WatchdogRaises
  <1>5. /\ events' \in [Call -> Seq(EventType)]
        /\ active' \in {active, NoTurn}
    BY <1>3, AppendEventTypes DEF TypeOK, EventType
  <1>6. TypeOK'
    BY <1>1, <1>2, <1>4, <1>5 DEF TypeOK
  <1>7. StartsAreTrue'
    BY <1>1, <1>2, StartsStay DEF Request
  <1>8. EndedIsOver' /\ OneEnd'
    BY <1>1, <1>3, AppendEventEnds, NothingEnds DEF TypeOK, EventType, Past
  <1> QED BY <1>6, <1>7, <1>8

-----------------------------------------------------------------------------
(* Steps of the reader *)

\* What is left after a line was read are lines that were there before.
LEMMA TailOfLines ==
    ASSUME TypeOK, stdout # <<>>, stdout' = Tail(stdout)
    PROVE  /\ Head(stdout) \in Line
           /\ stdout' \in Seq(Line)
           /\ Head(stdout) = stdout[1] /\ 1 \in DOMAIN stdout
           /\ \A i \in DOMAIN stdout' : \E j \in DOMAIN stdout : stdout'[i] = stdout[j]
  <1>1. stdout \in Seq(Line)
    BY DEF TypeOK
  <1>2. Len(stdout) \in Nat /\ Len(stdout) # 0
    BY <1>1, EmptySeq, LenProperties
  <1>3. /\ Head(stdout) \in Line /\ Tail(stdout) \in Seq(Line)
        /\ Len(Tail(stdout)) = Len(stdout) - 1
        /\ \A i \in 1..(Len(stdout) - 1) : Tail(stdout)[i] = stdout[i + 1]
    BY <1>1, HeadTailProperties
  <1>4. ASSUME NEW i \in DOMAIN stdout'
        PROVE  i + 1 \in DOMAIN stdout /\ stdout'[i] = stdout[i + 1]
    BY <1>1, <1>2, <1>3, LenProperties
  <1> QED BY <1>1, <1>2, <1>3, <1>4

LEMMA ReadLineInv ==
    ASSUME IInv, ReadLine
    PROVE  IInv'
  <1> USE DEF IInv
  <1> DEFINE m == Head(stdout)
  <1>1. /\ stdout # <<>> /\ stdout' = Tail(stdout)
        /\ UNCHANGED <<call, watchdog, reader, requests, turn, tools>>
    BY DEF ReadLine, theirs
  <1>2. /\ m \in Line /\ m = stdout[1] /\ 1 \in DOMAIN stdout
        /\ stdout' \in Seq(Line)
        /\ \A i \in DOMAIN stdout' : \E j \in DOMAIN stdout : stdout'[i] = stdout[j]
    BY <1>1, TailOfLines
  <1> HIDE DEF m
  <1>3. CASE ReadResponse(m)
    <2>1. /\ m.kind = "response"
          /\ waiter' = IF waiter[m.id] = "waiting"
                       THEN [waiter EXCEPT ![m.id] = m.result] ELSE waiter
          /\ UNCHANGED <<active, events>>
      BY <1>3 DEF ReadResponse
    <2>2. m.id \in Request /\ m.result \in {"ok", "error"}
      BY <2>1, <1>2, OkLines
    <2>3. /\ waiter' \in [Request -> {"none", "waiting", "ok", "error", "eof"}]
          /\ \A r \in Request : waiter'[r] = waiter[r] \/ (r = m.id /\ waiter'[r] = m.result)
      <3>1. waiter \in [Request -> {"none", "waiting", "ok", "error", "eof"}]
        BY DEF TypeOK
      <3> QED BY <2>1, <2>2, <3>1
    <2>4. TypeOK'
      BY <1>1, <1>2, <2>1, <2>3 DEF TypeOK
    <2>5. ASSUME NEW n \in Call, call'[n] = "starting", waiter'[<<"call", n>>] = "ok"
          PROVE  turn'[n] # "none"
      <3>1. CASE waiter[<<"call", n>>] = "ok"
        BY <1>1, <2>5, <3>1 DEF StartsAreTrue
      <3>2. CASE waiter[<<"call", n>>] # "ok"
        <4>1. m.id = <<"call", n>> /\ m.result = "ok"
          BY <2>3, <2>5, <3>2 DEF Request
        <4>2. m.id[1] = "call" /\ m.id[2] = n
          BY <4>1
        <4>3. turn[n] # "none" \/ call[n] \in {"cancelling", "done"}
          BY <1>2, <2>1, <4>1, <4>2 DEF StartsAreTrue
        <4> QED BY <1>1, <2>5, <4>3
      <3> QED BY <3>1, <3>2
    <2>6. \A i \in DOMAIN stdout' :
            stdout'[i].kind = "response" /\ stdout'[i].result = "ok" /\ stdout'[i].id[1] = "call"
             => \/ turn'[stdout'[i].id[2]] # "none"
                \/ call'[stdout'[i].id[2]] \in {"cancelling", "done"}
      BY <1>1, <1>2 DEF StartsAreTrue
    <2>7. StartsAreTrue'
      BY <1>1, <2>5, <2>6 DEF StartsAreTrue
    <2>8. EndedIsOver' /\ OneEnd'
      BY <1>1, <2>1, NothingEnds
    <2> QED BY <2>4, <2>7, <2>8
  <1>4. CASE ReadNotification(m)
    <2>1. m.kind = "notification" /\ AppendEvent("turn_ended", m.turn) /\ UNCHANGED waiter
      BY <1>4 DEF ReadNotification
    <2>2. m.turn \in Call
      BY <2>1, <1>2, KindOfLine DEF Notification
    <2>3. /\ events' \in [Call -> Seq(EventType)]
          /\ active' \in {active, NoTurn}
      BY <2>1, <2>2, AppendEventTypes DEF TypeOK, EventType
    <2>4. TypeOK'
      BY <1>1, <1>2, <2>1, <2>3 DEF TypeOK
    <2>5. StartsAreTrue'
      BY <1>1, <1>2, <2>1, StartsStay
    <2>6. EndedIsOver' /\ OneEnd'
      BY <1>1, <2>1, <2>2, AppendEventEnds DEF TypeOK, EventType, Past
    <2> QED BY <2>4, <2>5, <2>6
  <1> QED BY <1>3, <1>4 DEF ReadLine, m

LEMMA StartToolInv ==
    ASSUME IInv, StartTool
    PROVE  IInv'
  <1> USE DEF IInv
  <1>1. /\ reader' = "in tool"
        /\ UNCHANGED <<call, watchdog, waiter, active, events, requests, stdout, turn, tools>>
    BY DEF StartTool, theirs
  <1>2. TypeOK'
    BY <1>1 DEF TypeOK
  <1>3. StartsAreTrue'
    BY <1>1, StartsStay
  <1>4. EndedIsOver' /\ OneEnd'
    BY <1>1, NothingEnds
  <1> QED BY <1>2, <1>3, <1>4

LEMMA ToolReturnsInv ==
    ASSUME IInv, ToolReturns
    PROVE  IInv'
  <1> USE DEF IInv
  <1>1. /\ stdout # <<>> /\ stdout' = Tail(stdout)
        /\ reader' = "reading"
        /\ UNCHANGED <<call, watchdog, waiter, active, events, requests, turn, tools>>
    BY DEF ToolReturns, theirs
  <1>2. /\ stdout' \in Seq(Line)
        /\ \A i \in DOMAIN stdout' : \E j \in DOMAIN stdout : stdout'[i] = stdout[j]
    BY <1>1, TailOfLines
  <1>3. TypeOK'
    BY <1>1, <1>2 DEF TypeOK
  <1>4. StartsAreTrue'
    BY <1>1, <1>2, StartsStay
  <1>5. EndedIsOver' /\ OneEnd'
    BY <1>1, NothingEnds
  <1> QED BY <1>3, <1>4, <1>5

LEMMA ReaderDiesInv ==
    ASSUME IInv, ReaderDies
    PROVE  IInv'
  <1> USE DEF IInv
  <1>1. /\ reader' = "gone"
        /\ waiter' = [r \in Request |->
                        IF waiter[r] = "waiting" THEN "eof" ELSE waiter[r]]
        /\ stdout' = <<>>
        /\ UNCHANGED <<call, watchdog, active, events, requests, turn, tools>>
    BY DEF ReaderDies, theirs
  <1>2. waiter' \in [Request -> {"none", "waiting", "ok", "error", "eof"}]
    BY <1>1 DEF TypeOK
  <1>3. stdout' \in Seq(Line) /\ DOMAIN stdout' = {}
    BY <1>1, EmptySeq
  <1>4. TypeOK'
    BY <1>1, <1>2, <1>3 DEF TypeOK
  <1>5. StartsAreTrue'
    BY <1>1, <1>3, StartsStay DEF Request
  <1>6. EndedIsOver' /\ OneEnd'
    BY <1>1, NothingEnds
  <1> QED BY <1>4, <1>5, <1>6

-----------------------------------------------------------------------------
(* Steps of the app server *)

\* Every line after lines were written was there or is one of them.
LEMMA EmittedLines ==
    ASSUME TypeOK, NEW lines \in Seq(Line), Emit(lines)
    PROVE  /\ stdout' \in Seq(Line)
           /\ \A i \in DOMAIN stdout' :
                \/ \E j \in DOMAIN stdout : stdout'[i] = stdout[j]
                \/ \E j \in DOMAIN lines : stdout'[i] = lines[j]
  <1>1. stdout \in Seq(Line)
    BY DEF TypeOK
  <1>2. CASE stdout' = stdout
    BY <1>1, <1>2
  <1>3. CASE stdout' = stdout \o lines
    <2>1. /\ stdout' \in Seq(Line)
          /\ Len(stdout') = Len(stdout) + Len(lines)
          /\ \A i \in 1..(Len(stdout) + Len(lines)) :
               stdout'[i] = IF i <= Len(stdout) THEN stdout[i] ELSE lines[i - Len(stdout)]
      BY <1>1, <1>3, ConcatProperties
    <2>2. Len(stdout) \in Nat /\ Len(lines) \in Nat
      BY <1>1, LenProperties
    <2>3. /\ DOMAIN stdout = 1..Len(stdout) /\ DOMAIN lines = 1..Len(lines)
          /\ DOMAIN stdout' = 1..Len(stdout')
      BY <1>1, <2>1, LenProperties
    <2>4. ASSUME NEW i \in DOMAIN stdout'
          PROVE  \/ \E j \in DOMAIN stdout : stdout'[i] = stdout[j]
                 \/ \E j \in DOMAIN lines : stdout'[i] = lines[j]
      <3>1. CASE i <= Len(stdout)
        BY <2>1, <2>2, <2>3, <2>4, <3>1
      <3>2. CASE ~(i <= Len(stdout))
        <4>1. i - Len(stdout) \in DOMAIN lines
          BY <2>1, <2>2, <2>3, <2>4, <3>2
        <4> QED BY <2>1, <2>2, <2>3, <2>4, <3>2, <4>1
      <3> QED BY <3>1, <3>2
    <2> QED BY <2>1, <2>4
  <1> QED BY <1>2, <1>3 DEF Emit

\* The app server keeps the invariant when what it writes is a line and an
\* "ok" to a turn/start names a turn it has made.
LEMMA ServerKeepsInv ==
    ASSUME IInv, NEW lines \in Seq(Line), Emit(lines),
           turn' \in [Call -> {"none", "running", "answered", "ended"}],
           \A t \in Call : turn[t] # "none" => turn'[t] # "none",
           requests' \subseteq requests, tools' \in 0..MaxTools,
           UNCHANGED <<call, watchdog, waiter, active, events, reader>>,
           \A j \in DOMAIN lines :
              lines[j].kind = "response" /\ lines[j].result = "ok" /\ lines[j].id[1] = "call"
                => \/ turn'[lines[j].id[2]] # "none"
                   \/ call[lines[j].id[2]] \in {"cancelling", "done"}
    PROVE  IInv'
  <1> USE DEF IInv
  <1>1. /\ stdout' \in Seq(Line)
        /\ \A i \in DOMAIN stdout' :
             \/ \E j \in DOMAIN stdout : stdout'[i] = stdout[j]
             \/ \E j \in DOMAIN lines : stdout'[i] = lines[j]
    BY EmittedLines
  <1>2. TypeOK'
    BY <1>1 DEF TypeOK
  <1>3. \A q \in requests' :
          q.interrupts # NoTurn /\ q.id[1] = "call" => call'[q.id[2]] \in {"cancelling", "done"}
    BY DEF StartsAreTrue
  <1>4. ASSUME NEW i \in DOMAIN stdout',
               stdout'[i].kind = "response", stdout'[i].result = "ok", stdout'[i].id[1] = "call"
        PROVE  \/ turn'[stdout'[i].id[2]] # "none"
               \/ call'[stdout'[i].id[2]] \in {"cancelling", "done"}
    <2>1. CASE \E j \in DOMAIN stdout : stdout'[i] = stdout[j]
      BY <1>4, <2>1, OkLines DEF StartsAreTrue
    <2>2. CASE \E j \in DOMAIN lines : stdout'[i] = lines[j]
      BY <1>4, <2>2
    <2> QED BY <1>1, <2>1, <2>2
  <1>5. StartsAreTrue'
    BY <1>3, <1>4 DEF StartsAreTrue
  <1>6. EndedIsOver' /\ OneEnd'
    BY NothingEnds
  <1> QED BY <1>2, <1>5, <1>6

\* A single line is a sequence of lines.
LEMMA OneLine ==
    ASSUME NEW m \in Line
    PROVE  /\ <<m>> \in Seq(Line)
           /\ DOMAIN <<m>> = {1} /\ <<m>>[1] = m
  OBVIOUS

LEMMA ServerReadsInv ==
    ASSUME IInv, ServerReads
    PROVE  IInv'
  <1> USE DEF IInv
  <1>1. PICK q \in requests : /\ ServerStarts(q) \/ ServerInterrupts(q)
                              /\ requests' = requests \ {q}
    BY DEF ServerReads
  <1>2. /\ q.id \in Request /\ q.id[2] \in Call
        /\ q.interrupts \in Call \union {NoTurn}
    BY RequestsNamed
  <1>3. /\ UNCHANGED <<call, watchdog, waiter, active, events, reader, tools>>
        /\ tools' \in 0..MaxTools
        /\ turn \in [Call -> {"none", "running", "answered", "ended"}]
    BY DEF ServerReads, ours, TypeOK
  <1> DEFINE yes == Respond(q.id, "ok")
             no == Respond(q.id, "error")
  <1>4. /\ yes \in Response /\ yes.id = q.id
        /\ no \in Response /\ no.result = "error"
    BY <1>2, WrittenLines DEF Respond
  <1>5. yes \in Line /\ no \in Line
    BY <1>4 DEF Line
  <1> HIDE DEF yes, no
  <1>6. CASE Emit(<<no>>) /\ turn' = turn
    <2>1. /\ <<no>> \in Seq(Line)
          /\ DOMAIN <<no>> = {1} /\ <<no>>[1] = no
      BY <1>5, OneLine
    <2> QED BY <1>1, <1>3, <1>4, <1>6, <2>1, ServerKeepsInv
  <1>7. CASE ServerStarts(q) /\ turn' = [turn EXCEPT ![q.id[2]] = "running"] /\ Emit(<<yes>>)
    <2>1. /\ <<yes>> \in Seq(Line)
          /\ DOMAIN <<yes>> = {1} /\ <<yes>>[1] = yes
      BY <1>5, OneLine
    <2>2. /\ turn' \in [Call -> {"none", "running", "answered", "ended"}]
          /\ turn'[q.id[2]] # "none"
          /\ \A t \in Call : turn[t] # "none" => turn'[t] # "none"
      BY <1>2, <1>3, <1>7
    <2>3. \A j \in DOMAIN <<yes>> : turn'[<<yes>>[j].id[2]] # "none"
      BY <1>4, <2>1, <2>2
    <2> QED BY <1>1, <1>3, <1>7, <2>1, <2>2, <2>3, ServerKeepsInv
  <1>8. ASSUME ServerInterrupts(q), turn[q.interrupts] \in {"running", "answered"}
        PROVE  IInv'
    <2> DEFINE t == q.interrupts
               note == Notify(t)
    <2>1. /\ t \in Call
          /\ turn' = [turn EXCEPT ![t] = "ended"]
          /\ \E both \in {<<yes, note>>, <<note, yes>>} : Emit(both)
      <3>1. t # NoTurn
        BY <1>8 DEF ServerInterrupts
      <3>2. /\ turn' = [turn EXCEPT ![t] = "ended"]
            /\ \E both \in {<<yes, note>>, <<note, yes>>} : Emit(both)
        BY <1>8, Zenon DEF ServerInterrupts, yes
      <3> QED BY <1>2, <3>1, <3>2
    <2>2. note \in Notification /\ note \in Line /\ note.kind = "notification"
      BY <2>1, WrittenLines DEF Line, Notification
    <2>3. PICK both \in {<<yes, note>>, <<note, yes>>} : Emit(both)
      BY <2>1
    <2> HIDE DEF t, note
    <2>4. /\ both \in Seq(Line)
          /\ \A j \in DOMAIN both : both[j] \in {yes, note}
      <3>1. CASE both = <<yes, note>>
        BY <1>5, <2>2, <3>1
      <3>2. CASE both = <<note, yes>>
        BY <1>5, <2>2, <3>2
      <3> QED BY <2>3, <3>1, <3>2
    <2>5. /\ turn' \in [Call -> {"none", "running", "answered", "ended"}]
          /\ \A u \in Call : turn[u] # "none" => turn'[u] # "none"
      BY <1>3, <2>1
    <2>6. q.id[1] = "call" => call[q.id[2]] \in {"cancelling", "done"}
      BY <1>8 DEF StartsAreTrue, ServerInterrupts
    <2>7. \A j \in DOMAIN both :
            both[j].kind = "response" /\ both[j].result = "ok" /\ both[j].id[1] = "call"
              => \/ turn'[both[j].id[2]] # "none"
                 \/ call[both[j].id[2]] \in {"cancelling", "done"}
      BY <1>4, <2>2, <2>4, <2>6
    <2> QED BY <1>1, <1>3, <2>3, <2>4, <2>5, <2>7, ServerKeepsInv
  <1> QED BY <1>1, <1>6, <1>7, <1>8 DEF ServerStarts, ServerInterrupts, yes, no

\* A notification or a tool call is no response.
LEMMA ServerSpeaksInv ==
    ASSUME IInv, NEW t \in Call, FinalAnswer(t) \/ TurnCompleted(t) \/ CallsTool(t)
    PROVE  IInv'
  <1> USE DEF IInv
  <1> DEFINE tool == [kind |-> "tool", turn |-> t]
  <1>1. PICK m \in {Notify(t), tool} : Emit(<<m>>)
    BY DEF FinalAnswer, TurnCompleted, CallsTool
  <1>2. m \in Line /\ m.kind # "response"
    BY WrittenLines DEF Line, Notification, ToolCall
  <1>3. /\ <<m>> \in Seq(Line)
        /\ DOMAIN <<m>> = {1} /\ <<m>>[1] = m
    BY <1>2, OneLine
  <1>4. turn \in [Call -> {"none", "running", "answered", "ended"}] /\ tools \in 0..MaxTools
    BY DEF TypeOK
  <1>5. /\ turn' \in [Call -> {"none", "running", "answered", "ended"}]
        /\ \A u \in Call : turn[u] # "none" => turn'[u] # "none"
    BY <1>4 DEF FinalAnswer, TurnCompleted, CallsTool
  <1>6. tools' \in 0..MaxTools
    BY <1>4, BoundsAssumption DEF FinalAnswer, TurnCompleted, CallsTool
  <1>7. UNCHANGED <<call, watchdog, waiter, active, events, reader, requests>>
    BY DEF FinalAnswer, TurnCompleted, CallsTool, ours
  <1> QED BY <1>1, <1>2, <1>3, <1>5, <1>6, <1>7, ServerKeepsInv

-----------------------------------------------------------------------------
(* Attendance: a watchdog that got its "ok" has the end of its turn before it *)

\* A watchdog is armed after the announcement, and asks once.
WatchdogsAskOnce ==
    /\ \A t \in Call : call[t] # "done" => watchdog[t] = "none"
    /\ \A t \in Call : watchdog[t] \in {"none", "asleep", "due"} =>
         /\ waiter[<<"watch", t>>] # "ok"
         /\ \A q \in requests : ~(q.id[1] = "watch" /\ q.id[2] = t)
         /\ \A i \in DOMAIN stdout :
              ~(stdout[i].kind = "response" /\ stdout[i].id[1] = "watch" /\ stdout[i].id[2] = t)

\* While its turn is active, what a watchdog asked is to interrupt that turn.
WatchdogsAskForTheirs ==
    \A q \in requests : q.id[1] = "watch" =>
        /\ q.interrupts # NoTurn
        /\ active = q.id[2] => q.interrupts = q.id[2]

\* An "ok" to a watchdog leaves the end of its turn on its way.
OkMeansEnd ==
    /\ \A i \in DOMAIN stdout :
         stdout[i].kind = "response" /\ stdout[i].result = "ok" /\ stdout[i].id[1] = "watch"
             => \/ active # stdout[i].id[2]
                \/ EndIn(stdout, stdout[i].id[2])
                \/ reader = "gone"
    /\ \A t \in Call :
         waiter[<<"watch", t>>] = "ok" => active # t \/ EndIn(stdout, t) \/ reader = "gone"

EofMeansGone == \A r \in Request : waiter[r] = "eof" => reader = "gone"

AInv == WatchdogsAskOnce /\ WatchdogsAskForTheirs /\ OkMeansEnd /\ EofMeansGone /\ Attended

\* A step that leaves the watchdogs, their requests and answers alone.
LEMMA QuietKeepsAInv ==
    ASSUME TypeOK, TypeOK', AInv,
           watchdog' = watchdog,
           active' \in {active, NoTurn},
           \A t \in Call : call[t] \in {"announcing", "done"} => call'[t] = call[t],
           \A q \in requests' : q \in requests \/ q.id[1] = "call",
           \A i \in DOMAIN stdout' :
              \/ stdout'[i].kind # "response"
              \/ stdout'[i].id[1] = "call"
              \/ \E j \in DOMAIN stdout : stdout'[i] = stdout[j],
           \A r \in Request : \/ waiter'[r] = waiter[r]
                              \/ waiter'[r] \in {"none", "waiting"}
                              \/ waiter'[r] = "eof" /\ reader' = "gone",
           reader = "gone" => reader' = "gone",
           \A t \in Call : active' = t /\ EndIn(stdout, t) => EndIn(stdout', t) \/ reader' = "gone"
    PROVE  AInv'
  <1>1. \A t \in Call : <<"watch", t>> \in Request
    BY DEF Request
  <1>2. WatchdogsAskOnce'
    <2>1. ASSUME NEW t \in Call, call'[t] # "done"
          PROVE  watchdog'[t] = "none"
      BY <2>1 DEF AInv, WatchdogsAskOnce
    <2>2. ASSUME NEW t \in Call, watchdog'[t] \in {"none", "asleep", "due"}
          PROVE  /\ waiter'[<<"watch", t>>] # "ok"
                 /\ \A q \in requests' : ~(q.id[1] = "watch" /\ q.id[2] = t)
                 /\ \A i \in DOMAIN stdout' :
                      ~(/\ stdout'[i].kind = "response"
                        /\ stdout'[i].id[1] = "watch" /\ stdout'[i].id[2] = t)
      <3>1. waiter'[<<"watch", t>>] # "ok"
        BY <1>1, <2>2 DEF AInv, WatchdogsAskOnce
      <3>2. \A q \in requests' : ~(q.id[1] = "watch" /\ q.id[2] = t)
        BY <2>2 DEF AInv, WatchdogsAskOnce
      <3>3. ASSUME NEW i \in DOMAIN stdout', stdout'[i].kind = "response",
                   stdout'[i].id[1] = "watch", stdout'[i].id[2] = t
            PROVE  FALSE
        <4>1. PICK j \in DOMAIN stdout : stdout'[i] = stdout[j]
          BY <3>3
        <4>2. ~(/\ stdout[j].kind = "response"
                /\ stdout[j].id[1] = "watch" /\ stdout[j].id[2] = t)
          BY <2>2 DEF AInv, WatchdogsAskOnce
        <4> QED BY <3>3, <4>1, <4>2
      <3> QED BY <3>1, <3>2, <3>3
    <2> QED BY <2>1, <2>2 DEF WatchdogsAskOnce
  <1>3. WatchdogsAskForTheirs'
    <2> SUFFICES ASSUME NEW q \in requests', q.id[1] = "watch"
                 PROVE  q.interrupts # NoTurn /\ (active' = q.id[2] => q.interrupts = q.id[2])
      BY DEF WatchdogsAskForTheirs
    <2>1. q \in requests
      OBVIOUS
    <2>2. q.id[2] # NoTurn
      BY <2>1, RequestsNamed, NoTurnIsNoCall
    <2> QED BY <2>1, <2>2 DEF AInv, WatchdogsAskForTheirs
  <1>4. OkMeansEnd'
    <2>1. ASSUME NEW i \in DOMAIN stdout', stdout'[i].kind = "response",
                 stdout'[i].result = "ok", stdout'[i].id[1] = "watch",
                 active' = stdout'[i].id[2], reader' # "gone"
          PROVE  EndIn(stdout', stdout'[i].id[2])
      <3>1. PICK j \in DOMAIN stdout : stdout'[i] = stdout[j]
        BY <2>1
      <3>2. stdout[j].id[2] \in Call
        BY <2>1, <3>1, OkLines
      <3>3. active = stdout[j].id[2]
        BY <2>1, <3>1, <3>2, NoTurnIsNoCall
      <3>4. EndIn(stdout, stdout[j].id[2])
        BY <2>1, <3>1, <3>3 DEF AInv, OkMeansEnd
      <3>5. EndIn(stdout', active')
        BY <2>1, <3>1, <3>2, <3>4
      <3> QED BY <2>1, <3>5
    <2>2. ASSUME NEW t \in Call, waiter'[<<"watch", t>>] = "ok", active' = t, reader' # "gone"
          PROVE  EndIn(stdout', t)
      <3>1. waiter[<<"watch", t>>] = "ok" /\ active = t
        BY <1>1, <2>2, NoTurnIsNoCall
      <3> QED BY <2>2, <3>1 DEF AInv, OkMeansEnd
    <2> QED BY <2>1, <2>2 DEF OkMeansEnd
  <1>5. EofMeansGone'
    BY DEF AInv, EofMeansGone
  <1>6. Attended'
    <2> SUFFICES ASSUME active' # NoTurn, reader' # "gone"
                 PROVE  \/ call'[active'] = "announcing"
                        \/ watchdog'[active'] \in {"asleep", "due", "interrupting"}
                        \/ EndIn(stdout', active')
      BY DEF Attended
    <2>1. active' = active /\ active \in Call
      BY DEF TypeOK
    <2>2. \/ call[active] = "announcing"
          \/ watchdog[active] \in {"asleep", "due", "interrupting"}
          \/ EndIn(stdout, active)
      BY <2>1, NoTurnIsNoCall DEF AInv, Attended
    <2> QED BY <2>1, <2>2
  <1> QED BY <1>2, <1>3, <1>4, <1>5, <1>6 DEF AInv


\* Reading a line loses the end of no turn but the one the line ends.
LEMMA TailKeepsEnds ==
    ASSUME TypeOK, stdout # <<>>, stdout' = Tail(stdout), NEW t \in Call,
           EndIn(stdout, t), ~(Head(stdout).kind = "notification" /\ Head(stdout).turn = t)
    PROVE  EndIn(stdout', t)
  <1>1. stdout \in Seq(Line)
    BY DEF TypeOK
  <1>2. Len(stdout) \in Nat /\ DOMAIN stdout = 1..Len(stdout) /\ Head(stdout) = stdout[1]
    BY <1>1, LenProperties, TailOfLines
  <1>3. PICK i \in DOMAIN stdout : stdout[i].kind = "notification" /\ stdout[i].turn = t
    BY DEF EndIn
  <1>4. i # 1
    BY <1>2, <1>3
  <1>5. /\ Len(stdout') = Len(stdout) - 1 /\ stdout' \in Seq(Line)
        /\ \A k \in 1..(Len(stdout) - 1) : stdout'[k] = stdout[k + 1]
    BY <1>1, HeadTailProperties
  <1>6. i - 1 \in DOMAIN stdout' /\ stdout'[i - 1] = stdout[i]
    BY <1>2, <1>4, <1>5, LenProperties
  <1> QED BY <1>3, <1>6 DEF EndIn

\* What was on its way stays on its way, and what is written joins it.
LEMMA EmitKeepsEnds ==
    ASSUME TypeOK, NEW lines \in Seq(Line), Emit(lines), reader # "gone", NEW t \in Call,
           EndIn(stdout, t) \/ EndIn(lines, t)
    PROVE  EndIn(stdout', t)
  <1>1. stdout \in Seq(Line) /\ stdout' = stdout \o lines
    BY DEF TypeOK, Emit
  <1>2. /\ stdout' \in Seq(Line)
        /\ Len(stdout') = Len(stdout) + Len(lines)
        /\ \A i \in 1..(Len(stdout) + Len(lines)) :
             stdout'[i] = IF i <= Len(stdout) THEN stdout[i] ELSE lines[i - Len(stdout)]
    BY <1>1, ConcatProperties
  <1>3. /\ Len(stdout) \in Nat /\ Len(lines) \in Nat
        /\ DOMAIN stdout = 1..Len(stdout) /\ DOMAIN lines = 1..Len(lines)
        /\ DOMAIN stdout' = 1..(Len(stdout) + Len(lines))
    BY <1>1, <1>2, LenProperties
  <1>4. CASE EndIn(stdout, t)
    <2>1. PICK i \in DOMAIN stdout : stdout[i].kind = "notification" /\ stdout[i].turn = t
      BY <1>4 DEF EndIn
    <2>2. i \in DOMAIN stdout' /\ stdout'[i] = stdout[i]
      BY <1>2, <1>3
    <2> QED BY <2>1, <2>2 DEF EndIn
  <1>5. CASE EndIn(lines, t)
    <2>1. PICK i \in DOMAIN lines : lines[i].kind = "notification" /\ lines[i].turn = t
      BY <1>5 DEF EndIn
    <2>2. i + Len(stdout) \in DOMAIN stdout' /\ stdout'[i + Len(stdout)] = lines[i]
      BY <1>2, <1>3
    <2> QED BY <2>1, <2>2 DEF EndIn
  <1> QED BY <1>4, <1>5

\* The app server answers requests it has read, and an "ok" to a watchdog comes
\* with the end of the turn it asked about.
LEMMA ServerKeepsAInv ==
    ASSUME TypeOK, AInv, NEW lines \in Seq(Line), Emit(lines),
           UNCHANGED <<call, watchdog, waiter, active, reader>>,
           requests' \subseteq requests,
           \A j \in DOMAIN lines : lines[j].kind = "response" =>
              \E q \in requests :
                 /\ lines[j].id = q.id
                 /\ lines[j].result = "ok" /\ q.id[1] = "watch" => EndIn(lines, q.interrupts)
    PROVE  AInv'
  <1>1. /\ stdout' \in Seq(Line)
        /\ \A i \in DOMAIN stdout' :
             \/ \E j \in DOMAIN stdout : stdout'[i] = stdout[j]
             \/ \E j \in DOMAIN lines : stdout'[i] = lines[j]
    BY EmittedLines
  <1>2. WatchdogsAskOnce'
    <2>1. ASSUME NEW t \in Call, watchdog[t] \in {"none", "asleep", "due"},
                 NEW i \in DOMAIN stdout', stdout'[i].kind = "response",
                 stdout'[i].id[1] = "watch", stdout'[i].id[2] = t
          PROVE  FALSE
      <3>1. CASE \E j \in DOMAIN stdout : stdout'[i] = stdout[j]
        <4>1. PICK j \in DOMAIN stdout : stdout'[i] = stdout[j]
          BY <3>1
        <4>2. ~(/\ stdout[j].kind = "response"
                /\ stdout[j].id[1] = "watch" /\ stdout[j].id[2] = t)
          BY <2>1 DEF AInv, WatchdogsAskOnce
        <4> QED BY <2>1, <4>1, <4>2
      <3>2. CASE \E j \in DOMAIN lines : stdout'[i] = lines[j]
        <4>1. PICK q \in requests : stdout'[i].id = q.id
          BY <2>1, <3>2
        <4>2. ~(q.id[1] = "watch" /\ q.id[2] = t)
          BY <2>1 DEF AInv, WatchdogsAskOnce
        <4> QED BY <2>1, <4>1, <4>2
      <3> QED BY <1>1, <3>1, <3>2
    <2> QED BY <2>1 DEF AInv, WatchdogsAskOnce
  <1>3. WatchdogsAskForTheirs'
    BY DEF AInv, WatchdogsAskForTheirs
  <1>4. OkMeansEnd'
    <2>1. ASSUME NEW i \in DOMAIN stdout', stdout'[i].kind = "response",
                 stdout'[i].result = "ok", stdout'[i].id[1] = "watch",
                 active = stdout'[i].id[2], reader # "gone"
          PROVE  EndIn(stdout', active)
      <3>1. CASE \E j \in DOMAIN stdout : stdout'[i] = stdout[j]
        <4>1. PICK j \in DOMAIN stdout : stdout'[i] = stdout[j]
          BY <3>1
        <4>2. active \in Call /\ EndIn(stdout, active)
          BY <2>1, <4>1, OkLines DEF AInv, OkMeansEnd
        <4> QED BY <2>1, <4>2, EmitKeepsEnds
      <3>2. CASE \E j \in DOMAIN lines : stdout'[i] = lines[j]
        <4>1. PICK q \in requests :
                 /\ stdout'[i].id = q.id
                 /\ stdout'[i].result = "ok" /\ q.id[1] = "watch" => EndIn(lines, q.interrupts)
          BY <2>1, <3>2
        <4>2. active \in Call /\ q.interrupts = active
          BY <2>1, <4>1, RequestsNamed DEF AInv, WatchdogsAskForTheirs
        <4> QED BY <2>1, <4>1, <4>2, EmitKeepsEnds
      <3> QED BY <1>1, <3>1, <3>2
    <2>2. ASSUME NEW t \in Call, waiter[<<"watch", t>>] = "ok", active = t, reader # "gone"
          PROVE  EndIn(stdout', t)
      BY <2>2, EmitKeepsEnds DEF AInv, OkMeansEnd
    <2> QED BY <2>1, <2>2 DEF OkMeansEnd
  <1>5. EofMeansGone'
    BY DEF AInv, EofMeansGone
  <1>6. Attended'
    <2>1. ASSUME active # NoTurn, reader # "gone", EndIn(stdout, active)
          PROVE  EndIn(stdout', active)
      BY <2>1, EmitKeepsEnds DEF TypeOK
    <2> QED BY <2>1 DEF AInv, Attended
  <1> QED BY <1>2, <1>3, <1>4, <1>5, <1>6 DEF AInv


\* A tool runs for the line at the head.
ToolAtHead == reader = "in tool" => stdout # <<>> /\ Head(stdout).kind = "tool"

LEMMA EmitKeepsHead ==
    ASSUME TypeOK, NEW lines \in Seq(Line), Emit(lines), stdout # <<>>
    PROVE  stdout' # <<>> /\ Head(stdout') = Head(stdout)
  <1>1. stdout \in Seq(Line)
    BY DEF TypeOK
  <1>2. CASE stdout' = stdout \o lines
    <2>1. /\ stdout' \in Seq(Line)
          /\ Len(stdout') = Len(stdout) + Len(lines)
          /\ \A i \in 1..(Len(stdout) + Len(lines)) :
               stdout'[i] = IF i <= Len(stdout) THEN stdout[i] ELSE lines[i - Len(stdout)]
      BY <1>1, <1>2, ConcatProperties
    <2>2. Len(stdout) \in Nat /\ Len(lines) \in Nat /\ Len(stdout) # 0
      BY <1>1, LenProperties, EmptySeq
    <2>3. stdout' # <<>> /\ stdout'[1] = stdout[1]
      BY <2>1, <2>2, EmptySeq
    <2> QED BY <1>1, <2>1, <2>3, HeadTailProperties
  <1> QED BY <1>2 DEF Emit

LEMMA CallsKeepAInv ==
    ASSUME TypeOK, TypeOK', AInv, NEW n \in Call, StartTurn(n) \/ CancelTurn(n) \/ CallReturns(n)
    PROVE  AInv'
  <1>1. /\ UNCHANGED <<watchdog, active, reader, stdout>>
        /\ \A t \in Call : call[t] \in {"announcing", "done"} => call'[t] = call[t]
    <2>1. /\ call[n] \notin {"announcing", "done"}
          /\ \E pc \in {"starting", "cancelling", "done"} : call' = [call EXCEPT ![n] = pc]
      BY DEF StartTurn, CancelTurn, CallReturns, IsNext
    <2>2. call \in [Call -> {"none", "starting", "announcing", "cancelling", "done"}]
      BY DEF TypeOK
    <2>3. UNCHANGED <<watchdog, active, reader, stdout>>
      BY DEF StartTurn, CancelTurn, CallReturns
    <2> QED BY <2>1, <2>2, <2>3
  <1>2. /\ \A q \in requests' : q \in requests \/ q.id[1] = "call"
        /\ \A r \in Request : waiter'[r] = waiter[r] \/ waiter'[r] \in {"none", "waiting"}
    <2>1. CASE StartTurn(n)
      <3>1. Send(<<"call", n>>, NoTurn)
        BY <2>1 DEF StartTurn
      <3>2. /\ requests' = requests \union {[id |-> <<"call", n>>, interrupts |-> NoTurn]}
            /\ \A r \in Request :
                 waiter'[r] = IF r = <<"call", n>> THEN "waiting" ELSE waiter[r]
        BY <3>1, SendTypes
      <3> QED BY <3>2
    <2>2. CASE CancelTurn(n)
      <3>1. Send(<<"call", n>>, active) /\ active \in Call
        BY <2>2 DEF CancelTurn, TypeOK
      <3>2. /\ requests' = requests \union {[id |-> <<"call", n>>, interrupts |-> active]}
            /\ \A r \in Request :
                 waiter'[r] = IF r = <<"call", n>> THEN "waiting" ELSE waiter[r]
        BY <3>1, SendTypes
      <3> QED BY <3>2
    <2>3. CASE CallReturns(n)
      <3>1. Forget(<<"call", n>>) /\ UNCHANGED requests
        BY <2>3 DEF CallReturns
      <3> QED BY <3>1, ForgetTypes
    <2> QED BY <2>1, <2>2, <2>3
  <1> QED BY <1>1, <1>2, QuietKeepsAInv

LEMMA TurnStartedKeepsAInv ==
    ASSUME TypeOK, AInv, NEW n \in Call, TurnStarted(n)
    PROVE  AInv'
  <1>1. /\ call[n] = "starting"
        /\ Forget(<<"call", n>>)
        /\ active' = n
        /\ call' = [call EXCEPT ![n] = "announcing"]
        /\ UNCHANGED <<watchdog, reader, requests, stdout>>
    BY DEF TurnStarted
  <1>2. /\ \A r \in Request : waiter'[r] = waiter[r] \/ waiter'[r] = "none"
        /\ \A t \in Call : <<"watch", t>> \in Request
    BY <1>1, ForgetTypes DEF Request
  <1>3. /\ watchdog[n] = "none"
        /\ waiter[<<"watch", n>>] # "ok"
        /\ \A q \in requests : ~(q.id[1] = "watch" /\ q.id[2] = n)
        /\ \A i \in DOMAIN stdout :
             ~(stdout[i].kind = "response" /\ stdout[i].id[1] = "watch" /\ stdout[i].id[2] = n)
    BY <1>1 DEF AInv, WatchdogsAskOnce
  <1>4. \A t \in Call : call'[t] = "done" <=> call[t] = "done"
    BY <1>1 DEF TypeOK
  <1>5. WatchdogsAskOnce'
    BY <1>1, <1>2, <1>4 DEF AInv, WatchdogsAskOnce
  <1>6. WatchdogsAskForTheirs'
    BY <1>1, <1>3 DEF AInv, WatchdogsAskForTheirs
  <1>7. OkMeansEnd'
    BY <1>1, <1>2, <1>3 DEF AInv, OkMeansEnd
  <1>8. EofMeansGone'
    BY <1>1, <1>2 DEF AInv, EofMeansGone
  <1>9. Attended'
    BY <1>1 DEF Attended, TypeOK
  <1> QED BY <1>5, <1>6, <1>7, <1>8, <1>9 DEF AInv

LEMMA AnnounceKeepsAInv ==
    ASSUME TypeOK, AInv, NEW n \in Call, Announce(n)
    PROVE  AInv'
  <1>1. /\ call[n] = "announcing"
        /\ watchdog' = [watchdog EXCEPT ![n] = "asleep"]
        /\ call' = [call EXCEPT ![n] = "done"]
        /\ UNCHANGED <<waiter, active, reader, requests, stdout>>
    BY DEF Announce, AppendEvent
  <1>2. watchdog[n] = "none"
    BY <1>1 DEF AInv, WatchdogsAskOnce
  <1>3. /\ \A t \in Call : t # n => call'[t] = call[t] /\ watchdog'[t] = watchdog[t]
        /\ call'[n] = "done" /\ watchdog'[n] = "asleep"
    BY <1>1 DEF TypeOK
  <1>4. WatchdogsAskOnce'
    <2>1. \A t \in Call : call'[t] # "done" => watchdog'[t] = "none"
      BY <1>3 DEF AInv, WatchdogsAskOnce
    <2>2. \A t \in Call : watchdog'[t] \in {"none", "asleep", "due"} =>
                            watchdog[t] \in {"none", "asleep", "due"}
      BY <1>2, <1>3
    <2> QED BY <1>1, <2>1, <2>2 DEF AInv, WatchdogsAskOnce
  <1>5. WatchdogsAskForTheirs' /\ OkMeansEnd' /\ EofMeansGone'
    BY <1>1 DEF AInv, WatchdogsAskForTheirs, OkMeansEnd, EofMeansGone
  <1>6. Attended'
    BY <1>1, <1>3 DEF AInv, Attended, TypeOK
  <1> QED BY <1>4, <1>5, <1>6 DEF AInv

LEMMA WakeKeepsAInv ==
    ASSUME TypeOK, AInv, NEW t \in Call, Wake(t)
    PROVE  AInv'
  <1>1. /\ watchdog[t] = "asleep"
        /\ watchdog' = [watchdog EXCEPT ![t] = IF active = t THEN "due" ELSE "done"]
        /\ UNCHANGED <<call, waiter, active, reader, requests, stdout>>
    BY DEF Wake
  <1>2. /\ \A u \in Call : u # t => watchdog'[u] = watchdog[u]
        /\ watchdog'[t] = IF active = t THEN "due" ELSE "done"
    BY <1>1 DEF TypeOK
  <1>3. WatchdogsAskOnce'
    <2>1. call[t] = "done"
      BY <1>1 DEF AInv, WatchdogsAskOnce
    <2>2. \A u \in Call : watchdog'[u] \in {"none", "asleep", "due"} =>
                            watchdog[u] \in {"none", "asleep", "due"}
      BY <1>1, <1>2
    <2>3. \A u \in Call : call'[u] # "done" => watchdog'[u] = "none"
      BY <1>1, <1>2, <2>1 DEF AInv, WatchdogsAskOnce
    <2> QED BY <1>1, <2>2, <2>3 DEF AInv, WatchdogsAskOnce
  <1>4. WatchdogsAskForTheirs' /\ OkMeansEnd' /\ EofMeansGone'
    BY <1>1 DEF AInv, WatchdogsAskForTheirs, OkMeansEnd, EofMeansGone
  <1>5. Attended'
    BY <1>1, <1>2 DEF AInv, Attended, TypeOK
  <1> QED BY <1>3, <1>4, <1>5 DEF AInv

LEMMA WatchdogInterruptsKeepsAInv ==
    ASSUME TypeOK, AInv, NEW t \in Call, WatchdogInterrupts(t)
    PROVE  AInv'
  <1>1. watchdog[t] = "due" /\ UNCHANGED <<call, active, reader, stdout>>
    BY DEF WatchdogInterrupts
  <1>2. call[t] = "done"
    BY <1>1 DEF AInv, WatchdogsAskOnce
  <1>3. CASE active = NoTurn
    <2>1. watchdog' = [watchdog EXCEPT ![t] = "done"] /\ UNCHANGED <<waiter, requests>>
      BY <1>3 DEF WatchdogInterrupts
    <2>2. \A u \in Call : watchdog'[u] = watchdog[u] \/ (u = t /\ watchdog'[u] = "done")
      BY <2>1 DEF TypeOK
    <2>3. WatchdogsAskOnce'
      BY <1>1, <1>2, <2>1, <2>2 DEF AInv, WatchdogsAskOnce
    <2>4. WatchdogsAskForTheirs' /\ OkMeansEnd' /\ EofMeansGone' /\ Attended'
      BY <1>1, <1>3, <2>1 DEF AInv, WatchdogsAskForTheirs, OkMeansEnd, EofMeansGone, Attended
    <2> QED BY <2>3, <2>4 DEF AInv
  <1>4. CASE active # NoTurn
    <2>1. /\ watchdog' = [watchdog EXCEPT ![t] = "interrupting"]
          /\ Send(<<"watch", t>>, active)
          /\ active \in Call
      BY <1>4 DEF WatchdogInterrupts, TypeOK
    <2>2. /\ requests' = requests \union {[id |-> <<"watch", t>>, interrupts |-> active]}
          /\ \A r \in Request :
                waiter'[r] = IF r = <<"watch", t>> THEN "waiting" ELSE waiter[r]
          /\ \A u \in Call : <<"watch", u>> \in Request
      BY <2>1, SendTypes DEF Request
    <2>3. \A u \in Call : u # t => watchdog'[u] = watchdog[u]
      BY <2>1 DEF TypeOK
    <2>4. watchdog'[t] = "interrupting"
      BY <2>1 DEF TypeOK
    <2>5. WatchdogsAskOnce'
      <3>1. \A u \in Call : call'[u] # "done" => watchdog'[u] = "none"
        BY <1>1, <1>2, <2>3 DEF AInv, WatchdogsAskOnce
      <3>2. ASSUME NEW u \in Call, watchdog'[u] \in {"none", "asleep", "due"}
            PROVE  /\ waiter'[<<"watch", u>>] # "ok"
                   /\ \A q \in requests' : ~(q.id[1] = "watch" /\ q.id[2] = u)
                   /\ \A i \in DOMAIN stdout' :
                        ~(/\ stdout'[i].kind = "response"
                          /\ stdout'[i].id[1] = "watch" /\ stdout'[i].id[2] = u)
        <4>1. u # t /\ watchdog[u] \in {"none", "asleep", "due"}
          BY <3>2, <2>3, <2>4
        <4>2. waiter'[<<"watch", u>>] # "ok"
          BY <2>2, <4>1 DEF AInv, WatchdogsAskOnce
        <4>3. \A q \in requests : ~(q.id[1] = "watch" /\ q.id[2] = u)
          BY <4>1 DEF AInv, WatchdogsAskOnce
        <4>4. \A q \in requests' : ~(q.id[1] = "watch" /\ q.id[2] = u)
          BY <2>2, <4>1, <4>3
        <4> QED BY <1>1, <4>1, <4>2, <4>4 DEF AInv, WatchdogsAskOnce
      <3> QED BY <3>1, <3>2 DEF WatchdogsAskOnce
    <2>6. WatchdogsAskForTheirs'
      <3> SUFFICES ASSUME NEW q \in requests', q.id[1] = "watch"
                   PROVE  q.interrupts # NoTurn /\ (active = q.id[2] => q.interrupts = q.id[2])
        BY <1>1 DEF WatchdogsAskForTheirs
      <3>1. CASE q \in requests
        BY <3>1 DEF AInv, WatchdogsAskForTheirs
      <3>2. CASE q = [id |-> <<"watch", t>>, interrupts |-> active]
        BY <3>2, <1>4
      <3> QED BY <3>1, <3>2, <2>2
    <2>7. OkMeansEnd'
      BY <1>1, <2>2 DEF AInv, OkMeansEnd
    <2>8. EofMeansGone'
      BY <1>1, <2>2 DEF AInv, EofMeansGone
    <2>9. Attended'
      BY <1>1, <2>1, <2>3, <2>4 DEF AInv, Attended
    <2> QED BY <2>5, <2>6, <2>7, <2>8, <2>9 DEF AInv
  <1> QED BY <1>3, <1>4

LEMMA WatchdogReturnsKeepsAInv ==
    ASSUME TypeOK, AInv, NEW t \in Call, WatchdogReturns(t)
    PROVE  AInv'
  <1>1. /\ watchdog[t] = "interrupting"
        /\ Forget(<<"watch", t>>)
        /\ UNCHANGED <<call, reader, requests, stdout>>
        /\ WatchdogAnswered(t) \/ WatchdogFailsTurn(t) \/ WatchdogRaises(t)
    BY DEF WatchdogReturns
  <1>2. \A r \in Request : waiter'[r] = waiter[r] \/ waiter'[r] = "none"
    BY <1>1, ForgetTypes
  <1>3. \A u \in Call : <<"watch", u>> \in Request
    BY DEF Request
  <1>4. \/ watchdog' = [watchdog EXCEPT ![t] = "done"]
        \/ watchdog' = [watchdog EXCEPT ![t] = "dead"]
    BY <1>1 DEF WatchdogAnswered, WatchdogFailsTurn, WatchdogRaises
  <1>5. /\ \A u \in Call : u # t => watchdog'[u] = watchdog[u]
        /\ watchdog'[t] \in {"done", "dead"}
    BY <1>4 DEF TypeOK
  <1>6. active' \in {active, NoTurn}
    BY <1>1 DEF WatchdogAnswered, WatchdogFailsTurn, WatchdogRaises, AppendEvent
  <1>7. call[t] = "done"
    BY <1>1 DEF AInv, WatchdogsAskOnce
  <1>8. WatchdogsAskOnce'
    <2>1. \A u \in Call : call'[u] # "done" => watchdog'[u] = "none"
      BY <1>1, <1>5, <1>7 DEF AInv, WatchdogsAskOnce
    <2>2. \A u \in Call : watchdog'[u] \in {"none", "asleep", "due"} =>
                            watchdog[u] \in {"none", "asleep", "due"}
      BY <1>5
    <2> QED BY <1>1, <1>2, <1>3, <2>1, <2>2 DEF AInv, WatchdogsAskOnce
  <1>9. WatchdogsAskForTheirs'
    <2>1. \A q \in requests : q.id[2] # NoTurn
      BY RequestsNamed, NoTurnIsNoCall
    <2> QED BY <1>1, <1>6, <2>1 DEF AInv, WatchdogsAskForTheirs
  <1>10. OkMeansEnd'
    <2>1. \A i \in DOMAIN stdout : stdout[i].kind = "response" => stdout[i].id[2] # NoTurn
      BY OkLines, NoTurnIsNoCall
    <2> QED BY <1>1, <1>2, <1>3, <1>6, <2>1, NoTurnIsNoCall DEF AInv, OkMeansEnd
  <1>11. EofMeansGone'
    BY <1>1, <1>2 DEF AInv, EofMeansGone
  <1>12. Attended'
    <2> SUFFICES ASSUME active' # NoTurn, reader # "gone"
                 PROVE  \/ call[active] = "announcing"
                        \/ watchdog'[active] \in {"asleep", "due", "interrupting"}
                        \/ EndIn(stdout, active)
      BY <1>1, <1>6 DEF Attended
    <2>1. active' = active /\ active # NoTurn /\ active \in Call
      BY <1>6 DEF TypeOK
    <2>2. CASE active # t
      BY <1>5, <2>1, <2>2 DEF AInv, Attended
    <2>3. CASE active = t
      <3>1. ~WatchdogFailsTurn(t)
        BY <2>1, <2>3 DEF WatchdogFailsTurn, AppendEvent
      <3>2. ~WatchdogRaises(t)
        BY <1>3 DEF WatchdogRaises, AInv, EofMeansGone
      <3>3. waiter[<<"watch", t>>] = "ok"
        BY <1>1, <3>1, <3>2 DEF WatchdogAnswered
      <3> QED BY <2>3, <3>3 DEF AInv, OkMeansEnd
    <2> QED BY <2>2, <2>3
  <1> QED BY <1>8, <1>9, <1>10, <1>11, <1>12 DEF AInv

LEMMA ReadLineKeepsAInv ==
    ASSUME TypeOK, TypeOK', AInv, ReadLine
    PROVE  AInv'
  <1> DEFINE m == Head(stdout)
  <1>1. /\ reader = "reading"
        /\ stdout # <<>> /\ stdout' = Tail(stdout)
        /\ UNCHANGED <<call, watchdog, reader, requests>>
    BY DEF ReadLine
  <1>2. /\ m \in Line /\ m = stdout[1] /\ 1 \in DOMAIN stdout
        /\ \A i \in DOMAIN stdout' : \E j \in DOMAIN stdout : stdout'[i] = stdout[j]
    BY <1>1, TailOfLines
  <1>3. \A t \in Call : EndIn(stdout, t) /\ ~(m.kind = "notification" /\ m.turn = t)
                          => EndIn(stdout', t)
    BY <1>1, TailKeepsEnds
  <1> HIDE DEF m
  <1>4. CASE ReadResponse(m)
    <2>1. /\ m.kind = "response"
          /\ waiter' = IF waiter[m.id] = "waiting"
                       THEN [waiter EXCEPT ![m.id] = m.result] ELSE waiter
          /\ UNCHANGED <<active, events>>
      BY <1>4 DEF ReadResponse
    <2>2. m.id \in Request /\ m.result \in {"ok", "error"}
      BY <2>1, <1>2, OkLines
    <2>3. \A r \in Request : waiter'[r] = waiter[r] \/ (r = m.id /\ waiter'[r] = m.result)
      <3>1. waiter \in [Request -> {"none", "waiting", "ok", "error", "eof"}]
        BY DEF TypeOK
      <3> QED BY <2>1, <2>2, <3>1
    <2>4. \A t \in Call : EndIn(stdout, t) => EndIn(stdout', t)
      BY <1>3, <2>1
    <2>5. \A t \in Call : <<"watch", t>> \in Request /\ <<"watch", t>>[1] = "watch" /\ <<"watch", t>>[2] = t
      BY DEF Request
    <2>6. WatchdogsAskOnce'
      <3>1. ASSUME NEW t \in Call, watchdog[t] \in {"none", "asleep", "due"},
                   waiter'[<<"watch", t>>] = "ok"
            PROVE  FALSE
        <4>1. waiter[<<"watch", t>>] # "ok"
          BY <3>1 DEF AInv, WatchdogsAskOnce
        <4>2. <<"watch", t>> = m.id
          BY <2>3, <2>5, <3>1, <4>1
        <4>3. m.id[1] = "watch" /\ m.id[2] = t
          BY <2>5, <4>2
        <4> QED BY <1>2, <2>1, <3>1, <4>3 DEF AInv, WatchdogsAskOnce
      <3>2. ASSUME NEW t \in Call, watchdog[t] \in {"none", "asleep", "due"},
                   NEW i \in DOMAIN stdout', stdout'[i].kind = "response",
                   stdout'[i].id[1] = "watch", stdout'[i].id[2] = t
            PROVE  FALSE
        <4>1. PICK j \in DOMAIN stdout : stdout'[i] = stdout[j]
          BY <1>2
        <4>2. ~(/\ stdout[j].kind = "response"
                /\ stdout[j].id[1] = "watch" /\ stdout[j].id[2] = t)
          BY <3>2 DEF AInv, WatchdogsAskOnce
        <4> QED BY <3>2, <4>1, <4>2
      <3> QED BY <1>1, <3>1, <3>2 DEF AInv, WatchdogsAskOnce
    <2>7. WatchdogsAskForTheirs'
      BY <1>1, <2>1 DEF AInv, WatchdogsAskForTheirs
    <2>8. OkMeansEnd'
      <3>1. ASSUME NEW i \in DOMAIN stdout', stdout'[i].kind = "response",
                   stdout'[i].result = "ok", stdout'[i].id[1] = "watch",
                   active = stdout'[i].id[2]
            PROVE  EndIn(stdout', active)
        <4>1. PICK j \in DOMAIN stdout : stdout'[i] = stdout[j]
          BY <1>2
        <4>2. active \in Call
          BY <3>1, <4>1, OkLines
        <4>3. EndIn(stdout, active)
          BY <1>1, <3>1, <4>1 DEF AInv, OkMeansEnd
        <4> QED BY <2>4, <4>2, <4>3
      <3>2. ASSUME NEW t \in Call, waiter'[<<"watch", t>>] = "ok", active = t
            PROVE  EndIn(stdout', t)
        <4>1. CASE waiter[<<"watch", t>>] = "ok"
          BY <1>1, <2>4, <3>2, <4>1 DEF AInv, OkMeansEnd
        <4>2. CASE waiter[<<"watch", t>>] # "ok"
          <5>1. <<"watch", t>> = m.id /\ m.result = "ok"
            BY <2>3, <2>5, <3>2, <4>2
          <5>2. m.id[1] = "watch" /\ m.id[2] = t
            BY <2>5, <5>1
          <5>3. EndIn(stdout, t)
            BY <1>1, <1>2, <2>1, <3>2, <5>1, <5>2 DEF AInv, OkMeansEnd
          <5> QED BY <2>4, <5>3
        <4> QED BY <4>1, <4>2
      <3> QED BY <2>1, <3>1, <3>2 DEF OkMeansEnd
    <2>9. EofMeansGone'
      BY <1>1, <2>2, <2>3 DEF AInv, EofMeansGone
    <2>10. Attended'
      BY <1>1, <2>1, <2>4 DEF AInv, Attended, TypeOK
    <2> QED BY <2>6, <2>7, <2>8, <2>9, <2>10 DEF AInv
  <1>5. CASE ReadNotification(m)
    <2>1. m.kind = "notification" /\ AppendEvent("turn_ended", m.turn) /\ UNCHANGED waiter
      BY <1>5 DEF ReadNotification
    <2>2. active' \in {active, NoTurn} /\ (active' = active => active # m.turn \/ active = NoTurn)
      BY <2>1 DEF AppendEvent
    <2>3. \A t \in Call : active' = t /\ EndIn(stdout, t) => EndIn(stdout', t)
      BY <1>3, <2>2, NoTurnIsNoCall
    <2> QED BY <1>1, <1>2, <2>1, <2>2, <2>3, QuietKeepsAInv
  <1> QED BY <1>4, <1>5 DEF ReadLine, m

LEMMA ReaderKeepsAInv ==
    ASSUME TypeOK, TypeOK', AInv, ToolAtHead, StartTool \/ ToolReturns \/ ReaderDies
    PROVE  AInv'
  <1>1. CASE StartTool
    <2>1. /\ UNCHANGED <<call, watchdog, waiter, active, requests, stdout>>
          /\ reader = "reading"
      BY <1>1 DEF StartTool
    <2> QED BY <2>1, QuietKeepsAInv
  <1>2. CASE ToolReturns
    <2>1. /\ stdout # <<>> /\ stdout' = Tail(stdout) /\ reader = "in tool"
          /\ UNCHANGED <<call, watchdog, waiter, active, requests>>
      BY <1>2 DEF ToolReturns
    <2>2. \A i \in DOMAIN stdout' : \E j \in DOMAIN stdout : stdout'[i] = stdout[j]
      BY <2>1, TailOfLines
    <2>3. Head(stdout).kind # "notification"
      BY <2>1 DEF ToolAtHead
    <2>4. \A t \in Call : EndIn(stdout, t) => EndIn(stdout', t)
      BY <2>1, <2>3, TailKeepsEnds
    <2> QED BY <2>1, <2>2, <2>4, QuietKeepsAInv
  <1>3. CASE ReaderDies
    <2>1. /\ reader' = "gone"
          /\ waiter' = [r \in Request |->
                          IF waiter[r] = "waiting" THEN "eof" ELSE waiter[r]]
          /\ DOMAIN stdout' = {}
          /\ UNCHANGED <<call, watchdog, active, requests>>
      BY <1>3, EmptySeq DEF ReaderDies
    <2> QED BY <2>1, QuietKeepsAInv
  <1> QED BY <1>1, <1>2, <1>3

LEMMA ServerStepKeepsAInv ==
    ASSUME TypeOK, AInv, ServerStep
    PROVE  AInv'
  <1>1. UNCHANGED <<call, watchdog, waiter, active, reader>> /\ requests' \subseteq requests
    BY DEF ServerStep, ServerReads, FinalAnswer, TurnCompleted, CallsTool, ours
  <1>2. CASE ServerReads
    <2>1. PICK q \in requests : ServerStarts(q) \/ ServerInterrupts(q)
      BY <1>2 DEF ServerReads
    <2>2. q.id \in Request /\ q.interrupts \in Call \union {NoTurn}
      BY RequestsNamed
    <2> DEFINE yes == Respond(q.id, "ok")
               no == Respond(q.id, "error")
    <2>3. /\ yes \in Line /\ yes.id = q.id
          /\ no \in Line /\ no.id = q.id /\ no.result = "error"
      BY <2>2, WrittenLines DEF Respond, Line
    <2> HIDE DEF yes, no
    <2>4. CASE Emit(<<no>>)
      <3>1. /\ <<no>> \in Seq(Line)
            /\ DOMAIN <<no>> = {1} /\ <<no>>[1] = no
        BY <2>3, OneLine
      <3> QED BY <1>1, <2>3, <2>4, <3>1, ServerKeepsAInv
    <2>5. CASE Emit(<<yes>>) /\ q.interrupts = NoTurn
      <3>1. /\ <<yes>> \in Seq(Line)
            /\ DOMAIN <<yes>> = {1} /\ <<yes>>[1] = yes
        BY <2>3, OneLine
      <3>2. q.id[1] # "watch"
        BY <2>5 DEF AInv, WatchdogsAskForTheirs
      <3> QED BY <1>1, <2>3, <2>5, <3>1, <3>2, ServerKeepsAInv
    <2>6. ASSUME ServerInterrupts(q), turn[q.interrupts] \in {"running", "answered"}
          PROVE  AInv'
      <3> DEFINE note == Notify(q.interrupts)
      <3>1. q.interrupts \in Call
        BY <2>2, <2>6 DEF ServerInterrupts
      <3>2. \E both \in {<<yes, note>>, <<note, yes>>} : Emit(both)
        BY <2>6, Zenon DEF ServerInterrupts, yes
      <3>3. note \in Line /\ note.kind = "notification" /\ note.turn = q.interrupts
        BY <3>1, WrittenLines DEF Line, Notify
      <3> HIDE DEF note
      <3>4. PICK both \in {<<yes, note>>, <<note, yes>>} : Emit(both)
        BY <3>2
      <3>5. /\ both \in Seq(Line)
            /\ \A j \in DOMAIN both : both[j] \in {yes, note}
            /\ \E j \in DOMAIN both : both[j] = note
        <4>1. CASE both = <<yes, note>>
          <5>1. 2 \in DOMAIN both /\ both[2] = note
            BY <4>1
          <5> QED BY <2>3, <3>3, <4>1, <5>1
        <4>2. CASE both = <<note, yes>>
          <5>1. 1 \in DOMAIN both /\ both[1] = note
            BY <4>2
          <5> QED BY <2>3, <3>3, <4>2, <5>1
        <4> QED BY <3>4, <4>1, <4>2
      <3>6. EndIn(both, q.interrupts)
        BY <3>3, <3>5 DEF EndIn
      <3>7. \A j \in DOMAIN both : both[j].kind = "response" => both[j].id = q.id
        BY <2>3, <3>3, <3>5
      <3> QED BY <1>1, <3>4, <3>5, <3>6, <3>7, ServerKeepsAInv
    <2> QED BY <2>1, <2>4, <2>5, <2>6 DEF ServerStarts, ServerInterrupts, yes, no
  <1>3. CASE \E t \in Call : FinalAnswer(t) \/ TurnCompleted(t) \/ CallsTool(t)
    <2>1. PICK t \in Call : FinalAnswer(t) \/ TurnCompleted(t) \/ CallsTool(t)
      BY <1>3
    <2>2. PICK m \in {Notify(t), [kind |-> "tool", turn |-> t]} : Emit(<<m>>)
      BY <2>1 DEF FinalAnswer, TurnCompleted, CallsTool
    <2>3. m \in Line /\ m.kind # "response"
      BY WrittenLines DEF Line, Notification, ToolCall
    <2>4. /\ <<m>> \in Seq(Line)
          /\ DOMAIN <<m>> = {1} /\ <<m>>[1] = m
      BY <2>3, OneLine
    <2> QED BY <1>1, <2>2, <2>3, <2>4, ServerKeepsAInv
  <1> QED BY <1>2, <1>3 DEF ServerStep

LEMMA HeadStays ==
    ASSUME TypeOK, ToolAtHead, [Next]_vars
    PROVE  ToolAtHead'
  <1>1. CASE UNCHANGED <<reader, stdout>>
    BY <1>1 DEF ToolAtHead
  <1>2. CASE ReaderStep \/ ReaderDies
    BY <1>2 DEF ReaderStep, ReadLine, StartTool, ToolReturns, ReaderDies, ToolAtHead
  <1>3. ASSUME NEW lines \in Seq(Line), Emit(lines), UNCHANGED reader
        PROVE  ToolAtHead'
    BY <1>3, EmitKeepsHead DEF ToolAtHead
  <1>4. CASE ServerStep
    <2>1. UNCHANGED reader
      BY <1>4 DEF ServerStep, ServerReads, FinalAnswer, TurnCompleted, CallsTool, ours
    <2>2. \E lines \in Seq(Line) : Emit(lines)
      <3>1. CASE ServerReads
        <4>1. PICK q \in requests : ServerStarts(q) \/ ServerInterrupts(q)
          BY <3>1 DEF ServerReads
        <4>2. q.id \in Request /\ q.interrupts \in Call \union {NoTurn}
          BY RequestsNamed
        <4> DEFINE yes == Respond(q.id, "ok")
                   no == Respond(q.id, "error")
                   note == Notify(q.interrupts)
        <4>3. yes \in Line /\ no \in Line
          BY <4>2, WrittenLines DEF Line
        <4>4. q.interrupts # NoTurn => note \in Line
          BY <4>2, WrittenLines DEF Line
        <4>5. \/ Emit(<<yes>>) \/ Emit(<<no>>)
              \/ q.interrupts # NoTurn /\ Emit(<<yes, note>>)
              \/ q.interrupts # NoTurn /\ Emit(<<note, yes>>)
          BY <4>1, Zenon DEF ServerStarts, ServerInterrupts
        <4> HIDE DEF yes, no, note
        <4>6. <<yes>> \in Seq(Line) /\ <<no>> \in Seq(Line)
          BY <4>3
        <4>7. q.interrupts # NoTurn => <<yes, note>> \in Seq(Line) /\ <<note, yes>> \in Seq(Line)
          BY <4>3, <4>4
        <4> QED BY <4>5, <4>6, <4>7
      <3>2. ASSUME NEW t \in Call, FinalAnswer(t) \/ TurnCompleted(t) \/ CallsTool(t)
            PROVE  \E lines \in Seq(Line) : Emit(lines)
        <4>1. PICK m \in {Notify(t), [kind |-> "tool", turn |-> t]} : Emit(<<m>>)
          BY <3>2 DEF FinalAnswer, TurnCompleted, CallsTool
        <4>2. m \in Line
          BY WrittenLines DEF Line
        <4> QED BY <4>1, <4>2, OneLine
      <3> QED BY <1>4, <3>1, <3>2 DEF ServerStep
    <2> QED BY <1>3, <2>1, <2>2
  <1>5. CASE \E n \in Call : StartTurn(n) \/ CancelTurn(n) \/ CallStep(n) \/ WatchdogStep(n)
    <2>1. UNCHANGED <<reader, stdout>>
      BY <1>5 DEF StartTurn, CancelTurn, CallStep, TurnStarted, Announce, CallReturns,
                  WatchdogStep, Wake, WatchdogInterrupts, WatchdogReturns
    <2> QED BY <2>1, <1>1
  <1>6. CASE UNCHANGED vars
    BY <1>6, <1>1 DEF vars
  <1> QED BY <1>2, <1>4, <1>5, <1>6 DEF Next

LEMMA InitAttended == Init => AInv /\ ToolAtHead
  <1> SUFFICES ASSUME Init PROVE AInv /\ ToolAtHead
    OBVIOUS
  <1>1. \A t \in Call : <<"watch", t>> \in Request
    BY DEF Request
  <1>2. WatchdogsAskOnce
    BY <1>1 DEF Init, WatchdogsAskOnce
  <1>3. WatchdogsAskForTheirs /\ OkMeansEnd /\ EofMeansGone /\ Attended /\ ToolAtHead
    BY <1>1 DEF Init, WatchdogsAskForTheirs, OkMeansEnd, EofMeansGone, Attended, ToolAtHead
  <1> QED BY <1>2, <1>3 DEF AInv

LEMMA NextKeepsAInv ==
    ASSUME TypeOK, TypeOK', AInv, ToolAtHead, [Next]_vars
    PROVE  AInv'
  <1>1. CASE \E n \in Call : StartTurn(n) \/ CancelTurn(n) \/ CallStep(n)
    BY <1>1, CallsKeepAInv, TurnStartedKeepsAInv, AnnounceKeepsAInv DEF CallStep
  <1>2. CASE \E n \in Call : WatchdogStep(n)
    BY <1>2, WakeKeepsAInv, WatchdogInterruptsKeepsAInv, WatchdogReturnsKeepsAInv
       DEF WatchdogStep
  <1>3. CASE ReaderStep \/ ReaderDies
    BY <1>3, ReadLineKeepsAInv, ReaderKeepsAInv DEF ReaderStep
  <1>4. CASE ServerStep
    BY <1>4, ServerStepKeepsAInv
  <1>5. CASE UNCHANGED vars
    <2>1. UNCHANGED <<call, watchdog, waiter, active, events, reader, requests, stdout>>
      BY <1>5 DEF vars
    <2> QED BY <2>1, QuietKeepsAInv
  <1> QED BY <1>1, <1>2, <1>3, <1>4, <1>5 DEF Next

-----------------------------------------------------------------------------
(* Theorems *)

LEMMA NextInv == IInv /\ [Next]_vars => IInv'
  <1> SUFFICES ASSUME IInv, [Next]_vars PROVE IInv'
    OBVIOUS
  <1>1. CASE \E n \in Call : StartTurn(n) \/ CancelTurn(n)
    BY <1>1, StartTurnInv, CancelTurnInv
  <1>2. CASE \E n \in Call : CallStep(n)
    BY <1>2, TurnStartedInv, AnnounceInv, CallReturnsInv DEF CallStep
  <1>3. CASE \E n \in Call : WatchdogStep(n)
    BY <1>3, WakeInv, WatchdogInterruptsInv, WatchdogReturnsInv DEF WatchdogStep
  <1>4. CASE ReaderStep \/ ReaderDies
    BY <1>4, ReadLineInv, StartToolInv, ToolReturnsInv, ReaderDiesInv DEF ReaderStep
  <1>5. CASE ServerStep
    BY <1>5, ServerReadsInv, ServerSpeaksInv DEF ServerStep
  <1>6. CASE UNCHANGED vars
    <2>1. UNCHANGED <<call, watchdog, waiter, active, events, reader, requests, stdout, turn, tools>>
      BY <1>6 DEF vars
    <2>2. TypeOK'
      BY <2>1 DEF IInv, TypeOK
    <2>3. StartsAreTrue'
      BY <2>1, StartsStay DEF IInv
    <2>4. EndedIsOver' /\ OneEnd'
      BY <2>1, NothingEnds DEF IInv
    <2> QED BY <2>2, <2>3, <2>4 DEF IInv
  <1> QED BY <1>1, <1>2, <1>3, <1>4, <1>5, <1>6 DEF Next

LEMMA AlwaysInv == Spec => []IInv
  BY InitInv, NextInv, PTL DEF Spec

\* Every variable keeps its type, and the turn start_turn makes active is one
\* the app server made: an error, a late answer or the answer to another
\* request never becomes a turn.
THEOREM TypeCorrect == Spec => []TypeOK
  <1>1. IInv => TypeOK
    BY DEF IInv
  <1> QED BY <1>1, AlwaysInv, PTL

\* However its final answer, its completion, its interruption and its watchdog
\* race, _append_event records one end of a turn.
THEOREM TurnsEndOnce == Spec => []OneEnd
  <1>1. IInv => OneEnd
    BY DEF IInv
  <1> QED BY <1>1, AlwaysInv, PTL

\* A turn that has ended is never the active turn again.
THEOREM EndedTurnsStayEnded == Spec => [](\A t \in Call : Ended(t) => active # t)
  <1>1. IInv => \A t \in Call : Ended(t) => active # t
    BY DEF IInv, EndedIsOver
  <1> QED BY <1>1, AlwaysInv, PTL

\* While the reader lives, the active turn is being announced, has a watchdog
\* that will act, or has its end on the way: an answer to an interrupt always
\* comes with the end of the turn it stopped, so a watchdog may leave then.
THEOREM NeverUnattended == Spec => []Attended
  <1> DEFINE Inv == TypeOK /\ AInv /\ ToolAtHead
  <1>1. Init => Inv
    BY InitInv, InitAttended DEF IInv
  <1>2. Inv /\ TypeOK' /\ [Next]_vars => Inv'
    BY NextKeepsAInv, HeadStays
  <1>3. Inv => Attended
    BY DEF AInv
  <1> HIDE DEF Inv
  <1> QED BY <1>1, <1>2, <1>3, TypeCorrect, PTL DEF Spec
============================================================================
