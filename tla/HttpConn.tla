----------------------------- MODULE HttpConn -----------------------------
(***************************************************************************)
(* The HTTP destinations of the speech router (xrsr_protocol_http.c,       *)
(* xrsr_protocol_http_sm.h): each one's state machine, and the curl multi  *)
(* handle, its timer and the count of easy handles that they share.        *)
(*                                                                         *)
(* The router thread runs one handler at a time, and an HTTP destination   *)
(* has no state that another thread touches.  "task" is the handler that   *)
(* runs and the destination whose events it raised; Step takes one event   *)
(* off that destination's queue; what a handler does once the queue is     *)
(* empty is Return.                                                        *)
(*                                                                         *)
(* curl is a library: it reads the request's body from the audio pipe and  *)
(* completes a transfer when it likes, in any of the calls that drive it.  *)
(* The pipe of a session carries the session's number.                     *)
(***************************************************************************)
EXTENDS Integers, Sequences, FiniteSets

CONSTANTS
    Conns,        \* the HTTP destinations
    OutOfMemory,  \* those whose curl_easy_init may fail
    MaxSessions   \* bound: sessions begun on each destination

ASSUME HttpAssumption ==
    /\ IsFiniteSet(Conns)
    /\ OutOfMemory \subseteq Conns
    /\ MaxSessions \in Nat \ {0}

VARIABLES
    http,     \* xrsr_state_http_t of each destination
    g_http,   \* what the destinations share
    evq,      \* activeEvtQueue of the destination whose handler runs
    task,     \* the router's handler and its destination
    running   \* the router's loop runs; its timer object exists

vars == <<http, g_http, evq, task, running>>

-----------------------------------------------------------------------------
(* The state machine's tables.                                             *)

NextStates == [
    Disconnected |-> [
        SESSION_BEGIN |-> "Connecting", SESSION_BEGIN_STM |-> "Buffering"],
    Buffering |-> [
        EOS |-> "Disconnected", TERMINATE |-> "Disconnected",
        STM |-> "Connecting"],
    Connecting |-> [
        DISCONNECTED |-> "Disconnected", CONNECTED |-> "Streaming"],
    Connected |-> [
        MSG_RECV |-> "Disconnected", TERMINATE |-> "Disconnected",
        TIMEOUT |-> "Disconnected"],
    Streaming |-> [
        PIPE_EOS |-> "Connected", TERMINATE |-> "Disconnected",
        MSG_RECV |-> "Disconnected",
        TEXT_SESSION_SUCCESS |-> "TextOnlySession"],
    TextOnlySession |-> [
        PIPE_EOS |-> "Connected", TERMINATE |-> "Disconnected",
        MSG_RECV |-> "Disconnected"]]

States == DOMAIN NextStates

\* xrsr_http_is_connected
ConnectedStates == {"Connected", "Streaming", "TextOnlySession"}

\* Mutant of StreamReasons: the wrong reason for audio that was too short.
StreamReasonsMixed == [
    Buffering |-> [EOS |-> "AUDIO_EOF", TERMINATE |-> "DID_NOT_BEGIN"],
    Connecting |-> [DISCONNECTED |-> "DID_NOT_BEGIN"],
    Streaming |-> [TERMINATE |-> "DISCONNECT_LOCAL", PIPE_EOS |-> "AUDIO_EOF",
                   MSG_RECV |-> "DISCONNECT_REMOTE"],
    TextOnlySession |-> [TERMINATE |-> "DISCONNECT_LOCAL",
                         PIPE_EOS |-> "AUDIO_EOF", MSG_RECV |-> "INVALID"]]

\* The EXIT actions that end the stream, with the reason they give for it.
StreamReasons == [
    Buffering |-> [EOS |-> "DID_NOT_BEGIN", TERMINATE |-> "DID_NOT_BEGIN"],
    Connecting |-> [DISCONNECTED |-> "DID_NOT_BEGIN"],
    Streaming |-> [TERMINATE |-> "DISCONNECT_LOCAL", PIPE_EOS |-> "AUDIO_EOF",
                   MSG_RECV |-> "DISCONNECT_REMOTE"],
    TextOnlySession |-> [TERMINATE |-> "DISCONNECT_LOCAL",
                         PIPE_EOS |-> "AUDIO_EOF", MSG_RECV |-> "INVALID"]]

\* The EXIT actions that set the session's end reason.
SessionReasons == [
    Buffering |-> [EOS |-> "ERROR_AUDIO_DURATION", TERMINATE |-> "TERMINATE"],
    Connecting |-> [DISCONNECTED |-> "ERROR_CONNECT_FAILURE"],
    Connected |-> [TIMEOUT |-> "ERROR_SESSION_TIMEOUT",
                   TERMINATE |-> "TERMINATE"],
    Streaming |-> [TERMINATE |-> "TERMINATE",
                   MSG_RECV |-> "ERROR_CONNECT_FAILURE"],
    TextOnlySession |-> [TERMINATE |-> "TERMINATE", MSG_RECV |-> "EOT"]]

\* What curl does with the easy handle: not added to the multi handle yet,
\* reads the request's body, waits for the response, has completed the
\* transfer, has said so; or its multi handle is gone.
Transfers == {"none", "sending", "waiting", "done", "told", "lost"}

-----------------------------------------------------------------------------
(* armed, session, begun, streamEnds, sessionEnds, falseEnd and ended are  *)
(* not fields of the struct: they record what rdkx_timer holds and what    *)
(* the router and the application were told.                               *)

HttpInit == [
    initialized |-> FALSE,         \* the route's destination is in place
    state |-> "Disconnected",      \* state_machine
    easy_handle |-> FALSE,         \* easy_handle is not NULL
    transfer |-> "none",
    audio_pipe |-> 0,              \* audio_pipe_fd_read: whose pipe, or -1
    timer_id_rsp |-> FALSE,        \* timer_id_rsp is valid
    is_session_by_text |-> FALSE,
    reason |-> "EOS",              \* session_stats.reason
    armed |-> 0,                   \* response timers of ours
    session |-> 0,                 \* sessions begun so far
    begun |-> FALSE,               \* the stream begin callback was made
    streamEnds |-> 0,              \* calls of xrsr_speech_stream_end
    sessionEnds |-> 0,             \* calls of xrsr_session_end
    falseEnd |-> FALSE,            \* stream end callback without stream begin
    ended |-> "EOS"]               \* the reason the application was told

GInit == [
    ref |-> 0,
    multi_handle |-> FALSE,        \* multi_handle is not NULL
    easy_handle_cnt |-> 0,
    timer_id_multi |-> FALSE,      \* timer_id_multi is valid
    armed |-> 0]                   \* timers rdkx_timer holds for curl

NoTask == [kind |-> "idle"]

Init ==
    /\ http = [c \in Conns |-> HttpInit]
    /\ g_http = GInit
    /\ evq = << >>
    /\ task = NoTask
    /\ running = TRUE

-----------------------------------------------------------------------------
(* What the state handlers' actions do to a destination.                   *)

\* Mutant of SpeechStreamEnd: a stream that did not begin is not ended.
EndBegunStreamOnly(h, reason) ==
    [h EXCEPT !.streamEnds = IF h.begun THEN @ + 1 ELSE @]

\* xrsr_speech_stream_end makes the stream end callback for every reason but
\* DID_NOT_BEGIN.
SpeechStreamEnd(h, reason) ==
    [h EXCEPT !.streamEnds = @ + 1,
              !.falseEnd = @ \/ (reason # "DID_NOT_BEGIN" /\ ~h.begun)]

RemoveTimer(h) ==
    IF h.timer_id_rsp THEN [h EXCEPT !.timer_id_rsp = FALSE, !.armed = @ - 1]
    ELSE h

\* Mutant of Exit: the response timer outlives the wait for the response.
ExitKeepingTimer(h, e) ==
    LET has(t) == h.state \in DOMAIN t /\ e \in DOMAIN t[h.state]
        ended == IF has(StreamReasons)
                 THEN SpeechStreamEnd(h, StreamReasons[h.state][e]) ELSE h
        told == IF has(SessionReasons)
                THEN [ended EXCEPT !.reason = SessionReasons[h.state][e]]
                ELSE ended
    IN  IF h.state = "Connected" THEN [told EXCEPT !.timer_id_rsp = FALSE]
        ELSE told

\* EXIT of h.state on event e.
Exit(h, e) ==
    LET has(t) == h.state \in DOMAIN t /\ e \in DOMAIN t[h.state]
        ended == IF has(StreamReasons)
                 THEN SpeechStreamEnd(h, StreamReasons[h.state][e]) ELSE h
        told == IF has(SessionReasons)
                THEN [ended EXCEPT !.reason = SessionReasons[h.state][e]]
                ELSE ended
    IN  IF h.state = "Connected" THEN RemoveTimer(told) ELSE told

\* xrsr_http_reset, for the destination
Reset(h) ==
    [RemoveTimer(h) EXCEPT !.audio_pipe = 0, !.easy_handle = FALSE,
                           !.transfer = "none", !.reason = "EOS",
                           !.is_session_by_text = FALSE]

\* curl sets, moves or removes its timer in any call that drives it or takes a
\* transfer away from it.
CurlTimer(g) ==
    {g,
     [g EXCEPT !.timer_id_multi = TRUE,
               !.armed = IF g.timer_id_multi THEN @ ELSE @ + 1],
     [g EXCEPT !.timer_id_multi = FALSE,
               !.armed = IF g.timer_id_multi THEN @ - 1 ELSE @]}

\* curl_multi_remove_handle: curl is told only of a transfer it still has.
RemoveHandle(g, h) ==
    IF h.transfer \in {"none", "lost"} THEN {g} ELSE CurlTimer(g)

\* One easy handle fewer; the timer goes with the last of them.
DropHandle(g) ==
    IF g.easy_handle_cnt > 1 THEN [g EXCEPT !.easy_handle_cnt = @ - 1]
    ELSE [g EXCEPT !.easy_handle_cnt = @ - 1, !.timer_id_multi = FALSE,
                   !.armed = IF g.timer_id_multi THEN @ - 1 ELSE @]

\* Mutant of ResetShared: curl's timer outlives the last easy handle.
ResetHandleOnly(g, h) ==
    IF ~h.easy_handle THEN {g}
    ELSE {[x EXCEPT !.easy_handle_cnt = @ - 1,
                    !.timer_id_multi = @ /\ x.easy_handle_cnt > 1] :
          x \in RemoveHandle(g, h)}

\* xrsr_http_reset, for what the destinations share.
ResetShared(g, h) ==
    IF ~h.easy_handle THEN {g}
    ELSE {DropHandle(x) : x \in RemoveHandle(g, h)}

\* Mutant of Disconnect: the destination is reset before the callbacks.
DisconnectAfterReset(h) ==
    [Reset(h) EXCEPT !.state = "Disconnected", !.ended = Reset(h).reason,
                     !.sessionEnds = @ + 1]

\* Mutant of Disconnect: a destination that was only buffering says nothing.
EndOpenedOnly(h) ==
    Reset([h EXCEPT !.state = "Disconnected", !.ended = h.reason,
                    !.sessionEnds = IF h.transfer = "none" THEN @ ELSE @ + 1])

\* ENTER of Disconnected: the disconnected callback, the end of the session.
Disconnect(h) ==
    Reset([h EXCEPT !.state = "Disconnected", !.ended = h.reason,
                    !.sessionEnds = @ + 1])

-----------------------------------------------------------------------------
(* The state machine takes one event off its queue.                        *)

EnterDisconnected(c, h, rest) ==
    /\ http' = [http EXCEPT ![c] = Disconnect(h)]
    /\ g_http' \in ResetShared(g_http, h)
    /\ evq' = rest

\* Buffering has no ENTER action, nor has TextOnlySession.
EnterQuiet(c, h, s, rest) ==
    /\ http' = [http EXCEPT ![c] = [h EXCEPT !.state = s]]
    /\ evq' = rest
    /\ UNCHANGED g_http

\* ENTER of Connecting, _xrsr_http_connect.  curl may read the body already:
\* without a pipe, or at its end, the body is over, and PIPE_EOS, raised by
\* the callback, is dropped by Connecting.  A text session's body is copied.
EnterConnecting(c, h, rest) ==
    \/ /\ g_http.multi_handle
       /\ \E over \in BOOLEAN, sent \in BOOLEAN :
            /\ h.is_session_by_text => sent
            /\ http' = [http EXCEPT ![c] =
                  [h EXCEPT !.state = "Connecting",
                            !.transfer = IF over THEN "done"
                                         ELSE IF sent THEN "waiting"
                                         ELSE "sending",
                            !.audio_pipe = IF sent /\ ~h.is_session_by_text
                                           THEN 0 ELSE @]]
       /\ evq' = Append(rest, "CONNECTED")
    \/ /\ http' = [http EXCEPT ![c] =
              [h EXCEPT !.state = "Connecting",
                        !.transfer = IF g_http.multi_handle THEN "sending"
                                     ELSE "none"]]
       /\ evq' = Append(rest, "DISCONNECTED")

\* ENTER of Streaming: the stream begin callback.
EnterStreaming(c, h, rest) ==
    /\ http' = [http EXCEPT ![c] = [h EXCEPT !.state = "Streaming",
                                             !.begun = TRUE]]
    /\ evq' = IF h.is_session_by_text THEN Append(rest, "TEXT_SESSION_SUCCESS")
              ELSE rest
    /\ UNCHANGED g_http

\* Mutant of EnterConnected: nothing limits the wait for the response.
EnterConnectedUntimed(c, h, rest) ==
    /\ http' = [http EXCEPT ![c] = [h EXCEPT !.state = "Connected"]]
    /\ evq' = rest
    /\ UNCHANGED g_http

\* ENTER of Connected: ten seconds for the response.
EnterConnected(c, h, rest) ==
    /\ http' = [http EXCEPT ![c] = [h EXCEPT !.state = "Connected",
                                             !.timer_id_rsp = TRUE,
                                             !.armed = @ + 1]]
    /\ evq' = rest
    /\ UNCHANGED g_http

Enter(c, h, s, rest) ==
    \/ s = "Disconnected" /\ EnterDisconnected(c, h, rest)
    \/ s \in {"Buffering", "TextOnlySession"} /\ EnterQuiet(c, h, s, rest)
    \/ /\ s = "Connecting"
       /\ EnterConnecting(c, h, rest)
       /\ g_http' \in CurlTimer(g_http)
    \/ s = "Streaming" /\ EnterStreaming(c, h, rest)
    \/ s = "Connected" /\ EnterConnected(c, h, rest)

\* An event that the current state does not list is dropped.
Step ==
    /\ task # NoTask
    /\ evq # << >>
    /\ LET h == http[task.conn]
           e == Head(evq)
           rest == Tail(evq)
           next == NextStates[h.state]
       IN  IF e \in DOMAIN next
           THEN Enter(task.conn, Exit(h, e), next[e], rest)
           ELSE evq' = rest /\ UNCHANGED <<http, g_http>>
    /\ UNCHANGED <<task, running>>

-----------------------------------------------------------------------------
(* The router thread's handlers.                                           *)

\* xrsr_http_event(http, e, false), called by a handler
Raise(c, e, kind) ==
    /\ task' = [kind |-> kind, conn |-> c]
    /\ evq' = <<e>>

Idle(c) == task = NoTask /\ running /\ http[c].initialized

\* xrsr_http_init, of a route's new destination
Route(c) ==
    /\ task = NoTask /\ running
    /\ ~http[c].initialized
    /\ g_http' = [g_http EXCEPT !.ref = @ + 1, !.multi_handle = TRUE]
    /\ http' = [http EXCEPT ![c] =
          [HttpInit EXCEPT !.initialized = TRUE, !.armed = http[c].armed,
                           !.session = http[c].session,
                           !.streamEnds = http[c].streamEnds,
                           !.sessionEnds = http[c].sessionEnds]]
    /\ UNCHANGED <<evq, task, running>>

\* Mutant of Unref: the reference is given up whether or not it is held.
UnrefUnchecked(g) ==
    [g EXCEPT !.ref = @ - 1, !.multi_handle = g.ref > 1 /\ @]

\* The end of xrsr_http_term: the last reference takes the multi handle
\* along, and with it the transfers of every destination.
Unref(g) ==
    IF g.ref = 0 THEN g
    ELSE [g EXCEPT !.ref = @ - 1, !.multi_handle = g.ref > 1 /\ @]

Stranded(hs, g) ==
    [c \in Conns |-> IF ~g.multi_handle /\ hs[c].transfer # "none"
                     THEN [hs[c] EXCEPT !.transfer = "lost"] ELSE hs[c]]

\* xrsr_http_connect, for the session that the application has configured.
\* A text session is never deferred until the minimum stream time is reached.
\* A parsed route has a URL and one of the protocols that it looks for.
Connect(c) ==
    /\ Idle(c)
    /\ http[c].state = "Disconnected"
    /\ http[c].session < MaxSessions
    /\ \E text \in BOOLEAN, deferred \in BOOLEAN :
         /\ ~(text /\ deferred)
         /\ http' = [http EXCEPT ![c] =
               [http[c] EXCEPT !.easy_handle = TRUE,
                               !.is_session_by_text = text,
                               !.session = @ + 1, !.begun = FALSE,
                               !.streamEnds = 0, !.sessionEnds = 0,
                               !.falseEnd = FALSE]]
         /\ Raise(c, IF deferred THEN "SESSION_BEGIN_STM" ELSE "SESSION_BEGIN",
                  "connect")
    /\ g_http' = [g_http EXCEPT !.easy_handle_cnt = @ + 1,
                                !.timer_id_multi = @ /\ g_http.easy_handle_cnt > 0]
    /\ UNCHANGED running

\* xrsr_http_connect without an easy handle terminates the destination,
\* which is disconnected already: only the reference is given up.
ConnectFails(c) ==
    /\ c \in OutOfMemory
    /\ Idle(c)
    /\ http[c].state = "Disconnected"
    /\ g_http' = Unref(g_http)
    /\ http' = Stranded(http, g_http')
    /\ UNCHANGED <<evq, task, running>>

\* xrsr_http_terminate, called for a session that is in progress.
Terminate(c) ==
    /\ Idle(c)
    /\ http[c].state # "Disconnected"
    /\ Raise(c, "TERMINATE", "terminate")
    /\ UNCHANGED <<http, g_http, running>>

\* xrsr_http_term, by the router when the route is replaced, or by xrsr_close
\* when the router's loop has ended.
Term(c) ==
    /\ task = NoTask
    /\ http[c].initialized
    /\ Raise(c, "TERMINATE", "term")
    /\ UNCHANGED <<http, g_http, running>>

\* xrsr_http_handle_speech_event
SpeechEvent(c) ==
    /\ Idle(c)
    /\ \E e \in {"STM", "EOS"} : Raise(c, e, "event")
    /\ UNCHANGED <<http, g_http, running>>

\* xrsr_http_timeout_response
ResponseTimeout(c) ==
    /\ Idle(c)
    /\ http[c].armed > 0
    /\ Raise(c, "TIMEOUT", "event")
    /\ UNCHANGED <<http, g_http, running>>

\* xrsr_http_handle_fds drives curl while some destination is connected.
Driven(c) ==
    /\ Idle(c)
    /\ g_http.multi_handle
    /\ \E d \in Conns : http[d].state \in ConnectedStates

\* _xrsr_http_read_function: no pipe to read from, which ends the body, or
\* the end of the audio or an error, which PIPE_EOS announces.
ReadBody(c) ==
    /\ Driven(c)
    /\ http[c].transfer = "sending"
    /\ http' = [http EXCEPT ![c].transfer = "waiting", ![c].audio_pipe = 0]
    /\ g_http' \in CurlTimer(g_http)
    /\ IF http[c].audio_pipe # 0 THEN Raise(c, "PIPE_EOS", "event")
       ELSE UNCHANGED <<evq, task>>
    /\ UNCHANGED running

\* curl completes the transfer; the request's body may not be over.
Complete(c) ==
    /\ Driven(c)
    /\ http[c].transfer \in {"sending", "waiting"}
    /\ http' = [http EXCEPT ![c].transfer = "done"]
    /\ g_http' \in CurlTimer(g_http)
    /\ UNCHANGED <<evq, task, running>>

\* xrsr_http_handle_fds reads curl's message of a completed transfer.
MsgRecv(c) ==
    /\ Driven(c)
    /\ http[c].transfer = "done"
    /\ http' = [http EXCEPT ![c].transfer = "told"]
    /\ Raise(c, "MSG_RECV", "event")
    /\ UNCHANGED <<g_http, running>>

\* xrsr_http_timeout_process: curl's timer is removed, and curl is driven if
\* it is still there.
MultiTimeout ==
    /\ task = NoTask /\ running
    /\ g_http.armed > 0
    /\ LET fired == [g_http EXCEPT
                !.timer_id_multi = FALSE,
                !.armed = IF g_http.timer_id_multi THEN @ - 1 ELSE @]
       IN  g_http' \in IF g_http.multi_handle THEN CurlTimer(fired) ELSE {fired}
    /\ UNCHANGED <<http, evq, task, running>>

\* The queue is empty and the handler goes on.  xrsr_msg_session_config_in
\* hands the audio pipe to the destination only now.
ConnectReturns ==
    /\ task # NoTask /\ task.kind = "connect"
    /\ http' = [http EXCEPT ![task.conn].audio_pipe = http[task.conn].session]
    /\ UNCHANGED g_http

TermReturns ==
    /\ task # NoTask /\ task.kind = "term"
    /\ g_http' = Unref(g_http)
    /\ http' = Stranded([http EXCEPT ![task.conn].initialized = FALSE], g_http')

Return ==
    /\ evq = << >>
    /\ \/ ConnectReturns
       \/ TermReturns
       \/ task.kind \in {"event", "terminate"} /\ UNCHANGED <<http, g_http>>
    /\ task' = NoTask
    /\ UNCHANGED <<evq, running>>

\* The router's loop ends and destroys its timers.  It leaves the HTTP
\* destinations to xrsr_close; the timer object that they still name is not
\* there any more, and "armed" says nothing until xrsr_open.
LoopEnds ==
    /\ task = NoTask /\ running
    /\ running' = FALSE
    /\ http' = [c \in Conns |-> [http[c] EXCEPT !.armed = 0]]
    /\ g_http' = [g_http EXCEPT !.armed = 0]
    /\ UNCHANGED <<evq, task>>

\* xrsr_close has freed the routes; xrsr_open starts the router again.
Open ==
    /\ task = NoTask /\ ~running
    /\ \A c \in Conns : ~http[c].initialized
    /\ running' = TRUE
    /\ http' = [c \in Conns |-> [http[c] EXCEPT !.armed = 0]]
    /\ g_http' = [g_http EXCEPT !.armed = 0]
    /\ UNCHANGED <<evq, task>>

-----------------------------------------------------------------------------
Handlers(c) ==
    \/ Route(c) \/ Connect(c) \/ ConnectFails(c) \/ Terminate(c) \/ Term(c)
    \/ SpeechEvent(c) \/ ResponseTimeout(c)
    \/ ReadBody(c) \/ Complete(c) \/ MsgRecv(c)

Continue == Step \/ Return

Next ==
    \/ \E c \in Conns : Handlers(c)
    \/ MultiTimeout \/ Continue \/ LoopEnds \/ Open

Spec == Init /\ [][Next]_vars

\* A handler runs to its end, the router's loop gets to an expired timer
\* again and again (xrsr_thread_main serves it before anything else), and
\* xrsr_close, once it has ended the loop, frees the routes.
FairSpec ==
    /\ Spec
    /\ WF_vars(Continue)
    /\ \A c \in Conns : SF_vars(ResponseTimeout(c))
    /\ \A c \in Conns : WF_vars(~running /\ Term(c))

-----------------------------------------------------------------------------
(* Properties.                                                             *)

Events == {"SESSION_BEGIN", "SESSION_BEGIN_STM", "DISCONNECTED", "STM", "EOS",
           "TERMINATE", "TIMEOUT", "CONNECTED", "MSG_RECV", "PIPE_EOS",
           "TEXT_SESSION_SUCCESS"}

BeginEvents == {"SESSION_BEGIN", "SESSION_BEGIN_STM"}

Reasons == {"EOS", "EOT", "TERMINATE", "ERROR_AUDIO_DURATION",
            "ERROR_CONNECT_FAILURE", "ERROR_SESSION_TIMEOUT"}

HttpType == [
    initialized : BOOLEAN, state : States, easy_handle : BOOLEAN,
    transfer : Transfers, audio_pipe : 0 .. MaxSessions,
    timer_id_rsp : BOOLEAN, is_session_by_text : BOOLEAN, reason : Reasons,
    armed : Int, session : 0 .. MaxSessions, begun : BOOLEAN,
    streamEnds : Nat, sessionEnds : Nat, falseEnd : BOOLEAN, ended : Reasons]

GType == [ref : 0 .. Cardinality(Conns), multi_handle : BOOLEAN,
          easy_handle_cnt : Int, timer_id_multi : BOOLEAN, armed : Int]

Tasks == {NoTask} \cup
         [kind : {"event", "connect", "terminate", "term"}, conn : Conns]

\* The fields hold what their C types allow; no destination counts twice in
\* the references to the multi handle.
TypeOK ==
    /\ http \in [Conns -> HttpType]
    /\ g_http \in GType
    /\ evq \in Seq(Events)
    /\ task \in Tasks
    /\ running \in BOOLEAN

\* A session's begin event is still in the queue of c.
Beginning(c) ==
    /\ task # NoTask /\ task.conn = c
    /\ \E i \in DOMAIN evq : evq[i] \in BeginEvents

\* While the router runs, the timer library holds a response timer exactly
\* for the destinations that wait for a response.
TimerMatchesState ==
    running => \A c \in Conns :
        /\ http[c].armed = IF http[c].timer_id_rsp THEN 1 ELSE 0
        /\ http[c].timer_id_rsp <=> http[c].state = "Connected"

\* The count of easy handles is that of the destinations that hold one; while
\* the router runs, the one timer that is set for curl is the one that
\* timer_id_multi names, and it is gone with the last easy handle of them all.
\* (The multi handle may go before: it counts references, not easy handles.)
CurlTimerOwned ==
    /\ g_http.easy_handle_cnt = Cardinality({c \in Conns : http[c].easy_handle})
    /\ running => g_http.armed = IF g_http.timer_id_multi THEN 1 ELSE 0
    /\ g_http.easy_handle_cnt = 0 => ~g_http.timer_id_multi

\* A session ends its stream once and then itself once, whatever ended it.
EndedOnce ==
    \A c \in Conns : LET h == http[c] IN
        IF h.state = "Connected" THEN h.streamEnds = 1 /\ h.sessionEnds = 0
        ELSE IF h.state = "Disconnected"
        THEN h.streamEnds = h.sessionEnds /\ h.sessionEnds <= 1
        ELSE h.streamEnds = 0 /\ h.sessionEnds = 0

\* xrsr_http_terminate and xrsr_http_term end the session before they return,
\* and a session that xrsr_http_terminate ends says so to the application.
TerminateDisconnects ==
    (task.kind \in {"terminate", "term"} /\ evq = << >>) =>
        /\ http[task.conn].state = "Disconnected"
        /\ task.kind = "terminate" => http[task.conn].ended = "TERMINATE"

\* The application is told of a stream's end only if it was told of its
\* beginning.
StreamWasStarted == \A c \in Conns : ~http[c].falseEnd

\* Where the session of c is, as the router sees it.
Phase(c) ==
    LET s == http[c].state IN
    IF s = "Disconnected" THEN IF Beginning(c) THEN "opening" ELSE "idle"
    ELSE IF s = "Connected" THEN "draining"
    ELSE IF s \in {"Streaming", "TextOnlySession"} THEN "streaming"
    ELSE "opening"

Abstract(c) == INSTANCE Conn WITH phase <- Phase(c),
                                  streamEnds <- http[c].streamEnds,
                                  sessionEnds <- http[c].sessionEnds

\* Every HTTP destination keeps the contract of a destination (Conn!Spec),
\* whatever the others that share the multi handle do.
Contract ==
    /\ \A c \in Conns : Abstract(c)!Init
    /\ [][\A c \in Conns : [Abstract(c)!Next]_(Abstract(c)!vars)]_vars

\* A destination does not wait for a response for ever.
AnswerAwaited ==
    \A c \in Conns : http[c].state = "Connected" ~> http[c].state # "Connected"

-----------------------------------------------------------------------------
(* The inductive invariant: what the queue may hold for which destination,  *)
(* and what a destination holds in which state.                             *)

\* One event at most is queued, and none waits between handlers.
QueueShape ==
    /\ evq = << >> \/ \E e \in Events : evq = <<e>>
    /\ task = NoTask => evq = << >>

\* A begin event is processed by the idle destination it was raised for.
BeginsIdle ==
    \A c \in Conns : Beginning(c) =>
        /\ task.kind = "connect"
        /\ http[c].state = "Disconnected" /\ http[c].streamEnds = 0

\* Connecting is left at once, by the event that its ENTER action raised.
Passing ==
    \A c \in Conns : http[c].state = "Connecting" =>
        /\ task # NoTask /\ task.conn = c
        /\ evq \in {<<"CONNECTED">>, <<"DISCONNECTED">>}

\* A TERMINATE is still to come, or has taken effect.
Ending ==
    task.kind \in {"terminate", "term"} =>
        LET h == http[task.conn]
            told == task.kind = "terminate"
        IN  \/ evq = <<"TERMINATE">> /\ (told => h.state # "Disconnected")
            \/ /\ evq = << >> /\ h.state = "Disconnected"
               /\ told => h.ended = "TERMINATE"

\* A destination that no route has is idle, and has no handler.
RoutedOnly ==
    /\ \A c \in Conns : ~http[c].initialized => http[c].state = "Disconnected"
    /\ task # NoTask => http[task.conn].initialized

\* A session has an easy handle, from xrsr_http_connect on.
HandleHeld ==
    \A c \in Conns :
        http[c].easy_handle <=> http[c].state # "Disconnected" \/ Beginning(c)

\* What streams has begun; what waits for the response has its timer.
BegunHeld ==
    \A c \in Conns : LET h == http[c] IN
        /\ h.state \in {"Streaming", "TextOnlySession"} => h.begun
        /\ h.timer_id_rsp <=> h.state = "Connected"

\* A reference to the multi handle is some destination's.
RefsHeld == g_http.ref <= Cardinality({c \in Conns : http[c].initialized})

IInv ==
    /\ TypeOK /\ QueueShape /\ BeginsIdle /\ Passing /\ Ending /\ RoutedOnly
    /\ HandleHeld /\ BegunHeld /\ RefsHeld /\ EndedOnce /\ StreamWasStarted
    /\ TimerMatchesState /\ CurlTimerOwned
=============================================================================
