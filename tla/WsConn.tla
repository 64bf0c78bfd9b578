------------------------------ MODULE WsConn ------------------------------
(***************************************************************************)
(* One WebSocket destination of the speech router                          *)
(* (xrsr_protocol_ws.c, xrsr_protocol_ws_sm.h): the connection's state     *)
(* machine, its event queue and timer, the socket and the audio pipe the   *)
(* router thread serves for it, and the queue of outgoing messages that    *)
(* application threads fill.                                               *)
(*                                                                         *)
(* The router thread runs one handler at a time.  A handler raises an      *)
(* event (xrsr_ws_event): the event joins the state machine's queue and,   *)
(* unless it is raised from inside a state handler, the queue is processed *)
(* until it is empty before the call returns.  "task" is the handler whose *)
(* event is being processed, Step is one event taken off the queue, and    *)
(* what a handler still does once the queue is empty is a step of its own. *)
(* Application threads run between any two steps.                          *)
(*                                                                         *)
(* xrpSMEngine, rdkx_timer and nopoll are libraries: an event that the     *)
(* current state does not list is dropped; one that leads back to the same *)
(* state runs its INTERNAL action; any other runs EXIT of the old state    *)
(* and then ENTER of the new one, which already is the current state.      *)
(***************************************************************************)
EXTENDS Integers, Sequences

CONSTANTS
    TimeoutConnect,  \* timeout_connect, in units of the model's clock
    CheckInterval,   \* connect_check_interval, in the same units
    MsgOutMax,       \* XRSR_WS_MSG_OUT_MAX
    WriteRetryMax,   \* XRSR_WS_WRITE_PENDING_RETRY_MAX
    RetryWidth,      \* write_pending_retries counts modulo this (256)
    MaxSessions      \* bound: sessions the router begins on this connection

ASSUME ConstantsAssumption ==
    /\ TimeoutConnect \in Nat
    /\ CheckInterval \in Nat
    /\ MsgOutMax \in Nat \ {0}
    /\ WriteRetryMax \in Nat \ {0}
    /\ RetryWidth \in Nat /\ RetryWidth > WriteRetryMax + 1
    /\ MaxSessions \in Nat \ {0}

VARIABLES
    ws,       \* xrsr_state_ws_t, and what its calls have done so far
    evq,      \* activeEvtQueue of the state machine
    task,     \* the router's handler whose events are being processed
    recv,     \* recv_event, as the receive callback set it
    expired,  \* the clock has reached retry_timestamp_end
    sender    \* 0, or the session an application thread is sending in

vars == <<ws, evq, task, recv, expired, sender>>

-----------------------------------------------------------------------------
(* The state machine's tables.                                             *)

\* Which event leads where; an event that is not listed is dropped.
NextStates == [
    Disconnected |-> [
        TERMINATE |-> "Disconnected", SESSION_BEGIN |-> "Connecting",
        SESSION_BEGIN_STM |-> "Buffering"],
    Disconnecting |-> [
        TERMINATE |-> "Disconnected", DISCONNECTED |-> "Disconnected"],
    Buffering |-> [
        EOS |-> "Disconnected", TERMINATE |-> "Disconnected",
        STM |-> "Connecting"],
    Connecting |-> [
        CONNECT_TIMEOUT |-> "Disconnected", TERMINATE |-> "Disconnected",
        XRSR_ERROR |-> "Disconnected", TIMEOUT |-> "Connecting",
        RETRY |-> "Connection_Retry", CONNECTED |-> "Connected"],
    Connected |-> [
        ESTABLISH_TIMEOUT |-> "Disconnecting", TERMINATE |-> "Disconnecting",
        WS_CLOSE |-> "Disconnected", TIMEOUT |-> "Connected",
        ESTABLISHED |-> "Streaming"],
    Established |-> [
        APP_CLOSE |-> "Disconnecting", TERMINATE |-> "Disconnecting",
        TIMEOUT |-> "Disconnecting", MSG_RECV |-> "Established",
        EOS |-> "Established", EOS_PIPE |-> "Established",
        WS_CLOSE |-> "Disconnected"],
    Streaming |-> [
        MSG_RECV |-> "Streaming", EOS |-> "Streaming",
        EOS_PIPE |-> "Established", TERMINATE |-> "Disconnecting",
        WS_ERROR |-> "Disconnecting", WS_CLOSE |-> "Disconnected",
        AUDIO_ERROR |-> "Established",
        TEXT_SESSION_SUCCESS |-> "TextOnlySession"],
    TextOnlySession |-> [
        EOS_PIPE |-> "Established", TERMINATE |-> "Disconnecting",
        WS_ERROR |-> "Disconnecting", WS_CLOSE |-> "Disconnected",
        AUDIO_ERROR |-> "Established"],
    Connection_Retry |-> [
        TERMINATE |-> "Disconnected", TIMEOUT |-> "Connecting"]]

States == {"Disconnected", "Disconnecting", "Buffering", "Connecting",
           "Connected", "Established", "Streaming", "TextOnlySession",
           "Connection_Retry"}

\* States whose ENTER action arms the timer and whose EXIT action removes it.
TimedStates == {"Connecting", "Connected", "Established", "Connection_Retry"}

\* xrsr_ws_is_established
EstablishedStates == {"Established", "Streaming", "TextOnlySession"}

\* Mutant of Why: the two reasons swapped.
SwappedWhy(stream, session) == [stream |-> session, session |-> stream]

\* The stream and session end reasons that the EXIT actions set.
Why(stream, session) == [stream |-> stream, session |-> session]
NotBegun(session) == Why("DID_NOT_BEGIN", session)

ExitReasons(w) == [
    Buffering |-> [
        EOS |-> Why("AUDIO_EOF", "ERROR_AUDIO_DURATION"),
        TERMINATE |-> NotBegun("TERMINATE")],
    Connecting |-> [
        CONNECT_TIMEOUT |-> NotBegun("ERROR_CONNECT_FAILURE"),
        TERMINATE |-> NotBegun("TERMINATE")],
    Connected |-> [
        WS_CLOSE |-> Why("DISCONNECT_REMOTE", "ERROR_CONNECT_FAILURE"),
        ESTABLISH_TIMEOUT |-> NotBegun("ERROR_CONNECT_TIMEOUT"),
        TERMINATE |-> NotBegun("TERMINATE")],
    Connection_Retry |-> [
        TERMINATE |-> Why("DISCONNECT_LOCAL", "TERMINATE")],
    Established |-> [
        APP_CLOSE |-> Why(w.stream_end_reason, "EOS"),
        TERMINATE |-> Why(w.stream_end_reason, "TERMINATE"),
        TIMEOUT |-> Why(w.stream_end_reason, "ERROR_SESSION_TIMEOUT"),
        WS_CLOSE |-> Why(w.stream_end_reason, "EOS")],
    Streaming |-> [
        EOS_PIPE |-> Why("AUDIO_EOF", "EOS"),
        TERMINATE |-> Why("DISCONNECT_LOCAL", "TERMINATE"),
        AUDIO_ERROR |-> Why("ERROR_AUDIO_READ", "EOS"),
        WS_ERROR |-> Why("DISCONNECT_REMOTE", "ERROR_WS_SEND"),
        WS_CLOSE |-> Why("DISCONNECT_REMOTE",
                         IF w.closed_normally THEN "DISCONNECT_REMOTE"
                         ELSE "ERROR_DISCONNECT_REMOTE")],
    TextOnlySession |-> [
        EOS_PIPE |-> Why("AUDIO_EOF", "EOS"),
        TERMINATE |-> Why("DISCONNECT_LOCAL", "TERMINATE"),
        AUDIO_ERROR |-> Why("ERROR_AUDIO_READ", "EOS"),
        WS_ERROR |-> Why("DISCONNECT_REMOTE", "ERROR_WS_SEND"),
        WS_CLOSE |-> Why("INVALID", "EOT")]]

RecvEvents == {"NONE", "EOS_SERVER", "DISCONNECT_REMOTE"}

StreamReasons == {"AUDIO_EOF", "DISCONNECT_REMOTE", "DISCONNECT_LOCAL",
                  "ERROR_AUDIO_READ", "DID_NOT_BEGIN", "INVALID"}

SessionReasons == {"EOS", "EOT", "DISCONNECT_REMOTE", "TERMINATE",
                   "ERROR_WS_SEND", "ERROR_AUDIO_DURATION",
                   "ERROR_CONNECT_FAILURE", "ERROR_CONNECT_TIMEOUT",
                   "ERROR_SESSION_TIMEOUT", "ERROR_DISCONNECT_REMOTE"}

-----------------------------------------------------------------------------
(* The connection.  armed, session, begun, streamEnds, sessionEnds,        *)
(* falseEnd and fresh are not fields of the struct: they record what the   *)
(* timer library holds for this connection and which calls the router has  *)
(* received in the latest session.                                         *)

WsInit == [
    ctx |-> TRUE,                  \* obj_ctx is not NULL
    state |-> "Disconnected",      \* state_machine
    timer_id |-> FALSE,            \* timer_id is not RDXK_TIMER_ID_INVALID
    connect_wait_time |-> 0,
    obj_conn |-> FALSE,            \* obj_conn is not NULL
    conn_open |-> FALSE,           \* neither side has closed obj_conn
    socket |-> FALSE,              \* socket is not -1
    audio_pipe |-> FALSE,          \* audio_pipe_fd_read is not -1
    write_pending |-> FALSE,       \* write_pending_bytes
    write_pending_retries |-> 0,
    on_close |-> FALSE,
    closed_normally |-> FALSE,     \* close_status is 1000
    is_session_by_text |-> FALSE,
    stream_end_reason |-> "AUDIO_EOF",
    session_end_reason |-> "EOS",
    msg_out |-> << >>,             \* each message: the session it is sent in
    armed |-> 0,                   \* timers rdkx_timer holds for us
    session |-> 0,                 \* sessions begun so far
    begun |-> FALSE,               \* the stream begin callback was made
    streamEnds |-> 0,              \* calls of xrsr_speech_stream_end
    sessionEnds |-> 0,             \* calls of xrsr_session_end
    falseEnd |-> FALSE,            \* stream end callback without stream begin
    fresh |-> FALSE]               \* session_end_reason set in this session

Init ==
    /\ ws = WsInit
    /\ evq = << >>
    /\ task = "idle"
    /\ recv = "NONE"
    /\ expired = FALSE
    /\ sender = 0

-----------------------------------------------------------------------------
(* What the state handlers' actions do to the connection.                  *)

ArmTimer(w) == [w EXCEPT !.timer_id = TRUE, !.armed = @ + 1]

\* Mutant of RemoveTimer: timer_id keeps naming the removed timer.
RemoveKeepingId(w) == IF w.timer_id THEN [w EXCEPT !.armed = @ - 1] ELSE w

RemoveTimer(w) ==
    IF w.timer_id THEN [w EXCEPT !.timer_id = FALSE, !.armed = @ - 1] ELSE w

\* Mutant of SetReasons: a connection that fails leaves the reasons alone.
SetUnlessFailed(w, why) ==
    IF why.session = "ERROR_CONNECT_FAILURE" THEN w
    ELSE [w EXCEPT !.stream_end_reason = why.stream,
                   !.session_end_reason = why.session,
                   !.fresh = TRUE]

SetReasons(w, why) ==
    [w EXCEPT !.stream_end_reason = why.stream,
              !.session_end_reason = why.session,
              !.fresh = TRUE]

\* Mutant of SpeechStreamEnd: the pipe of a stream that did not begin stays.
EndBegunStreamOnly(w) ==
    [w EXCEPT !.audio_pipe = @ /\ w.stream_end_reason = "DID_NOT_BEGIN",
              !.streamEnds = @ + 1,
              !.falseEnd = @ \/ (w.stream_end_reason # "DID_NOT_BEGIN"
                                 /\ ~w.begun)]

\* xrsr_speech_stream_end makes the stream end callback for every reason but
\* DID_NOT_BEGIN; the destination's end of the audio pipe is closed.
SpeechStreamEnd(w) ==
    [w EXCEPT !.audio_pipe = FALSE,
              !.streamEnds = @ + 1,
              !.falseEnd = @ \/ (w.stream_end_reason # "DID_NOT_BEGIN"
                                 /\ ~w.begun)]

\* Mutant of Exit: leaving Established ends the stream once more.
ExitEndsAgain(w, e) ==
    LET why == ExitReasons(w)
        ends == w.state \in DOMAIN why /\ e \in DOMAIN why[w.state]
        ended == IF ends THEN SpeechStreamEnd(SetReasons(w, why[w.state][e]))
                 ELSE w
    IN  IF w.state \in TimedStates THEN RemoveTimer(ended) ELSE ended

\* EXIT of w.state on event e.  Established ends the session only: its
\* stream ended on the way in.  TEXT_SESSION_SUCCESS keeps the stream open.
Exit(w, e) ==
    LET why == ExitReasons(w)
        ends == w.state \in DOMAIN why /\ e \in DOMAIN why[w.state]
        told == IF ends THEN SetReasons(w, why[w.state][e]) ELSE w
        ended == IF ends /\ w.state # "Established" THEN SpeechStreamEnd(told)
                 ELSE told
    IN  IF w.state \in TimedStates THEN RemoveTimer(ended) ELSE ended

\* xrsr_ws_reset
Reset(w) ==
    [w EXCEPT !.socket = FALSE, !.timer_id = FALSE, !.audio_pipe = FALSE,
              !.write_pending = FALSE, !.write_pending_retries = 0,
              !.on_close = FALSE, !.is_session_by_text = FALSE,
              !.msg_out = << >>]

\* Mutant of Disconnect: only a session that had a connection is ended.
EndConnectedOnly(w) ==
    Reset([w EXCEPT !.state = "Disconnected",
                    !.sessionEnds = IF w.obj_conn THEN @ + 1 ELSE @])

\* ENTER of Disconnected: the disconnected callback, the end of the session.
Disconnect(w) ==
    Reset([w EXCEPT !.state = "Disconnected", !.sessionEnds = @ + 1])

\* ENTER of Disconnecting: the close handler is removed, then the socket is
\* closed unless the server already closed it.
CloseConn(w) ==
    [w EXCEPT !.state = "Disconnecting", !.obj_conn = FALSE,
              !.conn_open = FALSE]

\* xrsr_ws_on_close: nopoll found the connection closed.
OnClose(w, normally) ==
    [w EXCEPT !.on_close = TRUE, !.closed_normally = normally,
              !.conn_open = FALSE]

-----------------------------------------------------------------------------
(* The state machine takes one event off its queue.                        *)

EnterDisconnected(w, rest) ==
    /\ ws' = Disconnect(w)
    /\ evq' = rest

\* Mutant of EnterDisconnecting: an open connection waits for its close.
AwaitClose(w, rest) ==
    /\ ws' = CloseConn(w)
    /\ evq' = IF w.conn_open THEN rest ELSE Append(rest, "DISCONNECTED")

EnterDisconnecting(w, rest) ==
    /\ ws' = CloseConn(w)
    /\ evq' = Append(rest, "DISCONNECTED")

\* Buffering and TextOnlySession have no ENTER action.
EnterQuiet(w, s, rest) ==
    /\ ws' = [w EXCEPT !.state = s]
    /\ evq' = rest

GiveUpOrRetry == IF expired THEN "CONNECT_TIMEOUT" ELSE "RETRY"

EnterConnecting(w, rest) ==
    \/ \* xrsr_ws_connect_new started a connection
       /\ ws' = ArmTimer([w EXCEPT !.state = "Connecting", !.obj_conn = TRUE,
                                   !.conn_open = TRUE])
       /\ evq' = rest
    \/ \* it could not
       /\ ws' = [w EXCEPT !.state = "Connecting", !.obj_conn = FALSE]
       /\ evq' = Append(rest, GiveUpOrRetry)

EnterConnected(w, rest) ==
    /\ ws' = ArmTimer([w EXCEPT !.state = "Connected",
                                !.connect_wait_time = TimeoutConnect])
    /\ evq' = rest

\* Established waits for the server's messages, Connection_Retry for the end
\* of the back-off delay.
EnterTimed(w, s, rest) ==
    /\ ws' = ArmTimer([w EXCEPT !.state = s])
    /\ evq' = rest

\* The connected callback's result matters to a text session only.
EnterStreaming(w, rest) ==
    /\ ws' = [w EXCEPT !.state = "Streaming", !.begun = TRUE]
    /\ \/ evq' = rest
       \/ w.is_session_by_text /\ evq' = Append(rest, "TEXT_SESSION_SUCCESS")

Enter(w, s, rest) ==
    \/ s = "Disconnected" /\ EnterDisconnected(w, rest)
    \/ s = "Disconnecting" /\ EnterDisconnecting(w, rest)
    \/ s \in {"Buffering", "TextOnlySession"} /\ EnterQuiet(w, s, rest)
    \/ s = "Connecting" /\ EnterConnecting(w, rest)
    \/ s = "Connected" /\ EnterConnected(w, rest)
    \/ s \in {"Established", "Connection_Retry"} /\ EnterTimed(w, s, rest)
    \/ s = "Streaming" /\ EnterStreaming(w, rest)

\* Mutant of WaitOrGiveUp: the waiting time is never used up.
WaitForEver(w, giveUp, rest) ==
    IF w.connect_wait_time <= 0
    THEN ws' = w /\ evq' = Append(rest, giveUp)
    ELSE ws' = w /\ evq' = rest

\* INTERNAL of Connecting and Connected on TIMEOUT while the server has not
\* answered: wait one more interval, or raise giveUp when none is left.  The
\* timer is updated only if it still is ours.
WaitOrGiveUp(w, giveUp, rest) ==
    IF w.connect_wait_time <= 0
    THEN ws' = w /\ evq' = Append(rest, giveUp)
    ELSE /\ ws' = [w EXCEPT !.connect_wait_time = @ - CheckInterval]
         /\ evq' = rest

PollConnecting(rest) ==
    \/ ws' = ws /\ evq' = Append(rest, "CONNECTED")
    \/ WaitOrGiveUp(ws, GiveUpOrRetry, rest)

\* nopoll_conn_is_ready may find the connection closed.  The close handler
\* then raises WS_CLOSE, which is processed to the end inside the poll.
PollConnected(rest) ==
    \/ /\ ws' = [ws EXCEPT !.socket = TRUE]
       /\ evq' = Append(rest, "ESTABLISHED")
    \/ WaitOrGiveUp(ws, "ESTABLISH_TIMEOUT", rest)
    \/ \E normally \in BOOLEAN :
          WaitOrGiveUp(Disconnect(Exit(OnClose(ws, normally), "WS_CLOSE")),
                       "ESTABLISH_TIMEOUT", rest)

\* The other self-transitions only push the inactivity timeout back.
Internal(e, rest) ==
    \/ ws.state = "Connecting" /\ PollConnecting(rest)
    \/ ws.state = "Connected" /\ PollConnected(rest)
    \/ /\ ws.state \notin {"Connecting", "Connected"}
       /\ ws' = ws
       /\ evq' = rest

Step ==
    /\ task # "idle"
    /\ evq # << >>
    /\ LET e == Head(evq)
           rest == Tail(evq)
           next == NextStates[ws.state]
       IN  \/ e \notin DOMAIN next /\ ws' = ws /\ evq' = rest
           \/ e \in DOMAIN next /\ next[e] = ws.state /\ Internal(e, rest)
           \/ /\ e \in DOMAIN next
              /\ next[e] # ws.state
              /\ Enter(Exit(ws, e), next[e], rest)
    /\ UNCHANGED <<task, recv, expired, sender>>

-----------------------------------------------------------------------------
(* The router thread's handlers.  A handler starts when no other one runs; *)
(* events that a message callback left in the queue are still there.       *)

\* xrsr_ws_event(ws, e, false), called by handler t
Raise(e, t) ==
    /\ task' = t
    /\ evq' = Append(evq, e)

\* A handler that raises one event and has nothing to do after it.
RaiseOnly(e) ==
    /\ Raise(e, "event")
    /\ UNCHANGED <<ws, recv, expired, sender>>

Idle == task = "idle" /\ ws.ctx

\* xrsr_ws_connect, for the session that the application has configured.  A
\* text session is never deferred until the minimum stream time is reached.
\* xrsr_speech_stream_begin handed over the destination's end of the audio
\* pipe.
Connect ==
    /\ Idle
    /\ ws.state = "Disconnected"
    /\ ws.session < MaxSessions
    /\ \E text \in BOOLEAN, deferred \in BOOLEAN :
         /\ ~(text /\ deferred)
         /\ ws' = [ws EXCEPT !.connect_wait_time = TimeoutConnect,
                             !.on_close = FALSE,
                             !.closed_normally = FALSE,
                             !.audio_pipe = TRUE,
                             !.is_session_by_text = text,
                             !.session = @ + 1,
                             !.begun = FALSE,
                             !.streamEnds = 0,
                             !.sessionEnds = 0,
                             !.falseEnd = FALSE,
                             !.fresh = FALSE]
         /\ Raise(IF deferred THEN "SESSION_BEGIN_STM" ELSE "SESSION_BEGIN",
                  "event")
    /\ expired' = FALSE
    /\ UNCHANGED <<recv, sender>>

\* xrsr_ws_terminate, called for a session that is in progress.
Terminate ==
    /\ Idle
    /\ ws.state # "Disconnected"
    /\ Raise("TERMINATE", "terminate")
    /\ UNCHANGED <<ws, recv, expired, sender>>

\* xrsr_ws_term: the route is replaced, or the router closes.
Term ==
    /\ Idle
    /\ Raise("TERMINATE", "term")
    /\ UNCHANGED <<ws, recv, expired, sender>>

\* xrsr_ws_init, on the state of a connection that was terminated.
Reinit ==
    /\ task = "idle"
    /\ ~ws.ctx
    /\ ws' = [WsInit EXCEPT !.armed = ws.armed,
                            !.session = ws.session,
                            !.streamEnds = ws.streamEnds,
                            !.sessionEnds = ws.sessionEnds]
    /\ evq' = << >>
    /\ UNCHANGED <<task, recv, expired, sender>>

\* xrsr_ws_handle_speech_event: xraudio reports the minimum stream time or
\* the end of speech.
SpeechEvent ==
    /\ Idle
    /\ \E e \in {"STM", "EOS"} : RaiseOnly(e)

\* xrsr_ws_process_timeout
TimerFire ==
    /\ Idle
    /\ ws.armed > 0
    /\ RaiseOnly("TIMEOUT")

Serving == Idle /\ ws.state \in EstablishedStates /\ ws.socket

\* nopoll calls xrsr_ws_on_close from inside a read or a write of handler t.
CloseIn(t) ==
    /\ \E normally \in BOOLEAN : ws' = OnClose(ws, normally)
    /\ Raise("WS_CLOSE", t)
    /\ UNCHANGED <<recv, expired, sender>>

\* xrsr_ws_handle_fds, data to read on the socket: a message (which
\* xrsr_ws_on_msg announces before it calls the application) or the end of
\* the connection.
ReadSocket ==
    /\ Serving
    /\ \/ /\ Raise("MSG_RECV", "on_msg")
          /\ UNCHANGED <<ws, recv, expired, sender>>
       \/ CloseIn("event")

\* An attempt to write the rest of a message failed once more.
CountRetry ==
    /\ ws' = [ws EXCEPT !.write_pending_retries = (@ + 1) % RetryWidth]
    /\ IF ws'.write_pending_retries > WriteRetryMax
       THEN Raise("WS_ERROR", "event")
       ELSE task' = "idle" /\ UNCHANGED evq
    /\ UNCHANGED <<recv, expired, sender>>

\* xrsr_ws_handle_fds, bytes of an earlier write still to be written: all
\* written, still not all written, or the connection found closed.
WritePending ==
    /\ Serving
    /\ ws.write_pending
    /\ \/ /\ ws' = [ws EXCEPT !.write_pending = FALSE,
                              !.write_pending_retries = 0]
          /\ UNCHANGED <<evq, task, recv, expired, sender>>
       \/ CountRetry
       \/ CloseIn("write_pending")

\* What xrsr_ws_handle_fds does after a write that found the end.
CountPendingRetry ==
    /\ task = "write_pending"
    /\ evq = << >>
    /\ CountRetry

\* A write of w fails with an error, or finds the connection closed; either
\* way the caller raises WS_ERROR in the end.
WriteFails(w) ==
    \/ /\ ws' = w
       /\ Raise("WS_ERROR", "event")
       /\ UNCHANGED <<recv, expired, sender>>
    \/ /\ \E normally \in BOOLEAN : ws' = OnClose(w, normally)
       /\ Raise("WS_CLOSE", "write_error")
       /\ UNCHANGED <<recv, expired, sender>>

\* A write of w completes, or would block.
WriteGoes(w) ==
    /\ \E pending \in BOOLEAN : ws' = [w EXCEPT !.write_pending = pending]
    /\ UNCHANGED <<evq, task, recv, expired, sender>>

ReportWriteError ==
    /\ task = "write_error"
    /\ evq = << >>
    /\ RaiseOnly("WS_ERROR")

\* xrsr_ws_handle_fds, a message of the application to send.
SendMsgOut ==
    /\ Serving
    /\ ~ws.write_pending
    /\ ws.msg_out # << >>
    /\ LET w == [ws EXCEPT !.msg_out = Tail(@)]
       IN  WriteFails(w) \/ WriteGoes(w)

\* xrsr_ws_handle_fds, the audio pipe is readable: data to send on, the end
\* of the audio, or an error.
ReadPipe ==
    /\ Serving
    /\ ws.audio_pipe
    /\ ~ws.write_pending
    /\ \/ RaiseOnly("EOS_PIPE")
       \/ RaiseOnly("AUDIO_ERROR")
       \/ WriteFails(ws)
       \/ WriteGoes(ws)

\* xrsr_ws_on_msg: MSG_RECV is processed, the application gets the message.
\* It may ask to close the connection, and may report an end of the stream.
\* EOS_PIPE then only joins the queue: the next event processes it.
ReportRecvEvent(ev) ==
    IF ev = "NONE" THEN UNCHANGED <<ws, evq>>
    ELSE /\ ws' = SetReasons(ws, IF ev = "EOS_SERVER" THEN Why("AUDIO_EOF", "EOS")
                                 ELSE Why("DISCONNECT_REMOTE", "ERROR_WS_SEND"))
         /\ evq' = Append(evq, "EOS_PIPE")

\* Mutant of RecvMsg: MSG_RECV is queued, not processed, before the callback.
RecvUnprocessed ==
    /\ task = "on_msg"
    /\ \E ev \in RecvEvents :
         \/ /\ Raise("APP_CLOSE", "on_msg_done")
            /\ recv' = ev
            /\ UNCHANGED <<ws, expired, sender>>
         \/ /\ ReportRecvEvent(ev)
            /\ task' = "idle"
            /\ UNCHANGED <<recv, expired, sender>>

RecvMsg ==
    /\ task = "on_msg"
    /\ evq = << >>
    /\ \E ev \in RecvEvents :
         \/ /\ Raise("APP_CLOSE", "on_msg_done")
            /\ recv' = ev
            /\ UNCHANGED <<ws, expired, sender>>
         \/ /\ ReportRecvEvent(ev)
            /\ task' = "idle"
            /\ UNCHANGED <<recv, expired, sender>>

OnMsgDone ==
    /\ task = "on_msg_done"
    /\ evq = << >>
    /\ ReportRecvEvent(recv)
    /\ task' = "idle"
    /\ recv' = "NONE"
    /\ UNCHANGED <<expired, sender>>

\* The queue is empty and the handler returns to the router's loop;
\* xrsr_ws_term releases the context first.
Return ==
    /\ task \in {"event", "terminate", "term"}
    /\ evq = << >>
    /\ task' = "idle"
    /\ ws' = IF task = "term" THEN [ws EXCEPT !.ctx = FALSE] ELSE ws
    /\ UNCHANGED <<evq, recv, expired, sender>>

\* The session's retry period is over.
Expire ==
    /\ ~expired
    /\ expired' = TRUE
    /\ UNCHANGED <<ws, evq, task, recv, sender>>

-----------------------------------------------------------------------------
(* An application thread sends a message: xrsr_ws_send_text looks at the   *)
(* state machine, then xrsr_ws_queue_msg_out takes the queue's semaphore.  *)

SendCheck ==
    /\ sender = 0
    /\ ws.state \in EstablishedStates
    /\ sender' = ws.session
    /\ UNCHANGED <<ws, evq, task, recv, expired>>

SendPut ==
    /\ sender # 0
    /\ ws' = IF Len(ws.msg_out) < MsgOutMax
             THEN [ws EXCEPT !.msg_out = Append(@, sender)] ELSE ws
    /\ sender' = 0
    /\ UNCHANGED <<evq, task, recv, expired>>

-----------------------------------------------------------------------------
Handlers ==
    \/ Connect \/ Terminate \/ Term \/ Reinit \/ SpeechEvent \/ TimerFire
    \/ ReadSocket \/ WritePending \/ SendMsgOut \/ ReadPipe

\* What a running handler does next.
Continue ==
    Step \/ CountPendingRetry \/ ReportWriteError \/ RecvMsg \/ OnMsgDone
    \/ Return

Next == Handlers \/ Continue \/ Expire \/ SendCheck \/ SendPut

Spec == Init /\ [][Next]_vars

\* A handler runs to its end, the clock advances, and while a connection is
\* being opened the router's loop gets to its timer again and again:
\* xrsr_thread_main serves an expired timer before anything else.
OpeningStates == {"Connecting", "Connected", "Connection_Retry"}

FairSpec ==
    /\ Spec
    /\ WF_vars(Continue)
    /\ WF_vars(Expire)
    /\ SF_vars(TimerFire /\ ws.state \in OpeningStates)

-----------------------------------------------------------------------------
(* Properties.                                                             *)

Events == {"SESSION_BEGIN", "SESSION_BEGIN_STM", "STM", "EOS", "EOS_PIPE",
           "TERMINATE", "TIMEOUT", "CONNECT_TIMEOUT", "RETRY", "CONNECTED",
           "ESTABLISH_TIMEOUT", "ESTABLISHED", "TEXT_SESSION_SUCCESS",
           "MSG_RECV", "APP_CLOSE", "AUDIO_ERROR", "WS_ERROR", "WS_CLOSE",
           "DISCONNECTED"}

BeginEvents == {"SESSION_BEGIN", "SESSION_BEGIN_STM"}

Tasks == {"idle", "event", "terminate", "term", "on_msg", "on_msg_done",
          "write_pending", "write_error"}

WsType == [
    ctx : BOOLEAN, state : States, timer_id : BOOLEAN,
    connect_wait_time : Int, obj_conn : BOOLEAN, conn_open : BOOLEAN,
    socket : BOOLEAN, audio_pipe : BOOLEAN, write_pending : BOOLEAN,
    write_pending_retries : 0 .. RetryWidth - 1, on_close : BOOLEAN,
    closed_normally : BOOLEAN, is_session_by_text : BOOLEAN,
    stream_end_reason : StreamReasons, session_end_reason : SessionReasons,
    msg_out : Seq(1 .. MaxSessions), armed : Int, session : 0 .. MaxSessions,
    begun : BOOLEAN, streamEnds : Nat, sessionEnds : Nat,
    falseEnd : BOOLEAN, fresh : BOOLEAN]

\* The fields hold what their C types allow, and what the queue and the
\* application's threads hold is well formed.
TypeOK ==
    /\ ws \in WsType
    /\ evq \in Seq(Events)
    /\ task \in Tasks
    /\ recv \in RecvEvents
    /\ expired \in BOOLEAN
    /\ sender \in 0 .. MaxSessions

\* A session's begin event is still in the queue.
Beginning == \E i \in DOMAIN evq : evq[i] \in BeginEvents

\* Between handlers the timer library holds exactly the timer that timer_id
\* names, and it holds one exactly in the states that wait for time to pass:
\* no path through a handler, the nested processing of WS_CLOSE in
\* xrsr_ws_conn_is_ready included, loses a timer or leaves one behind for
\* the next session.
TimerMatchesState ==
    /\ ws.armed = IF ws.timer_id THEN 1 ELSE 0
    /\ task = "idle" => (ws.timer_id <=> ws.state \in TimedStates)

\* A session ends its stream once and then itself once, whatever ended it:
\* the router counts on both calls to release the pipe, the microphone and
\* the audio source, and a second call would be charged to the next session.
EndedOnce ==
    /\ ws.state \in {"Established", "Disconnecting"}
          => ws.streamEnds = 1 /\ ws.sessionEnds = 0
    /\ ws.state = "Disconnected"
          => ws.streamEnds = ws.sessionEnds /\ ws.sessionEnds <= 1
    /\ ws.state \notin {"Established", "Disconnecting", "Disconnected"}
          => ws.streamEnds = 0 /\ ws.sessionEnds = 0

\* xrsr_ws_terminate and xrsr_ws_term end the session before they return,
\* wherever it was and whatever a message callback left in the queue, and a
\* session that xrsr_ws_terminate ends says so to the application.
TerminateDisconnects ==
    (task \in {"terminate", "term"} /\ evq = << >>) =>
        /\ ws.state = "Disconnected"
        /\ task = "terminate" => ws.session_end_reason = "TERMINATE"

\* The router reads and writes through the socket and the connection object
\* only while both exist; the destination's end of the audio pipe is open
\* only while a stream is.
Usable ==
    /\ ws.state \in EstablishedStates => ws.obj_conn /\ ws.socket
    /\ ws.audio_pipe =>
          \/ ws.state \notin {"Established", "Disconnecting", "Disconnected"}
          \/ ws.state = "Disconnected" /\ Beginning

\* The state machine's queue (XRSR_WS_SM_EVENTS_MAX events) never holds more
\* than an event that a message callback left there and the one after it.
QueueBounded == Len(evq) <= 2

\* The reason a session ends with is one that was set in that session, not
\* one left over from the session before.
ReasonOfThisSession ==
    [][ws'.sessionEnds > ws.sessionEnds => ws'.fresh]_vars

\* Where the session is, as the router sees it.
Phase ==
    IF ws.state = "Disconnected" THEN IF Beginning THEN "opening" ELSE "idle"
    ELSE IF ws.streamEnds = 1 THEN "draining"
    ELSE IF ws.state \in {"Streaming", "TextOnlySession"} THEN "streaming"
    ELSE "opening"

Abstract == INSTANCE Conn WITH phase <- Phase, streamEnds <- ws.streamEnds,
                               sessionEnds <- ws.sessionEnds

\* The connection keeps the contract of every destination.
Contract == Abstract!Spec

\* An attempt to open the connection does not go on for ever: the server
\* accepts it or, at the latest when the retry period is over, the session
\* ends (xrsr_ws_connect, St_Ws_Connecting, St_Ws_Connection_Retry).
OpeningResolves ==
    ws.state \in OpeningStates ~> ws.state \notin OpeningStates

-----------------------------------------------------------------------------
(* The inductive invariant: what the queue may hold where, and what follows *)
(* for the connection when the event it holds is processed.                *)

\* An EOS_PIPE that a message callback left behind comes first and is the
\* only event that waits between handlers.
QueueShape ==
    /\ evq = << >> \/ (\E e \in Events : evq = <<e>> \/ evq = <<"EOS_PIPE", e>>)
    /\ task = "idle" => evq \in {<< >>, <<"EOS_PIPE">>}

\* A begin event is processed by the idle connection it was raised for.
BeginsIdle ==
    Beginning => ws.state = "Disconnected" /\ ws.streamEnds = 0

\* Disconnecting is left at once.
Leaving == ws.state = "Disconnecting" => evq = <<"DISCONNECTED">>

\* A TERMINATE is still to come, takes effect, or has done so.
Ending ==
    task \in {"terminate", "term"} =>
        \/ /\ evq \in {<<"TERMINATE">>, <<"EOS_PIPE", "TERMINATE">>}
           /\ task = "terminate" => ws.state # "Disconnected"
        \/ /\ \/ ws.state = "Disconnecting"
              \/ ws.state = "Disconnected" /\ evq = << >>
           /\ task = "terminate" => ws.session_end_reason = "TERMINATE"

\* A connection without its context is idle until xrsr_ws_init.
Terminated == ~ws.ctx => task = "idle" /\ ws.state = "Disconnected"

\* Only a connection attempt that could not start has no timer.
TimerHeld ==
    /\ ws.armed = IF ws.timer_id THEN 1 ELSE 0
    /\ ws.timer_id => ws.state \in TimedStates
    /\ (ws.state \in TimedStates /\ ~ws.timer_id) =>
          ws.state = "Connecting" /\ evq \in {<<"RETRY">>, <<"CONNECT_TIMEOUT">>}

\* The connection object exists from Connecting on, the socket once the
\* connection is found ready.
ConnHeld ==
    /\ (ws.state = "Connecting" /\ ws.timer_id) => ws.obj_conn
    /\ ws.state = "Connected" => ws.obj_conn
    /\ evq = <<"ESTABLISHED">> => ws.state = "Connected" /\ ws.socket
    /\ evq # <<"EOS_PIPE", "ESTABLISHED">>

IInv ==
    /\ TypeOK /\ QueueShape /\ EndedOnce /\ BeginsIdle /\ Leaving /\ Ending
    /\ Terminated /\ TimerHeld /\ ConnHeld /\ Usable

-----------------------------------------------------------------------------
(* What comments and declarations of the repository say, and the code does *)
(* not do.                                                                 *)

\* xrsr_speech_stream_end tells the application of a stream's end when "the
\* stream was started".
StreamWasStarted == ~ws.falseEnd

\* xrsr_handler_connected_t: the send function sends data "during the
\* session" it was handed out for.
SentToItsSession ==
    ws.state \in EstablishedStates =>
        \A i \in DOMAIN ws.msg_out : ws.msg_out[i] = ws.session
=============================================================================
