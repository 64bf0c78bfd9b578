------------------------------ MODULE SdtConn -----------------------------
(***************************************************************************)
(* One SDT destination of the speech router (xrsr_protocol_sdt.c,          *)
(* xrsr_protocol_sdt_sm.h): the state machine of a WebSocket in front of   *)
(* the application's audio handler; opening a connection always succeeds.  *)
(*                                                                         *)
(* The machine works as that of WsConn: xrsr_sdt_event queues an event     *)
(* and, unless a state handler raises it, processes the queue until it is  *)
(* empty.  "task" is the handler of the router thread that does so and     *)
(* Step is one event.  Three things are different.  No state arms a timer, *)
(* although most of them remove or update one.  Termination of the         *)
(* destination does nothing, so that the router's end (LoopEnds) leaves a  *)
(* session as it is, and xrsr_sdt_init of the next router (Restart) wipes  *)
(* it out.  Messages of the application are queued and never sent.         *)
(***************************************************************************)
EXTENDS Integers, Sequences

CONSTANTS
    MsgOutMax,       \* XRSR_SDT_MSG_OUT_MAX
    MaxSessions      \* bound: sessions the router begins on this connection

ASSUME ConstantsAssumption ==
    /\ MsgOutMax \in Nat
    /\ MaxSessions \in Nat \ {0}

VARIABLES
    sdt,      \* xrsr_state_sdt_t, and what its calls have done so far
    evq,      \* activeEvtQueue of the state machine
    task,     \* the router's handler whose events are being processed
    running,  \* the router's loop is running
    sender    \* 0, or the session an application thread is sending in

vars == <<sdt, evq, task, running, sender>>

-----------------------------------------------------------------------------
(* The state machine's tables.                                             *)

\* Which event leads where; an event that is not listed is dropped.
NextStates == [
    Disconnected |-> [
        SESSION_BEGIN |-> "Connecting", SESSION_BEGIN_STM |-> "Buffering"],
    Disconnecting |-> [DISCONNECTED |-> "Disconnected"],
    Buffering |-> [
        EOS |-> "Disconnected", TERMINATE |-> "Disconnected",
        STM |-> "Connecting"],
    Connecting |-> [
        CONNECT_TIMEOUT |-> "Disconnected", TERMINATE |-> "Disconnected",
        XRSR_ERROR |-> "Disconnected", TIMEOUT |-> "Connecting",
        RETRY |-> "Connection_Retry", CONNECTED |-> "Connected"],
    Connected |-> [
        ESTABLISH_TIMEOUT |-> "Disconnecting", TERMINATE |-> "Disconnecting",
        WS_CLOSE |-> "Disconnected", TIMEOUT |-> "Connected",
        ESTABLISHED |-> "Streaming"],
    Established |-> [
        APP_CLOSE |-> "Disconnecting", TERMINATE |-> "Disconnecting",
        EOS |-> "Disconnecting", MSG_RECV |-> "Established",
        WS_CLOSE |-> "Disconnected"],
    Streaming |-> [
        EOS_PIPE |-> "Established", TERMINATE |-> "Disconnecting",
        WS_ERROR |-> "Disconnecting", WS_CLOSE |-> "Disconnected",
        AUDIO_ERROR |-> "Established"]]

States == DOMAIN NextStates

\* xrsr_sdt_is_established
EstablishedStates == {"Established", "Streaming"}

\* The stream and session end reasons that the EXIT actions set, for the
\* events the code raises.  Leaving Established for any other event keeps the
\* reasons that ended the stream.
Why(stream, session) == [stream |-> stream, session |-> session]
NotBegun == Why("DID_NOT_BEGIN", "TERMINATE")

\* Mutant of ExitReasons: a stream that ran dry leaves the reasons alone.
ReasonsButForEof(s) == [
    Buffering |-> [
        EOS |-> Why("AUDIO_EOF", "ERROR_AUDIO_DURATION"),
        TERMINATE |-> NotBegun],
    Connecting |-> [TERMINATE |-> NotBegun],
    Connected |-> [TERMINATE |-> NotBegun],
    Established |-> [TERMINATE |-> Why(s.stream_end_reason, "TERMINATE")],
    Streaming |-> [
        TERMINATE |-> Why("DISCONNECT_LOCAL", "TERMINATE"),
        AUDIO_ERROR |-> Why("ERROR_AUDIO_READ", "EOS")]]

ExitReasons(s) == [
    Buffering |-> [
        EOS |-> Why("AUDIO_EOF", "ERROR_AUDIO_DURATION"),
        TERMINATE |-> NotBegun],
    Connecting |-> [TERMINATE |-> NotBegun],
    Connected |-> [TERMINATE |-> NotBegun],
    Established |-> [TERMINATE |-> Why(s.stream_end_reason, "TERMINATE")],
    Streaming |-> [
        EOS_PIPE |-> Why("AUDIO_EOF", "EOS"),
        TERMINATE |-> Why("DISCONNECT_LOCAL", "TERMINATE"),
        AUDIO_ERROR |-> Why("ERROR_AUDIO_READ", "EOS")]]

StreamReasons == {"AUDIO_EOF", "DISCONNECT_LOCAL", "ERROR_AUDIO_READ",
                  "DID_NOT_BEGIN"}

SessionReasons == {"EOS", "TERMINATE", "ERROR_AUDIO_DURATION"}

-----------------------------------------------------------------------------
(* The connection.  session, streamEnds, sessionEnds, fresh, pipes and     *)
(* leaked are not fields of the struct: they record which calls the router *)
(* has received in the latest session, and the audio pipes.                *)

SdtInit == [
    state |-> "Disconnected",      \* state_machine
    audio_pipe |-> FALSE,          \* audio_pipe_fd_read is not -1
    stream_end_reason |-> "AUDIO_EOF",
    session_end_reason |-> "EOS",
    msg_out |-> << >>,             \* each message: the session it is sent in
    session |-> 0,                 \* sessions begun so far
    streamEnds |-> 0,              \* calls of xrsr_speech_stream_end
    sessionEnds |-> 0,             \* calls of xrsr_session_end
    fresh |-> FALSE,               \* session_end_reason set in this session
    pipes |-> 0,                   \* pipe ends handed over and still open
    leaked |-> 0]                  \* streams that a restart forgot

Init ==
    /\ sdt = SdtInit
    /\ evq = << >>
    /\ task = "idle"
    /\ running = TRUE
    /\ sender = 0

-----------------------------------------------------------------------------
(* What the state handlers' actions do to the connection.                  *)

SetReasons(s, why) ==
    [s EXCEPT !.stream_end_reason = why.stream,
              !.session_end_reason = why.session,
              !.fresh = TRUE]

\* Mutant of ClosePipe: the descriptor is closed and kept.
CloseKeepingFd(s) ==
    IF s.audio_pipe THEN [s EXCEPT !.pipes = @ - 1] ELSE s

ClosePipe(s) ==
    IF s.audio_pipe THEN [s EXCEPT !.audio_pipe = FALSE, !.pipes = @ - 1]
    ELSE s

\* xrsr_sdt_speech_stream_end
SpeechStreamEnd(s) == ClosePipe([s EXCEPT !.streamEnds = @ + 1])

\* Mutant of Exit: leaving Established ends the stream once more.
ExitEndsAgain(s, e) ==
    LET why == ExitReasons(s)
        told == IF s.state \in DOMAIN why /\ e \in DOMAIN why[s.state]
                THEN SetReasons(s, why[s.state][e]) ELSE s
    IN  IF told # s \/ s.state \in EstablishedStates
        THEN SpeechStreamEnd(told) ELSE told

\* Mutant of Exit: a stream that did not begin is not ended.
ExitBegunOnly(s, e) ==
    LET why == ExitReasons(s)
        tells == s.state \in DOMAIN why /\ e \in DOMAIN why[s.state]
        told == IF tells THEN SetReasons(s, why[s.state][e]) ELSE s
    IN  IF s.state = "Streaming" THEN SpeechStreamEnd(told) ELSE told

\* EXIT of s.state on event e.  Streaming always ends the stream, Established
\* never does: it ended on the way in.
Exit(s, e) ==
    LET why == ExitReasons(s)
        tells == s.state \in DOMAIN why /\ e \in DOMAIN why[s.state]
        told == IF tells THEN SetReasons(s, why[s.state][e]) ELSE s
    IN  IF s.state = "Streaming" \/ (tells /\ s.state # "Established")
        THEN SpeechStreamEnd(told) ELSE told

\* xrsr_sdt_reset
Reset(s) == ClosePipe([s EXCEPT !.msg_out = << >>])

\* ENTER of Disconnected: the disconnected callback, the end of the session.
Disconnect(s) ==
    Reset([s EXCEPT !.state = "Disconnected", !.sessionEnds = @ + 1])

-----------------------------------------------------------------------------
(* The state machine takes one event off its queue.                        *)

\* The event that ENTER of a state raises.  That of Disconnected is raised by
\* xrsr_sdt_terminate, which processes the queue inside the ENTER action;
\* the state is Disconnected already and drops it.
Raised == [
    Disconnected |-> <<"TERMINATE">>, Disconnecting |-> <<"DISCONNECTED">>,
    Buffering |-> << >>, Connecting |-> <<"CONNECTED">>,
    Connected |-> <<"ESTABLISHED">>, Established |-> << >>,
    Streaming |-> << >>]

\* Mutant of Enter: Connected waits for the server as that of WsConn does.
EnterAwaiting(s, next, rest) ==
    /\ sdt' = IF next = "Disconnected" THEN Disconnect(s)
              ELSE [s EXCEPT !.state = next]
    /\ evq' = IF next = "Connected" THEN rest ELSE rest \o Raised[next]

Enter(s, next, rest) ==
    /\ sdt' = IF next = "Disconnected" THEN Disconnect(s)
              ELSE [s EXCEPT !.state = next]
    /\ evq' = rest \o Raised[next]

\* The self-transitions would do nothing without a timer; no event the code
\* raises takes one.
Step ==
    /\ evq # << >>
    /\ LET e == Head(evq)
           rest == Tail(evq)
           next == NextStates[sdt.state]
       IN  \/ e \notin DOMAIN next /\ sdt' = sdt /\ evq' = rest
           \/ /\ e \in DOMAIN next
              /\ Enter(Exit(sdt, e), next[e], rest)
    /\ UNCHANGED <<task, running, sender>>

-----------------------------------------------------------------------------
(* The router thread's handlers.                                           *)

\* xrsr_sdt_event(sdt, e, false), called by handler t
Raise(e, t) ==
    /\ task' = t
    /\ evq' = Append(evq, e)
    /\ UNCHANGED <<running, sender>>

Idle == task = "idle" /\ running

\* xrsr_sdt_connect; xrsr_speech_stream_begin handed over the destination's
\* end of the audio pipe.
Connect ==
    /\ Idle
    /\ sdt.state = "Disconnected"
    /\ sdt.session < MaxSessions
    /\ sdt' = [sdt EXCEPT !.audio_pipe = TRUE,
                          !.session = @ + 1,
                          !.streamEnds = 0,
                          !.sessionEnds = 0,
                          !.fresh = FALSE,
                          !.pipes = @ + 1]
    /\ \E e \in {"SESSION_BEGIN", "SESSION_BEGIN_STM"} : Raise(e, "event")

\* Mutant of Terminate: only a session that streams is terminated.
TerminateStreaming ==
    /\ Idle
    /\ sdt.state # "Disconnected"
    /\ Raise(IF sdt.state = "Streaming" THEN "TERMINATE" ELSE "EOS_PIPE",
             "terminate")
    /\ UNCHANGED sdt

\* xrsr_sdt_terminate, called for a session that is in progress.
Terminate ==
    /\ Idle
    /\ sdt.state # "Disconnected"
    /\ Raise("TERMINATE", "terminate")
    /\ UNCHANGED sdt

\* xrsr_sdt_handle_speech_event: xraudio reports the minimum stream time or
\* the end of speech.
SpeechEvent ==
    /\ Idle
    /\ \E e \in {"STM", "EOS"} : Raise(e, "event")
    /\ UNCHANGED sdt

\* xrsr_sdt_handle_fds: the audio pipe is readable and has come to its end,
\* or cannot be read.  Audio that is read goes to the application's handler.
ReadPipe ==
    /\ Idle
    /\ sdt.state \in EstablishedStates
    /\ sdt.audio_pipe
    /\ \E e \in {"EOS_PIPE", "AUDIO_ERROR"} : Raise(e, "event")
    /\ UNCHANGED sdt

\* The queue is empty and the handler returns to the router's loop.
Return ==
    /\ task # "idle"
    /\ evq = << >>
    /\ task' = "idle"
    /\ UNCHANGED <<sdt, evq, running, sender>>

\* The router's loop ends; xrsr_sdt_term does nothing.
LoopEnds ==
    /\ Idle
    /\ running' = FALSE
    /\ UNCHANGED <<sdt, evq, task, sender>>

\* xrsr_sdt_init zeroes the struct, whatever it holds.
Wiped == [SdtInit EXCEPT !.session = sdt.session,
                         !.pipes = sdt.pipes,
                         !.leaked = IF sdt.audio_pipe THEN sdt.leaked + 1
                                    ELSE sdt.leaked]

\* The next router initialises its destinations; a route update initialises
\* one whose session it has terminated.
Restart ==
    /\ task = "idle"
    /\ running => sdt.state = "Disconnected"
    /\ running' = TRUE
    /\ sdt' = Wiped
    /\ UNCHANGED <<evq, task, sender>>

-----------------------------------------------------------------------------
(* An application thread sends a message: xrsr_sdt_send_text looks at the  *)
(* state machine, then xrsr_sdt_queue_msg_out takes the queue's semaphore. *)

SendCheck ==
    /\ sender = 0
    /\ sdt.state \in EstablishedStates
    /\ sender' = sdt.session
    /\ UNCHANGED <<sdt, evq, task, running>>

\* Mutant of SendPut: a full queue takes one message more.
PutOneMore ==
    /\ sender # 0
    /\ sdt' = IF Len(sdt.msg_out) <= MsgOutMax
              THEN [sdt EXCEPT !.msg_out = Append(@, sender)] ELSE sdt
    /\ sender' = 0
    /\ UNCHANGED <<evq, task, running>>

SendPut ==
    /\ sender # 0
    /\ sdt' = IF Len(sdt.msg_out) < MsgOutMax
              THEN [sdt EXCEPT !.msg_out = Append(@, sender)] ELSE sdt
    /\ sender' = 0
    /\ UNCHANGED <<evq, task, running>>

-----------------------------------------------------------------------------
Handlers ==
    Connect \/ Terminate \/ SpeechEvent \/ ReadPipe \/ LoopEnds \/ Restart

Next == Handlers \/ Step \/ Return \/ SendCheck \/ SendPut

Spec == Init /\ [][Next]_vars

-----------------------------------------------------------------------------
(* Properties.                                                             *)

Events == {"SESSION_BEGIN", "SESSION_BEGIN_STM", "STM", "EOS", "EOS_PIPE",
           "TERMINATE", "CONNECTED", "ESTABLISHED", "AUDIO_ERROR",
           "DISCONNECTED"}

BeginEvents == {"SESSION_BEGIN", "SESSION_BEGIN_STM"}

SdtType == [
    state : States, audio_pipe : BOOLEAN, stream_end_reason : StreamReasons,
    session_end_reason : SessionReasons, msg_out : Seq(1 .. MaxSessions),
    session : 0 .. MaxSessions, streamEnds : Nat, sessionEnds : Nat,
    fresh : BOOLEAN, pipes : Int, leaked : Nat]

\* The fields hold what their C types allow; the outgoing messages fit their
\* array, which an application's threads fill.
TypeOK ==
    /\ sdt \in SdtType
    /\ Len(sdt.msg_out) <= MsgOutMax
    /\ evq \in Seq(Events)
    /\ task \in {"idle", "event", "terminate"}
    /\ running \in BOOLEAN
    /\ sender \in 0 .. MaxSessions

\* A session's begin event is still in the queue.
Beginning == \E i \in DOMAIN evq : evq[i] \in BeginEvents

\* A session ends its stream once and then itself once, whatever ended it,
\* although Streaming ends the stream in a line of its own and the event that
\* Disconnected raises while it is entered is still to come.
EndedOnce ==
    /\ sdt.state \in {"Established", "Disconnecting"}
          => sdt.streamEnds = 1 /\ sdt.sessionEnds = 0
    /\ sdt.state = "Disconnected"
          => sdt.streamEnds = sdt.sessionEnds /\ sdt.sessionEnds <= 1
    /\ sdt.state \notin {"Established", "Disconnecting", "Disconnected"}
          => sdt.streamEnds = 0 /\ sdt.sessionEnds = 0

\* xrsr_sdt_terminate ends the session before it returns, wherever it was,
\* and the session says so to the application.
TerminateDisconnects ==
    (task = "terminate" /\ evq = << >>) =>
        sdt.state = "Disconnected" /\ sdt.session_end_reason = "TERMINATE"

\* The destination closes its end of each audio pipe once.  It is open only
\* while a stream is, and only a router that stops during a stream leaves one
\* behind.
PipeOwned ==
    /\ sdt.pipes = sdt.leaked + (IF sdt.audio_pipe THEN 1 ELSE 0)
    /\ sdt.audio_pipe =>
          \/ sdt.state \notin {"Established", "Disconnecting", "Disconnected"}
          \/ sdt.state = "Disconnected" /\ Beginning

\* No state has a timer, so none may be left to time alone: between handlers
\* the machine rests where xraudio, the pipe or the application moves it on.
Rests ==
    task = "idle" =>
        sdt.state \in {"Disconnected", "Buffering", "Streaming", "Established"}

\* The reason a session ends with is one that was set in that session.
ReasonOfThisSession ==
    [][sdt'.sessionEnds > sdt.sessionEnds => sdt'.fresh]_vars

\* Where the session is, as the router sees it.
Phase ==
    IF sdt.state = "Disconnected" THEN IF Beginning THEN "opening" ELSE "idle"
    ELSE IF sdt.streamEnds = 1 THEN "draining"
    ELSE IF sdt.state = "Streaming" THEN "streaming"
    ELSE "opening"

Abstract == INSTANCE Conn WITH phase <- Phase, streamEnds <- sdt.streamEnds,
                               sessionEnds <- sdt.sessionEnds

\* A restart forgets the session, and what was called for it; while the router
\* runs there is none to forget.
Forget ==
    /\ task = "idle"
    /\ running => Phase = "idle"
    /\ sdt' = Wiped

\* The connection keeps the contract of every destination, a restart apart:
\* no other step loses a session or calls for it out of turn.
Contract == Abstract!Init /\ [][Abstract!Next \/ Forget]_(Abstract!vars)

-----------------------------------------------------------------------------
(* The inductive invariant: what the queue may hold where, and what follows *)
(* when the event it holds is processed.                                    *)

\* One event at most is queued, and none waits between handlers.
QueueShape ==
    /\ evq = << >> \/ \E e \in Events : evq = <<e>>
    /\ task = "idle" => evq = << >>

\* A begin event is processed by the idle destination it was raised for.
BeginsIdle ==
    Beginning =>
        task = "event" /\ sdt.state = "Disconnected" /\ sdt.streamEnds = 0

\* The states that raise the event that leaves them are left at once.
Passing ==
    sdt.state \in {"Connecting", "Connected", "Disconnecting"} =>
        evq = Raised[sdt.state]

\* A TERMINATE is still to come, or has taken effect.
Ending ==
    task = "terminate" =>
        \/ evq = <<"TERMINATE">> /\ sdt.state # "Disconnected"
        \/ /\ sdt.state \in {"Disconnecting", "Disconnected"}
           /\ sdt.session_end_reason = "TERMINATE"

\* A session that waits for its end has its reasons.
FreshHeld == sdt.state \in {"Established", "Disconnecting"} => sdt.fresh

IInv ==
    /\ TypeOK /\ QueueShape /\ BeginsIdle /\ Passing /\ Ending /\ FreshHeld
    /\ EndedOnce /\ PipeOwned
=============================================================================
