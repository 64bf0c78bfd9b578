------------------------------- MODULE Router ------------------------------
(***************************************************************************)
(* The router thread (xrsr.c): the session of each group of sources, the   *)
(* audio pipe and the microphone it hands to the session's destination,    *)
(* and the messages that application threads and the audio library put     *)
(* into the thread's queue.                                                *)
(*                                                                         *)
(* Of a destination this module keeps what the router sees of it: its      *)
(* phase, which module Conn specifies and the protocols' modules implement.*)
(* A source has one destination (XRSR_DST_QTY_MAX is 1).  The router       *)
(* handles one message, or lets one destination take one step, at a time;  *)
(* in between, other threads queue messages.                               *)
(*                                                                         *)
(* Left out: what an audio stream's EOS, STM and keyword events do, which  *)
(* Conn's choice of a step covers; privacy mode, which only denies         *)
(* requests; and retries, which nothing asks for.                          *)
(***************************************************************************)
EXTENDS XrAudio, Sequences

CONSTANTS
    Protocol,     \* the protocol of each source's destination
    MsgqMax,      \* max_msg of the queue (16)
    Requested,    \* the sources that the application itself requests
    Blocked,      \* what caller is while a call waits for its message
    Uuids,        \* bound: the uuids that uuid_generate has to choose from
    RouteTables   \* bound: [listed, kept], the tables the application sets

ASSUME RouterAssumption ==
    /\ Protocol \in [Sources -> {"HTTP", "WS", "SDT"}]
    /\ MsgqMax \in Nat \ {0}
    /\ Requested \subseteq Sources
    /\ Blocked \notin Sources \cup {None}
    /\ None \notin Uuids
    /\ RouteTables \subseteq [listed : SUBSET Sources, kept : SUBSET Sources]

VARIABLES
    xrsr,     \* g_xrsr, with the audio object and the destinations' phases
    msgq,     \* the router thread's queue
    awaited,  \* the uuid the application is still to configure, per source
    caller    \* the application's thread: outside the router (None), inside
              \* xrsr_session_request for a source, or blocked in a call

vars == <<xrsr, msgq, awaited, caller>>

Phases == {"idle", "opening", "streaming", "draining"}

-----------------------------------------------------------------------------
(* State and messages.                                                     *)

SessionType == [src : Sources \cup {None}, first_stream_req : BOOLEAN,
                pipe : BOOLEAN]

\* audio_src may name a source without a route: xrsr_sdt_init leaves it 0.
DstType == [handler : BOOLEAN, phase : Phases, uuid : Uuids \cup {None},
            audio_src : Sources \cup {None, "RCU_PTT"}]

XrsrType == [session : [Groups -> SessionType], dst : [Sources -> DstType],
             audio : AudioType]

Messages ==
    [src : Sources,
     type : {"SESSION_BEGIN", "SESSION_TERMINATE", "STREAM_ERROR",
             "KEYWORD_DETECTED", "KEYWORD_DETECT_ERROR"}]
    \cup [src : Sources, uuid : Uuids, type : {"SESSION_CONFIG_IN"}]
    \cup [type : {"ROUTE_UPDATE"}, table : RouteTables]
    \cup [type : {"POWER_MODE_UPDATE"}, mode : PowerModes]
    \cup [type : {"XRAUDIO_GRANTED", "XRAUDIO_REVOKED"}]

\* xrsr_open waits for the first route table.
Init ==
    /\ xrsr = [session |-> [g \in Groups |-> [src |-> None,
                                              first_stream_req |-> TRUE,
                                              pipe |-> FALSE]],
               dst |-> [s \in Sources |-> [handler |-> FALSE,
                                           phase |-> "idle",
                                           uuid |-> None,
                                           audio_src |-> None]],
               audio |-> AudioInit]
    /\ \E table \in RouteTables :
         msgq = <<[type |-> "ROUTE_UPDATE", table |-> table]>>
    /\ awaited = [s \in Sources |-> None]
    /\ caller = Blocked

\* xrsr_is_source_active
Active(x, src) == \E g \in Groups : x.session[g].src = src

\* Mutant of Pushed: the queue has no limit.
PushedAlways(q, m) == Append(q, m)

\* xrsr_queue_msg_push: a full queue takes no message, and hardly a caller
\* looks at the result.
Pushed(q, m) == IF Len(q) < MsgqMax THEN Append(q, m) ELSE q

Msg(type, src) == [src |-> src, type |-> type]

-----------------------------------------------------------------------------
(* What a destination tells the router.                                    *)

WithAudio(x, audio) == [x EXCEPT !.audio = audio]

\* Mutant of StreamEnd: the next stream does not know that it is the first.
StreamEndStillRequested(x, src) ==
    {[WithAudio(x, audio) EXCEPT !.session[Group(src)].pipe = FALSE] :
        audio \in AudioStreamEnd(x.audio, Group(src))}

\* xrsr_speech_stream_end, for the destination of src: the session gives up
\* its pipe, and ends, also when the library refuses to stop the stream.
StreamEnd(x, src) ==
    LET g == Group(src)
    IN  {[WithAudio(x, audio) EXCEPT !.session[g].pipe = FALSE,
                                     !.session[g].first_stream_req = TRUE] :
            audio \in AudioStreamEnd(x.audio, g)}

\* xrsr_session_end: the source is released if its destination is idle.
SessionEnd(x, src) ==
    IF src = None \/ ~Active(x, src) THEN x
    ELSE IF x.dst[src].handler /\ x.dst[src].phase = "idle"
    THEN [x EXCEPT !.session[Group(src)].src = None]
    ELSE x

\* The destination of src is disconnected: ENTER of Disconnected.
Disconnected(x, src) ==
    [SessionEnd([x EXCEPT !.dst[src].phase = "idle"], x.dst[src].audio_src)
        EXCEPT !.dst[src].audio_src = None]

Aborted(x, src) == {Disconnected(y, src) : y \in StreamEnd(x, src)}

\* Mutant of Terminated: a destination that drains is left to its timer.
TerminateStreams(x, src) ==
    IF ~Active(x, src) \/ x.dst[src].phase \in {"idle", "draining"} THEN {x}
    ELSE Aborted(x, src)

\* xrsr_msg_session_terminate: the destination of an active source is
\* disconnected before the call returns (see WsConn!TerminateDisconnects).
Terminated(x, src) ==
    IF ~Active(x, src) \/ x.dst[src].phase = "idle" THEN {x}
    ELSE IF x.dst[src].phase = "draining" THEN {Disconnected(x, src)}
    ELSE Aborted(x, src)

\* Every active source among srcs is terminated.
AllTerminated(x, srcs) ==
    LET stop(y, g) == IF y.session[g].src \in srcs
                      THEN Terminated(y, y.session[g].src) ELSE {y}
    IN  UNION {stop(y, "MIC_TAP") : y \in stop(x, "DEFAULT")}

-----------------------------------------------------------------------------
(* Starting the stream and the connection of a session.                    *)

Connecting(x, src) ==
    [x EXCEPT !.dst[src].phase = "opening", !.dst[src].audio_src = src]

\* xrsr_speech_stream_begin, when it succeeds: the pipe of this destination.
\* A stream that was requested before keeps its pipe.
StreamBegun(x, src) ==
    LET g == Group(src)
    IN  IF ~x.session[g].first_stream_req THEN x
        ELSE [x EXCEPT !.session[g].first_stream_req = FALSE,
                       !.session[g].pipe = TRUE,
                       !.audio = StreamStart(@, src)]

\* When it fails.  WebSocket and SDT end the session of the source they hold;
\* between sessions that is none, or the 0 that xrsr_sdt_init left there.
StreamNotBegun(x, src) ==
    IF Protocol[src] = "HTTP" THEN x ELSE SessionEnd(x, x.dst[src].audio_src)

\* xrsr_msg_session_config_in, and SDT in xrsr_msg_session_begin: the stream
\* begins and the destination connects.  xrsr_http_connect may fail.
Starts(x, src) ==
    {StreamNotBegun(x, src)}
    \cup (IF x.session[Group(src)].first_stream_req
             /\ x.audio.xraudio_state # "OPENED"
          THEN {}
          ELSE {Connecting(StreamBegun(x, src), src)}
               \cup (IF Protocol[src] = "HTTP" THEN {StreamBegun(x, src)}
                     ELSE {}))

-----------------------------------------------------------------------------
(* The router handles the message at the head of its queue.                *)

\* The uuids of the configurations in the queue q.
Answered(q) ==
    {q[i].uuid : i \in {j \in DOMAIN q : q[j].type = "SESSION_CONFIG_IN"}}

UsedUuids ==
    {awaited[s] : s \in Sources} \cup {xrsr.dst[s].uuid : s \in Sources}
    \cup Answered(msgq)

\* Takes a message of that type off the queue.
Pop(type) == msgq # << >> /\ Head(msgq).type = type /\ msgq' = Tail(msgq)

\* xrsr_msg_session_begin of a source whose session goes on: a keyword that
\* is spotted meanwhile is ignored.
IgnoreBegin(src) ==
    /\ Active(xrsr, src)
    /\ \E audio \in IF Group(src) = "DEFAULT" THEN DetectStart(xrsr.audio)
                    ELSE {xrsr.audio} :
         xrsr' = WithAudio(xrsr, audio)
    /\ UNCHANGED awaited

RefuseBegin(src) ==
    /\ ~Active(xrsr, src)
    /\ xrsr.session[Group(src)].src # None
    /\ UNCHANGED <<xrsr, awaited>>

\* The application learns the uuid, and configures the session when it likes;
\* an SDT session starts at once.
BeginSession(src) ==
    /\ xrsr.session[Group(src)].src = None
    /\ LET taken == [xrsr EXCEPT !.session[Group(src)].src = src]
       IN  IF ~xrsr.dst[src].handler \/ xrsr.dst[src].phase # "idle"
           THEN xrsr' = taken /\ UNCHANGED awaited
           ELSE \E uuid \in Uuids \ UsedUuids :
                  LET named == [taken EXCEPT !.dst[src].uuid = uuid]
                  IN  IF Protocol[src] = "SDT"
                      THEN xrsr' \in Starts(named, src) /\ UNCHANGED awaited
                      ELSE /\ xrsr' = named
                           /\ awaited' = [awaited EXCEPT ![src] = uuid]

SessionBegin ==
    /\ Pop("SESSION_BEGIN")
    /\ LET src == Head(msgq).src
       IN  IgnoreBegin(src) \/ RefuseBegin(src) \/ BeginSession(src)
    /\ UNCHANGED caller

\* Mutant of IsAnswer: the uuid is not compared.
IsAnyAnswer(src, m) == src # None /\ xrsr.dst[src].handler

\* The session of src is the one that the application configures in m.
IsAnswer(src, m) ==
    /\ src # None
    /\ xrsr.dst[src].handler
    /\ xrsr.dst[src].uuid = m.uuid

\* xrsr_msg_session_config_in: the session is found by its uuid, in the
\* group of the source the application names.
SessionConfigIn ==
    /\ Pop("SESSION_CONFIG_IN")
    /\ LET src == xrsr.session[Group(Head(msgq).src)].src
       IN  IF IsAnswer(src, Head(msgq))
           THEN xrsr' \in Starts(xrsr, src)
           ELSE UNCHANGED xrsr
    /\ UNCHANGED <<awaited, caller>>

SessionTerminate ==
    /\ Pop("SESSION_TERMINATE")
    /\ xrsr' \in Terminated(xrsr, Head(msgq).src)
    /\ caller' = None
    /\ UNCHANGED awaited

\* xrsr_msg_xraudio_event, XRSR_EVENT_STREAM_ERROR
StreamFailed ==
    /\ Pop("STREAM_ERROR")
    /\ LET src == Head(msgq).src
           closed == WithAudio(xrsr, DeviceClose(xrsr.audio))
       IN  IF Active(xrsr, src)
           THEN \E ended \in Terminated(closed, src) :
                  \E audio \in Reopen(ended.audio) :
                    xrsr' = WithAudio(ended, audio)
           ELSE UNCHANGED xrsr
    /\ UNCHANGED <<awaited, caller>>

\* xrsr_msg_keyword_detected, xrsr_xraudio_keyword_detected: the detector
\* stops; a keyword from another source than the session's is rejected.  The
\* handler itself pushes the begin to the tail of the queue: another thread's
\* message that comes before it is one that came before the step.
KeywordDetected ==
    /\ msgq # << >> /\ Head(msgq).type = "KEYWORD_DETECTED"
    /\ LET src == Head(msgq).src
           current == xrsr.session[Group(src)].src
           begin == Msg("SESSION_BEGIN", src)
       IN  \/ /\ ~xrsr.audio.detecting
              /\ msgq' = Tail(msgq)
              /\ UNCHANGED xrsr
           \/ /\ xrsr.audio.detecting
              /\ current \notin {None, src}
              /\ \E stopped \in DetectStop(xrsr.audio) :
                   \E audio \in DetectStart(
                                  [stopped EXCEPT !.session_rejected = TRUE]) :
                     xrsr' = WithAudio(xrsr, audio)
              /\ msgq' = Tail(msgq)
           \/ /\ xrsr.audio.detecting
              /\ current \in {None, src}
              /\ \E audio \in DetectStop(xrsr.audio) :
                   xrsr' = WithAudio(xrsr, audio)
              /\ msgq' = IF xrsr.dst[src].handler
                         THEN Append(Tail(msgq), begin) ELSE Tail(msgq)
    /\ UNCHANGED <<awaited, caller>>

\* xrsr_msg_keyword_detect_error, which then compares the audio library's
\* number of the source with the numbers of xrsr_src_t: "match" is what the
\* comparison comes to.
KeywordDetectError ==
    /\ Pop("KEYWORD_DETECT_ERROR")
    /\ \E stopped \in DetectStop(xrsr.audio) :
         \E audio \in IF xrsr.audio.detecting
                       THEN AfterDetectError(stopped, Head(msgq).src)
                       ELSE {xrsr.audio},
            match \in Sources \cup {None} :
           LET now == WithAudio(xrsr, audio)
           IN  \E ended \in IF match = None THEN {now}
                            ELSE Terminated(now, match) :
                 xrsr' \in IF match = "MICROPHONE"
                           THEN AllTerminated(ended, {"MICROPHONE_TAP"})
                           ELSE {ended}
    /\ UNCHANGED <<awaited, caller>>

\* xrsr_route_update of src: the connection is terminated and, unless the
\* route is only deleted, made anew.  xrsr_http_init leaves the uuid.
Rerouted(d, src, kept) ==
    [d EXCEPT !.handler = kept,
              !.uuid = IF Protocol[src] = "HTTP" THEN @ ELSE None,
              !.audio_src = IF kept /\ Protocol[src] = "SDT" THEN "RCU_PTT"
                            ELSE None]

RouteUpdate ==
    /\ Pop("ROUTE_UPDATE")
    /\ LET table == Head(msgq).table
       IN  \E ended \in AllTerminated(xrsr, table.listed) :
             \E audio \in DeviceUpdate(ended.audio, table.listed) :
               xrsr' = [WithAudio(ended, audio) EXCEPT !.dst =
                          [s \in Sources |->
                              IF s \in table.listed
                              THEN Rerouted(@[s], s, s \in table.kept)
                              ELSE @[s]]]
    /\ caller' = None
    /\ UNCHANGED awaited

\* xrsr_msg_power_mode_update: all sessions end unless power is full.
PowerUpdate ==
    /\ Pop("POWER_MODE_UPDATE")
    /\ LET mode == Head(msgq).mode
       IN  \E ended \in IF mode = "FULL" THEN {xrsr}
                        ELSE AllTerminated(xrsr, Sources) :
             \E audio \in PowerModeUpdate(ended.audio, mode) :
               xrsr' = WithAudio(ended, audio)
    /\ caller' = None
    /\ UNCHANGED awaited

Granted ==
    /\ Pop("XRAUDIO_GRANTED")
    /\ \E audio \in DeviceGranted(xrsr.audio) : xrsr' = WithAudio(xrsr, audio)
    /\ UNCHANGED <<awaited, caller>>

Revoked ==
    /\ Pop("XRAUDIO_REVOKED")
    /\ \E audio \in DeviceRevoked(xrsr.audio) : xrsr' = WithAudio(xrsr, audio)
    /\ UNCHANGED <<awaited, caller>>

Handle ==
    \/ SessionBegin \/ SessionConfigIn \/ SessionTerminate
    \/ StreamFailed \/ KeywordDetected \/ KeywordDetectError
    \/ RouteUpdate \/ PowerUpdate
    \/ Granted \/ Revoked

-----------------------------------------------------------------------------
(* A destination takes a step of its session: the steps of Conn, with what *)
(* its calls do to the router.                                             *)

StartStream(src) ==
    /\ xrsr.dst[src].phase = "opening"
    /\ xrsr' = [xrsr EXCEPT !.dst[src].phase = "streaming"]

EndStream(src) ==
    /\ xrsr.dst[src].phase \in {"opening", "streaming"}
    /\ \E ended \in StreamEnd(xrsr, src) :
         xrsr' = [ended EXCEPT !.dst[src].phase = "draining"]

EndSession(src) ==
    /\ xrsr.dst[src].phase = "draining"
    /\ xrsr' = Disconnected(xrsr, src)

Abort(src) ==
    /\ xrsr.dst[src].phase \in {"opening", "streaming"}
    /\ xrsr' \in Aborted(xrsr, src)

Destination ==
    /\ \E src \in Sources :
         StartStream(src) \/ EndStream(src) \/ EndSession(src) \/ Abort(src)
    /\ UNCHANGED <<msgq, awaited, caller>>

-----------------------------------------------------------------------------
(* The threads of the audio library.                                       *)

\* xrsr_xraudio_keyword_callback: the running detector reports.
DetectorReports(type, src) ==
    /\ xrsr.audio.detector = "on"
    /\ Group(src) = "DEFAULT" /\ Device(src) \in xrsr.audio.device_input
    /\ xrsr' = [xrsr EXCEPT !.audio.detector = "fired"]
    /\ msgq' = Pushed(msgq, Msg(type, src))
    /\ UNCHANGED <<awaited, caller>>

\* xrsr_xraudio_stream_event: a stream fails; it names the source it recorded.
StreamError(g) ==
    /\ xrsr.audio.streaming[g] # None /\ ~xrsr.audio.halted[g]
    /\ xrsr' = [xrsr EXCEPT !.audio.halted[g] = TRUE]
    /\ msgq' = Pushed(msgq, Msg("STREAM_ERROR", xrsr.audio.streaming[g]))
    /\ UNCHANGED <<awaited, caller>>

\* xrsr_xraudio_resource_notification
Notify(from, to, type) ==
    /\ xrsr.audio.resource = from
    /\ xrsr' = [xrsr EXCEPT !.audio.resource = to]
    /\ msgq' = Pushed(msgq, [type |-> type])
    /\ UNCHANGED <<awaited, caller>>

Library ==
    \/ \E src \in Sources,
          type \in {"KEYWORD_DETECTED", "KEYWORD_DETECT_ERROR"} :
         DetectorReports(type, src)
    \/ \E g \in Groups : StreamError(g)
    \/ Notify("requested", "granted", "XRAUDIO_GRANTED")
    \/ Notify("granted", "none", "XRAUDIO_REVOKED")

-----------------------------------------------------------------------------
(* The application: one thread that calls the router, and one that answers *)
(* a new session with its configuration.                                   *)

\* xrsr_session_request, up to the stop of the detector
RequestStop(src) ==
    /\ caller = None
    /\ xrsr.audio.xraudio_state = "OPENED"
    /\ caller' = src
    /\ IF Group(src) = "DEFAULT" /\ xrsr.audio.detecting
       THEN xrsr' \in OrRefused("detect_stop",
                         {[xrsr EXCEPT !.audio.detector = "off"]}, {xrsr})
       ELSE UNCHANGED xrsr
    /\ UNCHANGED <<msgq, awaited>>

\* xrsr_session_request, xrsr_session_begin
RequestBegin ==
    /\ caller \in Sources
    /\ caller' = None
    /\ msgq' = IF xrsr.dst[caller].handler
               THEN Pushed(msgq, Msg("SESSION_BEGIN", caller)) ELSE msgq
    /\ UNCHANGED <<xrsr, awaited>>

\* xrsr_callback_session_config_in_http and _ws
Configure(src) ==
    /\ awaited[src] # None
    /\ awaited' = [awaited EXCEPT ![src] = None]
    /\ msgq' = Pushed(msgq, [src |-> src, uuid |-> awaited[src],
                             type |-> "SESSION_CONFIG_IN"])
    /\ UNCHANGED <<xrsr, caller>>

\* xrsr_route, xrsr_session_terminate and xrsr_power_mode_set wait until their
\* message is handled.
Call(m) ==
    /\ caller = None
    /\ caller' = Blocked
    /\ msgq' = Pushed(msgq, m)
    /\ UNCHANGED <<xrsr, awaited>>

Application ==
    \/ \E src \in Requested : RequestStop(src)
    \/ RequestBegin
    \/ \E src \in Sources :
         Configure(src) \/ Call(Msg("SESSION_TERMINATE", src))
    \/ \E table \in RouteTables :
         Call([type |-> "ROUTE_UPDATE", table |-> table])
    \/ \E mode \in PowerModes :
         Call([type |-> "POWER_MODE_UPDATE", mode |-> mode])

-----------------------------------------------------------------------------
Next == Handle \/ Destination \/ Library \/ Application

Spec == Init /\ [][Next]_vars
-----------------------------------------------------------------------------
(* Properties.                                                             *)

\* The type invariant.
TypeOK ==
    /\ xrsr \in XrsrType
    /\ msgq \in Seq(Messages) /\ Len(msgq) <= MsgqMax
    /\ awaited \in [Sources -> Uuids \cup {None}]
    /\ caller \in Sources \cup {None, Blocked}

\* Only the destination of the source that has the session of its group is
\* connected, so two sources of a group never talk to servers at once; its
\* route is in place, and the source it works for is its own.  Whatever is
\* queued behind a session (another keyword, a late configuration, a change of
\* its route) must not break this.
Exclusive ==
    \A s \in Sources :
      xrsr.dst[s].phase # "idle" =>
        /\ xrsr.session[Group(s)].src = s
        /\ xrsr.dst[s].handler
        /\ xrsr.dst[s].audio_src = s

\* An SDT destination names source 0, which is RCU_PTT, until it first
\* connects; when its audio does not start it ends the session of that source.
\* From its own group it finds none that keeps a pipe, but from
\* MICROPHONE_TAP's it may find an HTTP session that could not connect, and
\* release it while its pipe is open.
ZeroReleases(g) ==
    /\ g = "DEFAULT"
    /\ {"RCU_PTT", "MICROPHONE_TAP"} \subseteq Sources
    /\ Protocol["RCU_PTT"] = "HTTP" /\ Protocol["MICROPHONE_TAP"] = "SDT"

\* The pipe of a group is there exactly while its stream is requested, and a
\* stream is active only with it, or because the library refused to stop it
\* when its session ended: nobody else's stream outlives its session.  A
\* destination that has yet to end its stream has the pipe, and one that ended
\* it has not; what records is the microphone of the session's own source.
\* (HTTP keeps the pipe when it cannot connect.)
StreamOwned ==
    \A g \in Groups :
      LET session == xrsr.session[g]
          audio == xrsr.audio
          phase == xrsr.dst[session.src].phase
      IN  /\ session.pipe = ~session.first_stream_req
          /\ audio.active[g] => session.pipe \/ audio.refused[g]
          /\ session.src # None =>
               /\ phase \in {"opening", "streaming"} => session.pipe
               /\ phase = "draining" => ~session.pipe
          /\ session.pipe /\ ~ZeroReleases(g) =>
               /\ session.src # None
               /\ phase = "idle" => Protocol[session.src] = "HTTP"
               /\ audio.active[g] => audio.streaming[g] = session.src

\* The audio object knows the library's state (Truthful): the open device, the
\* detector and the streams.  Each is changed by several calls, by streams that
\* fail on their own, and on the error paths of the calls in Fallible.
DeviceTruth == Truthful(xrsr.audio)

\* The refinement of Microphone: where a group's audio path is.
Recording(g) == xrsr.audio.streaming[g] # None /\ ~xrsr.audio.halted[g]

stage == [g \in Groups |->
    LET session == xrsr.session[g]
    IN  IF Recording(g) /\ ~xrsr.audio.refused[g] THEN "recording"
        ELSE IF session.src = None THEN "free"
        ELSE IF session.pipe \/ xrsr.dst[session.src].phase # "idle"
        THEN "recorded"
        ELSE "taken"]

Mic == INSTANCE Microphone WITH
    Groups <- {g \in Groups : ~ZeroReleases(g)},
    path <- [g \in {h \in Groups : ~ZeroReleases(h)} |->
               [src |-> xrsr.session[g].src, stage |-> stage[g],
                stuck |-> Recording(g) /\ xrsr.audio.refused[g]]]

\* A microphone is recorded only for the session that has it, once per
\* session, and never while it changes hands; a stream that runs on was one
\* that the library refused to stop.
Contract == Mic!Spec

\* Mutual consistency of a waiting configuration: the uuid an application is
\* still to answer, or has answered, starts at most the session it was made
\* for.  A destination connects only with the answer to its latest session.
ConfiguredOnce ==
    [][\A s \in Sources :
         Protocol[s] # "SDT"
         /\ xrsr.dst[s].phase = "idle" /\ xrsr'.dst[s].phase # "idle"
         => /\ awaited[s] = None
            /\ Head(msgq).type = "SESSION_CONFIG_IN"
            /\ Head(msgq).uuid = xrsr.dst[s].uuid]_vars
-----------------------------------------------------------------------------
(* What the documentation and the comments say, and the code does not do.  *)

\* xrsr_session_terminate "Terminates the current session if it is still in
\* progress."  A session whose configuration the application still owes is not
\* touched: its destination is idle, and only destinations are terminated.
TerminateEnds ==
    [][SessionTerminate => ~Active(xrsr', Head(msgq).src)]_vars

\* "Need to restart the keyword detector again": a keyword, or a request, that
\* starts no session leaves the detector stopped in several ways.  When the
\* router has nothing to do, no session holds the default group and the device
\* is open, the detector should be running.
Listens ==
    /\ msgq = << >> /\ caller = None
    /\ xrsr.session["DEFAULT"].src = None
    /\ xrsr.audio.open
    => xrsr.audio.detector = "on"

\* "perform clean up of the session": when the audio of a configured session
\* does not start, its source should be released for the next session.
CleansUp ==
    [][SessionConfigIn =>
        \A s \in Sources :
          /\ Protocol[s] = "WS"
          /\ xrsr.dst[s].handler
          /\ xrsr.dst[s].uuid = Head(msgq).uuid
          /\ xrsr.session[Group(s)].src = s
          => xrsr'.dst[s].phase # "idle" \/ ~Active(xrsr', s)]_vars

-----------------------------------------------------------------------------
(* The inductive invariant.                                                *)

\* A session belongs to the group of its source.
Grouped ==
    \A g \in Groups :
      xrsr.session[g].src # None => Group(xrsr.session[g].src) = g

\* An idle destination works for nobody, but a fresh SDT one for source 0.
IdleSource ==
    \A s \in Sources :
      xrsr.dst[s].phase = "idle" =>
        \/ xrsr.dst[s].audio_src = None
        \/ Protocol[s] = "SDT" /\ xrsr.dst[s].audio_src = "RCU_PTT"

\* A uuid is in one place: the application still owes its configuration, or
\* one configuration is queued, or its session is connected.
UuidsOnce ==
    /\ \A s \in Sources :
         /\ Protocol[s] = "SDT" => awaited[s] = None
         /\ awaited[s] # None => xrsr.dst[s].uuid \in {awaited[s], None}
         /\ awaited[s] \notin Answered(msgq)
         /\ xrsr.dst[s].phase # "idle" =>
              awaited[s] = None /\ xrsr.dst[s].uuid \notin Answered(msgq)
         /\ \A t \in Sources :
              awaited[s] # None /\ awaited[s] \in {awaited[t], xrsr.dst[t].uuid}
              => s = t
    /\ \A i, j \in DOMAIN msgq :
         /\ msgq[i].type = "SESSION_CONFIG_IN"
         /\ msgq[j].type = "SESSION_CONFIG_IN"
         /\ msgq[i].uuid = msgq[j].uuid
         => i = j

IInv ==
    /\ TypeOK /\ Exclusive /\ DeviceTruth
    /\ Grouped /\ IdleSource /\ UuidsOnce
=============================================================================
