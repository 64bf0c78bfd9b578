------------------------------ MODULE XrAudio ------------------------------
(***************************************************************************)
(* The speech router's side of the audio library (xrsr_xraudio.c): the     *)
(* xrsr_xraudio_obj_t and what its operations do to it, as functions from  *)
(* the object to the object.  Where the library's or the resource          *)
(* manager's answer decides, an operation is the set of its outcomes.      *)
(*                                                                         *)
(* open, detector, streaming, halted and resource are what the library     *)
(* itself holds, modelled from how the code uses it: it starts nothing     *)
(* while the device is closed, a detector reports once each time it is     *)
(* started, and closing the device stops whatever runs on it.              *)
(***************************************************************************)
EXTENDS Naturals

CONSTANTS
    Sources,       \* the sources with a route: some of xrsr_src_t
    None,          \* XRSR_SRC_INVALID, and other absent values
    ResourceMgmt,  \* XRAUDIO_RESOURCE_MGMT is defined
    Fallible       \* the calls that the library may refuse on an open device

ASSUME AudioAssumption ==
    /\ Sources \subseteq {"RCU_PTT", "RCU_FF", "MICROPHONE", "MICROPHONE_TAP"}
    /\ None \notin {"RCU_PTT", "RCU_FF", "MICROPHONE", "MICROPHONE_TAP"}
    /\ ResourceMgmt \in BOOLEAN
    /\ Fallible \subseteq {"stream_stop", "detect_keyword", "detect_stop"}

\* xrsr_session_group_t
Groups == {"DEFAULT", "MIC_TAP"}

\* xrsr_source_to_group, and xrsr_xraudio_source_to_group of its device
Group(src) == IF src = "MICROPHONE_TAP" THEN "MIC_TAP" ELSE "DEFAULT"

\* The bit of device_input that a source needs.
Device(src) == IF src = "MICROPHONE_TAP" THEN "MICROPHONE" ELSE src

Devices == {"RCU_PTT", "RCU_FF", "MICROPHONE"}

PowerModes == {"FULL", "LOW"}

AudioType == [
    xraudio_state : {"CREATED", "REQUESTED", "OPENED"},
    active : [Groups -> BOOLEAN], detecting : BOOLEAN,
    session_rejected : BOOLEAN, device_input : SUBSET Devices,
    power_mode : PowerModes, open : BOOLEAN,
    detector : {"off", "on", "fired"},
    streaming : [Groups -> Sources \cup {None}],
    halted : [Groups -> BOOLEAN], refused : [Groups -> BOOLEAN],
    resource : {"none", "requested", "granted"}]

\* xrsr_xraudio_create.  detect_active is not a field: it is true here, and
\* every destination ends its stream with detect_resume still true.
\* streaming is the source whose stream the library has, halted that this
\* stream records no longer although nobody closed it, and refused, which is
\* history, that the library would not stop it when it was asked to.
AudioInit == [
    xraudio_state |-> "CREATED",
    active |-> [g \in Groups |-> FALSE],
    detecting |-> FALSE,
    session_rejected |-> FALSE,
    device_input |-> {},
    power_mode |-> "FULL",
    open |-> FALSE,
    detector |-> "off",
    streaming |-> [g \in Groups |-> None],
    halted |-> [g \in Groups |-> FALSE],
    refused |-> [g \in Groups |-> FALSE],
    resource |-> "none"]

\* The outcomes of one of the library's calls: done, or refused if it may be.
OrRefused(call, done, left) ==
    done \cup (IF call \in Fallible THEN left ELSE {})

-----------------------------------------------------------------------------
(* The keyword detector.                                                   *)

\* After a rejected session the default group's devices are stopped, to
\* unlock the library; nobody looks at the result.
Unlock(x) ==
    LET unlocked == [x EXCEPT !.session_rejected = FALSE]
    IN  IF ~x.session_rejected THEN {x}
        ELSE OrRefused("stream_stop",
                {[unlocked EXCEPT
                    !.halted["DEFAULT"] = x.streaming["DEFAULT"] # None]},
                {unlocked})

\* xrsr_xraudio_keyword_detect_start
DetectStart(x) ==
    IF ~x.open THEN Unlock(x)
    ELSE OrRefused("detect_keyword",
            {[y EXCEPT !.detector = "on", !.detecting = TRUE] :
                y \in Unlock(x)},
            Unlock(x))

\* xrsr_xraudio_keyword_detect_stop: "detecting" stays.
DetectStop(x) ==
    IF ~x.open THEN {x}
    ELSE OrRefused("detect_stop",
            {[x EXCEPT !.detector = "off", !.xraudio_state = "OPENED"]}, {x})

-----------------------------------------------------------------------------
(* The device.                                                             *)

\* The library has a stream of these groups no longer.
StreamsStopped(x, groups) ==
    [x EXCEPT !.streaming = [g \in Groups |->
                                IF g \in groups THEN None ELSE @[g]],
              !.halted = [g \in Groups |-> @[g] /\ g \notin groups],
              !.refused = [g \in Groups |-> @[g] /\ g \notin groups]]

\* xrsr_xraudio_device_close: whatever the calls before it return, closing
\* the device stops what runs.
DeviceClose(x) ==
    LET stopped == [StreamsStopped(x, {g \in Groups : x.active[g]}) EXCEPT
            !.active = [g \in Groups |-> FALSE],
            !.detector = IF x.detecting THEN "off" ELSE @,
            !.detecting = FALSE]
    IN  IF x.xraudio_state # "OPENED" THEN stopped
        ELSE [StreamsStopped(stopped, Groups) EXCEPT
                !.xraudio_state = "CREATED",
                !.open = FALSE,
                !.detector = "off",
                !.resource = "none"]

\* xrsr_xraudio_device_granted: the device opens, or does not.
DeviceGranted(x) ==
    {x} \cup (IF x.open THEN {}
              ELSE DetectStart([x EXCEPT !.xraudio_state = "OPENED",
                                         !.open = TRUE]))

\* xrsr_xraudio_device_request: the manager takes the request, or does not.
DeviceRequest(x) ==
    {x} \cup (IF x.xraudio_state # "CREATED" THEN {}
              ELSE {[x EXCEPT !.xraudio_state = "REQUESTED",
                              !.resource = "requested"]})

\* What follows a device_close.
Reopen(x) == IF ResourceMgmt THEN DeviceRequest(x) ELSE DeviceGranted(x)

\* xrsr_xraudio_device_revoked
DeviceRevoked(x) == DeviceRequest(DeviceClose(x))

\* xrsr_xraudio_device_update: the device is opened anew when the sources
\* need other inputs.
DeviceUpdate(x, srcs) ==
    LET needed == {Device(s) : s \in srcs}
        now == [x EXCEPT !.device_input = needed]
        closed == IF needed = x.device_input THEN now ELSE DeviceClose(now)
    IN  IF closed.xraudio_state = "CREATED" /\ needed # {} THEN Reopen(closed)
        ELSE {closed}

\* xrsr_xraudio_power_mode_update
PowerModeUpdate(x, mode) ==
    LET now == [x EXCEPT !.device_input = @ \cup {"MICROPHONE"}]
    IN  IF x.power_mode = mode THEN {now}
        ELSE Reopen([DeviceClose(now) EXCEPT !.power_mode = mode])

-----------------------------------------------------------------------------
(* Streams.                                                                *)

\* xrsr_xraudio_stream_begin, when the library accepts the pipe.  A stream of
\* the group that it refused to stop gives way.
StreamStart(x, src) ==
    LET g == Group(src)
    IN  [x EXCEPT !.active[g] = TRUE, !.streaming[g] = src,
                  !.halted[g] = FALSE, !.refused[g] = FALSE]

\* xrsr_xraudio_stream_end once nothing streams in group g: the detector of
\* the default group starts again.
Resumed(x, g) ==
    LET opened == [x EXCEPT !.xraudio_state = "OPENED"]
    IN  IF g = "MIC_TAP" THEN {opened} ELSE DetectStart(opened)

\* Mutant of AudioStreamEnd: the stream is not stopped when its device is
\* still open for other streams.
StopUnlessOpen(x, g) ==
    IF x.xraudio_state # "OPENED" /\ ~x.active[g] THEN {x}
    ELSE Resumed([x EXCEPT !.active[g] = FALSE], g)

\* Mutant of AudioStreamEnd: the object keeps a stream that it has stopped.
StaysActive(x, g) ==
    IF x.xraudio_state # "OPENED" /\ ~x.active[g] THEN {x}
    ELSE IF ~x.active[g] THEN Resumed(x, g)
    ELSE OrRefused("stream_stop",
            Resumed(StreamsStopped(x, {g}), g),
            {[x EXCEPT !.refused[g] = TRUE]})

\* xrsr_xraudio_stream_end of the only stream of group g.  A stream that the
\* library refuses to stop stays active, and the detector where it is.
AudioStreamEnd(x, g) ==
    IF x.xraudio_state # "OPENED" /\ ~x.active[g] THEN {x}
    ELSE IF ~x.active[g] THEN Resumed(x, g)
    ELSE OrRefused("stream_stop",
            Resumed([StreamsStopped(x, {g}) EXCEPT !.active[g] = FALSE], g),
            {[x EXCEPT !.refused[g] = TRUE]})

\* xrsr_xraudio_keyword_detect_error, once the detector is stopped: a local
\* microphone's device is opened anew, and the detector starts again.
AfterDetectError(x, src) ==
    IF src # "MICROPHONE" THEN DetectStart(x)
    ELSE IF ResourceMgmt THEN DeviceRequest(DeviceClose(x))
    ELSE UNION {DetectStart(y) : y \in DeviceGranted(DeviceClose(x))}

-----------------------------------------------------------------------------
(* The object tells the truth about the library: the device is open exactly *)
(* when it is thought to be, nothing runs on a closed device, and a stream  *)
(* is active exactly while the library has it.                              *)
Truthful(x) ==
    /\ x.open <=> x.xraudio_state = "OPENED"
    /\ x.detector # "off" => x.detecting
    /\ x.detecting => x.open
    /\ \A g \in Groups :
         /\ x.active[g] <=> x.streaming[g] # None
         /\ x.halted[g] \/ x.refused[g] => x.active[g]
         /\ x.active[g] => x.open
=============================================================================
