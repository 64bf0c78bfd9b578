--------------------------- MODULE XrAudioProofs ---------------------------
(***************************************************************************)
(* What the operations on the audio object do to it, for every set of      *)
(* sources, with or without a resource manager, and whichever calls the    *)
(* library refuses: they keep the object sound (Sound), and none but       *)
(* StreamStart makes a stream active, or record again (Quieter).           *)
(***************************************************************************)
EXTENDS XrAudio, TLAPS

\* Of the type, and true to the library.
Sound(x) == x \in AudioType /\ Truthful(x)

\* y is sound, and a stream that is active in y was in x, of the same source;
\* it is halted, or was refused to stop, if it was in x.
Quieter(x, y) ==
    /\ Sound(y)
    /\ \A g \in Groups : y.active[g] =>
         /\ x.active[g]
         /\ y.streaming[g] = x.streaming[g]
         /\ x.halted[g] => y.halted[g]
         /\ x.refused[g] => y.refused[g]

\* The fields that matter of an object of the type, and what each may be.
LEMMA Fields ==
    ASSUME NEW x \in AudioType
    PROVE  /\ x.open \in BOOLEAN /\ x.detecting \in BOOLEAN
           /\ x.xraudio_state \in {"CREATED", "REQUESTED", "OPENED"}
           /\ x.detector \in {"off", "on", "fired"}
           /\ \A g \in Groups :
                /\ x.active[g] \in BOOLEAN
                /\ x.streaming[g] \in Sources \cup {None}
                /\ x.halted[g] \in BOOLEAN /\ x.refused[g] \in BOOLEAN
  BY DEF AudioType

\* Nothing begins when nothing happens.
LEMMA QuieterSelf ==
    ASSUME NEW x, Sound(x)
    PROVE  Quieter(x, x)
  BY DEF Quieter

\* What begins no stream twice begins none.
LEMMA QuieterTrans ==
    ASSUME NEW x, NEW y, NEW z, Quieter(x, y), Quieter(y, z)
    PROVE  Quieter(x, z)
  BY DEF Quieter

\* xrsr_xraudio_create.
LEMMA InitSound == Sound(AudioInit)
  BY DEF Sound, Truthful, AudioInit, AudioType, Groups, Devices, PowerModes

-----------------------------------------------------------------------------
(* The detector.                                                           *)

\* A call is done or refused.
LEMMA OrRefusedIn ==
    ASSUME NEW call, NEW done, NEW left, NEW y \in OrRefused(call, done, left)
    PROVE  y \in done \/ y \in left
  BY DEF OrRefused

\* y differs from x in the detector at most, and in a default group's stream
\* that has been halted.
Detects(x, y) ==
    /\ Quieter(x, y)
    /\ y.active = x.active /\ y.streaming = x.streaming
    /\ y.refused = x.refused
    /\ y.xraudio_state = x.xraudio_state /\ y.open = x.open

\* Unlocking the library may halt the default group's stream, no other.
LEMMA UnlockDetects ==
    ASSUME NEW x, Sound(x), NEW y \in Unlock(x)
    PROVE  Detects(x, y)
  <1> DEFINE u == [x EXCEPT !.session_rejected = FALSE]
             h == [u EXCEPT !.halted["DEFAULT"] = x.streaming["DEFAULT"] # None]
  <1>1. y \in {x, u, h}
    BY OrRefusedIn DEF Unlock
  <1>2. Detects(x, x)
    BY QuieterSelf DEF Detects
  <1>3. Detects(x, u)
    BY Fields DEF Detects, Quieter, Sound, Truthful, AudioType
  <1>4. Detects(x, h)
    <2>1. /\ h \in AudioType
          /\ h.active = x.active /\ h.streaming = x.streaming
          /\ h.refused = x.refused
          /\ h.xraudio_state = x.xraudio_state /\ h.open = x.open
          /\ h.detector = x.detector /\ h.detecting = x.detecting
          /\ h.halted["MIC_TAP"] = x.halted["MIC_TAP"]
          /\ h.halted["DEFAULT"] = (x.streaming["DEFAULT"] # None)
      BY Fields DEF Sound, AudioType, Groups
    <2> HIDE DEF h
    <2> QED BY <2>1, Fields DEF Detects, Quieter, Sound, Truthful, Groups
  <1> QED BY <1>1, <1>2, <1>3, <1>4

\* So does starting the detector, whether it starts or not.
LEMMA DetectStartDetects ==
    ASSUME NEW x, Sound(x), NEW y \in DetectStart(x)
    PROVE  Detects(x, y)
  <1>1. \/ y \in Unlock(x)
        \/ /\ x.open
           /\ \E u \in Unlock(x) :
                y = [u EXCEPT !.detector = "on", !.detecting = TRUE]
    BY OrRefusedIn DEF DetectStart
  <1>2. ASSUME x.open, NEW u \in Unlock(x)
        PROVE  Detects(x, [u EXCEPT !.detector = "on", !.detecting = TRUE])
    <2> DEFINE on == [u EXCEPT !.detector = "on", !.detecting = TRUE]
    <2>1. Detects(x, u)
      BY UnlockDetects
    <2>2. /\ on \in AudioType /\ on.active = u.active
          /\ on.streaming = u.streaming /\ on.halted = u.halted
          /\ on.refused = u.refused
          /\ on.xraudio_state = u.xraudio_state
          /\ on.open = u.open /\ on.detecting
      BY <2>1 DEF Detects, Quieter, Sound, AudioType
    <2> HIDE DEF on
    <2>3. Sound(on)
      BY <1>2, <2>1, <2>2 DEF Detects, Quieter, Sound, Truthful
    <2>4. Detects(x, on)
      BY <2>1, <2>2, <2>3 DEF Detects, Quieter
    <2> QED BY <2>4 DEF on
  <1> QED BY <1>1, <1>2, UnlockDetects

\* Starting the detector begins no stream.
LEMMA DetectStartQuieter ==
    ASSUME NEW x, Sound(x), NEW y \in DetectStart(x)
    PROVE  Quieter(x, y)
  BY DetectStartDetects DEF Detects

\* Stopping the detector stops no stream and begins none.
LEMMA DetectStopQuieter ==
    ASSUME NEW x, Sound(x), NEW y \in DetectStop(x)
    PROVE  Quieter(x, y)
  <1> DEFINE off == [x EXCEPT !.detector = "off", !.xraudio_state = "OPENED"]
  <1>1. y = x \/ (x.open /\ y = off)
    BY OrRefusedIn DEF DetectStop
  <1>2. ASSUME x.open PROVE Quieter(x, off)
    BY <1>2, Fields DEF Quieter, Sound, Truthful, AudioType
  <1> QED BY <1>1, <1>2, QuieterSelf

\* A rejected keyword changes nothing but the flag.
LEMMA RejectQuieter ==
    ASSUME NEW x, Sound(x)
    PROVE  Quieter(x, [x EXCEPT !.session_rejected = TRUE])
  BY Fields DEF Quieter, Sound, Truthful, AudioType, Groups

-----------------------------------------------------------------------------
(* The device.                                                             *)

\* Stopping some groups' streams leaves the other fields alone.
LEMMA StreamsStoppedIs ==
    ASSUME NEW x \in AudioType, NEW groups
    PROVE  LET y == StreamsStopped(x, groups)
           IN  /\ y \in AudioType
               /\ y.active = x.active /\ y.open = x.open
               /\ y.detector = x.detector /\ y.detecting = x.detecting
               /\ y.xraudio_state = x.xraudio_state
               /\ \A g \in Groups \cap groups :
                    y.streaming[g] = None /\ ~y.halted[g] /\ ~y.refused[g]
               /\ \A g \in Groups \ groups :
                    /\ y.streaming[g] = x.streaming[g]
                    /\ y.halted[g] = x.halted[g]
                    /\ y.refused[g] = x.refused[g]
  <1> DEFINE st == [g \in Groups |-> IF g \in groups THEN None
                                     ELSE x.streaming[g]]
             ha == [g \in Groups |-> x.halted[g] /\ g \notin groups]
             re == [g \in Groups |-> x.refused[g] /\ g \notin groups]
  <1>1. /\ st \in [Groups -> Sources \cup {None}]
        /\ ha \in [Groups -> BOOLEAN] /\ re \in [Groups -> BOOLEAN]
    BY Fields
  <1>2. StreamsStopped(x, groups) =
          [x EXCEPT !.streaming = st, !.halted = ha, !.refused = re]
    BY DEF StreamsStopped, AudioType
  <1>3. /\ \A g \in Groups \cap groups : st[g] = None /\ ~ha[g] /\ ~re[g]
        /\ \A g \in Groups \ groups :
             st[g] = x.streaming[g] /\ ha[g] = x.halted[g] /\ re[g] = x.refused[g]
    BY Fields
  <1> HIDE DEF st, ha, re
  <1> DEFINE y == StreamsStopped(x, groups)
  <1>4. /\ y \in AudioType
        /\ y.active = x.active /\ y.open = x.open
        /\ y.detector = x.detector /\ y.detecting = x.detecting
        /\ y.xraudio_state = x.xraudio_state
        /\ y.streaming = st /\ y.halted = ha /\ y.refused = re
    BY <1>1, <1>2 DEF AudioType
  <1> HIDE DEF y
  <1> QED BY <1>3, <1>4 DEF y

\* xrsr_xraudio_device_close stops every stream of the device it closes.
LEMMA DeviceCloseQuieter ==
    ASSUME NEW x, Sound(x)
    PROVE  Quieter(x, DeviceClose(x))
  <1> DEFINE u == StreamsStopped(x, {g \in Groups : x.active[g]})
             s == [u EXCEPT !.active = [g \in Groups |-> FALSE],
                            !.detector = IF x.detecting THEN "off" ELSE @,
                            !.detecting = FALSE]
             v == StreamsStopped(s, Groups)
             c == [v EXCEPT !.xraudio_state = "CREATED", !.open = FALSE,
                            !.detector = "off", !.resource = "none"]
  <1>1. /\ u \in AudioType /\ u.open = x.open /\ u.detector = x.detector
        /\ u.xraudio_state = x.xraudio_state
        /\ \A g \in Groups : x.active[g] =>
             u.streaming[g] = None /\ ~u.halted[g] /\ ~u.refused[g]
        /\ \A g \in Groups : ~x.active[g] =>
             /\ u.streaming[g] = x.streaming[g]
             /\ u.halted[g] = x.halted[g] /\ u.refused[g] = x.refused[g]
    BY StreamsStoppedIs DEF Sound
  <1> HIDE DEF u
  <1>2. /\ s \in AudioType /\ s.open = x.open
        /\ s.xraudio_state = x.xraudio_state /\ ~s.detecting
        /\ x.detector # "off" => x.detecting
        /\ s.detector = "off"
        /\ \A g \in Groups : ~s.active[g]
        /\ s.streaming = u.streaming /\ s.halted = u.halted
        /\ s.refused = u.refused
    <2>1. x.detector # "off" => x.detecting
      BY DEF Sound, Truthful
    <2> QED BY <1>1, <2>1, Fields DEF AudioType
  <1> HIDE DEF s
  <1>3. Quieter(x, s)
    BY <1>1, <1>2, Fields DEF Quieter, Sound, Truthful
  <1>4. CASE x.xraudio_state # "OPENED"
    <2>1. DeviceClose(x) = s
      BY <1>4 DEF DeviceClose, s, u
    <2> QED BY <1>3, <2>1
  <1>5. CASE x.xraudio_state = "OPENED"
    <2>1. DeviceClose(x) = c
      BY <1>5 DEF DeviceClose, s, u
    <2>2. /\ v \in AudioType /\ v.active = s.active /\ v.detecting = s.detecting
          /\ \A g \in Groups :
               v.streaming[g] = None /\ ~v.halted[g] /\ ~v.refused[g]
      BY <1>2, StreamsStoppedIs
    <2> HIDE DEF v
    <2>3. /\ c \in AudioType /\ c.active = s.active /\ ~c.detecting
          /\ c.streaming = v.streaming /\ c.halted = v.halted
          /\ c.refused = v.refused
          /\ c.xraudio_state = "CREATED" /\ ~c.open /\ c.detector = "off"
      BY <1>2, <2>2 DEF AudioType
    <2> HIDE DEF c
    <2> QED BY <1>2, <2>1, <2>2, <2>3 DEF Quieter, Sound, Truthful
  <1> QED BY <1>4, <1>5

\* A granted device starts nothing that was running before.
LEMMA DeviceGrantedQuieter ==
    ASSUME NEW x, Sound(x), NEW y \in DeviceGranted(x)
    PROVE  Quieter(x, y)
  <1> DEFINE o == [x EXCEPT !.xraudio_state = "OPENED", !.open = TRUE]
  <1>1. Quieter(x, o)
    BY Fields DEF Quieter, Sound, Truthful, AudioType, Groups
  <1>2. y # x => y \in DetectStart(o)
    BY DEF DeviceGranted
  <1>3. y \in DetectStart(o) => Quieter(x, y)
    <2> HIDE DEF o
    <2> QED BY <1>1, DetectStartQuieter, QuieterTrans DEF Quieter
  <1> QED BY <1>2, <1>3, QuieterSelf

\* A request leaves the streams as they are, taken or refused.
LEMMA DeviceRequestQuieter ==
    ASSUME NEW x, Sound(x), NEW y \in DeviceRequest(x)
    PROVE  Quieter(x, y)
  <1> DEFINE r == [x EXCEPT !.xraudio_state = "REQUESTED",
                            !.resource = "requested"]
  <1>1. CASE y = x
    BY <1>1, QuieterSelf
  <1>2. CASE y # x
    <2>1. x.xraudio_state = "CREATED" /\ y = r
      BY <1>2 DEF DeviceRequest
    <2>2. Quieter(x, r)
      BY <2>1, Fields DEF Quieter, Sound, Truthful, AudioType
    <2> QED BY <2>1, <2>2
  <1> QED BY <1>1, <1>2

\* Reopening a closed device begins no stream.
LEMMA ReopenQuieter ==
    ASSUME NEW x, Sound(x), NEW y \in Reopen(x)
    PROVE  Quieter(x, y)
  BY DeviceRequestQuieter, DeviceGrantedQuieter DEF Reopen

\* Closing and opening anew: xrsr_xraudio_device_revoked and the error paths.
LEMMA DeviceRevokedQuieter ==
    ASSUME NEW x, Sound(x), NEW y \in DeviceRevoked(x)
    PROVE  Quieter(x, y)
  BY DeviceCloseQuieter, DeviceRequestQuieter, QuieterTrans
     DEF DeviceRevoked, Quieter

\* New inputs stop the streams, or leave them.
LEMMA DeviceUpdateQuieter ==
    ASSUME NEW x, Sound(x), NEW srcs \in SUBSET Sources,
           NEW y \in DeviceUpdate(x, srcs)
    PROVE  Quieter(x, y)
  <1> DEFINE needed == {Device(s) : s \in srcs}
             now == [x EXCEPT !.device_input = needed]
             closed == IF needed = x.device_input THEN now ELSE DeviceClose(now)
  <1>1. needed \subseteq Devices
    BY AudioAssumption DEF Device, Devices
  <1>2. Quieter(x, now)
    <2> HIDE DEF needed
    <2> QED BY <1>1, Fields DEF Quieter, Sound, Truthful, AudioType, Groups
  <1>3. Quieter(x, closed)
    <2> HIDE DEF now, needed
    <2> QED BY <1>2, DeviceCloseQuieter, QuieterTrans DEF Quieter
  <1>4. y = closed \/ y \in Reopen(closed)
    BY DEF DeviceUpdate
  <1> HIDE DEF closed
  <1> QED BY <1>3, <1>4, ReopenQuieter, QuieterTrans DEF Quieter

\* A new power mode stops the streams, or leaves them.
LEMMA PowerModeUpdateQuieter ==
    ASSUME NEW x, Sound(x), NEW mode \in PowerModes,
           NEW y \in PowerModeUpdate(x, mode)
    PROVE  Quieter(x, y)
  <1> DEFINE now == [x EXCEPT !.device_input = @ \cup {"MICROPHONE"}]
             closed == DeviceClose(now)
             set == [closed EXCEPT !.power_mode = mode]
  <1>1. Quieter(x, now)
    BY Fields DEF Quieter, Sound, Truthful, AudioType, Groups, Devices
  <1>2. Quieter(x, closed)
    <2> HIDE DEF now
    <2> QED BY <1>1, DeviceCloseQuieter, QuieterTrans DEF Quieter
  <1>3. Quieter(x, set)
    <2> HIDE DEF closed
    <2> QED BY <1>2, Fields DEF Quieter, Sound, Truthful, AudioType, Groups
  <1>4. y = now \/ y \in Reopen(set)
    BY DEF PowerModeUpdate
  <1> HIDE DEF now, closed, set
  <1> QED BY <1>1, <1>3, <1>4, ReopenQuieter, QuieterTrans DEF Quieter

\* Neither does the recovery from a detector error begin a stream.
LEMMA AfterDetectErrorQuieter ==
    ASSUME NEW x, Sound(x), NEW src, NEW y \in AfterDetectError(x, src)
    PROVE  Quieter(x, y)
  <1>1. Quieter(x, DeviceClose(x))
    BY DeviceCloseQuieter
  <1>2. ASSUME NEW z \in DeviceGranted(DeviceClose(x)), y \in DetectStart(z)
        PROVE  Quieter(x, y)
    BY <1>1, <1>2, DeviceGrantedQuieter, DetectStartQuieter, QuieterTrans
       DEF Quieter
  <1>3. \/ y \in DetectStart(x)
        \/ y \in DeviceRequest(DeviceClose(x))
        \/ \E z \in DeviceGranted(DeviceClose(x)) : y \in DetectStart(z)
    BY DEF AfterDetectError
  <1> QED
    BY <1>1, <1>2, <1>3, DetectStartQuieter, DeviceRequestQuieter, QuieterTrans
       DEF Quieter

-----------------------------------------------------------------------------
(* Streams.                                                                *)

\* A stream starts on an open device, in its own group.
LEMMA StreamStartSound ==
    ASSUME NEW x, Sound(x), x.xraudio_state = "OPENED", NEW src \in Sources
    PROVE  LET y == StreamStart(x, src)
               g == Group(src)
           IN  /\ Sound(y)
               /\ y.active[g] /\ y.streaming[g] = src
               /\ ~y.halted[g] /\ ~y.refused[g]
               /\ \A h \in Groups \ {g} :
                    /\ y.active[h] = x.active[h]
                    /\ y.streaming[h] = x.streaming[h]
                    /\ y.halted[h] = x.halted[h]
                    /\ y.refused[h] = x.refused[h]
  <1> DEFINE g == Group(src)
             y == StreamStart(x, src)
  <1>1. g \in Groups /\ src # None
    BY AudioAssumption DEF Group, Groups
  <1>2. /\ y \in AudioType
        /\ y.active[g] /\ y.streaming[g] = src
        /\ ~y.halted[g] /\ ~y.refused[g]
        /\ \A h \in Groups \ {g} :
             /\ y.active[h] = x.active[h]
             /\ y.streaming[h] = x.streaming[h]
             /\ y.halted[h] = x.halted[h]
             /\ y.refused[h] = x.refused[h]
        /\ y.xraudio_state = x.xraudio_state /\ y.open = x.open
        /\ y.detector = x.detector /\ y.detecting = x.detecting
    <2>1. y = [x EXCEPT !.active[g] = TRUE, !.streaming[g] = src,
                        !.halted[g] = FALSE, !.refused[g] = FALSE]
      BY DEF StreamStart
    <2>2. src \in Sources \cup {None} /\ x \in AudioType BY DEF Sound
    <2> HIDE DEF y, g
    <2>3. y \in AudioType BY <1>1, <2>1, <2>2 DEF AudioType
    <2> QED BY <1>1, <2>1, <2>2 DEF AudioType
  <1> HIDE DEF y, g
  <1>3. Sound(y)
    BY <1>1, <1>2, Fields DEF Sound, Truthful
  <1> QED BY <1>2, <1>3 DEF y, g

\* A stream that ends is no longer active, unless the library refused to stop
\* it; the other group's goes on.
LEMMA AudioStreamEndQuieter ==
    ASSUME NEW x, Sound(x), NEW g \in Groups, NEW y \in AudioStreamEnd(x, g)
    PROVE  /\ Quieter(x, y)
           /\ y.active[g] => y.refused[g]
           /\ \A h \in Groups \ {g} : y.active[h] = x.active[h]
  <1> DEFINE kept == [x EXCEPT !.refused[g] = TRUE]
             z == [StreamsStopped(x, {g}) EXCEPT !.active[g] = FALSE]
  <1>1. CASE y = kept /\ x.active[g]
    <2>1. /\ kept \in AudioType /\ kept.active = x.active
          /\ kept.streaming = x.streaming /\ kept.halted = x.halted
          /\ kept.open = x.open /\ kept.xraudio_state = x.xraudio_state
          /\ kept.detector = x.detector /\ kept.detecting = x.detecting
          /\ kept.refused[g]
          /\ \A h \in Groups \ {g} : kept.refused[h] = x.refused[h]
      BY Fields DEF Sound, AudioType
    <2> HIDE DEF kept
    <2>2. Quieter(x, kept)
      BY <1>1, <2>1, Fields DEF Quieter, Sound, Truthful
    <2> QED BY <1>1, <2>1, <2>2
  <1>2. CASE y = x /\ ~x.active[g]
    BY <1>2, QuieterSelf
  <1>3. ASSUME NEW r, Quieter(x, r), ~r.active[g], y \in Resumed(r, g),
               x.xraudio_state = "OPENED", r.xraudio_state = "OPENED",
               \A h \in Groups \ {g} : r.active[h] = x.active[h]
        PROVE  /\ Quieter(x, y) /\ ~y.active[g]
               /\ \A h \in Groups \ {g} : y.active[h] = x.active[h]
    <2> DEFINE o == [r EXCEPT !.xraudio_state = "OPENED"]
    <2>1. o = r
      BY <1>3 DEF Quieter, Sound, AudioType
    <2>2. y = r \/ y \in DetectStart(r)
      BY <1>3, <2>1 DEF Resumed
    <2>3. y \in DetectStart(r) => Quieter(r, y) /\ y.active = r.active
      BY <1>3, DetectStartDetects DEF Detects, Quieter
    <2> QED BY <1>3, <2>2, <2>3, QuieterTrans
  <1>4. CASE x.active[g] /\ y \in Resumed(z, g)
    <2>1. /\ z \in AudioType /\ ~z.active[g] /\ z.streaming[g] = None
          /\ ~z.halted[g] /\ ~z.refused[g]
          /\ z.open = x.open /\ z.xraudio_state = x.xraudio_state
          /\ z.detector = x.detector /\ z.detecting = x.detecting
          /\ \A h \in Groups \ {g} :
               /\ z.active[h] = x.active[h]
               /\ z.streaming[h] = x.streaming[h]
               /\ z.halted[h] = x.halted[h]
               /\ z.refused[h] = x.refused[h]
      <3> DEFINE w == StreamsStopped(x, {g})
      <3>1. /\ w \in AudioType /\ w.active = x.active
            /\ w.streaming[g] = None /\ ~w.halted[g] /\ ~w.refused[g]
            /\ w.open = x.open /\ w.xraudio_state = x.xraudio_state
            /\ w.detector = x.detector /\ w.detecting = x.detecting
            /\ \A h \in Groups \ {g} :
                 /\ w.streaming[h] = x.streaming[h]
                 /\ w.halted[h] = x.halted[h]
                 /\ w.refused[h] = x.refused[h]
        BY StreamsStoppedIs DEF Sound
      <3> HIDE DEF w
      <3>2. z = [w EXCEPT !.active[g] = FALSE]
        BY DEF w
      <3> HIDE DEF z
      <3> QED BY <3>1, <3>2, Fields DEF AudioType
    <2> HIDE DEF z
    <2>2. x.xraudio_state = "OPENED"
      BY <1>4 DEF Sound, Truthful
    <2>3. Quieter(x, z)
      BY <2>1, Fields DEF Quieter, Sound, Truthful
    <2> QED BY <1>3, <1>4, <2>1, <2>2, <2>3
  <1>5. CASE x.xraudio_state = "OPENED" /\ ~x.active[g] /\ y \in Resumed(x, g)
    BY <1>3, <1>5, QuieterSelf
  <1>6. \/ y = x /\ ~x.active[g]
        \/ x.xraudio_state = "OPENED" /\ ~x.active[g] /\ y \in Resumed(x, g)
        \/ x.active[g] /\ y \in Resumed(z, g)
        \/ x.active[g] /\ y = kept
    BY OrRefusedIn DEF AudioStreamEnd
  <1> QED BY <1>1, <1>2, <1>4, <1>5, <1>6
=============================================================================
