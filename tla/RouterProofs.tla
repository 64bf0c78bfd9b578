---------------------------- MODULE RouterProofs ----------------------------
(***************************************************************************)
(* What holds of the router for every set of sources, every assignment of  *)
(* protocols to them, every limit of the queue, with or without a resource  *)
(* manager, and whichever calls the audio library refuses: the inductive   *)
(* invariant IInv of Router, and from it its properties and its refinement *)
(* of Microphone.                                                          *)
(*                                                                         *)
(* Most steps may only end sessions and streams (Calm, Stops): they are    *)
(* compositions of a few calls, each of which does, and ending is          *)
(* transitive.  The few steps that begin something (Steps lists them) have *)
(* an effect lemma each.                                                   *)
(***************************************************************************)
EXTENDS Router, XrAudioProofs

-----------------------------------------------------------------------------
(* What is said of g_xrsr alone, of any value x of it.                     *)

ExclusiveIn(x) ==
    \A s \in Sources :
      x.dst[s].phase # "idle" =>
        /\ x.session[Group(s)].src = s
        /\ x.dst[s].handler
        /\ x.dst[s].audio_src = s

GroupedIn(x) ==
    \A g \in Groups :
      x.session[g].src # None => Group(x.session[g].src) = g

IdleSourceIn(x) ==
    \A s \in Sources :
      x.dst[s].phase = "idle" =>
        \/ x.dst[s].audio_src = None
        \/ Protocol[s] = "SDT" /\ x.dst[s].audio_src = "RCU_PTT"

\* The part of the invariant that is about g_xrsr.
Well(x) ==
    /\ x \in XrsrType /\ Truthful(x.audio)
    /\ ExclusiveIn(x) /\ GroupedIn(x) /\ IdleSourceIn(x)

\* The session that group g had in x is over in y.  Its pipe is gone, with its
\* stream unless the library refused to stop it; or was gone, if its
\* destination was draining.
Over(x, y, g) ==
    LET src == x.session[g].src
    IN  /\ src # None
        /\ x.dst[src].phase # "idle"
        /\ y.session[g].src = None
        /\ x.dst[src].phase = "draining" =>
             /\ y.session[g].pipe = x.session[g].pipe
             /\ y.session[g].first_stream_req = x.session[g].first_stream_req
        /\ x.dst[src].phase # "draining" =>
             /\ ~y.session[g].pipe
             /\ y.session[g].first_stream_req
             /\ y.audio.active[g] => y.audio.refused[g]

\* Group g has the same session in x and in y, and its destination its phase.
Same(x, y, g) ==
    /\ y.session[g] = x.session[g]
    /\ x.session[g].src # None =>
         y.dst[x.session[g].src].phase = x.dst[x.session[g].src].phase

\* y is x after some of the sessions have ended, and some of the streams.
Stops(x, y) ==
    /\ Well(y)
    /\ Quieter(x.audio, y.audio)
    /\ \A s \in Sources :
         /\ y.dst[s].uuid \in {x.dst[s].uuid, None}
         /\ y.dst[s].phase \in {x.dst[s].phase, "idle"}
    /\ \A g \in Groups : Same(x, y, g) \/ Over(x, y, g)

\* Every source, routed or not, has one of the two groups.
LEMMA GroupIn == ASSUME NEW src PROVE Group(src) \in Groups
  BY DEF Group, Groups

\* The groups, for case splits.
LEMMA TwoGroups == Groups = {"DEFAULT", "MIC_TAP"}
  BY DEF Groups

\* The types of the fields that the proofs below read.
LEMMA XrsrFields ==
    ASSUME NEW x \in XrsrType
    PROVE  /\ x.session \in [Groups -> SessionType]
           /\ x.dst \in [Sources -> DstType]
           /\ x.audio \in AudioType
           /\ \A g \in Groups :
                /\ x.session[g] \in SessionType
                /\ x.session[g].src \in Sources \cup {None}
                /\ x.session[g].first_stream_req \in BOOLEAN
                /\ x.session[g].pipe \in BOOLEAN
           /\ \A s \in Sources :
                /\ x.dst[s] \in DstType
                /\ x.dst[s].handler \in BOOLEAN
                /\ x.dst[s].phase \in Phases
                /\ x.dst[s].uuid \in Uuids \cup {None}
                /\ x.dst[s].audio_src \in Sources \cup {None, "RCU_PTT"}
  BY DEF XrsrType, SessionType, DstType

\* g_xrsr with other sessions, destinations and audio object.
Made(x, s, d, a) == [x EXCEPT !.session = s, !.dst = d, !.audio = a]

\* The parts of a g_xrsr that is made of given parts.
LEMMA MadeIs ==
    ASSUME NEW x \in XrsrType, NEW s \in [Groups -> SessionType],
           NEW d \in [Sources -> DstType], NEW a \in AudioType
    PROVE  /\ Made(x, s, d, a) \in XrsrType
           /\ Made(x, s, d, a).session = s
           /\ Made(x, s, d, a).dst = d
           /\ Made(x, s, d, a).audio = a
  BY DEF Made, XrsrType

\* To do nothing ends nothing.
LEMMA StopsSelf ==
    ASSUME NEW x, Well(x)
    PROVE  Stops(x, x)
  BY QuieterSelf, XrsrFields DEF Stops, Same, Well, Sound

\* What ends sessions, and then ends more, ends sessions.
LEMMA StopsTrans ==
    ASSUME NEW x, NEW y, NEW z, Well(x), Stops(x, y), Stops(y, z)
    PROVE  Stops(x, z)
  <1>1. Quieter(x.audio, z.audio)
    BY QuieterTrans DEF Stops
  <1>2. ASSUME NEW s \in Sources
        PROVE  /\ z.dst[s].uuid \in {x.dst[s].uuid, None}
               /\ z.dst[s].phase \in {x.dst[s].phase, "idle"}
    BY DEF Stops
  <1>3. ASSUME NEW g \in Groups
        PROVE  Same(x, z, g) \/ Over(x, z, g)
    <2>0. /\ x.session[g].src \in Sources \cup {None}
          /\ Same(x, y, g) \/ Over(x, y, g)
          /\ Same(y, z, g) \/ Over(y, z, g)
          /\ z.audio.active[g] =>
               /\ y.audio.active[g]
               /\ y.audio.refused[g] => z.audio.refused[g]
      BY XrsrFields DEF Stops, Well, Quieter
    <2>1. CASE Same(x, y, g) /\ Same(y, z, g)
      BY <2>1 DEF Same
    <2>2. CASE Same(x, y, g) /\ Over(y, z, g)
      BY <2>2, <2>0 DEF Same, Over
    <2>3. CASE Over(x, y, g) /\ Same(y, z, g)
      BY <2>3, <2>0 DEF Same, Over
    <2>4. ~(Over(x, y, g) /\ Over(y, z, g))
      BY DEF Over
    <2> QED BY <2>0, <2>1, <2>2, <2>3, <2>4
  <1> QED BY <1>1, <1>2, <1>3 DEF Stops

-----------------------------------------------------------------------------
(* The destinations' calls.                                                *)

\* The source whose session a group has is the one that Active finds.
LEMMA ActiveIs ==
    ASSUME NEW x, x \in XrsrType, GroupedIn(x), NEW src \in Sources
    PROVE  Active(x, src) <=> x.session[Group(src)].src = src
  BY GroupIn, AudioAssumption, XrsrFields DEF Active, GroupedIn

\* xrsr_speech_stream_end closes the group's pipe, stops its stream or is
\* refused that, and leaves the session to its source.
LEMMA StreamEndEffect ==
    ASSUME NEW x, Well(x), NEW src \in Sources, NEW y \in StreamEnd(x, src)
    PROVE  LET g == Group(src)
           IN  /\ Well(y)
               /\ y.dst = x.dst
               /\ Quieter(x.audio, y.audio)
               /\ y.audio.active[g] => y.audio.refused[g]
               /\ \A h \in Groups \ {g} : y.session[h] = x.session[h]
               /\ y.session[g].src = x.session[g].src
               /\ ~y.session[g].pipe /\ y.session[g].first_stream_req
  <1> DEFINE g == Group(src)
             r == [x.session[g] EXCEPT !.pipe = FALSE,
                                       !.first_stream_req = TRUE]
             ss == [x.session EXCEPT ![g] = r]
  <1>0. PICK a \in AudioStreamEnd(x.audio, g) :
          y = [WithAudio(x, a) EXCEPT !.session[g].pipe = FALSE,
                                      !.session[g].first_stream_req = TRUE]
    BY DEF StreamEnd
  <1>1. /\ Quieter(x.audio, a) /\ g \in Groups
        /\ a.active[g] => a.refused[g]
    BY <1>0, AudioStreamEndQuieter, GroupIn, XrsrFields DEF Well, Sound
  <1>2. x \in XrsrType /\ x.session[g] \in SessionType
    BY <1>1, XrsrFields DEF Well
  <1>3. /\ r \in SessionType /\ r.src = x.session[g].src
        /\ ~r.pipe /\ r.first_stream_req
    BY <1>2 DEF SessionType
  <1>4. y = Made(x, ss, x.dst, a)
    BY <1>0, <1>1, <1>2, XrsrFields
       DEF WithAudio, XrsrType, SessionType, Made
  <1> HIDE DEF g, r
  <1>5. ss \in [Groups -> SessionType] /\ a \in AudioType
    BY <1>1, <1>2, <1>3, XrsrFields DEF Quieter, Sound
  <1>6. y \in XrsrType /\ y.session = ss /\ y.dst = x.dst /\ y.audio = a
    <2> HIDE DEF ss
    <2> QED BY <1>2, <1>4, <1>5, MadeIs, XrsrFields
  <1>7. /\ ss[g] = r
        /\ \A h \in Groups \ {g} : ss[h] = x.session[h]
        /\ \A h \in Groups : ss[h].src = x.session[h].src
    BY <1>1, <1>2, <1>3, XrsrFields
  <1> HIDE DEF ss
  <1>8. Well(y)
    BY <1>1, <1>6, <1>7, GroupIn
       DEF Well, ExclusiveIn, GroupedIn, IdleSourceIn, Quieter, Sound
  <1> QED BY <1>1, <1>3, <1>6, <1>7, <1>8 DEF g

\* The session of s is over: its group has none.
Released(x, s) == [x EXCEPT !.session[Group(s)].src = None]

\* Nothing but the session's source changes when it is released.
LEMMA ReleasedEffect ==
    ASSUME NEW x \in XrsrType, NEW s \in Sources
    PROVE  LET y == Released(x, s)
               g == Group(s)
           IN  /\ y \in XrsrType
               /\ y.dst = x.dst /\ y.audio = x.audio
               /\ \A h \in Groups \ {g} : y.session[h] = x.session[h]
               /\ y.session[g].src = None
               /\ y.session[g].pipe = x.session[g].pipe
               /\ y.session[g].first_stream_req = x.session[g].first_stream_req
  <1> DEFINE g == Group(s)
             y == Released(x, s)
             r == [x.session[g] EXCEPT !.src = None]
             ss == [x.session EXCEPT ![g] = r]
  <1>1. x.session[g] \in SessionType /\ g \in Groups
    BY GroupIn, XrsrFields
  <1>2. /\ r \in SessionType /\ r.src = None
        /\ r.pipe = x.session[g].pipe
        /\ r.first_stream_req = x.session[g].first_stream_req
    BY <1>1 DEF SessionType
  <1>3. y = Made(x, ss, x.dst, x.audio)
    BY <1>1, XrsrFields DEF Released, XrsrType, SessionType, Made
  <1> HIDE DEF y, g, r
  <1>4. ss \in [Groups -> SessionType]
    BY <1>1, <1>2, XrsrFields
  <1>5. y \in XrsrType /\ y.session = ss /\ y.dst = x.dst /\ y.audio = x.audio
    <2> HIDE DEF ss
    <2> QED BY <1>3, <1>4, MadeIs, XrsrFields
  <1>6. /\ ss[g] = r
        /\ \A h \in Groups \ {g} : ss[h] = x.session[h]
    BY <1>1, XrsrFields
  <1> QED BY <1>2, <1>5, <1>6 DEF y, g

\* An idle source is released when its session ends.
LEMMA SessionEndIs ==
    ASSUME NEW x \in XrsrType, GroupedIn(x), NEW s
    PROVE  /\ SessionEnd(x, s) \in {x, Released(x, s)}
           /\ SessionEnd(x, s) # x =>
                /\ s \in Sources /\ x.session[Group(s)].src = s
                /\ x.dst[s].phase = "idle"
           /\ (s \in Sources /\ x.session[Group(s)].src = s
               /\ x.dst[s].handler /\ x.dst[s].phase = "idle")
              => SessionEnd(x, s) = Released(x, s)
  <1>1. s # None /\ Active(x, s) => s \in Sources
    BY XrsrFields DEF Active
  <1>2. s \in Sources => (Active(x, s) <=> x.session[Group(s)].src = s)
    BY ActiveIs
  <1>3. s \in Sources => s # None
    BY AudioAssumption
  <1> QED BY <1>1, <1>2, <1>3 DEF SessionEnd, Released

\* The destination of s with another phase, or another source.
WithPhase(x, s, p) == [x EXCEPT !.dst[s].phase = p]
WithSource(x, s, v) == [x EXCEPT !.dst[s].audio_src = v]

\* y differs from x in the phase, or the source, of the destination of s.
OnlyDst(x, y, s, p, v) ==
    /\ y \in XrsrType
    /\ y.session = x.session /\ y.audio = x.audio
    /\ \A t \in Sources \ {s} : y.dst[t] = x.dst[t]
    /\ y.dst[s].handler = x.dst[s].handler
    /\ y.dst[s].uuid = x.dst[s].uuid
    /\ y.dst[s].phase = p
    /\ y.dst[s].audio_src = v

\* A change of phase touches one destination, and of it the phase only.
LEMMA WithPhaseEffect ==
    ASSUME NEW x \in XrsrType, NEW s \in Sources, NEW p \in Phases
    PROVE  OnlyDst(x, WithPhase(x, s, p), s, p, x.dst[s].audio_src)
  <1> DEFINE y == WithPhase(x, s, p)
             r == [x.dst[s] EXCEPT !.phase = p]
             d == [x.dst EXCEPT ![s] = r]
  <1>1. x.dst[s] \in DstType
    BY XrsrFields
  <1>2. /\ r \in DstType /\ r.phase = p
        /\ r.handler = x.dst[s].handler /\ r.uuid = x.dst[s].uuid
        /\ r.audio_src = x.dst[s].audio_src
    BY <1>1 DEF DstType
  <1>3. y = Made(x, x.session, d, x.audio)
    BY <1>1, XrsrFields DEF WithPhase, XrsrType, DstType, Made
  <1> HIDE DEF y, r
  <1>4. d \in [Sources -> DstType]
    BY <1>1, <1>2, XrsrFields
  <1>5. y \in XrsrType /\ y.session = x.session /\ y.dst = d /\ y.audio = x.audio
    <2> HIDE DEF d
    <2> QED BY <1>3, <1>4, MadeIs, XrsrFields
  <1>6. d[s] = r /\ \A t \in Sources \ {s} : d[t] = x.dst[t]
    BY <1>1, XrsrFields
  <1> QED BY <1>2, <1>5, <1>6 DEF y, OnlyDst

\* A change of audio_src touches one destination, and of it audio_src only.
LEMMA WithSourceEffect ==
    ASSUME NEW x \in XrsrType, NEW s \in Sources,
           NEW v \in Sources \cup {None, "RCU_PTT"}
    PROVE  OnlyDst(x, WithSource(x, s, v), s, x.dst[s].phase, v)
  <1> DEFINE y == WithSource(x, s, v)
             r == [x.dst[s] EXCEPT !.audio_src = v]
             d == [x.dst EXCEPT ![s] = r]
  <1>1. x.dst[s] \in DstType
    BY XrsrFields
  <1>2. /\ r \in DstType /\ r.audio_src = v
        /\ r.handler = x.dst[s].handler /\ r.uuid = x.dst[s].uuid
        /\ r.phase = x.dst[s].phase
    BY <1>1 DEF DstType
  <1>3. y = Made(x, x.session, d, x.audio)
    BY <1>1, XrsrFields DEF WithSource, XrsrType, DstType, Made
  <1> HIDE DEF y, r
  <1>4. d \in [Sources -> DstType]
    BY <1>1, <1>2, XrsrFields
  <1>5. y \in XrsrType /\ y.session = x.session /\ y.dst = d /\ y.audio = x.audio
    <2> HIDE DEF d
    <2> QED BY <1>3, <1>4, MadeIs, XrsrFields
  <1>6. d[s] = r /\ \A t \in Sources \ {s} : d[t] = x.dst[t]
    BY <1>1, XrsrFields
  <1> QED BY <1>2, <1>5, <1>6 DEF y, OnlyDst

\* A connected destination that is disconnected releases its group.
LEMMA DisconnectedEffect ==
    ASSUME NEW x, Well(x), NEW src \in Sources, x.dst[src].phase # "idle"
    PROVE  LET y == Disconnected(x, src)
               g == Group(src)
           IN  /\ Well(y)
               /\ y.audio = x.audio
               /\ \A t \in Sources \ {src} : y.dst[t] = x.dst[t]
               /\ y.dst[src].handler = x.dst[src].handler
               /\ y.dst[src].uuid = x.dst[src].uuid
               /\ y.dst[src].phase = "idle"
               /\ \A h \in Groups \ {g} : y.session[h] = x.session[h]
               /\ y.session[g].src = None
               /\ y.session[g].pipe = x.session[g].pipe
               /\ y.session[g].first_stream_req = x.session[g].first_stream_req
  <1> DEFINE g == Group(src)
             u == WithPhase(x, src, "idle")
             v == Released(u, src)
             y == Disconnected(x, src)
  <1>1. /\ x \in XrsrType /\ x.session[g].src = src
        /\ x.dst[src].handler /\ x.dst[src].audio_src = src
        /\ g \in Groups /\ GroupedIn(x)
    BY GroupIn DEF Well, ExclusiveIn
  <1>2. /\ u \in XrsrType
        /\ u.session = x.session /\ u.audio = x.audio
        /\ \A t \in Sources \ {src} : u.dst[t] = x.dst[t]
        /\ u.dst[src].handler = x.dst[src].handler
        /\ u.dst[src].uuid = x.dst[src].uuid
        /\ u.dst[src].phase = "idle"
    <2>1. "idle" \in Phases BY DEF Phases
    <2>2. OnlyDst(x, u, src, "idle", x.dst[src].audio_src)
      BY <1>1, <2>1, WithPhaseEffect
    <2> HIDE DEF u
    <2> QED BY <2>2 DEF OnlyDst
  <1>3. SessionEnd(u, src) = v
    <2> HIDE DEF u, v
    <2>1. GroupedIn(u) BY <1>1, <1>2 DEF GroupedIn
    <2>2. /\ u \in XrsrType /\ u.session[Group(src)].src = src
          /\ u.dst[src].handler /\ u.dst[src].phase = "idle"
      BY <1>1, <1>2
    <2>3. SessionEnd(u, src) = Released(u, src)
      BY <2>1, <2>2, SessionEndIs
    <2> QED BY <2>3 DEF v
  <1>4. /\ v \in XrsrType
        /\ v.dst = u.dst /\ v.audio = u.audio
        /\ \A h \in Groups \ {g} : v.session[h] = u.session[h]
        /\ v.session[g].src = None
        /\ v.session[g].pipe = u.session[g].pipe
        /\ v.session[g].first_stream_req = u.session[g].first_stream_req
    <2> HIDE DEF u
    <2> QED BY <1>2, ReleasedEffect
  <1>5. y = WithSource(v, src, None)
    <2>1. u = [x EXCEPT !.dst[src].phase = "idle"] BY DEF WithPhase
    <2> HIDE DEF u, v
    <2> QED BY <1>1, <1>3, <2>1 DEF Disconnected, WithSource
  <1>6. /\ y \in XrsrType
        /\ y.session = v.session /\ y.audio = v.audio
        /\ \A t \in Sources \ {src} : y.dst[t] = v.dst[t]
        /\ y.dst[src].handler = v.dst[src].handler
        /\ y.dst[src].uuid = v.dst[src].uuid
        /\ y.dst[src].phase = v.dst[src].phase
        /\ y.dst[src].audio_src = None
    <2> HIDE DEF v, y
    <2>1. None \in Sources \cup {None, "RCU_PTT"} OBVIOUS
    <2>2. OnlyDst(v, y, src, v.dst[src].phase, None)
      BY <1>4, <1>5, <2>1, WithSourceEffect
    <2> QED BY <2>2 DEF OnlyDst
  <1> HIDE DEF u, v, y
  <1>7. ExclusiveIn(y)
    <2> SUFFICES ASSUME NEW s \in Sources, y.dst[s].phase # "idle"
                 PROVE  /\ y.session[Group(s)].src = s
                        /\ y.dst[s].handler /\ y.dst[s].audio_src = s
      BY DEF ExclusiveIn
    <2>1. s # src /\ y.dst[s] = x.dst[s]
      BY <1>2, <1>4, <1>6
    <2>2. x.session[Group(s)].src = s /\ x.dst[s].handler /\ x.dst[s].audio_src = s
      BY <2>1 DEF Well, ExclusiveIn
    <2>3. Group(s) # g
      BY <1>1, <2>1, <2>2
    <2> QED BY <2>1, <2>2, <2>3, <1>2, <1>4, <1>6, GroupIn
  <1>8. Well(y)
    BY <1>1, <1>2, <1>4, <1>6, <1>7 DEF Well, GroupedIn, IdleSourceIn
  <1> QED BY <1>2, <1>4, <1>6, <1>8 DEF y, g

\* What remains of a session that was connected.
LEMMA DisconnectedStops ==
    ASSUME NEW x, Well(x), NEW src \in Sources, x.dst[src].phase = "draining"
    PROVE  Stops(x, Disconnected(x, src))
  <1> DEFINE y == Disconnected(x, src)
             g == Group(src)
  <1>1. /\ Well(y)
        /\ y.audio = x.audio
        /\ \A t \in Sources \ {src} : y.dst[t] = x.dst[t]
        /\ y.dst[src].handler = x.dst[src].handler
        /\ y.dst[src].uuid = x.dst[src].uuid
        /\ y.dst[src].phase = "idle"
        /\ \A h \in Groups \ {g} : y.session[h] = x.session[h]
        /\ y.session[g].src = None
        /\ y.session[g].pipe = x.session[g].pipe
        /\ y.session[g].first_stream_req = x.session[g].first_stream_req
    BY DisconnectedEffect
  <1>2. x.session[g].src = src /\ src # None /\ g \in Groups
    BY AudioAssumption, GroupIn DEF Well, ExclusiveIn
  <1> HIDE DEF y
  <1>3. ASSUME NEW h \in Groups \ {g} PROVE Same(x, y, h)
    <2>1. x.session[h].src # None => x.session[h].src \in Sources \ {src}
      BY <1>2, XrsrFields DEF Well, GroupedIn, g
    <2> QED BY <1>1, <2>1 DEF Same
  <1>4. Over(x, y, g)
    BY <1>1, <1>2 DEF Over
  <1>5. Quieter(x.audio, y.audio)
    BY <1>1, QuieterSelf DEF Well, Quieter, Sound, XrsrType
  <1>6. y.dst[src].phase \in {x.dst[src].phase, "idle"}
    BY <1>1
  <1> HIDE DEF g
  <1> QED BY <1>1, <1>3, <1>4, <1>5, <1>6 DEF Stops, y

\* A session whose stream ends with it leaves no pipe behind.
LEMMA AbortedStops ==
    ASSUME NEW x, Well(x), NEW src \in Sources,
           x.dst[src].phase \in {"opening", "streaming"},
           NEW y \in Aborted(x, src)
    PROVE  Stops(x, y) /\ y.dst[src].phase = "idle"
  <1> DEFINE g == Group(src)
  <1>0. PICK z \in StreamEnd(x, src) : y = Disconnected(z, src)
    BY DEF Aborted
  <1>1. /\ Well(z)
        /\ z.dst = x.dst
        /\ Quieter(x.audio, z.audio)
        /\ z.audio.active[g] => z.audio.refused[g]
        /\ \A h \in Groups \ {g} : z.session[h] = x.session[h]
        /\ z.session[g].src = x.session[g].src
        /\ ~z.session[g].pipe /\ z.session[g].first_stream_req
    BY <1>0, StreamEndEffect
  <1>2. /\ Well(y)
        /\ y.audio = z.audio
        /\ \A t \in Sources \ {src} : y.dst[t] = z.dst[t]
        /\ y.dst[src].handler = z.dst[src].handler
        /\ y.dst[src].uuid = z.dst[src].uuid
        /\ y.dst[src].phase = "idle"
        /\ \A h \in Groups \ {g} : y.session[h] = z.session[h]
        /\ y.session[g].src = None
        /\ y.session[g].pipe = z.session[g].pipe
        /\ y.session[g].first_stream_req = z.session[g].first_stream_req
    <2> DEFINE d == Disconnected(z, src)
    <2>1. z.dst[src].phase # "idle"
      BY <1>1
    <2>2. /\ Well(d)
          /\ d.audio = z.audio
          /\ \A t \in Sources \ {src} : d.dst[t] = z.dst[t]
          /\ d.dst[src].handler = z.dst[src].handler
          /\ d.dst[src].uuid = z.dst[src].uuid
          /\ d.dst[src].phase = "idle"
          /\ \A h \in Groups \ {g} : d.session[h] = z.session[h]
          /\ d.session[g].src = None
          /\ d.session[g].pipe = z.session[g].pipe
          /\ d.session[g].first_stream_req = z.session[g].first_stream_req
      BY <1>1, <2>1, DisconnectedEffect
    <2>3. y = d
      BY <1>0
    <2> HIDE DEF d, g
    <2> QED BY <2>2, <2>3
  <1>3. x.session[g].src = src /\ src # None /\ g \in Groups
    BY AudioAssumption, GroupIn DEF Well, ExclusiveIn
  <1>4. ASSUME NEW h \in Groups \ {g} PROVE Same(x, y, h)
    <2>1. x.session[h].src # None => x.session[h].src \in Sources \ {src}
      BY <1>3, XrsrFields DEF Well, GroupedIn, g
    <2> QED BY <1>1, <1>2, <2>1 DEF Same
  <1>5. Over(x, y, g)
    BY <1>1, <1>2, <1>3 DEF Over
  <1>6. y.dst[src].phase \in {x.dst[src].phase, "idle"}
    BY <1>2
  <1> HIDE DEF g
  <1> QED BY <1>1, <1>2, <1>4, <1>5, <1>6 DEF Stops

\* xrsr_msg_session_terminate leaves nothing of that source connected.
LEMMA TerminatedStops ==
    ASSUME NEW x, Well(x), NEW src \in Sources, NEW y \in Terminated(x, src)
    PROVE  Stops(x, y) /\ y.dst[src].phase = "idle"
  <1>1. x.dst[src].phase \in {"idle", "opening", "streaming", "draining"}
    BY XrsrFields DEF Well, Phases
  <1>2. Active(x, src) <=> x.session[Group(src)].src = src
    BY ActiveIs DEF Well
  <1>3. CASE x.dst[src].phase = "idle"
    <2>1. y = x
      BY <1>3 DEF Terminated
    <2> QED BY <1>3, <2>1, StopsSelf
  <1>4. CASE x.dst[src].phase = "draining"
    <2>1. y = Disconnected(x, src)
      BY <1>2, <1>4 DEF Terminated, Well, ExclusiveIn
    <2> QED BY <1>4, <2>1, DisconnectedStops, DisconnectedEffect
  <1>5. CASE x.dst[src].phase \in {"opening", "streaming"}
    <2>1. y \in Aborted(x, src)
      BY <1>2, <1>5 DEF Terminated, Well, ExclusiveIn
    <2> QED BY <2>1, <1>5, AbortedStops
  <1> QED BY <1>1, <1>3, <1>4, <1>5

\* None of the sources of a list is connected when all are terminated.
LEMMA AllTerminatedStops ==
    ASSUME NEW x, Well(x), NEW srcs, None \notin srcs,
           NEW y \in AllTerminated(x, srcs)
    PROVE  /\ Stops(x, y)
           /\ \A s \in Sources \cap srcs : y.dst[s].phase = "idle"
  <1> DEFINE stop(z, g) == IF z.session[g].src \in srcs
                           THEN Terminated(z, z.session[g].src) ELSE {z}
  <1>1. ASSUME NEW z, Well(z), NEW g \in Groups, NEW w \in stop(z, g)
        PROVE  /\ Stops(z, w)
               /\ \A s \in Sources \cap srcs :
                    Group(s) = g => w.dst[s].phase = "idle"
    <2>1. ASSUME NEW s \in Sources \cap srcs, Group(s) = g, z.session[g].src # s
          PROVE  z.dst[s].phase = "idle"
      BY <1>1, <2>1 DEF Well, ExclusiveIn
    <2>2. CASE z.session[g].src \in srcs
      <3>0. z.session[g].src \in Sources /\ w \in Terminated(z, z.session[g].src)
        BY <1>1, <2>2, XrsrFields DEF Well
      <3>1. Stops(z, w) /\ w.dst[z.session[g].src].phase = "idle"
        BY <1>1, <3>0, TerminatedStops
      <3> HIDE DEF stop
      <3> QED BY <2>1, <3>1 DEF Stops
    <2>3. CASE z.session[g].src \notin srcs
      <3>1. w = z
        BY <2>3
      <3> QED BY <1>1, <2>1, <2>3, <3>1, StopsSelf
    <2> QED BY <2>2, <2>3
  <1>2. PICK u \in stop(x, "DEFAULT") : y \in stop(u, "MIC_TAP")
    BY DEF AllTerminated
  <1> HIDE DEF stop
  <1>3. Stops(x, u) /\ Well(u)
    BY <1>1, <1>2 DEF Stops, Groups
  <1>4. Stops(u, y)
    BY <1>1, <1>2, <1>3 DEF Groups
  <1>5. Stops(x, y)
    BY <1>3, <1>4, StopsTrans
  <1>6. ASSUME NEW s \in Sources \cap srcs PROVE y.dst[s].phase = "idle"
    <2>1. CASE Group(s) = "DEFAULT"
      <3>1. u.dst[s].phase = "idle"
        BY <1>1, <1>2, <2>1 DEF Groups
      <3> QED BY <3>1, <1>4 DEF Stops
    <2>2. CASE Group(s) = "MIC_TAP"
      BY <1>1, <1>2, <1>3, <2>2 DEF Groups
    <2> QED BY <2>1, <2>2, GroupIn, TwoGroups
  <1> QED BY <1>5, <1>6

\* Only the audio object changes.
LEMMA WithAudioEffect ==
    ASSUME NEW x \in XrsrType, NEW a \in AudioType
    PROVE  /\ WithAudio(x, a) \in XrsrType
           /\ WithAudio(x, a).session = x.session
           /\ WithAudio(x, a).dst = x.dst
           /\ WithAudio(x, a).audio = a
  BY DEF WithAudio, XrsrType

\* Whatever the glue does to the audio object, but for beginning a stream,
\* keeps every session.
LEMMA WithAudioStops ==
    ASSUME NEW x, Well(x), NEW a, Quieter(x.audio, a)
    PROVE  Stops(x, WithAudio(x, a))
  <1> DEFINE y == WithAudio(x, a)
  <1>1. /\ y \in XrsrType /\ y.session = x.session
        /\ y.dst = x.dst /\ y.audio = a
    BY WithAudioEffect DEF Well, Quieter, Sound
  <1> HIDE DEF y
  <1>2. Well(y)
    BY <1>1 DEF Well, ExclusiveIn, GroupedIn, IdleSourceIn, Quieter, Sound
  <1> QED BY <1>1, <1>2 DEF Stops, Same, y

\* The audio object of a good g_xrsr is sound.
LEMMA SoundAudio == ASSUME NEW x, Well(x) PROVE Sound(x.audio)
  BY XrsrFields DEF Well, Sound

-----------------------------------------------------------------------------
(* Starting the stream and the connection.                                 *)

\* y is x with the stream of src begun, unless it was already.
BegunIn(x, y, src) ==
    LET g == Group(src)
    IN  /\ \A h \in Groups \ {g} :
             /\ y.session[h] = x.session[h]
             /\ y.audio.active[h] = x.audio.active[h]
             /\ y.audio.streaming[h] = x.audio.streaming[h]
             /\ y.audio.halted[h] = x.audio.halted[h]
             /\ y.audio.refused[h] = x.audio.refused[h]
        /\ y.session[g].src = x.session[g].src
        /\ x.session[g].first_stream_req =>
             /\ y.session[g].pipe /\ ~y.session[g].first_stream_req
             /\ y.audio.streaming[g] = src
             /\ ~y.audio.halted[g] /\ ~y.audio.refused[g]
        /\ ~x.session[g].first_stream_req =>
             /\ y.session[g] = x.session[g]
             /\ y.audio = x.audio

\* xrsr_speech_stream_begin opens the pipe of its own group, once: the other
\* group's stream goes on.
LEMMA StreamBegunEffect ==
    ASSUME NEW x, Well(x), NEW src \in Sources,
           x.session[Group(src)].first_stream_req =>
             x.audio.xraudio_state = "OPENED"
    PROVE  LET y == StreamBegun(x, src)
           IN  Well(y) /\ y.dst = x.dst /\ BegunIn(x, y, src)
  <1> DEFINE g == Group(src)
             y == StreamBegun(x, src)
             a == StreamStart(x.audio, src)
             r == [x.session[g] EXCEPT !.first_stream_req = FALSE,
                                       !.pipe = TRUE]
             ss == [x.session EXCEPT ![g] = r]
  <1>1. x \in XrsrType /\ x.session[g] \in SessionType /\ g \in Groups
    BY GroupIn, XrsrFields DEF Well
  <1>2. CASE ~x.session[g].first_stream_req
    BY <1>2, <1>1, XrsrFields DEF StreamBegun, BegunIn
  <1>3. CASE x.session[g].first_stream_req
    <2>1. /\ Sound(a) /\ a.streaming[g] = src
          /\ ~a.halted[g] /\ ~a.refused[g]
          /\ \A h \in Groups \ {g} : /\ a.active[h] = x.audio.active[h]
                                     /\ a.streaming[h] = x.audio.streaming[h]
                                     /\ a.halted[h] = x.audio.halted[h]
                                     /\ a.refused[h] = x.audio.refused[h]
      BY <1>1, <1>3, StreamStartSound, XrsrFields DEF Well, Sound
    <2>2. /\ r \in SessionType /\ r.src = x.session[g].src
          /\ r.pipe /\ ~r.first_stream_req
      BY <1>1 DEF SessionType
    <2>3. y = Made(x, ss, x.dst, a)
      <3> HIDE DEF a
      <3>1. a = StreamStart(x.audio, src) BY DEF a
      <3> QED BY <3>1, <1>1, <1>3, XrsrFields
              DEF StreamBegun, XrsrType, SessionType, Made
    <2> HIDE DEF a, y, g, r
    <2>4. ss \in [Groups -> SessionType] /\ a \in AudioType
      BY <1>1, <2>1, <2>2, XrsrFields DEF Sound
    <2>5. y \in XrsrType /\ y.session = ss /\ y.dst = x.dst /\ y.audio = a
      <3> HIDE DEF ss
      <3> QED BY <1>1, <2>3, <2>4, MadeIs, XrsrFields
    <2>6. /\ ss[g] = r
          /\ \A h \in Groups \ {g} : ss[h] = x.session[h]
          /\ \A h \in Groups : ss[h].src = x.session[h].src
      BY <1>1, <2>2, XrsrFields
    <2> HIDE DEF ss
    <2>7. Well(y)
      BY <2>1, <2>5, <2>6, GroupIn
         DEF Well, ExclusiveIn, GroupedIn, IdleSourceIn, Sound
    <2>8. BegunIn(x, y, src)
      BY <1>1, <1>3, <2>1, <2>2, <2>5, <2>6 DEF BegunIn, g
    <2> QED BY <2>5, <2>7, <2>8 DEF y
  <1> QED BY <1>2, <1>3

\* A source that has the session connects.
LEMMA ConnectingEffect ==
    ASSUME NEW x, Well(x), NEW src \in Sources,
           x.session[Group(src)].src = src, x.dst[src].handler
    PROVE  LET y == Connecting(x, src)
           IN  Well(y) /\ OnlyDst(x, y, src, "opening", src)
  <1> DEFINE z == WithPhase(x, src, "opening")
             y == Connecting(x, src)
  <1>0. "opening" \in Phases /\ src \in Sources \cup {None, "RCU_PTT"}
    BY DEF Phases
  <1>1. OnlyDst(x, z, src, "opening", x.dst[src].audio_src)
    BY <1>0, WithPhaseEffect DEF Well
  <1>2. y = WithSource(z, src, src)
    BY DEF Connecting, WithSource, WithPhase
  <1> HIDE DEF z, y
  <1>3. OnlyDst(z, y, src, z.dst[src].phase, src)
    <2>1. z \in XrsrType BY <1>1 DEF OnlyDst
    <2> QED BY <1>0, <1>2, <2>1, WithSourceEffect
  <1>4. OnlyDst(x, y, src, "opening", src)
    BY <1>1, <1>3 DEF OnlyDst
  <1>5. /\ y.session = x.session /\ y.audio = x.audio /\ y \in XrsrType
        /\ \A t \in Sources : t # src => y.dst[t] = x.dst[t]
        /\ y.dst[src].handler /\ y.dst[src].phase # "idle"
        /\ y.dst[src].audio_src = src
    BY <1>4 DEF OnlyDst
  <1>6. ExclusiveIn(y) /\ GroupedIn(y) /\ IdleSourceIn(y)
    BY <1>5 DEF Well, ExclusiveIn, GroupedIn, IdleSourceIn
  <1>7. Well(y)
    BY <1>5, <1>6 DEF Well
  <1> QED BY <1>4, <1>7 DEF y

\* The stream of an idle destination does not begin: an SDT destination that
\* still works for source 0 releases that source's idle session.
Frees(x, y, src) ==
    /\ Protocol[src] = "SDT" /\ "RCU_PTT" \in Sources
    /\ x.session["DEFAULT"].src = "RCU_PTT"
    /\ x.dst["RCU_PTT"].phase = "idle"
    /\ y.dst = x.dst /\ y.audio = x.audio
    /\ y.session["MIC_TAP"] = x.session["MIC_TAP"]
    /\ y.session["DEFAULT"].src = None
    /\ y.session["DEFAULT"].pipe = x.session["DEFAULT"].pipe
    /\ y.session["DEFAULT"].first_stream_req =
         x.session["DEFAULT"].first_stream_req

\* A stream that does not begin changes nothing, or releases source 0.
LEMMA StreamNotBegunEffect ==
    ASSUME NEW x, Well(x), NEW src \in Sources, x.dst[src].phase = "idle"
    PROVE  LET y == StreamNotBegun(x, src)
           IN  Well(y) /\ (y = x \/ Frees(x, y, src))
  <1> DEFINE y == StreamNotBegun(x, src)
             s == x.dst[src].audio_src
             z == SessionEnd(x, s)
  <1>1. y \in {x, z}
    BY DEF StreamNotBegun
  <1>2. CASE z = x
    BY <1>1, <1>2
  <1>3. CASE z # x
    <2>1. /\ s \in Sources /\ x.session[Group(s)].src = s
          /\ x.dst[s].phase = "idle" /\ z = Released(x, s)
          /\ x \in XrsrType
      BY <1>3, SessionEndIs DEF Well
    <2>2. s = "RCU_PTT" /\ Protocol[src] = "SDT" /\ Group(s) = "DEFAULT"
      BY <2>1, AudioAssumption DEF Well, IdleSourceIn, Group
    <2> HIDE DEF z, s
    <2>3. /\ z \in XrsrType
          /\ z.dst = x.dst /\ z.audio = x.audio
          /\ \A h \in Groups \ {"DEFAULT"} : z.session[h] = x.session[h]
          /\ z.session["DEFAULT"].src = None
          /\ z.session["DEFAULT"].pipe = x.session["DEFAULT"].pipe
          /\ z.session["DEFAULT"].first_stream_req =
               x.session["DEFAULT"].first_stream_req
      BY <2>1, <2>2, ReleasedEffect
    <2>4. Frees(x, z, src)
      BY <2>1, <2>2, <2>3 DEF Frees, Groups
    <2>5. ASSUME NEW t \in Sources, x.dst[t].phase # "idle"
          PROVE  z.session[Group(t)].src = t
      BY <2>1, <2>2, <2>3, <2>5, GroupIn DEF Well, ExclusiveIn
    <2>6. Well(z)
      BY <2>3, <2>5 DEF Well, ExclusiveIn, GroupedIn, IdleSourceIn
    <2> QED BY <1>1, <2>4, <2>6 DEF z
  <1> QED BY <1>2, <1>3

\* What xrsr_msg_session_config_in may make of an idle session.
Begins(x, y, src) ==
    /\ x.session[Group(src)].first_stream_req =>
         x.audio.xraudio_state = "OPENED"
    /\ BegunIn(x, y, src)
    /\ \A t \in Sources \ {src} : y.dst[t] = x.dst[t]
    /\ y.dst[src].handler = x.dst[src].handler
    /\ y.dst[src].uuid = x.dst[src].uuid
    /\ \/ y.dst[src].phase = "opening"
       \/ y.dst[src].phase = "idle" /\ Protocol[src] = "HTTP"

\* All that can come of starting an idle session's stream and connection.
LEMMA StartsEffect ==
    ASSUME NEW x, Well(x), NEW src \in Sources,
           x.session[Group(src)].src = src, x.dst[src].handler,
           x.dst[src].phase = "idle", NEW y \in Starts(x, src)
    PROVE  Well(y) /\ (y = x \/ Frees(x, y, src) \/ Begins(x, y, src))
  <1> DEFINE z == StreamBegun(x, src)
  <1>1. CASE y = StreamNotBegun(x, src)
    BY <1>1, StreamNotBegunEffect
  <1>2. CASE ~(x.session[Group(src)].first_stream_req
               /\ x.audio.xraudio_state # "OPENED")
    <2>1. /\ Well(z) /\ z.dst = x.dst /\ BegunIn(x, z, src)
      BY <1>2, StreamBegunEffect
    <2>2. z.session[Group(src)].src = src
      BY <2>1 DEF BegunIn
    <2>5. Starts(x, src) =
            {StreamNotBegun(x, src)} \cup ({Connecting(z, src)}
              \cup (IF Protocol[src] = "HTTP" THEN {z} ELSE {}))
      BY <1>2, Zenon DEF Starts
    <2> HIDE DEF z
    <2>6. \/ y = StreamNotBegun(x, src) \/ y = Connecting(z, src)
          \/ y = z /\ Protocol[src] = "HTTP"
      BY <2>5
    <2>3. CASE y = Connecting(z, src)
      <3>1. Well(y) /\ OnlyDst(z, y, src, "opening", src)
        BY <2>1, <2>2, <2>3, ConnectingEffect
      <3>2. Begins(x, y, src)
        BY <1>2, <2>1, <3>1 DEF Begins, BegunIn, OnlyDst
      <3> QED BY <3>1, <3>2
    <2>4. CASE y = z /\ Protocol[src] = "HTTP"
      BY <1>2, <2>1, <2>4 DEF Begins
    <2> QED BY <1>1, <2>3, <2>4, <2>6
  <1>3. CASE x.session[Group(src)].first_stream_req
             /\ x.audio.xraudio_state # "OPENED"
    <2>1. y = StreamNotBegun(x, src)
      BY <1>3 DEF Starts
    <2> QED BY <1>1, <2>1
  <1> QED BY <1>2, <1>3

-----------------------------------------------------------------------------
(* The queue.                                                              *)

IsConfig(m) == m.type = "SESSION_CONFIG_IN"

\* No two configurations in the queue q carry the same uuid.
Once(q) ==
    \A i, j \in DOMAIN q :
      IsConfig(q[i]) /\ IsConfig(q[j]) /\ q[i].uuid = q[j].uuid => i = j

QueueOK(q) == q \in Seq(Messages) /\ Len(q) <= MsgqMax

\* What the handlers take from a message of each type.
LEMMA MessageFields ==
    ASSUME NEW m \in Messages
    PROVE  /\ m.type \in {"SESSION_BEGIN", "SESSION_TERMINATE", "STREAM_ERROR",
                          "KEYWORD_DETECTED", "KEYWORD_DETECT_ERROR"}
              => m.src \in Sources
           /\ IsConfig(m) => m.src \in Sources /\ m.uuid \in Uuids
           /\ m.type = "ROUTE_UPDATE" => m.table \in RouteTables
           /\ m.type = "POWER_MODE_UPDATE" => m.mode \in PowerModes
  BY DEF Messages, IsConfig

\* What is left of the queue when its head is taken: the head's uuid is not in
\* the rest.
LEMMA TailQueue ==
    ASSUME NEW q, QueueOK(q), q # << >>, Once(q)
    PROVE  /\ QueueOK(Tail(q)) /\ Once(Tail(q))
           /\ Len(Tail(q)) < MsgqMax
           /\ Head(q) \in Messages
           /\ Answered(Tail(q)) \subseteq Answered(q)
           /\ IsConfig(Head(q)) =>
                /\ Head(q).uuid \in Answered(q)
                /\ Head(q).uuid \notin Answered(Tail(q))
  <1>1. /\ q \in Seq(Messages) /\ Len(q) \in Nat /\ Len(q) > 0
        /\ Tail(q) \in Seq(Messages) /\ Len(Tail(q)) = Len(q) - 1
        /\ \A i \in 1..Len(Tail(q)) : Tail(q)[i] = q[i + 1] /\ i + 1 \in 1..Len(q)
        /\ DOMAIN q = 1..Len(q) /\ DOMAIN Tail(q) = 1..Len(Tail(q))
        /\ Head(q) = q[1] /\ 1 \in DOMAIN q /\ Head(q) \in Messages
    BY DEF QueueOK
  <1>2. QueueOK(Tail(q)) /\ Len(Tail(q)) < MsgqMax
    BY <1>1, RouterAssumption DEF QueueOK
  <1>3. Once(Tail(q))
    <2> SUFFICES ASSUME NEW i \in 1..Len(Tail(q)), NEW j \in 1..Len(Tail(q)),
                        IsConfig(q[i + 1]), IsConfig(q[j + 1]),
                        q[i + 1].uuid = q[j + 1].uuid
                 PROVE  i = j
      BY <1>1 DEF Once
    <2>1. i + 1 \in DOMAIN q /\ j + 1 \in DOMAIN q
      BY <1>1
    <2>2. i + 1 = j + 1
      BY <2>1 DEF Once
    <2> QED BY <2>2, <1>1
  <1>4. ASSUME NEW u \in Answered(Tail(q))
        PROVE  \E i \in DOMAIN q : i # 1 /\ IsConfig(q[i]) /\ u = q[i].uuid
    <2>1. PICK i \in DOMAIN Tail(q) :
            IsConfig(Tail(q)[i]) /\ u = Tail(q)[i].uuid
      BY DEF Answered, IsConfig
    <2>2. i + 1 \in DOMAIN q /\ i + 1 # 1 /\ q[i + 1] = Tail(q)[i]
      BY <1>1, <2>1
    <2> QED BY <2>1, <2>2
  <1>5. Answered(Tail(q)) \subseteq Answered(q)
    BY <1>4 DEF Answered, IsConfig
  <1>6. ASSUME IsConfig(Head(q))
        PROVE  /\ Head(q).uuid \in Answered(q)
               /\ Head(q).uuid \notin Answered(Tail(q))
    <2>1. Head(q).uuid \in Answered(q)
      BY <1>1, <1>6 DEF Answered, IsConfig
    <2>2. ASSUME NEW i \in DOMAIN q, i # 1, IsConfig(q[i])
          PROVE  Head(q).uuid # q[i].uuid
      BY <1>1, <1>6, <2>2 DEF Once
    <2> QED BY <1>4, <2>1, <2>2
  <1> QED BY <1>1, <1>2, <1>3, <1>5, <1>6

\* What a new message adds to the queue.
LEMMA AppendQueue ==
    ASSUME NEW q, QueueOK(q), Len(q) < MsgqMax, Once(q), NEW m \in Messages,
           IsConfig(m) => m.uuid \notin Answered(q)
    PROVE  /\ QueueOK(Append(q, m)) /\ Once(Append(q, m))
           /\ Answered(Append(q, m)) \subseteq
                Answered(q) \cup (IF IsConfig(m) THEN {m.uuid} ELSE {})
  <1> DEFINE p == Append(q, m)
  <1>1. /\ q \in Seq(Messages) /\ Len(q) \in Nat
        /\ p \in Seq(Messages) /\ Len(p) = Len(q) + 1
        /\ DOMAIN q = 1..Len(q) /\ DOMAIN p = 1..Len(p)
        /\ \A i \in 1..Len(q) : p[i] = q[i]
        /\ p[Len(p)] = m
    BY DEF QueueOK
  <1> HIDE DEF p
  <1>2. QueueOK(p)
    BY <1>1, RouterAssumption DEF QueueOK
  <1>3. \A i \in DOMAIN p : \/ i \in DOMAIN q /\ p[i] = q[i]
                            \/ i = Len(p) /\ p[i] = m
    <2> SUFFICES ASSUME NEW i \in DOMAIN p
                 PROVE  \/ i \in DOMAIN q /\ p[i] = q[i]
                        \/ i = Len(p) /\ p[i] = m
      OBVIOUS
    <2>1. i \in 1..Len(q) \/ i = Len(p)
      BY <1>1
    <2>2. CASE i \in 1..Len(q)
      <3>1. p[i] = q[i] BY <1>1, <2>2
      <3>2. i \in DOMAIN q BY <1>1, <2>2
      <3> QED BY <3>1, <3>2
    <2>3. CASE i = Len(p)
      BY <1>1, <2>3
    <2> QED BY <2>1, <2>2, <2>3
  <1>4. \A i \in DOMAIN q : IsConfig(q[i]) => q[i].uuid \in Answered(q)
    BY DEF Answered, IsConfig
  <1>5. Once(p)
    <2> SUFFICES ASSUME NEW i \in DOMAIN p, NEW j \in DOMAIN p,
                        IsConfig(p[i]), IsConfig(p[j]), p[i].uuid = p[j].uuid
                 PROVE  i = j
      BY DEF Once
    <2>1. CASE i \in DOMAIN q /\ p[i] = q[i] /\ j \in DOMAIN q /\ p[j] = q[j]
      BY <2>1 DEF Once
    <2>2. CASE i = Len(p) /\ j = Len(p)
      BY <2>2
    <2>3. CASE i \in DOMAIN q /\ p[i] = q[i] /\ p[j] = m
      BY <2>3, <1>4
    <2>4. CASE p[i] = m /\ j \in DOMAIN q /\ p[j] = q[j]
      BY <2>4, <1>4
    <2> QED BY <1>3, <2>1, <2>2, <2>3, <2>4
  <1>6. Answered(p) \subseteq
          Answered(q) \cup (IF IsConfig(m) THEN {m.uuid} ELSE {})
    <2> SUFFICES ASSUME NEW i \in DOMAIN p, IsConfig(p[i])
                 PROVE  \/ p[i].uuid \in Answered(q)
                        \/ IsConfig(m) /\ p[i].uuid = m.uuid
      BY DEF Answered, IsConfig
    <2> QED BY <1>3, <1>4
  <1> QED BY <1>2, <1>5, <1>6 DEF p

\* The same, for a queue that may be full.
LEMMA PushedQueue ==
    ASSUME NEW q, QueueOK(q), Once(q), NEW m \in Messages,
           IsConfig(m) => m.uuid \notin Answered(q)
    PROVE  /\ QueueOK(Pushed(q, m)) /\ Once(Pushed(q, m))
           /\ Answered(Pushed(q, m)) \subseteq
                Answered(q) \cup (IF IsConfig(m) THEN {m.uuid} ELSE {})
  BY AppendQueue DEF Pushed

-----------------------------------------------------------------------------
(* The invariant, part by part.                                            *)

\* The uuids of g_xrsr, x, of the application, w, and of the queue, q.
UuidAt(x, w, q, s) ==
    /\ Protocol[s] = "SDT" => w[s] = None
    /\ w[s] # None => x.dst[s].uuid \in {w[s], None}
    /\ w[s] \notin Answered(q)
    /\ x.dst[s].phase # "idle" =>
         w[s] = None /\ x.dst[s].uuid \notin Answered(q)
    /\ \A t \in Sources :
         w[s] # None /\ w[s] \in {w[t], x.dst[t].uuid} => s = t

UuidsIn(x, w, q) == \A s \in Sources : UuidAt(x, w, q, s)

\* The invariant, regrouped: g_xrsr, the queue, and the uuids in between.
LEMMA IInvIs ==
    IInv <=> /\ Well(xrsr)
             /\ QueueOK(msgq) /\ Once(msgq)
             /\ UuidsIn(xrsr, awaited, msgq)
             /\ awaited \in [Sources -> Uuids \cup {None}]
             /\ caller \in Sources \cup {None, Blocked}
  BY DEF IInv, TypeOK, Exclusive, DeviceTruth, Grouped, IdleSource, UuidsOnce,
         Well, ExclusiveIn, GroupedIn, IdleSourceIn, QueueOK, Once, IsConfig,
         UuidsIn, UuidAt

\* Steps after which no session is connected that was not, no uuid is new and
\* the queue has no new configuration.
Fewer(q, r) == QueueOK(r) /\ Once(r) /\ Answered(r) \subseteq Answered(q)

\* A uuid keeps its place while sessions end, configurations leave the queue
\* and none is new.
LEMMA UuidsKept ==
    ASSUME NEW x, NEW w, NEW q, QueueOK(q), UuidsIn(x, w, q),
           NEW y, NEW r, Answered(r) \subseteq Answered(q),
           \A s \in Sources :
             /\ y.dst[s].uuid \in {x.dst[s].uuid, None}
             /\ y.dst[s].phase # "idle" => x.dst[s].phase # "idle"
    PROVE  UuidsIn(y, w, r)
  <1>1. None \notin Answered(r)
    <2>1. \A i \in DOMAIN q : q[i] \in Messages
      BY DEF QueueOK
    <2> QED BY <2>1, MessageFields, RouterAssumption DEF Answered, IsConfig
  <1> QED BY <1>1 DEF UuidsIn, UuidAt

-----------------------------------------------------------------------------
(* The steps that may only end sessions and streams.                       *)

Calm == /\ Stops(xrsr, xrsr')
        /\ Fewer(msgq, msgq')
        /\ UNCHANGED awaited
        /\ caller' \in Sources \cup {None, Blocked}

\* Taking a message off the queue.
LEMMA PopFewer ==
    ASSUME IInv, NEW type, Pop(type)
    PROVE  /\ Fewer(msgq, msgq')
           /\ Head(msgq) \in Messages /\ Head(msgq).type = type
           /\ type \in {"SESSION_BEGIN", "SESSION_TERMINATE", "STREAM_ERROR",
                        "KEYWORD_DETECTED", "KEYWORD_DETECT_ERROR"}
              => Head(msgq).src \in Sources
           /\ type = "ROUTE_UPDATE" => Head(msgq).table \in RouteTables
           /\ type = "POWER_MODE_UPDATE" => Head(msgq).mode \in PowerModes
  <1>1. /\ msgq # << >> /\ Head(msgq).type = type /\ msgq' = Tail(msgq)
        /\ QueueOK(msgq) /\ Once(msgq)
    BY IInvIs DEF Pop
  <1>2. Fewer(msgq, msgq') /\ Head(msgq) \in Messages
    BY <1>1, TailQueue DEF Fewer
  <1> QED BY <1>1, <1>2, MessageFields

\* Another thread queues a message that is no configuration.
LEMMA PushFewer ==
    ASSUME IInv, NEW m \in Messages, ~IsConfig(m), msgq' = Pushed(msgq, m)
    PROVE  Fewer(msgq, msgq')
  BY PushedQueue, IInvIs DEF Fewer

\* A queue that stays has nothing new.
LEMMA SameFewer ==
    ASSUME IInv
    PROVE  Fewer(msgq, msgq)
  BY IInvIs DEF Fewer

\* A keyword during its own session only restarts the detector.
LEMMA IgnoreBeginCalm ==
    ASSUME IInv, SessionBegin, IgnoreBegin(Head(msgq).src)
    PROVE  Calm
  <1>1. Fewer(msgq, msgq') /\ Well(xrsr)
    BY PopFewer, IInvIs DEF SessionBegin
  <1>2. PICK audio : /\ audio = xrsr.audio \/ audio \in DetectStart(xrsr.audio)
                     /\ xrsr' = WithAudio(xrsr, audio)
    BY DEF IgnoreBegin
  <1>3. Quieter(xrsr.audio, audio)
    BY <1>1, <1>2, SoundAudio, DetectStartQuieter, QuieterSelf
  <1>4. Stops(xrsr, xrsr')
    BY <1>1, <1>2, <1>3, WithAudioStops
  <1> QED BY <1>1, <1>4, IInvIs DEF Calm, SessionBegin, IgnoreBegin

\* A session of another source of the group is refused.
LEMMA RefuseBeginCalm ==
    ASSUME IInv, SessionBegin, RefuseBegin(Head(msgq).src)
    PROVE  Calm
  <1>1. Fewer(msgq, msgq') /\ Well(xrsr)
    BY PopFewer, IInvIs DEF SessionBegin
  <1>2. Stops(xrsr, xrsr')
    BY <1>1, StopsSelf DEF RefuseBegin
  <1> QED BY <1>1, <1>2, IInvIs DEF Calm, SessionBegin, RefuseBegin

\* xrsr_msg_session_terminate ends at most the session of its source.
LEMMA SessionTerminateCalm ==
    ASSUME IInv, SessionTerminate
    PROVE  Calm
  <1>1. Fewer(msgq, msgq') /\ Well(xrsr) /\ Head(msgq).src \in Sources
    BY PopFewer, IInvIs DEF SessionTerminate
  <1>2. Stops(xrsr, xrsr')
    BY <1>1, TerminatedStops DEF SessionTerminate
  <1> QED BY <1>1, <1>2 DEF Calm, SessionTerminate

\* XRSR_EVENT_STREAM_ERROR closes the device, ends the session and reopens the
\* device, or asks for it.
LEMMA StreamFailedCalm ==
    ASSUME IInv, StreamFailed
    PROVE  Calm
  <1> DEFINE src == Head(msgq).src
             x == WithAudio(xrsr, DeviceClose(xrsr.audio))
  <1>1. Fewer(msgq, msgq') /\ Well(xrsr) /\ src \in Sources
    BY PopFewer, IInvIs DEF StreamFailed
  <1>2. CASE ~Active(xrsr, src)
    BY <1>1, <1>2, StopsSelf, IInvIs DEF StreamFailed, Calm
  <1>3. CASE Active(xrsr, src)
    <2>1. Stops(xrsr, x) /\ Well(x)
      BY <1>1, SoundAudio, DeviceCloseQuieter, WithAudioStops DEF Stops
    <2>2. PICK ended \in Terminated(x, src) :
            \E audio \in Reopen(ended.audio) : xrsr' = WithAudio(ended, audio)
      BY <1>3 DEF StreamFailed
    <2>3. PICK audio \in Reopen(ended.audio) : xrsr' = WithAudio(ended, audio)
      BY <2>2
    <2> HIDE DEF x
    <2>4. Stops(x, ended) /\ Well(ended)
      BY <1>1, <2>1, <2>2, TerminatedStops DEF Stops
    <2>5. Quieter(ended.audio, audio)
      BY <2>3, <2>4, SoundAudio, ReopenQuieter
    <2>6. Stops(ended, xrsr')
      BY <2>3, <2>4, <2>5, WithAudioStops
    <2>7. Stops(xrsr, xrsr')
      BY <1>1, <2>1, <2>4, <2>6, StopsTrans
    <2> QED BY <1>1, <2>7, IInvIs DEF StreamFailed, Calm
  <1> QED BY <1>2, <1>3

\* A keyword stops the detector, and may queue the begin of a session.
LEMMA KeywordDetectedCalm ==
    ASSUME IInv, KeywordDetected
    PROVE  Calm
  <1> DEFINE m == Head(msgq)
             marked(stopped) == [stopped EXCEPT !.session_rejected = TRUE]
  <1>1. /\ Well(xrsr) /\ Once(msgq) /\ QueueOK(msgq)
        /\ msgq # << >> /\ m.type = "KEYWORD_DETECTED"
    BY IInvIs DEF KeywordDetected
  <1>2. /\ QueueOK(Tail(msgq)) /\ Once(Tail(msgq)) /\ Len(Tail(msgq)) < MsgqMax
        /\ m \in Messages /\ Answered(Tail(msgq)) \subseteq Answered(msgq)
    BY <1>1, TailQueue
  <1>3. m.src \in Sources
    BY <1>1, <1>2, MessageFields
  <1>4. ASSUME NEW stopped \in DetectStop(xrsr.audio)
        PROVE  /\ Quieter(xrsr.audio, stopped)
               /\ \A audio \in DetectStart(marked(stopped)) :
                    Quieter(xrsr.audio, audio)
    <2>1. Quieter(xrsr.audio, stopped)
      BY <1>1, SoundAudio, DetectStopQuieter
    <2>2. Quieter(stopped, marked(stopped))
      BY <2>1, RejectQuieter DEF Quieter
    <2> HIDE DEF marked
    <2>3. \A audio \in DetectStart(marked(stopped)) :
            Quieter(marked(stopped), audio)
      BY <2>2, DetectStartQuieter DEF Quieter
    <2> QED BY <2>1, <2>2, <2>3, QuieterTrans
  <1>5. \/ xrsr' = xrsr
        \/ \E stopped \in DetectStop(xrsr.audio) :
             \/ xrsr' = WithAudio(xrsr, stopped)
             \/ \E audio \in DetectStart(marked(stopped)) :
                  xrsr' = WithAudio(xrsr, audio)
    BY DEF KeywordDetected
  <1>6. Stops(xrsr, xrsr')
    <2> HIDE DEF marked
    <2> QED BY <1>1, <1>4, <1>5, WithAudioStops, StopsSelf
  <1>7. msgq' \in {Tail(msgq), Append(Tail(msgq), Msg("SESSION_BEGIN", m.src))}
    BY DEF KeywordDetected
  <1>8. Fewer(msgq, msgq')
    <2> DEFINE n == Msg("SESSION_BEGIN", m.src)
    <2>1. n \in Messages /\ ~IsConfig(n)
      BY <1>3 DEF Msg, Messages, IsConfig
    <2> HIDE DEF n, m
    <2>2. /\ QueueOK(Append(Tail(msgq), n)) /\ Once(Append(Tail(msgq), n))
          /\ Answered(Append(Tail(msgq), n)) \subseteq Answered(Tail(msgq))
      BY <1>2, <2>1, AppendQueue
    <2> QED BY <1>2, <1>7, <2>2 DEF Fewer, n
  <1> QED BY <1>6, <1>8, IInvIs DEF KeywordDetected, Calm

\* A detector error ends whatever sessions the comparison of the sources'
\* numbers comes to.
LEMMA KeywordDetectErrorCalm ==
    ASSUME IInv, KeywordDetectError
    PROVE  Calm
  <1>1. Fewer(msgq, msgq') /\ Well(xrsr)
    BY PopFewer, IInvIs DEF KeywordDetectError
  <1> DEFINE Left(audio, match) ==
               \E ended \in IF match = None THEN {WithAudio(xrsr, audio)}
                           ELSE Terminated(WithAudio(xrsr, audio), match) :
                 xrsr' \in IF match = "MICROPHONE"
                           THEN AllTerminated(ended, {"MICROPHONE_TAP"})
                           ELSE {ended}
             Outcomes(stopped) ==
               IF xrsr.audio.detecting
               THEN AfterDetectError(stopped, Head(msgq).src)
               ELSE {xrsr.audio}
  <1>2. PICK stopped \in DetectStop(xrsr.audio) :
          \E audio \in Outcomes(stopped), match \in Sources \cup {None} :
            Left(audio, match)
    BY DEF KeywordDetectError
  <1>3. PICK audio \in Outcomes(stopped), match \in Sources \cup {None} :
          Left(audio, match)
    BY <1>2
  <1>4. \/ audio = xrsr.audio
        \/ audio \in AfterDetectError(stopped, Head(msgq).src)
    BY <1>3
  <1>5. Quieter(xrsr.audio, audio)
    <2>1. Quieter(xrsr.audio, stopped)
      BY <1>1, SoundAudio, DetectStopQuieter
    <2>2. audio \in AfterDetectError(stopped, Head(msgq).src) =>
            Quieter(stopped, audio)
      BY <2>1, AfterDetectErrorQuieter DEF Quieter
    <2>3. audio = xrsr.audio => Quieter(xrsr.audio, audio)
      BY <1>1, SoundAudio, QuieterSelf
    <2> QED BY <1>4, <2>1, <2>2, <2>3, QuieterTrans
  <1> DEFINE now == WithAudio(xrsr, audio)
  <1>6. Stops(xrsr, now) /\ Well(now)
    BY <1>1, <1>5, WithAudioStops DEF Stops
  <1>7. PICK ended : /\ \/ ended = now
                        \/ match \in Sources /\ ended \in Terminated(now, match)
                     /\ \/ xrsr' = ended
                        \/ xrsr' \in AllTerminated(ended, {"MICROPHONE_TAP"})
    <2>1. \E ended \in IF match = None THEN {now} ELSE Terminated(now, match) :
            xrsr' \in IF match = "MICROPHONE"
                      THEN AllTerminated(ended, {"MICROPHONE_TAP"})
                      ELSE {ended}
      BY <1>3
    <2> HIDE DEF now
    <2> QED BY <2>1
  <1> HIDE DEF now
  <1>8. Stops(now, ended) /\ Well(ended)
    BY <1>6, <1>7, TerminatedStops, StopsSelf DEF Stops
  <1>9. Stops(ended, xrsr')
    <2>1. None \notin {"MICROPHONE_TAP"} BY AudioAssumption
    <2>2. xrsr' \in AllTerminated(ended, {"MICROPHONE_TAP"}) =>
            Stops(ended, xrsr')
      BY <1>8, <2>1, AllTerminatedStops
    <2> QED BY <1>7, <1>8, <2>2, StopsSelf
  <1>10. Stops(xrsr, xrsr')
    BY <1>1, <1>6, <1>8, <1>9, StopsTrans
  <1> QED BY <1>1, <1>10, IInvIs DEF KeywordDetectError, Calm

\* A destination that is made anew keeps its phase, and no source but 0.
LEMMA ReroutedIs ==
    ASSUME NEW d \in DstType, NEW s \in Sources, NEW kept \in BOOLEAN
    PROVE  LET r == Rerouted(d, s, kept)
           IN  /\ r \in DstType
               /\ r.phase = d.phase /\ r.uuid \in {d.uuid, None}
               /\ \/ r.audio_src = None
                  \/ Protocol[s] = "SDT" /\ r.audio_src = "RCU_PTT"
  BY DEF Rerouted, DstType

\* Connections that are made anew are idle: their sessions were terminated.
LEMMA RouteUpdateCalm ==
    ASSUME IInv, RouteUpdate
    PROVE  Calm
  <1> DEFINE listed == Head(msgq).table.listed
             kept == Head(msgq).table.kept
  <1>1. /\ Fewer(msgq, msgq') /\ Well(xrsr)
        /\ Head(msgq).table \in RouteTables
    BY PopFewer, IInvIs DEF RouteUpdate
  <1>2. listed \in SUBSET Sources
    BY <1>1, RouterAssumption
  <1> DEFINE Routed(x) == [x EXCEPT !.dst =
                             [s \in Sources |->
                                 IF s \in listed
                                 THEN Rerouted(@[s], s, s \in kept)
                                 ELSE @[s]]]
  <1>3. PICK ended \in AllTerminated(xrsr, listed) :
          \E audio \in DeviceUpdate(ended.audio, listed) :
            xrsr' = Routed(WithAudio(ended, audio))
    BY DEF RouteUpdate
  <1>4. PICK audio \in DeviceUpdate(ended.audio, listed) :
          xrsr' = Routed(WithAudio(ended, audio))
    BY <1>3
  <1>5. Stops(xrsr, ended) /\ \A s \in listed : ended.dst[s].phase = "idle"
    <2>1. None \notin listed BY <1>2, AudioAssumption
    <2> QED BY <1>1, <1>2, <2>1, AllTerminatedStops
  <1>6. Well(ended) /\ ended \in XrsrType
    BY <1>5 DEF Stops, Well
  <1> DEFINE updated == WithAudio(ended, audio)
             d == [s \in Sources |-> IF s \in listed
                                     THEN Rerouted(ended.dst[s], s, s \in kept)
                                     ELSE ended.dst[s]]
  <1>7. /\ Stops(ended, updated) /\ Well(updated)
        /\ updated \in XrsrType /\ updated.dst = ended.dst
    <2>1. Quieter(ended.audio, audio)
      BY <1>4, <1>2, <1>6, SoundAudio, DeviceUpdateQuieter
    <2>2. updated.dst = ended.dst
      BY <1>6, <2>1, WithAudioEffect DEF Quieter, Sound
    <2> QED BY <1>6, <2>1, <2>2, WithAudioStops DEF Stops, Well
  <1>8. xrsr' = Made(updated, updated.session, d, updated.audio)
    <2>1. xrsr' = Routed(updated)
      BY <1>4
    <2>2. xrsr' = [updated EXCEPT !.dst = d]
      <3> HIDE DEF updated
      <3> QED BY <2>1, <1>7 DEF XrsrType
    <2> HIDE DEF updated, d
    <2> QED BY <1>7, <2>2 DEF XrsrType, Made
  <1> HIDE DEF updated, listed
  <1>9. /\ d \in [Sources -> DstType]
        /\ \A s \in Sources :
             /\ d[s].phase = ended.dst[s].phase
             /\ d[s].uuid \in {ended.dst[s].uuid, None}
             /\ s \notin listed => d[s] = ended.dst[s]
             /\ s \in listed =>
                  \/ d[s].audio_src = None
                  \/ Protocol[s] = "SDT" /\ d[s].audio_src = "RCU_PTT"
    <2>1. \A s \in Sources : ended.dst[s] \in DstType
      BY <1>6, XrsrFields
    <2>2. ASSUME NEW s \in Sources
          PROVE  LET r == Rerouted(ended.dst[s], s, s \in kept)
                 IN  /\ r \in DstType
                     /\ r.phase = ended.dst[s].phase
                     /\ r.uuid \in {ended.dst[s].uuid, None}
                     /\ \/ r.audio_src = None
                        \/ Protocol[s] = "SDT" /\ r.audio_src = "RCU_PTT"
      <3>1. (s \in kept) \in BOOLEAN OBVIOUS
      <3> DEFINE k == s \in kept
      <3> HIDE DEF k
      <3>2. k \in BOOLEAN BY <3>1 DEF k
      <3>3. LET r == Rerouted(ended.dst[s], s, k)
            IN  /\ r \in DstType
                /\ r.phase = ended.dst[s].phase
                /\ r.uuid \in {ended.dst[s].uuid, None}
                /\ \/ r.audio_src = None
                   \/ Protocol[s] = "SDT" /\ r.audio_src = "RCU_PTT"
        BY <2>1, <3>2, ReroutedIs
      <3> QED BY <3>3 DEF k
    <2> QED BY <2>1, <2>2
  <1> HIDE DEF d
  <1>10. /\ xrsr' \in XrsrType /\ xrsr'.session = updated.session
        /\ xrsr'.dst = d /\ xrsr'.audio = updated.audio
    <2>1. /\ updated.session \in [Groups -> SessionType]
          /\ updated.audio \in AudioType
      BY <1>7, XrsrFields
    <2>2. d \in [Sources -> DstType]
      BY <1>9
    <2> QED BY <1>7, <1>8, <2>1, <2>2, MadeIs
  <1>11. Well(xrsr')
    <2>1. \A s \in Sources : xrsr'.dst[s].phase # "idle" => s \notin listed
      BY <1>5, <1>9, <1>10
    <2>2. ExclusiveIn(xrsr')
      BY <1>9, <1>7, <1>10, <2>1 DEF Well, ExclusiveIn
    <2>3. IdleSourceIn(xrsr')
      BY <1>9, <1>7, <1>10 DEF Well, IdleSourceIn
    <2> QED BY <1>7, <1>10, <2>2, <2>3 DEF Well, GroupedIn
  <1>12. Stops(updated, xrsr')
    <2>1. Quieter(updated.audio, xrsr'.audio)
      BY <1>7, <1>10, SoundAudio, QuieterSelf
    <2>2. \A g \in Groups : Same(updated, xrsr', g)
      BY <1>9, <1>7, <1>10, XrsrFields DEF Same
    <2> QED BY <1>9, <1>7, <1>10, <1>11, <2>1, <2>2 DEF Stops
  <1>13. Stops(xrsr, xrsr')
    BY <1>1, <1>5, <1>6, <1>7, <1>12, StopsTrans
  <1> QED BY <1>1, <1>13, IInvIs DEF RouteUpdate, Calm

\* A change of the power mode ends all sessions, or none.
LEMMA PowerUpdateCalm ==
    ASSUME IInv, PowerUpdate
    PROVE  Calm
  <1> DEFINE mode == Head(msgq).mode
  <1>1. Fewer(msgq, msgq') /\ Well(xrsr) /\ mode \in PowerModes
    BY PopFewer, IInvIs DEF PowerUpdate
  <1>2. PICK ended : /\ ended = xrsr \/ ended \in AllTerminated(xrsr, Sources)
                     /\ \E audio \in PowerModeUpdate(ended.audio, mode) :
                          xrsr' = WithAudio(ended, audio)
    BY DEF PowerUpdate
  <1>3. Stops(xrsr, ended) /\ Well(ended)
    BY <1>1, <1>2, AudioAssumption, AllTerminatedStops, StopsSelf DEF Stops
  <1> HIDE DEF mode
  <1>4. Stops(ended, xrsr')
    BY <1>1, <1>2, <1>3, SoundAudio, PowerModeUpdateQuieter, WithAudioStops
  <1>5. Stops(xrsr, xrsr')
    BY <1>1, <1>3, <1>4, StopsTrans
  <1> QED BY <1>1, <1>5, IInvIs DEF PowerUpdate, Calm

\* A granted device begins no stream.
LEMMA GrantedCalm ==
    ASSUME IInv, Granted
    PROVE  Calm
  <1>1. Fewer(msgq, msgq') /\ Well(xrsr)
    BY PopFewer, IInvIs DEF Granted
  <1>2. PICK audio \in DeviceGranted(xrsr.audio) : xrsr' = WithAudio(xrsr, audio)
    BY DEF Granted
  <1>3. Stops(xrsr, xrsr')
    BY <1>1, <1>2, SoundAudio, DeviceGrantedQuieter, WithAudioStops
  <1> QED BY <1>1, <1>3, IInvIs DEF Granted, Calm

\* A revoked device stops its streams; the sessions learn of it later.
LEMMA RevokedCalm ==
    ASSUME IInv, Revoked
    PROVE  Calm
  <1>1. Fewer(msgq, msgq') /\ Well(xrsr)
    BY PopFewer, IInvIs DEF Revoked
  <1>2. PICK audio \in DeviceRevoked(xrsr.audio) : xrsr' = WithAudio(xrsr, audio)
    BY DEF Revoked
  <1>3. Stops(xrsr, xrsr')
    BY <1>1, <1>2, SoundAudio, DeviceRevokedQuieter, WithAudioStops
  <1> QED BY <1>1, <1>3, IInvIs DEF Revoked, Calm

\* A destination whose session ends.
LEMMA SessionEndsCalm ==
    ASSUME IInv, NEW src \in Sources, EndSession(src) \/ Abort(src),
           UNCHANGED <<msgq, awaited, caller>>
    PROVE  Calm
  <1>1. Well(xrsr) /\ Fewer(msgq, msgq')
    BY IInvIs, SameFewer
  <1>2. Stops(xrsr, xrsr')
    BY <1>1, DisconnectedStops, AbortedStops DEF EndSession, Abort
  <1> QED BY <1>1, <1>2, IInvIs DEF Calm

\* What the audio library and the caller of xrsr_session_request do to the
\* object on their own threads.
LEMMA FieldQuieter ==
    ASSUME NEW x, Sound(x)
    PROVE  /\ x.detector = "on" => Quieter(x, [x EXCEPT !.detector = "fired"])
           /\ Quieter(x, [x EXCEPT !.detector = "off"])
           /\ \A r \in {"none", "granted"} : Quieter(x, [x EXCEPT !.resource = r])
           /\ \A g \in Groups : x.streaming[g] # None =>
                Quieter(x, [x EXCEPT !.halted[g] = TRUE])
  <1>1. x.detector = "on" => Quieter(x, [x EXCEPT !.detector = "fired"])
    BY Fields DEF Quieter, Sound, Truthful, AudioType
  <1>2. Quieter(x, [x EXCEPT !.detector = "off"])
    <2>1. Sound([x EXCEPT !.detector = "off"])
      BY Fields DEF Sound, Truthful, AudioType
    <2> QED BY <2>1 DEF Quieter, Sound, AudioType
  <1>3. \A r \in {"none", "granted"} : Quieter(x, [x EXCEPT !.resource = r])
    BY Fields DEF Quieter, Sound, Truthful, AudioType
  <1>4. ASSUME NEW g \in Groups, x.streaming[g] # None
        PROVE  Quieter(x, [x EXCEPT !.halted[g] = TRUE])
    <2> DEFINE y == [x EXCEPT !.halted[g] = TRUE]
    <2>1. /\ y \in AudioType /\ y.active = x.active
          /\ y.streaming = x.streaming /\ y.refused = x.refused
          /\ y.open = x.open /\ y.xraudio_state = x.xraudio_state
          /\ y.detector = x.detector /\ y.detecting = x.detecting
          /\ \A h \in Groups \ {g} : y.halted[h] = x.halted[h]
          /\ y.halted[g]
      BY Fields DEF Sound, AudioType
    <2> HIDE DEF y
    <2>2. Quieter(x, y)
      BY <1>4, <2>1, Fields DEF Quieter, Sound, Truthful
    <2> QED BY <2>2 DEF y
  <1> QED BY <1>1, <1>2, <1>3, <1>4

\* The detector's callback queues a message and no configuration.
LEMMA DetectorReportsCalm ==
    ASSUME IInv, NEW src \in Sources,
           NEW type \in {"KEYWORD_DETECTED", "KEYWORD_DETECT_ERROR"},
           DetectorReports(type, src)
    PROVE  Calm
  <1> DEFINE m == Msg(type, src)
  <1>1. m \in Messages /\ ~IsConfig(m)
    BY DEF Msg, Messages, IsConfig
  <1>2. Fewer(msgq, msgq') /\ Well(xrsr)
    BY <1>1, PushFewer, IInvIs DEF DetectorReports
  <1>3. xrsr' = WithAudio(xrsr, [xrsr.audio EXCEPT !.detector = "fired"])
    BY DEF DetectorReports, WithAudio
  <1>4. Quieter(xrsr.audio, [xrsr.audio EXCEPT !.detector = "fired"])
    BY <1>2, FieldQuieter, SoundAudio DEF DetectorReports
  <1>5. Stops(xrsr, xrsr')
    BY <1>2, <1>3, <1>4, WithAudioStops
  <1> QED BY <1>2, <1>5, IInvIs DEF DetectorReports, Calm

\* The stream's callback queues the error of the source it recorded.
LEMMA StreamErrorCalm ==
    ASSUME IInv, NEW g \in Groups, StreamError(g)
    PROVE  Calm
  <1> DEFINE m == Msg("STREAM_ERROR", xrsr.audio.streaming[g])
             a == [xrsr.audio EXCEPT !.halted[g] = TRUE]
  <1>1. m \in Messages /\ ~IsConfig(m)
    <2>1. xrsr.audio.streaming[g] \in Sources
      BY IInvIs, XrsrFields, Fields DEF StreamError, Well
    <2> QED BY <2>1 DEF Msg, Messages, IsConfig
  <1>2. Fewer(msgq, msgq') /\ Well(xrsr)
    BY <1>1, PushFewer, IInvIs DEF StreamError
  <1>3. xrsr' = WithAudio(xrsr, a)
    BY DEF StreamError, WithAudio
  <1>4. Quieter(xrsr.audio, a)
    BY <1>2, FieldQuieter, SoundAudio DEF StreamError
  <1>5. Stops(xrsr, xrsr')
    BY <1>2, <1>3, <1>4, WithAudioStops
  <1> QED BY <1>2, <1>5, IInvIs DEF StreamError, Calm

\* The resource manager's callback only queues its event.
LEMMA NotifyCalm ==
    ASSUME IInv, NEW from, NEW to \in {"none", "granted"},
           NEW type \in {"XRAUDIO_GRANTED", "XRAUDIO_REVOKED"},
           Notify(from, to, type)
    PROVE  Calm
  <1> DEFINE m == [type |-> type]
             a == [xrsr.audio EXCEPT !.resource = to]
  <1>1. m \in Messages /\ ~IsConfig(m)
    BY DEF Messages, IsConfig
  <1>2. Fewer(msgq, msgq') /\ Well(xrsr)
    BY <1>1, PushFewer, IInvIs DEF Notify
  <1>3. xrsr' = WithAudio(xrsr, a)
    BY DEF Notify, WithAudio
  <1>4. Quieter(xrsr.audio, a)
    BY <1>2, FieldQuieter, SoundAudio
  <1>5. Stops(xrsr, xrsr')
    BY <1>2, <1>3, <1>4, WithAudioStops
  <1> QED BY <1>2, <1>5, IInvIs DEF Notify, Calm

\* xrsr_session_request stops the detector on the caller's thread, or not.
LEMMA RequestStopCalm ==
    ASSUME IInv, NEW src \in Requested, RequestStop(src)
    PROVE  Calm
  <1>1. Well(xrsr) /\ Fewer(msgq, msgq')
    BY IInvIs, SameFewer DEF RequestStop
  <1>2. xrsr' \in {xrsr, WithAudio(xrsr, [xrsr.audio EXCEPT !.detector = "off"])}
    <2>1. xrsr' \in {xrsr, [xrsr EXCEPT !.audio.detector = "off"]}
      BY OrRefusedIn DEF RequestStop
    <2> QED BY <2>1 DEF WithAudio
  <1>3. Quieter(xrsr.audio, [xrsr.audio EXCEPT !.detector = "off"])
    BY <1>1, FieldQuieter, SoundAudio
  <1>4. Stops(xrsr, xrsr')
    BY <1>1, <1>2, <1>3, WithAudioStops, StopsSelf
  <1> QED BY <1>1, <1>4, RouterAssumption DEF RequestStop, Calm

\* xrsr_session_request queues the begin of a session.
LEMMA RequestBeginCalm ==
    ASSUME IInv, RequestBegin
    PROVE  Calm
  <1> DEFINE m == Msg("SESSION_BEGIN", caller)
  <1>1. m \in Messages /\ ~IsConfig(m)
    BY DEF Msg, Messages, IsConfig, RequestBegin
  <1>2. Fewer(msgq, msgq') /\ Well(xrsr)
    BY <1>1, PushFewer, SameFewer, IInvIs DEF RequestBegin
  <1> QED BY <1>2, StopsSelf DEF RequestBegin, Calm

\* A blocking call queues its message.
LEMMA CallCalm ==
    ASSUME IInv, NEW m \in Messages, ~IsConfig(m), Call(m)
    PROVE  Calm
  <1>1. Fewer(msgq, msgq') /\ Well(xrsr)
    BY PushFewer, IInvIs DEF Call
  <1> QED BY <1>1, StopsSelf DEF Call, Calm

-----------------------------------------------------------------------------
(* The steps that begin something.                                         *)

\* A connected destination begins to stream, or ends its stream.
LEMMA StartStreamEffect ==
    ASSUME Well(xrsr), NEW src \in Sources, StartStream(src)
    PROVE  Well(xrsr') /\ OnlyDst(xrsr, xrsr', src, "streaming", src)
  <1> DEFINE y == WithPhase(xrsr, src, "streaming")
  <1>1. /\ "streaming" \in Phases
        /\ xrsr.dst[src].phase # "idle" /\ xrsr.dst[src].audio_src = src
    BY DEF Phases, StartStream, Well, ExclusiveIn
  <1>2. xrsr' = y
    BY DEF StartStream, WithPhase
  <1> HIDE DEF y
  <1>3. OnlyDst(xrsr, xrsr', src, "streaming", src)
    <2>1. OnlyDst(xrsr, WithPhase(xrsr, src, "streaming"), src, "streaming",
                  xrsr.dst[src].audio_src)
      BY <1>1, WithPhaseEffect DEF Well
    <2> QED BY <1>1, <1>2, <2>1 DEF y
  <1>4. /\ xrsr'.session = xrsr.session /\ xrsr'.audio = xrsr.audio
        /\ xrsr' \in XrsrType
        /\ \A t \in Sources : t # src => xrsr'.dst[t] = xrsr.dst[t]
        /\ xrsr'.dst[src].handler = xrsr.dst[src].handler
        /\ xrsr'.dst[src].phase # "idle" /\ xrsr'.dst[src].audio_src = src
    BY <1>3 DEF OnlyDst
  <1>5. Well(xrsr')
    BY <1>1, <1>4 DEF Well, ExclusiveIn, GroupedIn, IdleSourceIn
  <1> QED BY <1>3, <1>5

\* y is x with the stream of src ended; its destination drains.
Drains(x, y, src) ==
    LET g == Group(src)
    IN  /\ Quieter(x.audio, y.audio)
        /\ y.audio.active[g] => y.audio.refused[g]
        /\ \A h \in Groups \ {g} : y.session[h] = x.session[h]
        /\ y.session[g].src = x.session[g].src
        /\ ~y.session[g].pipe /\ y.session[g].first_stream_req
        /\ \A t \in Sources \ {src} : y.dst[t] = x.dst[t]
        /\ y.dst[src].uuid = x.dst[src].uuid
        /\ y.dst[src].phase = "draining"

\* A destination that ends its stream keeps the session until it has drained.
LEMMA EndStreamEffect ==
    ASSUME Well(xrsr), NEW src \in Sources, EndStream(src)
    PROVE  Well(xrsr') /\ Drains(xrsr, xrsr', src)
  <1> DEFINE g == Group(src)
  <1>0. PICK z \in StreamEnd(xrsr, src) : xrsr' = WithPhase(z, src, "draining")
    BY DEF EndStream, WithPhase
  <1>1. /\ "draining" \in Phases /\ xrsr.dst[src].phase # "idle"
        /\ xrsr.dst[src].audio_src = src
    BY DEF Phases, EndStream, Well, ExclusiveIn
  <1>2. /\ Well(z)
        /\ z.dst = xrsr.dst
        /\ Quieter(xrsr.audio, z.audio)
        /\ z.audio.active[g] => z.audio.refused[g]
        /\ \A h \in Groups \ {g} : z.session[h] = xrsr.session[h]
        /\ z.session[g].src = xrsr.session[g].src
        /\ ~z.session[g].pipe /\ z.session[g].first_stream_req
    BY <1>0, StreamEndEffect
  <1>3. OnlyDst(z, xrsr', src, "draining", src)
    <2>1. OnlyDst(z, xrsr', src, "draining", z.dst[src].audio_src)
      BY <1>0, <1>1, <1>2, WithPhaseEffect DEF Well
    <2> QED BY <1>1, <1>2, <2>1
  <1>4. /\ xrsr'.session = z.session /\ xrsr'.audio = z.audio
        /\ xrsr' \in XrsrType
        /\ \A t \in Sources : t # src => xrsr'.dst[t] = z.dst[t]
        /\ xrsr'.dst[src].handler = z.dst[src].handler
        /\ xrsr'.dst[src].uuid = z.dst[src].uuid
        /\ xrsr'.dst[src].phase = "draining" /\ xrsr'.dst[src].audio_src = src
    BY <1>3 DEF OnlyDst
  <1>5. Well(xrsr')
    BY <1>1, <1>2, <1>4 DEF Well, ExclusiveIn, GroupedIn, IdleSourceIn
  <1>6. Drains(xrsr, xrsr', src)
    BY <1>2, <1>4 DEF Drains
  <1> QED BY <1>5, <1>6

\* The session of a free group is given to src, and its destination a uuid.
Taken(x, src) == [x EXCEPT !.session[Group(src)].src = src]
Named(x, src, uuid) == [x EXCEPT !.dst[src].uuid = uuid]

\* n is x with the session of its group given to src.
Takes(x, n, src) ==
    LET g == Group(src)
    IN  /\ x.session[g].src = None
        /\ n.audio = x.audio
        /\ \A h \in Groups \ {g} : n.session[h] = x.session[h]
        /\ n.session[g].src = src
        /\ n.session[g].pipe = x.session[g].pipe
        /\ n.session[g].first_stream_req = x.session[g].first_stream_req
        /\ \A t \in Sources \ {src} : n.dst[t] = x.dst[t]
        /\ n.dst[src].handler = x.dst[src].handler
        /\ n.dst[src].phase = x.dst[src].phase

\* A free group has no connected destination, so that taking it is safe.
LEMMA TakenEffect ==
    ASSUME NEW x, Well(x), NEW src \in Sources,
           x.session[Group(src)].src = None
    PROVE  LET n == Taken(x, src)
           IN  Well(n) /\ Takes(x, n, src) /\ n.dst = x.dst
  <1> DEFINE g == Group(src)
             n == Taken(x, src)
             r == [x.session[g] EXCEPT !.src = src]
             ss == [x.session EXCEPT ![g] = r]
  <1>1. x \in XrsrType /\ x.session[g] \in SessionType /\ g \in Groups
    BY GroupIn, XrsrFields DEF Well
  <1>2. /\ r \in SessionType /\ r.src = src
        /\ r.pipe = x.session[g].pipe
        /\ r.first_stream_req = x.session[g].first_stream_req
    BY <1>1 DEF SessionType
  <1>3. n = Made(x, ss, x.dst, x.audio)
    BY <1>1, XrsrFields DEF Taken, XrsrType, SessionType, Made
  <1> HIDE DEF n, r
  <1>4. ss \in [Groups -> SessionType]
    BY <1>1, <1>2, XrsrFields
  <1>5. n \in XrsrType /\ n.session = ss /\ n.dst = x.dst /\ n.audio = x.audio
    <2> HIDE DEF ss
    <2> QED BY <1>1, <1>3, <1>4, MadeIs, XrsrFields
  <1>6. ss[g] = r /\ \A h \in Groups \ {g} : ss[h] = x.session[h]
    BY <1>1, XrsrFields
  <1> HIDE DEF ss
  <1>7. Takes(x, n, src)
    BY <1>2, <1>5, <1>6 DEF Takes
  <1>8. Well(n)
    <2>1. \A s \in Sources : x.dst[s].phase # "idle" => Group(s) # g
      BY AudioAssumption DEF Well, ExclusiveIn
    <2>2. ExclusiveIn(n)
      BY <1>5, <1>6, <2>1, GroupIn DEF Well, ExclusiveIn
    <2>3. GroupedIn(n)
      BY <1>2, <1>5, <1>6 DEF Well, GroupedIn
    <2> QED BY <1>5, <2>2, <2>3 DEF Well, IdleSourceIn
  <1> QED BY <1>5, <1>7, <1>8 DEF n

\* A new uuid touches one destination, and of it the uuid only.
LEMMA NamedEffect ==
    ASSUME NEW x, Well(x), NEW src \in Sources, NEW uuid \in Uuids
    PROVE  LET n == Named(x, src, uuid)
           IN  /\ Well(n)
               /\ n.session = x.session /\ n.audio = x.audio
               /\ \A t \in Sources \ {src} : n.dst[t] = x.dst[t]
               /\ n.dst[src].handler = x.dst[src].handler
               /\ n.dst[src].phase = x.dst[src].phase
               /\ n.dst[src].audio_src = x.dst[src].audio_src
               /\ n.dst[src].uuid = uuid
  <1> DEFINE n == Named(x, src, uuid)
             r == [x.dst[src] EXCEPT !.uuid = uuid]
             d == [x.dst EXCEPT ![src] = r]
  <1>1. x \in XrsrType /\ x.dst[src] \in DstType
    BY XrsrFields DEF Well
  <1>2. /\ r \in DstType /\ r.uuid = uuid
        /\ r.handler = x.dst[src].handler /\ r.phase = x.dst[src].phase
        /\ r.audio_src = x.dst[src].audio_src
    BY <1>1 DEF DstType
  <1>3. n = Made(x, x.session, d, x.audio)
    <2>1. n = [x EXCEPT !.dst = d]
      BY <1>1, XrsrFields DEF Named, XrsrType, DstType
    <2> HIDE DEF n, d, r
    <2> QED BY <2>1, <1>1, XrsrFields DEF XrsrType, Made
  <1> HIDE DEF n, r
  <1>4. d \in [Sources -> DstType]
    BY <1>1, <1>2, XrsrFields
  <1>5. n \in XrsrType /\ n.session = x.session /\ n.dst = d /\ n.audio = x.audio
    <2> HIDE DEF d
    <2>1. x.session \in [Groups -> SessionType] /\ x.audio \in AudioType
      BY <1>1, XrsrFields
    <2> QED BY <1>1, <1>3, <1>4, <2>1, MadeIs
  <1>6. d[src] = r /\ \A t \in Sources \ {src} : d[t] = x.dst[t]
    BY <1>1, XrsrFields
  <1> HIDE DEF d
  <1>7. /\ \A t \in Sources : t # src => n.dst[t] = x.dst[t]
        /\ n.dst[src].handler = x.dst[src].handler
        /\ n.dst[src].phase = x.dst[src].phase
        /\ n.dst[src].audio_src = x.dst[src].audio_src
        /\ n.dst[src].uuid = uuid
    BY <1>2, <1>5, <1>6
  <1>8. Well(n)
    <2>1. ExclusiveIn(n)
      BY <1>5, <1>7 DEF Well, ExclusiveIn
    <2>2. IdleSourceIn(n)
      BY <1>5, <1>7 DEF Well, IdleSourceIn
    <2> QED BY <1>5, <2>1, <2>2 DEF Well, GroupedIn
  <1> QED BY <1>5, <1>7, <1>8 DEF n

\* xrsr_msg_session_begin: the group is taken; an SDT destination begins.
SessionTaken(src) ==
    \E n : /\ Well(n) /\ Takes(xrsr, n, src)
           /\ \/ xrsr' = n
              \/ /\ Protocol[src] = "SDT"
                 /\ n.dst[src].phase = "idle"
                 /\ Frees(n, xrsr', src) \/ Begins(n, xrsr', src)

\* A session begins with a uuid that is nowhere else: a configuration that is
\* still queued cannot be its own.
LEMMA BeginSessionEffect ==
    ASSUME IInv, SessionBegin, NEW src \in Sources, src = Head(msgq).src,
           BeginSession(src)
    PROVE  /\ Well(xrsr') /\ SessionTaken(src)
           /\ Fewer(msgq, msgq') /\ UNCHANGED caller
           /\ awaited' \in [Sources -> Uuids \cup {None}]
           /\ UuidsIn(xrsr', awaited', msgq')
  <1> DEFINE n0 == Taken(xrsr, src)
  <1>1. /\ Fewer(msgq, msgq') /\ Well(xrsr) /\ UNCHANGED caller
        /\ QueueOK(msgq) /\ UuidsIn(xrsr, awaited, msgq)
        /\ awaited \in [Sources -> Uuids \cup {None}]
    BY PopFewer, IInvIs DEF SessionBegin
  <1>2. Well(n0) /\ Takes(xrsr, n0, src) /\ n0.dst = xrsr.dst
    BY <1>1, TakenEffect DEF BeginSession
  <1>3. \/ xrsr' = n0 /\ UNCHANGED awaited
        \/ /\ xrsr.dst[src].handler /\ xrsr.dst[src].phase = "idle"
           /\ \E uuid \in Uuids \ UsedUuids :
                IF Protocol[src] = "SDT"
                THEN xrsr' \in Starts(Named(n0, src, uuid), src) /\ UNCHANGED awaited
                ELSE /\ xrsr' = Named(n0, src, uuid)
                     /\ awaited' = [awaited EXCEPT ![src] = uuid]
    BY DEF BeginSession, Taken, Named
  <1> HIDE DEF n0
  <1>4. CASE xrsr' = n0 /\ UNCHANGED awaited
    <2>1. UuidsIn(xrsr', awaited', msgq')
      <3>1. UuidsIn(n0, awaited, msgq')
        <4>1. \A s \in Sources : /\ n0.dst[s].uuid \in {xrsr.dst[s].uuid, None}
                                 /\ n0.dst[s].phase # "idle" => xrsr.dst[s].phase # "idle"
          BY <1>2
        <4> QED BY <1>1, <4>1, UuidsKept DEF Fewer
      <3> QED BY <1>4, <3>1
    <2> QED BY <1>1, <1>2, <1>4, <2>1 DEF SessionTaken
  <1>5. ASSUME NEW uuid \in Uuids \ UsedUuids,
               xrsr.dst[src].handler, xrsr.dst[src].phase = "idle",
               IF Protocol[src] = "SDT"
               THEN xrsr' \in Starts(Named(n0, src, uuid), src) /\ UNCHANGED awaited
               ELSE /\ xrsr' = Named(n0, src, uuid)
                    /\ awaited' = [awaited EXCEPT ![src] = uuid]
        PROVE  /\ Well(xrsr') /\ SessionTaken(src)
               /\ awaited' \in [Sources -> Uuids \cup {None}]
               /\ UuidsIn(xrsr', awaited', msgq')
    <2> DEFINE n == Named(n0, src, uuid)
    <2>1. /\ Well(n)
          /\ n.session = n0.session /\ n.audio = n0.audio
          /\ \A t \in Sources \ {src} : n.dst[t] = n0.dst[t]
          /\ n.dst[src].handler = n0.dst[src].handler
          /\ n.dst[src].phase = n0.dst[src].phase
          /\ n.dst[src].uuid = uuid
      <3>1. uuid \in Uuids OBVIOUS
      <3> QED BY <1>2, <3>1, NamedEffect
    <2>2. /\ uuid # None /\ uuid \notin Answered(msgq')
          /\ \A s \in Sources : uuid # awaited[s] /\ uuid # xrsr.dst[s].uuid
      BY <1>1, RouterAssumption DEF UsedUuids, Fewer
    <2>3. IF Protocol[src] = "SDT"
          THEN xrsr' \in Starts(n, src) /\ UNCHANGED awaited
          ELSE xrsr' = n /\ awaited' = [awaited EXCEPT ![src] = uuid]
      BY <1>5
    <2> HIDE DEF n
    <2>4. Takes(xrsr, n, src)
      BY <1>2, <2>1 DEF Takes
    <2>5. /\ \A t \in Sources : t # src => n.dst[t] = xrsr.dst[t]
          /\ n.dst[src].handler /\ n.dst[src].phase = "idle"
          /\ n.session[Group(src)].src = src
      BY <1>5, <2>4 DEF Takes
    <2>6. CASE Protocol[src] # "SDT"
      <3>1. xrsr' = n /\ awaited' = [awaited EXCEPT ![src] = uuid]
        BY <2>3, <2>6
      <3>2. /\ awaited' \in [Sources -> Uuids \cup {None}]
            /\ awaited'[src] = uuid
            /\ \A t \in Sources : t # src => awaited'[t] = awaited[t]
        BY <1>1, <3>1
      <3>3. UuidsIn(xrsr', awaited', msgq')
        <4> SUFFICES ASSUME NEW s \in Sources
                     PROVE  UuidAt(xrsr', awaited', msgq', s)
          BY DEF UuidsIn
        <4>1. CASE s = src
          BY <2>1, <2>2, <2>5, <2>6, <3>1, <3>2, <4>1 DEF UuidAt
        <4>2. CASE s # src
          BY <1>1, <2>1, <2>2, <2>5, <3>1, <3>2, <4>2 DEF UuidsIn, UuidAt, Fewer
        <4> QED BY <4>1, <4>2
      <3> QED BY <2>1, <2>4, <3>1, <3>2, <3>3 DEF SessionTaken
    <2>7. CASE Protocol[src] = "SDT"
      <3>1. xrsr' \in Starts(n, src) /\ UNCHANGED awaited
        BY <2>3, <2>7
      <3>2. Well(xrsr') /\ (xrsr' = n \/ Frees(n, xrsr', src) \/ Begins(n, xrsr', src))
        BY <2>1, <2>5, <3>1, StartsEffect
      <3>3. /\ \A t \in Sources : t # src => xrsr'.dst[t] = n.dst[t]
            /\ xrsr'.dst[src].uuid = uuid
        BY <2>1, <3>2 DEF Frees, Begins
      <3>4. UuidsIn(xrsr', awaited', msgq')
        <4> SUFFICES ASSUME NEW s \in Sources
                     PROVE  UuidAt(xrsr', awaited, msgq', s)
          BY <3>1 DEF UuidsIn
        <4>1. CASE s = src
          <5>1. awaited[src] = None /\ None \notin Answered(msgq')
            BY <1>1, <2>7 DEF UuidsIn, UuidAt, Fewer
          <5> QED BY <2>2, <3>3, <4>1, <5>1 DEF UuidAt
        <4>2. CASE s # src
          BY <1>1, <2>2, <2>5, <3>3, <4>2 DEF UuidsIn, UuidAt, Fewer
        <4> QED BY <4>1, <4>2
      <3> QED BY <1>1, <2>1, <2>4, <2>5, <2>7, <3>1, <3>2, <3>4 DEF SessionTaken
    <2> QED BY <2>6, <2>7
  <1> QED BY <1>1, <1>3, <1>4, <1>5

\* The session that a queued configuration names is idle, and starts.
LEMMA SessionConfigInEffect ==
    ASSUME IInv, SessionConfigIn, NEW src,
           src = xrsr.session[Group(Head(msgq).src)].src,
           IsAnswer(src, Head(msgq))
    PROVE  /\ src \in Sources /\ xrsr.session[Group(src)].src = src
           /\ xrsr.dst[src].phase = "idle" /\ awaited[src] = None
           /\ Well(xrsr')
           /\ \/ xrsr' = xrsr \/ Frees(xrsr, xrsr', src)
              \/ Begins(xrsr, xrsr', src)
           /\ Fewer(msgq, msgq') /\ UNCHANGED <<awaited, caller>>
           /\ UuidsIn(xrsr', awaited', msgq')
  <1> DEFINE uuid == Head(msgq).uuid
  <1>1. /\ Fewer(msgq, msgq') /\ Well(xrsr) /\ UNCHANGED <<awaited, caller>>
        /\ QueueOK(msgq) /\ UuidsIn(xrsr, awaited, msgq)
        /\ Head(msgq).type = "SESSION_CONFIG_IN" /\ msgq' = Tail(msgq)
        /\ msgq # << >> /\ Once(msgq)
    BY PopFewer, IInvIs DEF SessionConfigIn, Pop
  <1>2. uuid \in Answered(msgq) /\ uuid \notin Answered(msgq') /\ uuid # None
    BY <1>1, TailQueue, MessageFields, RouterAssumption DEF IsConfig
  <1>3. /\ src \in Sources /\ xrsr.session[Group(src)].src = src
        /\ xrsr.dst[src].handler /\ xrsr.dst[src].uuid = uuid
    <2>1. src \in Sources \cup {None} /\ Group(Head(msgq).src) \in Groups
      BY <1>1, GroupIn, XrsrFields DEF Well
    <2>2. src # None /\ xrsr.dst[src].handler /\ xrsr.dst[src].uuid = uuid
      BY DEF IsAnswer
    <2>3. Group(src) = Group(Head(msgq).src)
      BY <1>1, <2>1, <2>2 DEF Well, GroupedIn
    <2> QED BY <2>1, <2>2, <2>3
  <1>4. xrsr.dst[src].phase = "idle" /\ awaited[src] = None
    BY <1>1, <1>2, <1>3 DEF UuidsIn, UuidAt
  <1>5. xrsr' \in Starts(xrsr, src)
    BY DEF SessionConfigIn
  <1>6. Well(xrsr') /\ (xrsr' = xrsr \/ Frees(xrsr, xrsr', src) \/ Begins(xrsr, xrsr', src))
    BY <1>1, <1>3, <1>4, <1>5, StartsEffect
  <1>7. /\ \A t \in Sources : t # src => xrsr'.dst[t] = xrsr.dst[t]
        /\ xrsr'.dst[src].uuid = uuid
    BY <1>3, <1>6 DEF Frees, Begins
  <1>8. UuidsIn(xrsr', awaited', msgq')
    <2> HIDE DEF uuid
    <2> SUFFICES ASSUME NEW s \in Sources
                 PROVE  UuidAt(xrsr', awaited, msgq', s)
      BY <1>1 DEF UuidsIn
    <2>1. CASE s = src
      BY <1>1, <1>2, <1>4, <1>7, <2>1 DEF UuidsIn, UuidAt, Fewer
    <2>2. CASE s # src
      <3>1. /\ Answered(msgq') \subseteq Answered(msgq)
            /\ UuidsIn(xrsr, awaited, msgq)
            /\ \A t \in Sources : xrsr'.dst[t].uuid = xrsr.dst[t].uuid
            /\ xrsr'.dst[s].phase = xrsr.dst[s].phase
        BY <1>1, <1>3, <1>7, <2>2 DEF Fewer
      <3> QED BY <3>1 DEF UuidsIn, UuidAt
    <2> QED BY <2>1, <2>2
  <1> QED BY <1>1, <1>3, <1>4, <1>6, <1>8

\* The application's answer goes into the queue.
LEMMA ConfigureEffect ==
    ASSUME IInv, NEW src \in Sources, Configure(src)
    PROVE  /\ UNCHANGED <<xrsr, caller>>
           /\ QueueOK(msgq') /\ Once(msgq')
           /\ awaited' \in [Sources -> Uuids \cup {None}]
           /\ UuidsIn(xrsr, awaited', msgq')
  <1> DEFINE u == awaited[src]
             m == [src |-> src, uuid |-> u, type |-> "SESSION_CONFIG_IN"]
  <1>1. /\ Well(xrsr) /\ QueueOK(msgq) /\ Once(msgq)
        /\ UuidsIn(xrsr, awaited, msgq)
        /\ awaited \in [Sources -> Uuids \cup {None}]
        /\ u # None /\ msgq' = Pushed(msgq, m)
        /\ awaited' = [awaited EXCEPT ![src] = None]
        /\ UNCHANGED <<xrsr, caller>>
    BY IInvIs DEF Configure
  <1>2. m \in Messages /\ IsConfig(m) /\ m.uuid = u /\ u \notin Answered(msgq)
    BY <1>1 DEF Messages, IsConfig, UuidsIn, UuidAt
  <1> HIDE DEF m
  <1>3. /\ QueueOK(msgq') /\ Once(msgq')
        /\ Answered(msgq') \subseteq Answered(msgq) \cup {u}
    BY <1>1, <1>2, PushedQueue
  <1>4. /\ awaited' \in [Sources -> Uuids \cup {None}]
        /\ awaited'[src] = None
        /\ \A t \in Sources : t # src => awaited'[t] = awaited[t]
    BY <1>1
  <1>5. None \notin Answered(msgq')
    <2>1. \A i \in DOMAIN msgq' : msgq'[i] \in Messages
      BY <1>3 DEF QueueOK
    <2> QED BY <2>1, MessageFields, RouterAssumption DEF Answered, IsConfig
  <1>6. UuidsIn(xrsr, awaited', msgq')
    <2> SUFFICES ASSUME NEW s \in Sources
                 PROVE  UuidAt(xrsr, awaited', msgq', s)
      BY DEF UuidsIn
    <2>1. /\ s # src => u # awaited[s]
          /\ xrsr.dst[s].phase # "idle" => u # xrsr.dst[s].uuid
      BY <1>1 DEF UuidsIn, UuidAt
    <2> HIDE DEF u
    <2>2. CASE s = src
      BY <1>1, <1>3, <1>4, <1>5, <2>1, <2>2 DEF UuidsIn, UuidAt
    <2>3. CASE s # src
      BY <1>1, <1>3, <1>4, <2>1, <2>3 DEF UuidsIn, UuidAt
    <2> QED BY <2>2, <2>3
  <1> QED BY <1>1, <1>3, <1>4, <1>6

-----------------------------------------------------------------------------
(* The inductive invariant.                                                *)

\* A configuration that answers no session changes nothing.
LEMMA LateConfigCalm ==
    ASSUME IInv, SessionConfigIn,
           ~IsAnswer(xrsr.session[Group(Head(msgq).src)].src, Head(msgq))
    PROVE  Calm
  <1>1. Fewer(msgq, msgq') /\ Well(xrsr)
    BY PopFewer, IInvIs DEF SessionConfigIn
  <1> QED BY <1>1, StopsSelf, IInvIs DEF SessionConfigIn, Calm

\* A step that changes nothing ends nothing.
LEMMA StutterCalm ==
    ASSUME IInv, UNCHANGED vars
    PROVE  Calm
  <1>1. Well(xrsr) /\ Fewer(msgq, msgq') /\ UNCHANGED <<xrsr, awaited, caller>>
    BY IInvIs, SameFewer DEF vars
  <1> QED BY <1>1, StopsSelf, IInvIs DEF Calm

\* The configuration at the head of the queue is that of its group's session.
Answers == /\ SessionConfigIn
           /\ IsAnswer(xrsr.session[Group(Head(msgq).src)].src, Head(msgq))

\* Every step is calm, or one of those that begin something.
LEMMA Steps ==
    ASSUME IInv, [Next]_vars
    PROVE  \/ Calm
           \/ \E src \in Sources :
                /\ StartStream(src) \/ EndStream(src)
                /\ UNCHANGED <<msgq, awaited, caller>>
           \/ SessionBegin /\ BeginSession(Head(msgq).src)
           \/ Answers
           \/ \E src \in Sources : Configure(src)
  <1>1. CASE UNCHANGED vars
    BY <1>1, StutterCalm
  <1>2. CASE Handle
    <2>1. CASE SessionBegin
      BY <2>1, IgnoreBeginCalm, RefuseBeginCalm DEF SessionBegin
    <2>2. CASE SessionConfigIn
      BY <2>2, LateConfigCalm DEF Answers
    <2> QED BY <1>2, <2>1, <2>2, SessionTerminateCalm, StreamFailedCalm,
               KeywordDetectedCalm, KeywordDetectErrorCalm, RouteUpdateCalm,
               PowerUpdateCalm, GrantedCalm, RevokedCalm DEF Handle
  <1>3. CASE Destination
    <2>1. PICK src \in Sources :
            /\ StartStream(src) \/ EndStream(src) \/ EndSession(src) \/ Abort(src)
            /\ UNCHANGED <<msgq, awaited, caller>>
      BY <1>3 DEF Destination
    <2> QED BY <2>1, SessionEndsCalm
  <1>4. CASE Library
    BY <1>4, DetectorReportsCalm, StreamErrorCalm, NotifyCalm DEF Library
  <1>5. CASE Application
    <2>1. ASSUME NEW src \in Sources, Call(Msg("SESSION_TERMINATE", src))
          PROVE  Calm
      <3>1. /\ Msg("SESSION_TERMINATE", src) \in Messages
            /\ ~IsConfig(Msg("SESSION_TERMINATE", src))
        BY DEF Msg, Messages, IsConfig
      <3> QED BY <2>1, <3>1, CallCalm
    <2>2. ASSUME NEW table \in RouteTables,
                 Call([type |-> "ROUTE_UPDATE", table |-> table])
          PROVE  Calm
      <3> DEFINE m == [type |-> "ROUTE_UPDATE", table |-> table]
      <3>1. m \in Messages /\ ~IsConfig(m) /\ Call(m)
        BY <2>2 DEF Messages, IsConfig
      <3> HIDE DEF m
      <3> QED BY <3>1, CallCalm
    <2>3. ASSUME NEW mode \in PowerModes,
                 Call([type |-> "POWER_MODE_UPDATE", mode |-> mode])
          PROVE  Calm
      <3> DEFINE m == [type |-> "POWER_MODE_UPDATE", mode |-> mode]
      <3>1. m \in Messages /\ ~IsConfig(m) /\ Call(m)
        BY <2>3 DEF Messages, IsConfig
      <3> HIDE DEF m
      <3> QED BY <3>1, CallCalm
    <2> QED BY <1>5, <2>1, <2>2, <2>3, RequestStopCalm, RequestBeginCalm
            DEF Application
  <1> QED BY <1>1, <1>2, <1>3, <1>4, <1>5 DEF Next

\* The regrouped invariant of the next state.
LEMMA IInvIsNext ==
    IInv' <=> /\ Well(xrsr')
              /\ QueueOK(msgq') /\ Once(msgq')
              /\ UuidsIn(xrsr', awaited', msgq')
              /\ awaited' \in [Sources -> Uuids \cup {None}]
              /\ caller' \in Sources \cup {None, Blocked}
  <1>1. (IInv <=> /\ Well(xrsr)
                  /\ QueueOK(msgq) /\ Once(msgq)
                  /\ UuidsIn(xrsr, awaited, msgq)
                  /\ awaited \in [Sources -> Uuids \cup {None}]
                  /\ caller \in Sources \cup {None, Blocked})'
    BY IInvIs, PTL
  <1> QED BY <1>1

\* Ending sessions and streams keeps the invariant.
LEMMA CalmInv ==
    ASSUME IInv, Calm
    PROVE  IInv'
  <1>1. /\ QueueOK(msgq) /\ UuidsIn(xrsr, awaited, msgq)
        /\ awaited \in [Sources -> Uuids \cup {None}]
    BY IInvIs
  <1>2. Well(xrsr') /\ QueueOK(msgq') /\ Once(msgq') /\ UNCHANGED awaited
        /\ caller' \in Sources \cup {None, Blocked}
    BY DEF Calm, Stops, Fewer
  <1>3. UuidsIn(xrsr', awaited, msgq')
    <2>1. \A s \in Sources :
            /\ xrsr'.dst[s].uuid \in {xrsr.dst[s].uuid, None}
            /\ xrsr'.dst[s].phase # "idle" => xrsr.dst[s].phase # "idle"
      BY DEF Calm, Stops
    <2>2. Answered(msgq') \subseteq Answered(msgq)
      BY DEF Calm, Fewer
    <2> QED BY <1>1, <2>1, <2>2, UuidsKept
  <1>4. UuidsIn(xrsr', awaited', msgq')
    BY <1>2, <1>3
  <1> QED BY <1>1, <1>2, <1>4, IInvIsNext

\* A step of a connected destination that stays connected.
LEMMA DestinationInv ==
    ASSUME IInv, NEW src \in Sources, StartStream(src) \/ EndStream(src),
           UNCHANGED <<msgq, awaited, caller>>
    PROVE  IInv'
  <1>1. /\ Well(xrsr) /\ QueueOK(msgq) /\ Once(msgq)
        /\ UuidsIn(xrsr, awaited, msgq)
        /\ awaited \in [Sources -> Uuids \cup {None}]
        /\ caller \in Sources \cup {None, Blocked}
    BY IInvIs
  <1>2. /\ Well(xrsr')
        /\ \A t \in Sources : t # src => xrsr'.dst[t] = xrsr.dst[t]
        /\ xrsr'.dst[src].uuid = xrsr.dst[src].uuid
    BY <1>1, StartStreamEffect, EndStreamEffect DEF OnlyDst, Drains
  <1>3. xrsr.dst[src].phase # "idle"
    BY DEF StartStream, EndStream
  <1>4. UuidsIn(xrsr', awaited, msgq)
    <2>1. \A s \in Sources :
            /\ xrsr'.dst[s].uuid \in {xrsr.dst[s].uuid, None}
            /\ xrsr'.dst[s].phase # "idle" => xrsr.dst[s].phase # "idle"
      BY <1>2, <1>3
    <2> QED BY <1>1, <2>1, UuidsKept
  <1> QED BY <1>1, <1>2, <1>4, IInvIsNext

\* Every step of every thread keeps the invariant.
LEMMA NextInv ==
    ASSUME IInv, [Next]_vars
    PROVE  IInv'
  <1>1. /\ Well(xrsr) /\ awaited \in [Sources -> Uuids \cup {None}]
        /\ caller \in Sources \cup {None, Blocked}
    BY IInvIs
  <1>2. CASE Calm
    BY <1>2, CalmInv
  <1>3. CASE \E src \in Sources :
               /\ StartStream(src) \/ EndStream(src)
               /\ UNCHANGED <<msgq, awaited, caller>>
    BY <1>3, DestinationInv
  <1>4. CASE SessionBegin /\ BeginSession(Head(msgq).src)
    <2>1. Head(msgq).src \in Sources
      BY <1>4, PopFewer DEF SessionBegin
    <2>2. /\ Well(xrsr') /\ Fewer(msgq, msgq') /\ UNCHANGED caller
          /\ awaited' \in [Sources -> Uuids \cup {None}]
          /\ UuidsIn(xrsr', awaited', msgq')
      BY <1>4, <2>1, BeginSessionEffect
    <2> QED BY <1>1, IInvIsNext, <2>2 DEF Fewer
  <1>5. CASE Answers
    <2>1. /\ Well(xrsr') /\ Fewer(msgq, msgq') /\ UNCHANGED <<awaited, caller>>
          /\ UuidsIn(xrsr', awaited', msgq')
      BY <1>5, SessionConfigInEffect DEF Answers
    <2> QED BY <1>1, IInvIsNext, <2>1 DEF Fewer
  <1>6. CASE \E src \in Sources : Configure(src)
    <2>1. /\ UNCHANGED <<xrsr, caller>>
          /\ QueueOK(msgq') /\ Once(msgq')
          /\ awaited' \in [Sources -> Uuids \cup {None}]
          /\ UuidsIn(xrsr, awaited', msgq')
      BY <1>6, ConfigureEffect
    <2> QED BY <1>1, IInvIsNext, <2>1
  <1> QED BY <1>2, <1>3, <1>4, <1>5, <1>6, Steps

\* xrsr_open's first route table is queued, and nothing else has happened.
LEMMA InitInv ==
    ASSUME Init
    PROVE  IInv
  <1>1. PICK table \in RouteTables :
          msgq = <<[type |-> "ROUTE_UPDATE", table |-> table]>>
    BY DEF Init
  <1> DEFINE m == [type |-> "ROUTE_UPDATE", table |-> table]
  <1>2. m \in Messages /\ ~IsConfig(m)
    BY DEF Messages, IsConfig
  <1>3. QueueOK(msgq) /\ Once(msgq) /\ Answered(msgq) = {}
    <2> HIDE DEF m
    <2>1. msgq = <<m>> BY <1>1 DEF m
    <2>2. /\ msgq \in Seq(Messages) /\ Len(msgq) = 1
          /\ DOMAIN msgq = {1} /\ msgq[1] = m
      BY <1>2, <2>1
    <2> QED BY <1>2, <2>2, RouterAssumption DEF QueueOK, Once, Answered, IsConfig
  <1>4. /\ xrsr \in XrsrType /\ xrsr.audio = AudioInit
        /\ \A g \in Groups : xrsr.session[g].src = None
        /\ \A s \in Sources : /\ xrsr.dst[s].phase = "idle"
                              /\ xrsr.dst[s].uuid = None
                              /\ xrsr.dst[s].audio_src = None
    BY InitSound DEF Init, XrsrType, SessionType, DstType, Phases, Sound
  <1>5. Well(xrsr)
    BY <1>4, InitSound DEF Well, ExclusiveIn, GroupedIn, IdleSourceIn, Sound
  <1>6. awaited = [s \in Sources |-> None] /\ caller = Blocked
    BY DEF Init
  <1>7. UuidsIn(xrsr, awaited, msgq)
    BY <1>3, <1>4, <1>6 DEF UuidsIn, UuidAt
  <1> QED BY <1>3, <1>5, <1>6, <1>7, IInvIs

\* The invariant holds of every state of the router, for every set of sources,
\* every assignment of protocols to them and every limit of the queue.
THEOREM InvCorrect == Spec => []IInv
  <1>1. Init => IInv
    BY InitInv
  <1>2. IInv /\ [Next]_vars => IInv'
    BY NextInv
  <1> QED BY <1>1, <1>2, PTL DEF Spec

\* The router's data keep their types; no step of any thread, in any order,
\* queues more messages than max_msg.
THEOREM TypeCorrect == Spec => []TypeOK
  <1>1. IInv => TypeOK
    BY DEF IInv
  <1> QED BY <1>1, InvCorrect, PTL

\* Of the sources of a group only the one that has the session is connected,
\* to its own destination, whose route is in place: xrsr_msg_session_begin
\* takes a group only when it has no session, and xrsr_session_end releases
\* one only when its destination is idle.
THEOREM ExclusiveCorrect == Spec => []Exclusive
  <1>1. IInv => Exclusive
    BY DEF IInv
  <1> QED BY <1>1, InvCorrect, PTL

\* Whatever fails or is revoked meanwhile, and whichever calls the library
\* refuses, the audio object knows whether the device is open, whether the
\* detector may run, and which streams the library has: xrsr_xraudio_stream_end
\* and xrsr_xraudio_device_close clear "active" exactly with the stream.
THEOREM DeviceCorrect == Spec => []DeviceTruth
  <1>1. IInv => DeviceTruth
    BY DEF IInv
  <1> QED BY <1>1, InvCorrect, PTL

-----------------------------------------------------------------------------
(* A session starts only with its configuration.                           *)

\* A WebSocket or HTTP destination leaves idle only by the configuration that
\* xrsr_msg_session_config_in takes off the queue, whose uuid is that of the
\* destination's latest session and is owed by nobody any more.
THEOREM ConfiguredOnceCorrect == Spec => ConfiguredOnce
  <1>1. IInv /\ [Next]_vars =>
          [\A s \in Sources :
             Protocol[s] # "SDT"
             /\ xrsr.dst[s].phase = "idle" /\ xrsr'.dst[s].phase # "idle"
             => /\ awaited[s] = None
                /\ Head(msgq).type = "SESSION_CONFIG_IN"
                /\ Head(msgq).uuid = xrsr.dst[s].uuid]_vars
    <2> SUFFICES ASSUME IInv, [Next]_vars, NEW s \in Sources,
                        Protocol[s] # "SDT",
                        xrsr.dst[s].phase = "idle", xrsr'.dst[s].phase # "idle"
                 PROVE  /\ awaited[s] = None
                        /\ Head(msgq).type = "SESSION_CONFIG_IN"
                        /\ Head(msgq).uuid = xrsr.dst[s].uuid
      OBVIOUS
    <2>1. CASE Calm
      BY <2>1 DEF Calm, Stops
    <2>2. CASE \E src \in Sources :
                 /\ StartStream(src) \/ EndStream(src)
                 /\ UNCHANGED <<msgq, awaited, caller>>
      <3>1. PICK src \in Sources : StartStream(src) \/ EndStream(src)
        BY <2>2
      <3>2. s # src
        BY <3>1 DEF StartStream, EndStream
      <3>3. Well(xrsr)
        BY IInvIs
      <3> QED BY <3>1, <3>2, <3>3, StartStreamEffect, EndStreamEffect
              DEF OnlyDst, Drains
    <2>3. CASE SessionBegin /\ BeginSession(Head(msgq).src)
      <3> DEFINE src == Head(msgq).src
      <3>1. src \in Sources
        BY <2>3, PopFewer DEF SessionBegin
      <3>2. SessionTaken(src)
        BY <2>3, <3>1, BeginSessionEffect
      <3> HIDE DEF src
      <3>3. PICK n : /\ Takes(xrsr, n, src)
                     /\ \/ xrsr' = n
                        \/ /\ Protocol[src] = "SDT"
                           /\ Frees(n, xrsr', src) \/ Begins(n, xrsr', src)
        BY <3>2 DEF SessionTaken
      <3>4. n.dst[s].phase = xrsr.dst[s].phase
        BY <3>1, <3>3 DEF Takes
      <3> QED BY <3>1, <3>3, <3>4 DEF Frees, Begins
    <2>4. CASE Answers
      <3> DEFINE src == xrsr.session[Group(Head(msgq).src)].src
      <3>1. /\ src \in Sources /\ awaited[src] = None
            /\ xrsr' = xrsr \/ Frees(xrsr, xrsr', src) \/ Begins(xrsr, xrsr', src)
        BY <2>4, SessionConfigInEffect DEF Answers
      <3>2. /\ Head(msgq).type = "SESSION_CONFIG_IN"
            /\ xrsr.dst[src].uuid = Head(msgq).uuid
        BY <2>4 DEF Answers, SessionConfigIn, Pop, IsAnswer
      <3> HIDE DEF src
      <3>3. s = src
        BY <3>1 DEF Frees, Begins
      <3> QED BY <3>1, <3>2, <3>3
    <2>5. CASE \E src \in Sources : Configure(src)
      BY <2>5 DEF Configure
    <2> QED BY <2>1, <2>2, <2>3, <2>4, <2>5, Steps
  <1> QED BY <1>1, InvCorrect, PTL DEF Spec, ConfiguredOnce

-----------------------------------------------------------------------------
(* The pipe of a group.                                                    *)

OwnedAt(x, g) ==
    LET session == x.session[g]
        audio == x.audio
        phase == x.dst[session.src].phase
    IN  /\ session.pipe = ~session.first_stream_req
        /\ audio.active[g] => session.pipe \/ audio.refused[g]
        /\ session.src # None =>
             /\ phase \in {"opening", "streaming"} => session.pipe
             /\ phase = "draining" => ~session.pipe
        /\ session.pipe /\ ~ZeroReleases(g) =>
             /\ session.src # None
             /\ phase = "idle" => Protocol[session.src] = "HTTP"
             /\ audio.active[g] => audio.streaming[g] = session.src

OwnedIn(x) == \A g \in Groups : OwnedAt(x, g)

\* StreamOwned says OwnedIn of the router's own data.
LEMMA OwnedIs == StreamOwned <=> OwnedIn(xrsr)
  BY DEF StreamOwned, OwnedIn, OwnedAt

\* The source that has the session of another group is another one.
LEMMA OtherGroup ==
    ASSUME NEW x, Well(x), NEW src \in Sources, NEW h \in Groups \ {Group(src)},
           x.session[h].src # None
    PROVE  x.session[h].src \in Sources \ {src}
  BY XrsrFields DEF Well, GroupedIn

\* A session that ends takes its pipe along, or has none any more.
LEMMA StopsOwned ==
    ASSUME NEW x, Well(x), OwnedIn(x), NEW y, Stops(x, y)
    PROVE  OwnedIn(y)
  <1> SUFFICES ASSUME NEW g \in Groups
               PROVE  OwnedAt(y, g)
    BY DEF OwnedIn
  <1>0. OwnedAt(x, g)
    BY DEF OwnedIn
  <1>1. /\ y.audio.active[g] =>
             /\ x.audio.active[g]
             /\ y.audio.streaming[g] = x.audio.streaming[g]
             /\ x.audio.refused[g] => y.audio.refused[g]
        /\ Same(x, y, g) \/ Over(x, y, g)
    BY DEF Stops, Quieter
  <1>2. CASE Same(x, y, g)
    <2>1. /\ y.session[g] = x.session[g]
          /\ x.session[g].src # None =>
               y.dst[x.session[g].src].phase = x.dst[x.session[g].src].phase
      BY <1>2 DEF Same
    <2> QED BY <1>0, <1>1, <2>1 DEF OwnedAt
  <1>3. CASE Over(x, y, g)
    <2>1. y.session[g].src = None
      BY <1>3 DEF Over
    <2>2. /\ y.session[g].pipe = FALSE /\ y.session[g].first_stream_req = TRUE
          /\ y.audio.active[g] => y.audio.refused[g]
      <3>1. \A z \in {x, y} : /\ z.session[g].pipe \in BOOLEAN
                              /\ z.session[g].first_stream_req \in BOOLEAN
        BY XrsrFields DEF Well, Stops
      <3>2. CASE x.dst[x.session[g].src].phase = "draining"
        BY <1>0, <1>1, <1>3, <3>1, <3>2 DEF Over, OwnedAt
      <3>3. CASE x.dst[x.session[g].src].phase # "draining"
        BY <1>3, <3>1, <3>3 DEF Over
      <3> QED BY <3>2, <3>3
    <2> QED BY <2>1, <2>2 DEF OwnedAt
  <1> QED BY <1>1, <1>2, <1>3

\* A pipe is made for the destination that connects; HTTP may stay idle.
LEMMA BeginsOwned ==
    ASSUME NEW x, Well(x), OwnedIn(x), NEW src \in Sources,
           x.session[Group(src)].src = src, NEW y, Well(y), Begins(x, y, src)
    PROVE  OwnedIn(y)
  <1> DEFINE g == Group(src)
  <1>0. g \in Groups /\ src # None /\ OwnedAt(x, g)
    BY GroupIn, AudioAssumption DEF OwnedIn
  <1>1. ASSUME NEW h \in Groups \ {g}
        PROVE  /\ y.session[h] = x.session[h]
               /\ y.audio.active[h] = x.audio.active[h]
               /\ y.audio.streaming[h] = x.audio.streaming[h]
               /\ y.audio.refused[h] = x.audio.refused[h]
               /\ x.session[h].src # None =>
                    y.dst[x.session[h].src] = x.dst[x.session[h].src]
    BY OtherGroup DEF Begins, BegunIn
  <1>2. /\ y.session[g].src = src
        /\ y.session[g].pipe = ~y.session[g].first_stream_req
        /\ y.session[g].pipe
    <2>1. \A z \in {x, y} : /\ z.session[g].pipe \in BOOLEAN
                            /\ z.session[g].first_stream_req \in BOOLEAN
      BY <1>0, XrsrFields DEF Well
    <2>2. x.session[g].pipe = ~x.session[g].first_stream_req
      BY <1>0 DEF OwnedAt
    <2> QED BY <2>1, <2>2 DEF Begins, BegunIn
  <1>3. \/ y.dst[src].phase = "opening"
        \/ y.dst[src].phase = "idle" /\ Protocol[src] = "HTTP"
    BY DEF Begins
  <1>4. ~ZeroReleases(g) /\ y.audio.active[g] => y.audio.streaming[g] = src
    <2>1. x.session[g].first_stream_req => y.audio.streaming[g] = src
      BY DEF Begins, BegunIn
    <2>2. ~x.session[g].first_stream_req =>
            x.session[g].pipe /\ y.audio = x.audio
      BY <1>0, XrsrFields DEF Begins, BegunIn, OwnedAt, Well
    <2>3. ~ZeroReleases(g) /\ x.session[g].pipe /\ x.audio.active[g] =>
            x.audio.streaming[g] = src
      BY <1>0 DEF OwnedAt
    <2> QED BY <2>1, <2>2, <2>3
  <1> HIDE DEF g
  <1>5. OwnedAt(y, g)
    BY <1>0, <1>2, <1>3, <1>4 DEF OwnedAt
  <1>6. ASSUME NEW h \in Groups \ {g} PROVE OwnedAt(y, h)
    <2>1. OwnedAt(x, h)
      BY DEF OwnedIn
    <2> QED BY <1>1, <2>1 DEF OwnedAt
  <1> QED BY <1>5, <1>6 DEF OwnedIn

\* Source 0's session has no pipe when another destination releases it, but
\* for the protocols of ZeroReleases.
LEMMA FreesOwned ==
    ASSUME NEW x, OwnedIn(x), NEW src \in Sources,
           x.session[Group(src)].src = src, NEW y, Frees(x, y, src)
    PROVE  OwnedIn(y)
  <1>1. /\ x.session["DEFAULT"].src = "RCU_PTT" /\ "RCU_PTT" # None
        /\ x.dst["RCU_PTT"].phase = "idle" /\ "RCU_PTT" \in Sources
        /\ Protocol[src] = "SDT"
    BY AudioAssumption DEF Frees
  <1>2. Protocol["RCU_PTT"] # "HTTP" \/ ZeroReleases("DEFAULT")
    <2>1. CASE src = "MICROPHONE_TAP"
      BY <1>1, <2>1 DEF ZeroReleases
    <2>2. CASE src # "MICROPHONE_TAP"
      BY <1>1, <2>2 DEF Group
    <2> QED BY <2>1, <2>2
  <1>3. OwnedAt(x, "DEFAULT") /\ OwnedAt(x, "MIC_TAP")
    BY DEF OwnedIn, Groups
  <1>4. x.session["DEFAULT"].pipe => ZeroReleases("DEFAULT")
    BY <1>1, <1>2, <1>3 DEF OwnedAt
  <1>5. OwnedAt(y, "DEFAULT")
    BY <1>3, <1>4 DEF OwnedAt, Frees
  <1>6. OwnedAt(y, "MIC_TAP")
    BY <1>3 DEF OwnedAt, Frees
  <1> QED BY <1>5, <1>6 DEF OwnedIn, Groups

\* A session that is taken has no stream of its own yet, and its destination is
\* idle.
LEMMA TakesOwned ==
    ASSUME NEW x, Well(x), OwnedIn(x), NEW src \in Sources,
           NEW n, Takes(x, n, src)
    PROVE  OwnedIn(n) /\ n.dst[src].phase = "idle"
  <1> DEFINE g == Group(src)
  <1>0. g \in Groups /\ src # None
    BY GroupIn, AudioAssumption
  <1>1. ASSUME NEW h \in Groups \ {g}
        PROVE  /\ n.session[h] = x.session[h]
               /\ n.audio = x.audio
               /\ x.session[h].src # None =>
                    n.dst[x.session[h].src] = x.dst[x.session[h].src]
    BY OtherGroup DEF Takes
  <1>2. /\ n.session[g].src = src /\ n.audio = x.audio
        /\ n.session[g].pipe = x.session[g].pipe
        /\ n.session[g].first_stream_req = x.session[g].first_stream_req
        /\ x.session[g].src = None
    BY DEF Takes
  <1>3. n.dst[src].phase = "idle"
    <2>1. x.dst[src].phase = "idle"
      BY <1>0, <1>2 DEF Well, ExclusiveIn
    <2> QED BY <2>1 DEF Takes
  <1>4. /\ n.session[g].pipe = ~n.session[g].first_stream_req
        /\ n.audio.active[g] => n.session[g].pipe \/ n.audio.refused[g]
        /\ n.session[g].pipe => ZeroReleases(g)
    BY <1>0, <1>2 DEF OwnedIn, OwnedAt
  <1>5. OwnedAt(n, g)
    BY <1>0, <1>2, <1>3, <1>4 DEF OwnedAt
  <1>6. ASSUME NEW h \in Groups \ {g} PROVE OwnedAt(n, h)
    <2>1. OwnedAt(x, h)
      BY DEF OwnedIn
    <2> QED BY <1>1, <2>1 DEF OwnedAt
  <1> QED BY <1>3, <1>5, <1>6 DEF OwnedIn

\* Every step keeps the account of the pipes.
LEMMA NextOwned ==
    ASSUME IInv, OwnedIn(xrsr), [Next]_vars
    PROVE  OwnedIn(xrsr')
  <1>0. Well(xrsr)
    BY IInvIs
  <1>1. CASE Calm
    BY <1>0, <1>1, StopsOwned DEF Calm
  <1>2. ASSUME NEW src \in Sources, StartStream(src)
        PROVE  OwnedIn(xrsr')
    <2>1. /\ xrsr.session[Group(src)].src = src
          /\ xrsr.dst[src].phase = "opening"
      BY <1>0, <1>2 DEF StartStream, Well, ExclusiveIn
    <2>2. /\ xrsr'.session = xrsr.session /\ xrsr'.audio = xrsr.audio
          /\ \A t \in Sources : t # src => xrsr'.dst[t] = xrsr.dst[t]
          /\ xrsr'.dst[src].phase = "streaming"
      BY <1>0, <1>2, StartStreamEffect DEF OnlyDst
    <2>3. \A g \in Groups : xrsr.session[g].src \in Sources \cup {None}
      BY <1>0, XrsrFields DEF Well
    <2> QED BY <2>1, <2>2, <2>3 DEF OwnedIn, OwnedAt
  <1>3. ASSUME NEW src \in Sources, EndStream(src)
        PROVE  OwnedIn(xrsr')
    <2> DEFINE g == Group(src)
    <2>1. /\ g \in Groups /\ src # None /\ xrsr.session[g].src = src
      BY <1>0, <1>3, GroupIn, AudioAssumption DEF EndStream, Well, ExclusiveIn
    <2>2. Drains(xrsr, xrsr', src) /\ Well(xrsr')
      BY <1>0, <1>3, EndStreamEffect
    <2>3. ASSUME NEW h \in Groups \ {g}
          PROVE  /\ xrsr'.session[h] = xrsr.session[h]
                 /\ xrsr'.audio.active[h] =>
                      /\ xrsr.audio.active[h]
                      /\ xrsr'.audio.streaming[h] = xrsr.audio.streaming[h]
                      /\ xrsr.audio.refused[h] => xrsr'.audio.refused[h]
                 /\ xrsr.session[h].src # None =>
                      xrsr'.dst[xrsr.session[h].src] = xrsr.dst[xrsr.session[h].src]
      BY <1>0, <2>2, OtherGroup DEF Drains, Quieter
    <2>4. /\ xrsr'.session[g].src = src
          /\ xrsr'.session[g].pipe = ~xrsr'.session[g].first_stream_req
          /\ ~xrsr'.session[g].pipe
          /\ xrsr'.audio.active[g] => xrsr'.audio.refused[g]
          /\ xrsr'.dst[src].phase = "draining"
      <3>1. /\ xrsr'.session[g].pipe \in BOOLEAN
            /\ xrsr'.session[g].first_stream_req \in BOOLEAN
        BY <2>1, <2>2, XrsrFields DEF Well
      <3> QED BY <2>1, <2>2, <3>1 DEF Drains
    <2> HIDE DEF g
    <2>5. OwnedAt(xrsr', g)
      BY <2>1, <2>4 DEF OwnedAt
    <2>6. ASSUME NEW h \in Groups \ {g} PROVE OwnedAt(xrsr', h)
      <3>1. OwnedAt(xrsr, h)
        BY DEF OwnedIn
      <3> QED BY <2>3, <3>1 DEF OwnedAt
    <2> QED BY <2>5, <2>6 DEF OwnedIn
  <1>4. CASE SessionBegin /\ BeginSession(Head(msgq).src)
    <2> DEFINE src == Head(msgq).src
    <2>1. src \in Sources
      BY <1>4, PopFewer DEF SessionBegin
    <2>2. SessionTaken(src) /\ Well(xrsr')
      BY <1>4, <2>1, BeginSessionEffect
    <2> HIDE DEF src
    <2>3. PICK n : /\ Well(n) /\ Takes(xrsr, n, src)
                   /\ \/ xrsr' = n
                      \/ Frees(n, xrsr', src) \/ Begins(n, xrsr', src)
      BY <2>2 DEF SessionTaken
    <2>4. OwnedIn(n) /\ n.session[Group(src)].src = src
      BY <1>0, <2>1, <2>3, TakesOwned DEF Takes
    <2> QED BY <2>1, <2>2, <2>3, <2>4, FreesOwned, BeginsOwned
  <1>5. CASE Answers
    <2>1. PICK src \in Sources :
            /\ xrsr.session[Group(src)].src = src /\ Well(xrsr')
            /\ \/ xrsr' = xrsr \/ Frees(xrsr, xrsr', src)
               \/ Begins(xrsr, xrsr', src)
      BY <1>5, SessionConfigInEffect DEF Answers
    <2> QED BY <1>0, <2>1, FreesOwned, BeginsOwned
  <1>6. CASE \E src \in Sources : Configure(src)
    BY <1>6 DEF Configure
  <1> QED BY <1>1, <1>2, <1>3, <1>4, <1>5, <1>6, Steps

\* There is no pipe at first.
LEMMA InitOwned ==
    ASSUME Init
    PROVE  OwnedIn(xrsr)
  <1>1. /\ xrsr.audio = AudioInit
        /\ \A g \in Groups : /\ xrsr.session[g].src = None
                             /\ xrsr.session[g].pipe = FALSE
                             /\ xrsr.session[g].first_stream_req = TRUE
    BY DEF Init
  <1>2. \A g \in Groups : AudioInit.active[g] = FALSE
    BY DEF AudioInit
  <1> QED BY <1>1, <1>2 DEF OwnedIn, OwnedAt

\* The pipe of a group is there exactly while its stream is requested, and for
\* a destination that will end it; what is recorded is recorded for it, or goes
\* on because the library refused to stop it.  xrsr_speech_stream_begin and
\* _end keep the account on every path, also when the device is lost, the power
\* mode changes, the session is terminated in between or the stream's stop
\* fails.
THEOREM StreamCorrect == Spec => []StreamOwned
  <1>1. Init => StreamOwned
    BY InitOwned, OwnedIs
  <1>2. IInv /\ StreamOwned /\ [Next]_vars => StreamOwned'
    <2> SUFFICES ASSUME IInv, StreamOwned, [Next]_vars PROVE StreamOwned' OBVIOUS
    <2>1. OwnedIn(xrsr')
      BY NextOwned, OwnedIs
    <2>2. (StreamOwned <=> OwnedIn(xrsr))'
      BY OwnedIs, PTL
    <2> QED BY <2>1, <2>2
  <1> QED BY <1>1, <1>2, InvCorrect, PTL DEF Spec

-----------------------------------------------------------------------------
(* The refinement of Microphone.                                           *)

\* The library records a stream of group g in x.
Records(x, g) == x.audio.streaming[g] # None /\ ~x.audio.halted[g]

\* Where the audio path of group g is in x, as path says of xrsr.
StageIn(x, g) ==
    LET session == x.session[g]
    IN  IF Records(x, g) /\ ~x.audio.refused[g] THEN "recording"
        ELSE IF session.src = None THEN "free"
        ELSE IF session.pipe \/ x.dst[session.src].phase # "idle"
        THEN "recorded"
        ELSE "taken"

At(x, g) == [src |-> x.session[g].src, stage |-> StageIn(x, g),
             stuck |-> Records(x, g) /\ x.audio.refused[g]]

\* A path that is at a may go to b, which has this source and stage.
Reaches(a, b, src, to) ==
    \E stuck \in BOOLEAN :
      /\ b = [src |-> src, stage |-> to, stuck |-> stuck]
      /\ stuck => to # "recording" /\ (a.stuck \/ a.stage = "recording")

\* A path that is at a and then at b has done one step of Microphone.
Moves(a, b, g) ==
    \/ /\ a.stage = "free"
       /\ \E src \in {s \in Sources : Group(s) = g},
             to \in {"taken", "recording"} : Reaches(a, b, src, to)
    \/ a.stage = "taken" /\ Reaches(a, b, a.src, "recording")
    \/ a.stage = "recording" /\ Reaches(a, b, a.src, "recorded")
    \/ a.stage # "free" /\ Reaches(a, b, None, "free")
    \/ Reaches(a, b, a.src, a.stage)

\* A path has one of Microphone's stages.
LEMMA AtTyped ==
    ASSUME NEW x, Well(x), NEW g \in Groups
    PROVE  /\ At(x, g) \in [src : Sources \cup {None}, stage : Mic!Stages,
                            stuck : BOOLEAN]
           /\ At(x, g).stuck => At(x, g).stage # "recording"
  BY XrsrFields, Fields DEF Well, At, StageIn, Records, Mic!Stages

\* Staying where one is, is a step.
LEMMA Stays ==
    ASSUME NEW x, Well(x), NEW g \in Groups
    PROVE  Moves(At(x, g), At(x, g), g)
  BY AtTyped DEF Moves, Reaches, At

\* A path goes on to any stage but a recording that is stuck.
LEMMA ReachesAt ==
    ASSUME NEW x, NEW y, Well(x), Well(y), NEW g \in Groups,
           At(y, g).stuck => At(x, g).stuck \/ At(x, g).stage = "recording"
    PROVE  Reaches(At(x, g), At(y, g), y.session[g].src, StageIn(y, g))
  BY AtTyped DEF Reaches, At

\* A group without a session has a free path: nothing is recorded for nobody,
\* but for what the library would not stop.
LEMMA FreeAt ==
    ASSUME NEW x, Well(x), OwnedIn(x), NEW g \in Groups, ~ZeroReleases(g)
    PROVE  /\ At(x, g).stage = "free" <=> x.session[g].src = None
           /\ At(x, g).src = x.session[g].src
           /\ At(x, g).stage = "recording" =>
                x.session[g].pipe /\ x.session[g].src # None
  <1>1. Records(x, g) /\ ~x.audio.refused[g] =>
          x.session[g].pipe /\ x.session[g].src # None
    BY DEF Records, Well, Truthful, OwnedIn, OwnedAt
  <1> QED BY <1>1 DEF At, StageIn

\* Calls that begin nothing record nothing that was not recorded before, and
\* forget no refusal.
LEMMA QuieterRecords ==
    ASSUME NEW x, NEW y, Well(y), Quieter(x.audio, y.audio), NEW g \in Groups
    PROVE  /\ Records(y, g) => Records(x, g)
           /\ Records(y, g) /\ x.audio.refused[g] => y.audio.refused[g]
           /\ At(y, g).stuck => At(x, g).stuck \/ At(x, g).stage = "recording"
  <1>1. /\ Records(y, g) => Records(x, g)
        /\ Records(y, g) /\ x.audio.refused[g] => y.audio.refused[g]
    BY DEF Records, Quieter, Well, Truthful
  <1> QED BY <1>1 DEF At, StageIn

\* A session that goes on while streams may end stops recording, or goes on.
LEMMA SameMoves ==
    ASSUME NEW x, Well(x), OwnedIn(x), NEW y, Well(y),
           Quieter(x.audio, y.audio),
           NEW g \in Groups, ~ZeroReleases(g), Same(x, y, g)
    PROVE  Moves(At(x, g), At(y, g), g)
  <1>1. Reaches(At(x, g), At(y, g), y.session[g].src, StageIn(y, g))
    BY QuieterRecords, ReachesAt
  <1>2. y.session[g].src = At(x, g).src
    BY DEF Same, At
  <1>3. \/ StageIn(y, g) = At(x, g).stage
        \/ At(x, g).stage = "recording" /\ StageIn(y, g) = "recorded"
    <2>1. CASE At(x, g).stage = "recording"
      BY <2>1, FreeAt DEF Same, StageIn
    <2>2. CASE At(x, g).stage # "recording"
      <3>1. ~(Records(y, g) /\ ~y.audio.refused[g])
        BY <2>2, QuieterRecords DEF At, StageIn
      <3> QED BY <2>2, <3>1 DEF Same, At, StageIn
    <2> QED BY <2>1, <2>2
  <1> QED BY <1>1, <1>2, <1>3 DEF Moves

\* When sessions and streams end, a path is released, stopped or left alone.
LEMMA StopsMoves ==
    ASSUME NEW x, Well(x), OwnedIn(x), NEW y, OwnedIn(y), Stops(x, y),
           NEW g \in Groups, ~ZeroReleases(g)
    PROVE  Moves(At(x, g), At(y, g), g)
  <1>1. /\ Well(y) /\ Quieter(x.audio, y.audio)
        /\ Same(x, y, g) \/ Over(x, y, g)
    BY DEF Stops
  <1>2. CASE Over(x, y, g)
    <2>1. /\ At(x, g).stage # "free"
          /\ y.session[g].src = None /\ StageIn(y, g) = "free"
      BY <1>1, <1>2, FreeAt DEF Over, At
    <2>2. Reaches(At(x, g), At(y, g), None, "free")
      BY <1>1, <2>1, QuieterRecords, ReachesAt
    <2> QED BY <2>1, <2>2 DEF Moves
  <1> QED BY <1>1, <1>2, SameMoves

\* A group whose session, stream and destination stay as they are.
LEMMA StaysAt ==
    ASSUME NEW x, NEW y, NEW g \in Groups,
           y.session[g] = x.session[g],
           y.audio.streaming[g] = x.audio.streaming[g],
           y.audio.halted[g] = x.audio.halted[g],
           y.audio.refused[g] = x.audio.refused[g],
           x.session[g].src # None =>
             y.dst[x.session[g].src].phase = x.dst[x.session[g].src].phase
    PROVE  At(y, g) = At(x, g)
  BY DEF At, StageIn, Records

\* A stream begins once in a session: before, its path was taken; a stream
\* that was requested already keeps its path where it is.
LEMMA BeginsMoves ==
    ASSUME NEW x, Well(x), OwnedIn(x), NEW src \in Sources,
           x.session[Group(src)].src = src, x.dst[src].phase = "idle",
           NEW y, Begins(x, y, src), NEW g \in Groups, ~ZeroReleases(g)
    PROVE  /\ Moves(At(x, g), At(y, g), g)
           /\ g # Group(src) => At(y, g) = At(x, g)
           /\ g = Group(src) /\ x.session[g].first_stream_req =>
                At(y, g) = [src |-> src, stage |-> "recording", stuck |-> FALSE]
  <1>0. src # None
    BY AudioAssumption
  <1>1. CASE g # Group(src)
    <2>1. /\ y.session[g] = x.session[g]
          /\ y.audio.streaming[g] = x.audio.streaming[g]
          /\ y.audio.halted[g] = x.audio.halted[g]
          /\ y.audio.refused[g] = x.audio.refused[g]
          /\ x.session[g].src # None =>
               y.dst[x.session[g].src].phase = x.dst[x.session[g].src].phase
      BY <1>1, OtherGroup DEF Begins, BegunIn
    <2> QED BY <1>1, <2>1, StaysAt, Stays
  <1>2. CASE g = Group(src) /\ x.session[g].first_stream_req
    <2>1. At(x, g).src = src /\ At(x, g).stage = "taken"
      <3>1. ~x.session[g].pipe
        BY <1>2 DEF OwnedIn, OwnedAt
      <3>2. At(x, g).stage # "recording"
        BY <3>1, FreeAt
      <3> QED BY <1>0, <1>2, <3>1, <3>2 DEF At, StageIn
    <2>2. At(y, g) = [src |-> src, stage |-> "recording", stuck |-> FALSE]
      BY <1>0, <1>2 DEF At, StageIn, Records, Begins, BegunIn
    <2> QED BY <1>2, <2>1, <2>2 DEF Moves, Reaches
  <1>3. CASE g = Group(src) /\ ~x.session[g].first_stream_req
    <2>1. x.session[g].pipe /\ y.session[g] = x.session[g] /\ y.audio = x.audio
      BY <1>3, XrsrFields DEF OwnedIn, OwnedAt, Begins, BegunIn, Well
    <2>2. At(y, g) = At(x, g)
      BY <1>0, <1>3, <2>1 DEF At, StageIn, Records
    <2> QED BY <1>3, <2>2, Stays
  <1> QED BY <1>1, <1>2, <1>3

\* Source 0's session is released, its path with it.
LEMMA FreesMoves ==
    ASSUME NEW x, Well(x), OwnedIn(x), NEW src \in Sources,
           NEW y, Well(y), OwnedIn(y), Frees(x, y, src),
           NEW g \in Groups, ~ZeroReleases(g)
    PROVE  /\ Moves(At(x, g), At(y, g), g)
           /\ g = "DEFAULT" => At(y, g) = [src |-> None, stage |-> "free",
                                           stuck |-> At(x, g).stuck]
           /\ g # "DEFAULT" => At(y, g) = At(x, g)
  <1>1. CASE g = "DEFAULT"
    <2>1. At(x, g).stage # "free"
      BY <1>1, FreeAt, AudioAssumption DEF Frees
    <2>2. At(y, g) = [src |-> None, stage |-> "free", stuck |-> At(x, g).stuck]
      <3>1. y.session[g].src = None /\ StageIn(y, g) = "free"
        BY <1>1, FreeAt DEF Frees, At
      <3>2. At(y, g).stuck = At(x, g).stuck
        BY DEF Frees, At, Records
      <3> QED BY <3>1, <3>2 DEF At
    <2>3. Reaches(At(x, g), At(y, g), None, "free")
      BY <2>2, AtTyped DEF Reaches
    <2> QED BY <1>1, <2>1, <2>2, <2>3 DEF Moves
  <1>2. CASE g # "DEFAULT"
    <2>1. g = "MIC_TAP"
      BY <1>2 DEF Groups
    <2>2. At(y, g) = At(x, g)
      BY <2>1, StaysAt DEF Frees
    <2> QED BY <1>2, <2>2, Stays
  <1> QED BY <1>1, <1>2

\* The group of src was free, and is taken; the other one stays.
LEMMA TakesAt ==
    ASSUME NEW x, Well(x), OwnedIn(x), NEW src \in Sources,
           NEW n, Well(n), Takes(x, n, src), NEW g \in Groups, ~ZeroReleases(g)
    PROVE  /\ g = Group(src) =>
                /\ At(x, g) = [src |-> None, stage |-> "free",
                               stuck |-> At(x, g).stuck]
                /\ At(n, g) = [src |-> src, stage |-> "taken",
                               stuck |-> At(x, g).stuck]
                /\ n.session[g].first_stream_req
           /\ g # Group(src) => At(n, g) = At(x, g)
  <1>1. CASE g = Group(src)
    <2>1. x.session[g].src = None /\ src # None
      BY <1>1, AudioAssumption DEF Takes
    <2>2. /\ At(x, g).stage = "free"
          /\ ~x.session[g].pipe /\ x.session[g].first_stream_req
      <3>1. x.session[g].pipe \in BOOLEAN /\ x.session[g].first_stream_req \in BOOLEAN
        BY XrsrFields DEF Well
      <3> QED BY <2>1, <3>1, FreeAt DEF OwnedIn, OwnedAt
    <2>3. /\ n.session[g].src = src /\ n.audio = x.audio
          /\ n.session[g].pipe = x.session[g].pipe
          /\ n.session[g].first_stream_req = x.session[g].first_stream_req
          /\ n.dst[src].phase = "idle"
      BY <1>1, TakesOwned DEF Takes
    <2>4. At(x, g) = [src |-> None, stage |-> "free", stuck |-> At(x, g).stuck]
      BY <2>1, <2>2 DEF At
    <2>5. At(n, g) = [src |-> src, stage |-> "taken", stuck |-> At(x, g).stuck]
      <3>1. ~(Records(x, g) /\ ~x.audio.refused[g])
        BY <2>2 DEF At, StageIn
      <3> QED BY <2>1, <2>2, <2>3, <3>1 DEF At, StageIn, Records
    <2> QED BY <1>1, <2>2, <2>3, <2>4, <2>5
  <1>2. CASE g # Group(src)
    <2>1. /\ n.session[g] = x.session[g] /\ n.audio = x.audio
          /\ x.session[g].src # None =>
               n.dst[x.session[g].src].phase = x.dst[x.session[g].src].phase
      BY <1>2, OtherGroup DEF Takes
    <2> QED BY <1>2, <2>1, StaysAt
  <1> QED BY <1>1, <1>2

\* Every step of every thread is, for each group, a step of its path.
LEMMA NextMoves ==
    ASSUME IInv, OwnedIn(xrsr), OwnedIn(xrsr'), [Next]_vars,
           NEW g \in Groups, ~ZeroReleases(g)
    PROVE  Moves(At(xrsr, g), At(xrsr', g), g)
  <1>0. Well(xrsr)
    BY IInvIs
  <1>1. CASE Calm
    BY <1>0, <1>1, StopsMoves DEF Calm
  <1>2. ASSUME NEW src \in Sources, StartStream(src)
        PROVE  Moves(At(xrsr, g), At(xrsr', g), g)
    <2>1. xrsr.dst[src].phase = "opening"
      BY <1>2 DEF StartStream
    <2>2. /\ xrsr'.session = xrsr.session /\ xrsr'.audio = xrsr.audio
          /\ \A t \in Sources : t # src => xrsr'.dst[t] = xrsr.dst[t]
          /\ xrsr'.dst[src].phase = "streaming"
      BY <1>0, <1>2, StartStreamEffect DEF OnlyDst
    <2>3. xrsr.session[g].src \in Sources \cup {None}
      BY <1>0, XrsrFields DEF Well
    <2>4. At(xrsr', g) = At(xrsr, g)
      BY <2>1, <2>2, <2>3 DEF At, StageIn, Records
    <2> QED BY <1>0, <2>4, Stays
  <1>3. ASSUME NEW src \in Sources, EndStream(src)
        PROVE  Moves(At(xrsr, g), At(xrsr', g), g)
    <2>1. /\ src # None /\ xrsr.session[Group(src)].src = src
          /\ xrsr.dst[src].phase \in {"opening", "streaming"}
      BY <1>0, <1>3, AudioAssumption DEF EndStream, Well, ExclusiveIn
    <2>2. Drains(xrsr, xrsr', src) /\ Well(xrsr')
      BY <1>0, <1>3, EndStreamEffect
    <2>3. CASE g = Group(src)
      <3>1. xrsr'.session[g].src = src /\ StageIn(xrsr', g) = "recorded"
        <4>1. ~(Records(xrsr', g) /\ ~xrsr'.audio.refused[g])
          BY <2>2, <2>3 DEF Records, Drains, Well, Truthful
        <4> QED BY <2>1, <2>2, <2>3, <4>1 DEF StageIn, Drains
      <3>2. /\ At(xrsr, g).src = src
            /\ At(xrsr, g).stage \in {"recording", "recorded"}
        BY <2>1, <2>3 DEF At, StageIn
      <3>3. Reaches(At(xrsr, g), At(xrsr', g), src, "recorded")
        <4>1. At(xrsr', g).stuck =>
                At(xrsr, g).stuck \/ At(xrsr, g).stage = "recording"
          BY <2>2, QuieterRecords DEF Drains
        <4> QED BY <1>0, <2>2, <3>1, <4>1, ReachesAt
      <3> QED BY <3>2, <3>3 DEF Moves
    <2>4. CASE g # Group(src)
      <3>1. Same(xrsr, xrsr', g)
        BY <1>0, <2>2, <2>4, OtherGroup DEF Drains, Same
      <3>2. Quieter(xrsr.audio, xrsr'.audio)
        BY <2>2 DEF Drains
      <3> QED BY <1>0, <2>2, <3>1, <3>2, SameMoves
    <2> QED BY <2>3, <2>4
  <1>4. CASE SessionBegin /\ BeginSession(Head(msgq).src)
    <2> DEFINE src == Head(msgq).src
    <2>1. src \in Sources
      BY <1>4, PopFewer DEF SessionBegin
    <2>2. SessionTaken(src) /\ Well(xrsr')
      BY <1>4, <2>1, BeginSessionEffect
    <2> HIDE DEF src
    <2>3. PICK n : /\ Well(n) /\ Takes(xrsr, n, src)
                   /\ \/ xrsr' = n
                      \/ /\ Protocol[src] = "SDT"
                         /\ n.dst[src].phase = "idle"
                         /\ Frees(n, xrsr', src) \/ Begins(n, xrsr', src)
      BY <2>2 DEF SessionTaken
    <2>4. OwnedIn(n) /\ n.session[Group(src)].src = src /\ Group(src) \in Groups
      BY <1>0, <2>1, <2>3, TakesOwned, GroupIn DEF Takes
    <2>5. /\ g = Group(src) =>
               /\ At(xrsr, g) = [src |-> None, stage |-> "free",
                                 stuck |-> At(xrsr, g).stuck]
               /\ At(n, g) = [src |-> src, stage |-> "taken",
                              stuck |-> At(xrsr, g).stuck]
               /\ n.session[g].first_stream_req
          /\ g # Group(src) => At(n, g) = At(xrsr, g)
      BY <1>0, <2>1, <2>3, TakesAt
    <2>6. At(xrsr, g).stuck \in BOOLEAN
      BY <1>0, AtTyped
    <2>7. CASE xrsr' = n
      <3>1. CASE g = Group(src)
        BY <2>1, <2>5, <2>6, <2>7, <3>1 DEF Moves, Reaches
      <3> QED BY <1>0, <2>5, <2>7, <3>1, Stays
    <2>8. CASE n.dst[src].phase = "idle" /\ Begins(n, xrsr', src)
      <3>1. /\ g # Group(src) => At(xrsr', g) = At(n, g)
            /\ g = Group(src) /\ n.session[g].first_stream_req =>
                 At(xrsr', g) =
                   [src |-> src, stage |-> "recording", stuck |-> FALSE]
        BY <2>1, <2>3, <2>4, <2>8, BeginsMoves
      <3>2. CASE g = Group(src)
        <4>1. Reaches(At(xrsr, g), At(xrsr', g), src, "recording")
          BY <2>5, <3>1, <3>2 DEF Reaches
        <4>2. At(xrsr, g).stage = "free"
          BY <2>5, <3>2
        <4> QED BY <2>1, <3>2, <4>1, <4>2 DEF Moves
      <3> QED BY <1>0, <2>5, <3>1, <3>2, Stays
    <2>9. CASE Frees(n, xrsr', src)
      <3>1. /\ g = "DEFAULT" => At(xrsr', g) = [src |-> None, stage |-> "free",
                                                stuck |-> At(n, g).stuck]
            /\ g # "DEFAULT" => At(xrsr', g) = At(n, g)
            /\ Moves(At(n, g), At(xrsr', g), g)
        BY <2>1, <2>2, <2>3, <2>4, <2>9, FreesMoves
      <3>2. CASE g = Group(src) /\ g = "DEFAULT"
        <4>1. At(xrsr', g) = At(xrsr, g)
          BY <2>5, <3>1, <3>2
        <4> QED BY <1>0, <4>1, Stays
      <3>3. CASE g = Group(src) /\ g # "DEFAULT"
        BY <2>1, <2>5, <2>6, <3>1, <3>3 DEF Moves, Reaches
      <3>4. CASE g # Group(src)
        BY <2>5, <3>1, <3>4
      <3> QED BY <3>2, <3>3, <3>4
    <2> QED BY <2>3, <2>7, <2>8, <2>9
  <1>5. CASE Answers
    <2>1. PICK src \in Sources :
            /\ xrsr.session[Group(src)].src = src /\ Well(xrsr')
            /\ xrsr.dst[src].phase = "idle"
            /\ \/ xrsr' = xrsr \/ Frees(xrsr, xrsr', src)
               \/ Begins(xrsr, xrsr', src)
      BY <1>5, SessionConfigInEffect DEF Answers
    <2>2. CASE xrsr' = xrsr
      BY <1>0, <2>2, Stays
    <2> QED BY <1>0, <2>1, <2>2, FreesMoves, BeginsMoves
  <1>6. CASE \E src \in Sources : Configure(src)
    <2>1. xrsr' = xrsr
      BY <1>6 DEF Configure
    <2> QED BY <1>0, <2>1, Stays
  <1> QED BY <1>1, <1>2, <1>3, <1>4, <1>5, <1>6, Steps

\* The groups that Microphone is about, and the path that it sees.
Paths == {g \in Groups : ~ZeroReleases(g)}

Path == [g \in {h \in Groups : ~ZeroReleases(h)} |->
           [src |-> xrsr.session[g].src, stage |-> stage[g],
            stuck |-> Recording(g) /\ xrsr.audio.refused[g]]]

\* Path, group by group.
LEMMA PathIs == Path = [g \in Paths |-> At(xrsr, g)]
  <1>1. ASSUME NEW g \in Paths
        PROVE  /\ stage[g] = StageIn(xrsr, g)
               /\ Recording(g) <=> Records(xrsr, g)
    BY DEF stage, StageIn, Paths, Recording, Records
  <1>2. ASSUME NEW g \in Paths
        PROVE  Path[g] = At(xrsr, g)
    <2> DEFINE k == Recording(g) /\ xrsr.audio.refused[g]
               l == Records(xrsr, g) /\ xrsr.audio.refused[g]
    <2>1. k = l
      BY <1>1
    <2>2. Path[g] = [src |-> xrsr.session[g].src, stage |-> stage[g],
                     stuck |-> k]
      BY DEF Path, Paths
    <2>3. At(xrsr, g) = [src |-> xrsr.session[g].src,
                         stage |-> StageIn(xrsr, g), stuck |-> l]
      BY DEF At
    <2> HIDE DEF k, l
    <2> QED BY <1>1, <2>1, <2>2, <2>3
  <1>3. Path = [g \in Paths |-> Path[g]]
    BY DEF Path, Paths
  <1> HIDE DEF Path
  <1> QED BY <1>2, <1>3

\* Each step of a path is one of Microphone's.
LEMMA MovesIs ==
    ASSUME NEW g \in Paths, Moves(Path[g], Path'[g], g)
    PROVE  \/ Mic!Take(g) \/ Mic!Record(g) \/ Mic!Stop(g) \/ Mic!Release(g)
           \/ Mic!Keep(g)
  <1>1. Mic!Take(g) <=>
          /\ Path[g].stage = "free"
          /\ \E src \in {s \in Sources : Group(s) = g},
                to \in {"taken", "recording"} :
               Reaches(Path[g], Path'[g], src, to)
    BY DEF Mic!Take, Mic!Goes, Reaches, Path, Paths
  <1>2. Mic!Record(g) <=>
          /\ Path[g].stage = "taken"
          /\ Reaches(Path[g], Path'[g], Path[g].src, "recording")
    BY DEF Mic!Record, Mic!Goes, Reaches, Path, Paths
  <1>3. Mic!Stop(g) <=>
          /\ Path[g].stage = "recording"
          /\ Reaches(Path[g], Path'[g], Path[g].src, "recorded")
    BY DEF Mic!Stop, Mic!Goes, Reaches, Path, Paths
  <1>4. Mic!Release(g) <=>
          /\ Path[g].stage # "free"
          /\ Reaches(Path[g], Path'[g], None, "free")
    BY DEF Mic!Release, Mic!Goes, Reaches, Path, Paths
  <1>5. Mic!Keep(g) <=>
          Reaches(Path[g], Path'[g], Path[g].src, Path[g].stage)
    BY DEF Mic!Keep, Mic!Goes, Reaches, Path, Paths
  <1> HIDE DEF Path
  <1> QED BY <1>1, <1>2, <1>3, <1>4, <1>5 DEF Moves

\* A microphone is recorded only for the session that has it, once in that
\* session, and is not recorded any more when the session is over, unless the
\* library refused to stop its stream: each step of the router, of a
\* destination, of the audio library and of the application is, in each group,
\* one step of Microphone or none.
THEOREM ContractCorrect == Spec => Contract
  <1>1. Init => Mic!Init
    <2> SUFFICES ASSUME Init PROVE Mic!Init OBVIOUS
    <2>1. IInv /\ OwnedIn(xrsr)
      BY InitInv, InitOwned
    <2>2. ASSUME NEW g \in Paths
          PROVE  At(xrsr, g) = [src |-> None, stage |-> "free", stuck |-> FALSE]
      <3>1. Well(xrsr) /\ xrsr.session[g].src = None /\ xrsr.audio = AudioInit
        BY <2>1, IInvIs DEF Init, Paths
      <3>2. ~Records(xrsr, g)
        BY <3>1 DEF Records, AudioInit, Paths
      <3> QED BY <2>1, <3>1, <3>2, FreeAt DEF At, StageIn, Paths
    <2> QED BY <2>2, PathIs DEF Path, Paths, Mic!Init, Mic!Free
  <1>2. IInv /\ StreamOwned /\ StreamOwned' /\ [Next]_vars => [Mic!Next]_Path
    <2> SUFFICES ASSUME IInv, StreamOwned, StreamOwned', [Next]_vars
                 PROVE  Mic!Next
      OBVIOUS
    <2>1. Path = [g \in Paths |-> At(xrsr, g)]
      BY PathIs
    <2>2. Path' = [g \in Paths |-> At(xrsr', g)]
      <3>1. (Path = [g \in Paths |-> At(xrsr, g)])'
        BY PathIs, PTL
      <3> QED BY <3>1
    <2>3. OwnedIn(xrsr) /\ OwnedIn(xrsr') /\ Well(xrsr')
      <3>1. (StreamOwned <=> OwnedIn(xrsr))' BY OwnedIs, PTL
      <3>2. IInv' BY NextInv
      <3> QED BY <3>1, <3>2, OwnedIs, IInvIsNext
    <2>4. Path' \in [Paths -> [src : Sources \cup {None}, stage : Mic!Stages,
                               stuck : BOOLEAN]]
      BY <2>2, <2>3, AtTyped DEF Paths
    <2>5. ASSUME NEW g \in Paths
          PROVE  \/ Mic!Take(g) \/ Mic!Record(g) \/ Mic!Stop(g)
                 \/ Mic!Release(g) \/ Mic!Keep(g)
      <3>1. Moves(Path[g], Path'[g], g)
        BY <2>1, <2>2, <2>3, NextMoves DEF Paths
      <3> QED BY <3>1, MovesIs
    <2> QED BY <2>4, <2>5 DEF Path, Paths, Mic!Next
  <1> QED BY <1>1, <1>2, InvCorrect, StreamCorrect, PTL
          DEF Spec, Contract, Mic!Spec, Path, Paths
=============================================================================
