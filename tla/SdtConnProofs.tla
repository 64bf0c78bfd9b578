---------------------------- MODULE SdtConnProofs ---------------------------
(***************************************************************************)
(* What holds of an SDT destination for every value of its constants: the  *)
(* types, the inductive invariant IInv of SdtConn, and from it the         *)
(* properties and the contract of every destination (Conn).                *)
(*                                                                         *)
(* One event off the queue is either dropped or a Move, whose lemma says   *)
(* what becomes of the fields the invariant is about, given what the       *)
(* tables of the state machine say of the event (Tables).                  *)
(***************************************************************************)
EXTENDS SdtConn, TLAPS

Reasons == [stream : StreamReasons, session : SessionReasons]

LEMMA NextStatesType ==
    ASSUME NEW s \in States, NEW e \in Events, e \in DOMAIN NextStates[s]
    PROVE  NextStates[s][e] \in States
  <1> USE DEF NextStates, Events
  <1>0. States = {"Disconnected", "Disconnecting", "Buffering", "Connecting",
                  "Connected", "Established", "Streaming"}
    BY DEF States
  <1>1. CASE s = "Disconnected" BY <1>0, <1>1
  <1>2. CASE s = "Disconnecting" BY <1>0, <1>2
  <1>3. CASE s = "Buffering" BY <1>0, <1>3
  <1>4. CASE s = "Connecting" BY <1>0, <1>4
  <1>5. CASE s = "Connected" BY <1>0, <1>5
  <1>6. CASE s = "Established" BY <1>0, <1>6
  <1>7. CASE s = "Streaming" BY <1>0, <1>7
  <1> QED BY <1>0, <1>1, <1>2, <1>3, <1>4, <1>5, <1>6, <1>7

\* EXIT of s.state on e sets the reasons; it ends the stream.
Tells(s, e) ==
    s.state \in DOMAIN ExitReasons(s) /\ e \in DOMAIN ExitReasons(s)[s.state]
Ends(s, e) == s.state = "Streaming" \/ (Tells(s, e) /\ s.state # "Established")

LEMMA ReasonsType ==
    ASSUME NEW s \in SdtType, NEW e, Tells(s, e)
    PROVE  ExitReasons(s)[s.state][e] \in Reasons
  <1> USE DEF SdtType, ExitReasons, Why, NotBegun, Reasons, StreamReasons,
              SessionReasons, Tells
  <1>1. CASE s.state = "Buffering" BY <1>1
  <1>2. CASE s.state = "Connecting" BY <1>2
  <1>3. CASE s.state = "Connected" BY <1>3
  <1>4. CASE s.state = "Established" BY <1>4
  <1>5. CASE s.state = "Streaming" BY <1>5
  <1>6. CASE s.state \notin {"Buffering", "Connecting", "Connected",
                             "Established", "Streaming"}
    BY <1>6
  <1> QED BY <1>1, <1>2, <1>3, <1>4, <1>5, <1>6

\* The fields that no EXIT action touches.
Kept(x, s) ==
    /\ x.state = s.state /\ x.session = s.session
    /\ x.sessionEnds = s.sessionEnds /\ x.leaked = s.leaked

\* The pipe ends that are open are the destination's and those forgotten.
Owned(s) == s.pipes = s.leaked + (IF s.audio_pipe THEN 1 ELSE 0)

LEMMA SetReasonsEffect ==
    ASSUME NEW s \in SdtType, NEW why \in Reasons
    PROVE  LET x == SetReasons(s, why)
           IN  /\ x \in SdtType
               /\ Kept(x, s)
               /\ x.streamEnds = s.streamEnds /\ x.audio_pipe = s.audio_pipe
               /\ x.pipes = s.pipes /\ x.fresh = TRUE
               /\ x.session_end_reason = why.session
               /\ x.msg_out = s.msg_out
  BY DEF SetReasons, Kept, SdtType, Reasons

LEMMA ClosePipeEffect ==
    ASSUME NEW s \in SdtType
    PROVE  LET x == ClosePipe(s)
           IN  /\ x \in SdtType
               /\ Kept(x, s)
               /\ x.streamEnds = s.streamEnds /\ x.audio_pipe = FALSE
               /\ Owned(s) => Owned(x)
               /\ x.fresh = s.fresh
               /\ x.session_end_reason = s.session_end_reason
               /\ x.msg_out = s.msg_out
  <1>1. CASE s.audio_pipe
    <2> DEFINE m == s.pipes - 1
               x == [s EXCEPT !.audio_pipe = FALSE, !.pipes = m]
    <2>1. \A n \in Int : [s EXCEPT !.audio_pipe = FALSE, !.pipes = n] \in SdtType
      BY DEF SdtType
    <2>2. s.pipes \in Int /\ s.leaked \in Int /\ m \in Int BY DEF SdtType
    <2>3. x \in SdtType
      <3> HIDE DEF m
      <3> QED BY <2>1, <2>2
    <2>4. /\ Kept(x, s) /\ x.streamEnds = s.streamEnds /\ x.audio_pipe = FALSE
          /\ x.pipes = s.pipes - 1 /\ x.leaked = s.leaked
          /\ x.fresh = s.fresh /\ x.session_end_reason = s.session_end_reason
          /\ x.msg_out = s.msg_out
      BY DEF Kept, SdtType
    <2>5. ClosePipe(s) = x BY <1>1 DEF ClosePipe
    <2> HIDE DEF x
    <2>6. Owned(s) => Owned(x) BY <1>1, <2>2, <2>4 DEF Owned
    <2> QED BY <2>3, <2>4, <2>5, <2>6
  <1>2. CASE ~s.audio_pipe
    <2>1. ClosePipe(s) = s /\ s.audio_pipe = FALSE
      BY <1>2 DEF ClosePipe, SdtType
    <2> QED BY <2>1 DEF Kept
  <1> QED BY <1>1, <1>2

LEMMA SpeechStreamEndEffect ==
    ASSUME NEW s \in SdtType
    PROVE  LET x == SpeechStreamEnd(s)
           IN  /\ x \in SdtType
               /\ Kept(x, s)
               /\ x.streamEnds = s.streamEnds + 1 /\ x.audio_pipe = FALSE
               /\ Owned(s) => Owned(x)
               /\ x.fresh = s.fresh
               /\ x.session_end_reason = s.session_end_reason
               /\ x.msg_out = s.msg_out
  <1> DEFINE y == [s EXCEPT !.streamEnds = @ + 1]
  <1>1. \A n \in Nat : [s EXCEPT !.streamEnds = n] \in SdtType BY DEF SdtType
  <1>2. s.streamEnds + 1 \in Nat BY DEF SdtType
  <1>3. y \in SdtType BY <1>1, <1>2
  <1>4. /\ Kept(y, s) /\ y.streamEnds = s.streamEnds + 1
        /\ y.audio_pipe = s.audio_pipe /\ y.pipes = s.pipes
        /\ y.leaked = s.leaked /\ y.fresh = s.fresh
        /\ y.session_end_reason = s.session_end_reason
        /\ y.msg_out = s.msg_out
    BY DEF Kept, SdtType
  <1>5. SpeechStreamEnd(s) = ClosePipe(y) BY DEF SpeechStreamEnd
  <1> HIDE DEF y
  <1>6. Owned(s) => Owned(y) BY <1>4 DEF Owned
  <1> DEFINE x == ClosePipe(y)
  <1>7. /\ x \in SdtType /\ Kept(x, y)
        /\ x.streamEnds = y.streamEnds /\ x.audio_pipe = FALSE
        /\ Owned(y) => Owned(x)
        /\ x.fresh = y.fresh /\ x.session_end_reason = y.session_end_reason
        /\ x.msg_out = y.msg_out
    BY <1>3, ClosePipeEffect
  <1> HIDE DEF x
  <1>8. SpeechStreamEnd(s) = x BY <1>5 DEF x
  <1> QED BY <1>4, <1>6, <1>7, <1>8 DEF Kept

\* What leaving a state does.
LEMMA ExitEffect ==
    ASSUME NEW s \in SdtType, NEW e
    PROVE  LET x == Exit(s, e)
           IN  /\ x \in SdtType
               /\ Kept(x, s)
               /\ x.streamEnds = IF Ends(s, e) THEN s.streamEnds + 1
                                 ELSE s.streamEnds
               /\ x.audio_pipe = IF Ends(s, e) THEN FALSE ELSE s.audio_pipe
               /\ Owned(s) => Owned(x)
               /\ x.fresh = IF Tells(s, e) THEN TRUE ELSE s.fresh
               /\ x.session_end_reason =
                    IF Tells(s, e) THEN ExitReasons(s)[s.state][e].session
                    ELSE s.session_end_reason
               /\ x.msg_out = s.msg_out
  <1> DEFINE why == ExitReasons(s)[s.state][e]
             told == IF Tells(s, e) THEN SetReasons(s, why) ELSE s
  <1>1. /\ told \in SdtType
        /\ Kept(told, s)
        /\ told.streamEnds = s.streamEnds /\ told.audio_pipe = s.audio_pipe
        /\ told.pipes = s.pipes /\ told.msg_out = s.msg_out
        /\ told.fresh = IF Tells(s, e) THEN TRUE ELSE s.fresh
        /\ told.session_end_reason = IF Tells(s, e) THEN why.session
                                     ELSE s.session_end_reason
    BY ReasonsType, SetReasonsEffect DEF Kept
  <1>2. Exit(s, e) = IF Ends(s, e) THEN SpeechStreamEnd(told) ELSE told
    BY DEF Exit, Ends, Tells
  <1> HIDE DEF told
  <1>3. Owned(s) => Owned(told) BY <1>1 DEF Owned, Kept
  <1>4. CASE Ends(s, e)
    <2> DEFINE x == SpeechStreamEnd(told)
    <2>1. /\ x \in SdtType /\ Kept(x, told)
          /\ x.streamEnds = told.streamEnds + 1 /\ x.audio_pipe = FALSE
          /\ Owned(told) => Owned(x)
          /\ x.fresh = told.fresh
          /\ x.session_end_reason = told.session_end_reason
          /\ x.msg_out = told.msg_out
      BY <1>1, SpeechStreamEndEffect
    <2>2. Exit(s, e) = x BY <1>2, <1>4
    <2> HIDE DEF x
    <2> QED BY <1>1, <1>3, <1>4, <2>1, <2>2 DEF Kept
  <1>5. CASE ~Ends(s, e)
    BY <1>1, <1>2, <1>3, <1>5
  <1> QED BY <1>4, <1>5

\* What entering Disconnected does.
LEMMA DisconnectEffect ==
    ASSUME NEW s \in SdtType
    PROVE  LET x == Disconnect(s)
           IN  /\ x \in SdtType
               /\ x.state = "Disconnected" /\ x.session = s.session
               /\ x.sessionEnds = s.sessionEnds + 1
               /\ x.streamEnds = s.streamEnds /\ x.audio_pipe = FALSE
               /\ Owned(s) => Owned(x)
               /\ x.fresh = s.fresh
               /\ x.session_end_reason = s.session_end_reason
               /\ x.msg_out = << >>
  <1> DEFINE y == [s EXCEPT !.state = "Disconnected", !.sessionEnds = @ + 1]
             z == [y EXCEPT !.msg_out = << >>]
  <1>1. \A n \in Nat, st \in States :
          [s EXCEPT !.state = st, !.sessionEnds = n] \in SdtType
    BY DEF SdtType
  <1>2. s.sessionEnds + 1 \in Nat BY DEF SdtType
  <1>3. "Disconnected" \in States BY DEF States, NextStates
  <1>4. y \in SdtType BY <1>1, <1>2, <1>3
  <1>5. /\ y.state = "Disconnected" /\ y.session = s.session
        /\ y.sessionEnds = s.sessionEnds + 1 /\ y.streamEnds = s.streamEnds
        /\ y.audio_pipe = s.audio_pipe /\ y.pipes = s.pipes
        /\ y.leaked = s.leaked /\ y.fresh = s.fresh
        /\ y.session_end_reason = s.session_end_reason
    BY DEF SdtType
  <1> HIDE DEF y
  <1>6. \A q \in Seq(1 .. MaxSessions) : [y EXCEPT !.msg_out = q] \in SdtType
    BY <1>4 DEF SdtType
  <1>7. << >> \in Seq(1 .. MaxSessions) OBVIOUS
  <1>8. z \in SdtType BY <1>6, <1>7
  <1>9. /\ z.state = y.state /\ z.session = y.session
        /\ z.sessionEnds = y.sessionEnds /\ z.streamEnds = y.streamEnds
        /\ z.audio_pipe = y.audio_pipe /\ z.pipes = y.pipes
        /\ z.leaked = y.leaked /\ z.fresh = y.fresh
        /\ z.session_end_reason = y.session_end_reason /\ z.msg_out = << >>
    BY <1>4 DEF SdtType
  <1>10. Disconnect(s) = ClosePipe(z) BY DEF Disconnect, Reset, y
  <1> HIDE DEF z
  <1>11. Owned(s) => Owned(z) BY <1>5, <1>9 DEF Owned
  <1> DEFINE x == ClosePipe(z)
  <1>12. /\ x \in SdtType /\ Kept(x, z)
         /\ x.streamEnds = z.streamEnds /\ x.audio_pipe = FALSE
         /\ Owned(z) => Owned(x)
         /\ x.fresh = z.fresh /\ x.session_end_reason = z.session_end_reason
         /\ x.msg_out = z.msg_out
    BY <1>8, ClosePipeEffect
  <1>13. Disconnect(s) = x BY <1>10
  <1> HIDE DEF x
  <1> QED BY <1>5, <1>9, <1>11, <1>12, <1>13 DEF Kept

\* Short sequences; their equality is that of their elements.
LEMMA QueueFacts ==
    /\ \A x : /\ Head(<<x>>) = x /\ Tail(<<x>>) = << >>
              /\ Append(<< >>, x) = <<x>> /\ <<x>> # << >>
    /\ \A x, y : <<x>> = <<y>> <=> x = y
    /\ << >> \in Seq(Events)
    /\ \A x \in Events : <<x>> \in Seq(Events)
  OBVIOUS

LEMMA RaisedType ==
    ASSUME NEW n \in States
    PROVE  /\ Raised[n] = << >> \/ \E e \in Events : Raised[n] = <<e>>
           /\ << >> \o Raised[n] = Raised[n]
           /\ Raised[n] \in Seq(Events)
  <1> USE DEF Raised, Events
  <1>0. States = {"Disconnected", "Disconnecting", "Buffering", "Connecting",
                  "Connected", "Established", "Streaming"}
    BY DEF States, NextStates
  <1>1. Raised[n] = << >> \/ \E e \in Events : Raised[n] = <<e>>
    BY <1>0
  <1>2. Raised[n] \in Seq(Events) BY <1>1, QueueFacts
  <1>3. << >> \o Raised[n] = Raised[n] BY <1>2
  <1> QED BY <1>1, <1>2, <1>3

\* What a step of the state machine does to an event that is not dropped.
Move(e, n) ==
    /\ evq = <<e>> /\ e \in DOMAIN NextStates[sdt.state]
    /\ n = NextStates[sdt.state][e]
    /\ UNCHANGED <<task, running, sender>>
    /\ evq' = Raised[n]
    /\ sdt' \in SdtType /\ sdt'.state = n
    /\ sdt'.session = sdt.session
    /\ sdt'.streamEnds = IF Ends(sdt, e) THEN sdt.streamEnds + 1
                         ELSE sdt.streamEnds
    /\ sdt'.sessionEnds = IF n = "Disconnected" THEN sdt.sessionEnds + 1
                          ELSE sdt.sessionEnds
    /\ sdt'.audio_pipe = IF n = "Disconnected" \/ Ends(sdt, e) THEN FALSE
                         ELSE sdt.audio_pipe
    /\ Owned(sdt) => Owned(sdt')
    /\ sdt'.fresh = IF Tells(sdt, e) THEN TRUE ELSE sdt.fresh
    /\ sdt'.session_end_reason =
         IF Tells(sdt, e) THEN ExitReasons(sdt)[sdt.state][e].session
         ELSE sdt.session_end_reason
    /\ sdt'.msg_out \in {sdt.msg_out, << >>}

\* ... and to one that is.
Drop(e) ==
    /\ evq = <<e>> /\ e \notin DOMAIN NextStates[sdt.state]
    /\ sdt' = sdt /\ evq' = << >>
    /\ UNCHANGED <<task, running, sender>>

LEMMA MoveEffect ==
    ASSUME sdt \in SdtType, NEW e \in Events, e \in DOMAIN NextStates[sdt.state],
           NEW n \in States, n = NextStates[sdt.state][e],
           evq = <<e>>, Enter(Exit(sdt, e), n, << >>),
           UNCHANGED <<task, running, sender>>
    PROVE  Move(e, n)
  <1> DEFINE x == Exit(sdt, e)
  <1>1. /\ x \in SdtType
        /\ Kept(x, sdt)
        /\ x.streamEnds = IF Ends(sdt, e) THEN sdt.streamEnds + 1
                          ELSE sdt.streamEnds
        /\ x.audio_pipe = IF Ends(sdt, e) THEN FALSE ELSE sdt.audio_pipe
        /\ Owned(sdt) => Owned(x)
        /\ x.fresh = IF Tells(sdt, e) THEN TRUE ELSE sdt.fresh
        /\ x.session_end_reason =
             IF Tells(sdt, e) THEN ExitReasons(sdt)[sdt.state][e].session
             ELSE sdt.session_end_reason
        /\ x.msg_out = sdt.msg_out
    BY ExitEffect
  <1>2. Enter(x, n, << >>) OBVIOUS
  <1>3. evq' = Raised[n] BY <1>2, RaisedType DEF Enter
  <1> HIDE DEF x
  <1>4. CASE n = "Disconnected"
    <2> DEFINE y == Disconnect(x)
    <2>1. /\ y \in SdtType
          /\ y.state = "Disconnected" /\ y.session = x.session
          /\ y.sessionEnds = x.sessionEnds + 1
          /\ y.streamEnds = x.streamEnds /\ y.audio_pipe = FALSE
          /\ Owned(x) => Owned(y)
          /\ y.fresh = x.fresh
          /\ y.session_end_reason = x.session_end_reason
          /\ y.msg_out = << >>
      BY <1>1, DisconnectEffect
    <2>2. sdt' = y BY <1>2, <1>4 DEF Enter
    <2> HIDE DEF y
    <2> QED BY <1>1, <1>3, <1>4, <2>1, <2>2 DEF Move, Kept
  <1>5. CASE n # "Disconnected"
    <2> DEFINE y == [x EXCEPT !.state = n]
    <2>1. y \in SdtType BY <1>1 DEF SdtType
    <2>2. /\ y.state = n /\ y.session = x.session
          /\ y.sessionEnds = x.sessionEnds /\ y.streamEnds = x.streamEnds
          /\ y.audio_pipe = x.audio_pipe /\ y.pipes = x.pipes
          /\ y.leaked = x.leaked /\ y.fresh = x.fresh
          /\ y.session_end_reason = x.session_end_reason
          /\ y.msg_out = x.msg_out
      BY <1>1 DEF SdtType
    <2>3. sdt' = y BY <1>2, <1>5 DEF Enter
    <2> HIDE DEF y
    <2>4. Owned(x) => Owned(y) BY <2>2 DEF Owned
    <2> QED BY <1>1, <1>3, <1>5, <2>1, <2>2, <2>3, <2>4 DEF Move, Kept
  <1> QED BY <1>4, <1>5

LEMMA StepCases ==
    ASSUME TypeOK, QueueShape, Step
    PROVE  \E e \in Events : Drop(e) \/ \E n \in States : Move(e, n)
  <1>1. PICK e \in Events : evq = <<e>> BY DEF QueueShape, Step
  <1>2. Head(evq) = e /\ Tail(evq) = << >> BY <1>1, QueueFacts
  <1>3. sdt \in SdtType /\ sdt.state \in States BY DEF TypeOK, SdtType
  <1>4. CASE e \notin DOMAIN NextStates[sdt.state]
    <2>1. sdt' = sdt /\ evq' = << >> /\ UNCHANGED <<task, running, sender>>
      BY <1>2, <1>4 DEF Step
    <2> QED BY <1>1, <1>4, <2>1 DEF Drop
  <1>5. CASE e \in DOMAIN NextStates[sdt.state]
    <2> DEFINE n == NextStates[sdt.state][e]
    <2>1. n \in States BY <1>3, <1>5, NextStatesType
    <2>2. /\ Enter(Exit(sdt, e), n, << >>)
          /\ UNCHANGED <<task, running, sender>>
      BY <1>2, <1>5 DEF Step
    <2> HIDE DEF n
    <2>3. n = NextStates[sdt.state][e] BY DEF n
    <2>4. Move(e, n) BY <1>1, <1>3, <1>5, <2>1, <2>2, <2>3, MoveEffect
    <2> QED BY <2>1, <2>4
  <1> QED BY <1>4, <1>5

-----------------------------------------------------------------------------
(* The types.                                                              *)

\* The types but for what bounds the outgoing messages.
LEMMA ConnectType ==
    ASSUME TypeOK, Connect
    PROVE  /\ sdt' \in SdtType
           /\ sdt'.msg_out = sdt.msg_out /\ sdt'.state = "Disconnected"
           /\ sdt'.streamEnds = 0 /\ sdt'.sessionEnds = 0
           /\ sdt'.audio_pipe = TRUE /\ sdt'.pipes = sdt.pipes + 1
           /\ sdt'.leaked = sdt.leaked
           /\ sdt'.session_end_reason = sdt.session_end_reason
  <1> DEFINE n == sdt.session + 1
             p == sdt.pipes + 1
             x == [sdt EXCEPT !.audio_pipe = TRUE, !.session = n]
             y == [x EXCEPT !.streamEnds = 0, !.sessionEnds = 0]
             z == [y EXCEPT !.fresh = FALSE, !.pipes = p]
  <1>1. sdt \in SdtType /\ sdt.state = "Disconnected" BY DEF TypeOK, Connect
  <1>2. n \in 0 .. MaxSessions /\ p \in Int
    BY <1>1, ConstantsAssumption DEF Connect, SdtType
  <1>3. sdt' = z BY DEF Connect
  <1>4. z.pipes = sdt.pipes + 1 BY <1>1 DEF SdtType
  <1> HIDE DEF n, p
  <1>5. /\ x \in SdtType /\ x.audio_pipe = TRUE
        /\ x.state = sdt.state /\ x.msg_out = sdt.msg_out
        /\ x.leaked = sdt.leaked
        /\ x.session_end_reason = sdt.session_end_reason
    BY <1>1, <1>2 DEF SdtType
  <1> HIDE DEF x
  <1>6. /\ y \in SdtType /\ y.audio_pipe = TRUE
        /\ y.state = x.state /\ y.msg_out = x.msg_out
        /\ y.leaked = x.leaked /\ y.session_end_reason = x.session_end_reason
        /\ y.streamEnds = 0 /\ y.sessionEnds = 0
    BY <1>5 DEF SdtType
  <1> HIDE DEF y
  <1>7. /\ z \in SdtType /\ z.audio_pipe = TRUE
        /\ z.state = y.state /\ z.msg_out = y.msg_out
        /\ z.leaked = y.leaked /\ z.session_end_reason = y.session_end_reason
        /\ z.streamEnds = 0 /\ z.sessionEnds = 0
    BY <1>2, <1>6 DEF SdtType
  <1> QED BY <1>1, <1>3, <1>4, <1>5, <1>6, <1>7

LEMMA InitType == SdtInit \in SdtType
  <1>1. 0 \in 0 .. MaxSessions BY ConstantsAssumption
  <1>2. "Disconnected" \in States BY DEF States, NextStates
  <1>3. << >> \in Seq(1 .. MaxSessions) OBVIOUS
  <1> QED BY <1>1, <1>2, <1>3
      DEF SdtInit, SdtType, StreamReasons, SessionReasons

WipedTo(n, p, l) ==
    [SdtInit EXCEPT !.session = n, !.pipes = p, !.leaked = l]

LEMMA WipedType ==
    ASSUME NEW n \in 0 .. MaxSessions, NEW p \in Int, NEW l \in Nat
    PROVE  LET x == WipedTo(n, p, l)
           IN  /\ x \in SdtType /\ x.state = "Disconnected" /\ x.msg_out = << >>
               /\ x.audio_pipe = FALSE /\ x.pipes = p /\ x.leaked = l
               /\ x.streamEnds = 0 /\ x.sessionEnds = 0
  <1>2. /\ SdtInit.state = "Disconnected" /\ SdtInit.msg_out = << >>
        /\ SdtInit.audio_pipe = FALSE
        /\ SdtInit.streamEnds = 0 /\ SdtInit.sessionEnds = 0
    BY DEF SdtInit
  <1> QED BY <1>2, InitType DEF SdtType, WipedTo

LEMMA WipedEffect ==
    ASSUME TypeOK
    PROVE  /\ Wiped \in SdtType /\ Wiped.state = "Disconnected"
           /\ Wiped.msg_out = << >> /\ Wiped.audio_pipe = FALSE
           /\ Wiped.pipes = sdt.pipes
           /\ Wiped.leaked = IF sdt.audio_pipe THEN sdt.leaked + 1
                             ELSE sdt.leaked
           /\ Wiped.streamEnds = 0 /\ Wiped.sessionEnds = 0
  <1> DEFINE l == IF sdt.audio_pipe THEN sdt.leaked + 1 ELSE sdt.leaked
             n == sdt.session
             p == sdt.pipes
             x == WipedTo(n, p, l)
  <1>1. n \in 0 .. MaxSessions /\ p \in Int /\ l \in Nat
    BY DEF TypeOK, SdtType
  <1>2. Wiped = x BY DEF Wiped, WipedTo
  <1>3. /\ p = sdt.pipes
        /\ l = (IF sdt.audio_pipe THEN sdt.leaked + 1 ELSE sdt.leaked)
    OBVIOUS
  <1> HIDE DEF l, n, p
  <1>4. /\ x \in SdtType /\ x.state = "Disconnected" /\ x.msg_out = << >>
        /\ x.audio_pipe = FALSE /\ x.pipes = p /\ x.leaked = l
        /\ x.streamEnds = 0 /\ x.sessionEnds = 0
    BY <1>1, WipedType
  <1> HIDE DEF x
  <1> QED BY <1>2, <1>3, <1>4

\* An application's message does not touch what the router sees.
LEMMA SendPutEffect ==
    ASSUME TypeOK, SendPut
    PROVE  /\ sdt' \in SdtType /\ Len(sdt'.msg_out) <= MsgOutMax
           /\ sdt' \in {[sdt EXCEPT !.msg_out = q] : q \in Seq(1 .. MaxSessions)}
  <1>1. sdt \in SdtType /\ sender \in 1 .. MaxSessions
    BY DEF TypeOK, SendPut
  <1>2. sdt.msg_out \in Seq(1 .. MaxSessions) BY <1>1 DEF SdtType
  <1>3. sdt = [sdt EXCEPT !.msg_out = sdt.msg_out] BY <1>1 DEF SdtType
  <1> DEFINE q == Append(sdt.msg_out, sender)
  <1>4. q \in Seq(1 .. MaxSessions) /\ Len(q) = Len(sdt.msg_out) + 1
    BY <1>1, <1>2
  <1>5. CASE Len(sdt.msg_out) < MsgOutMax
    <2>1. sdt' = [sdt EXCEPT !.msg_out = q] BY <1>5 DEF SendPut
    <2>2. Len(q) <= MsgOutMax BY <1>2, <1>4, <1>5, ConstantsAssumption
    <2> HIDE DEF q
    <2> QED BY <1>1, <1>4, <2>1, <2>2 DEF SdtType
  <1>6. CASE ~(Len(sdt.msg_out) < MsgOutMax)
    <2>1. sdt' = sdt BY <1>6 DEF SendPut
    <2> QED BY <1>1, <1>2, <1>3, <2>1 DEF TypeOK
  <1> QED BY <1>5, <1>6

LEMMA TypeStep ==
    ASSUME TypeOK, QueueShape, [Next]_vars
    PROVE  TypeOK'
  <1> USE DEF TypeOK
  <1>0. /\ MsgOutMax \in Nat /\ Len(<< >>) = 0 BY ConstantsAssumption
  <1>1. CASE Connect
    <2>1. evq' \in Seq(Events) /\ task' = "event"
          /\ UNCHANGED <<running, sender>>
      BY <1>1 DEF Connect, Raise, Events
    <2> QED BY <1>1, <2>1, ConnectType
  <1>2. CASE Terminate BY <1>2 DEF Terminate, Raise, Events
  <1>3. CASE SpeechEvent BY <1>3 DEF SpeechEvent, Raise, Events
  <1>4. CASE ReadPipe BY <1>4 DEF ReadPipe, Raise, Events
  <1>5. CASE LoopEnds BY <1>5 DEF LoopEnds
  <1>6. CASE Restart
    <2>1. sdt' = Wiped /\ running' = TRUE /\ UNCHANGED <<evq, task, sender>>
      BY <1>6 DEF Restart
    <2>2. sdt' \in SdtType /\ sdt'.msg_out = << >> BY <2>1, WipedEffect
    <2>3. Len(sdt'.msg_out) <= MsgOutMax BY <1>0, <2>2
    <2> QED BY <2>1, <2>2, <2>3
  <1>7. CASE Step
    <2>1. PICK e \in Events : Drop(e) \/ \E n \in States : Move(e, n)
      BY <1>7, StepCases
    <2>2. CASE Drop(e) BY <2>2 DEF Drop
    <2>3. ASSUME NEW n \in States, Move(e, n) PROVE TypeOK'
      <3>1. sdt' \in SdtType /\ sdt'.msg_out \in {sdt.msg_out, << >>}
            /\ evq' = Raised[n] /\ UNCHANGED <<task, running, sender>>
        BY <2>3 DEF Move
      <3>2. evq' \in Seq(Events) BY <3>1, RaisedType
      <3> QED BY <1>0, <3>1, <3>2
    <2> QED BY <2>1, <2>2, <2>3
  <1>8. CASE Return BY <1>8 DEF Return
  <1>9. CASE SendCheck BY <1>9 DEF SendCheck, SdtType
  <1>10. CASE SendPut
    <2>1. sender' \in 0 .. MaxSessions BY <1>10, ConstantsAssumption DEF SendPut
    <2>2. UNCHANGED <<evq, task, running>> BY <1>10 DEF SendPut
    <2> QED BY <1>10, <2>1, <2>2, SendPutEffect
  <1>11. CASE UNCHANGED vars BY <1>11 DEF vars
  <1> QED BY <1>1, <1>2, <1>3, <1>4, <1>5, <1>6, <1>7, <1>8, <1>9, <1>10, <1>11
      DEF Next, Handlers

-----------------------------------------------------------------------------
(* The inductive invariant.                                                *)

\* The invariant without the types.
Rest ==
    /\ QueueShape /\ BeginsIdle /\ Passing /\ Ending /\ FreshHeld
    /\ EndedOnce /\ PipeOwned

\* States whose session has no stream any more, or none yet.
StreamOver == {"Disconnected", "Disconnecting", "Established"}

\* What the tables say of an event that leads on.
LEMMA Tables ==
    ASSUME NEW s \in SdtType, NEW e \in Events, e \in DOMAIN NextStates[s.state],
           NEW n, n = NextStates[s.state][e]
    PROVE  /\ s.state = "Disconnected" <=> e \in BeginEvents
           /\ s.state = "Disconnected" => n \in {"Connecting", "Buffering"}
           /\ s.state = "Disconnecting" =>
                n = "Disconnected" /\ ~Tells(s, e) /\ e # "TERMINATE"
           /\ s.state = "Established" => n = "Disconnecting"
           /\ Ends(s, e) <=> s.state \notin StreamOver /\ n \in StreamOver
           /\ (s.state \notin StreamOver /\ n \in StreamOver) => Tells(s, e)
           /\ e = "TERMINATE" =>
                /\ n \in {"Disconnecting", "Disconnected"} /\ Tells(s, e)
                /\ ExitReasons(s)[s.state][e].session = "TERMINATE"
  <1> USE DEF SdtType, NextStates, Events, BeginEvents, StreamOver, Ends, Tells,
              ExitReasons, Why, NotBegun
  <1>0. States = {"Disconnected", "Disconnecting", "Buffering", "Connecting",
                  "Connected", "Established", "Streaming"}
    BY DEF States
  <1>1. CASE s.state = "Disconnected" BY <1>1
  <1>2. CASE s.state = "Disconnecting" BY <1>2
  <1>3. CASE s.state = "Buffering" BY <1>3
  <1>4. CASE s.state = "Connecting" BY <1>4
  <1>5. CASE s.state = "Connected" BY <1>5
  <1>6. CASE s.state = "Established" BY <1>6
  <1>7. CASE s.state = "Streaming" BY <1>7
  <1>8. s.state \in States OBVIOUS
  <1> HIDE DEF SdtType, NextStates, Events, BeginEvents, StreamOver, Ends, Tells,
               ExitReasons, Why, NotBegun
  <1> QED BY <1>0, <1>1, <1>2, <1>3, <1>4, <1>5, <1>6, <1>7, <1>8

\* What is raised on the way in leads on, and begins nothing.
LEMMA RaisedTables ==
    /\ Raised.Connecting = <<"CONNECTED">>
    /\ Raised.Connected = <<"ESTABLISHED">>
    /\ Raised.Disconnecting = <<"DISCONNECTED">>
    /\ "CONNECTED" \in DOMAIN NextStates["Connecting"]
    /\ "ESTABLISHED" \in DOMAIN NextStates["Connected"]
    /\ "DISCONNECTED" \in DOMAIN NextStates["Disconnecting"]
    /\ \A st \in States \ {"Disconnected", "Disconnecting"} :
         "TERMINATE" \in DOMAIN NextStates[st]
    /\ \A e \in BeginEvents : e \in DOMAIN NextStates["Disconnected"]
  BY DEF Raised, NextStates, States, BeginEvents

LEMMA BeginningOf ==
    ASSUME NEW x
    PROVE  /\ evq = << >> => ~Beginning
           /\ evq = <<x>> => (Beginning <=> x \in BeginEvents)
           /\ evq' = << >> => ~Beginning'
           /\ evq' = <<x>> => (Beginning' <=> x \in BeginEvents)
  BY DEF Beginning

LEMMA RaisedBegins ==
    ASSUME NEW n \in States, evq' = Raised[n]
    PROVE  ~Beginning'
  <1>0. States = {"Disconnected", "Disconnecting", "Buffering", "Connecting",
                  "Connected", "Established", "Streaming"}
    BY DEF States, NextStates
  <1>1. \/ Raised[n] = << >>
        \/ \E e \in {"TERMINATE", "DISCONNECTED", "CONNECTED", "ESTABLISHED"} :
             Raised[n] = <<e>>
    BY <1>0 DEF Raised
  <1> QED BY <1>1, BeginningOf DEF BeginEvents

LEMMA DropInv ==
    ASSUME TypeOK, Rest, NEW e \in Events, Drop(e)
    PROVE  Rest'
  <1>1. sdt' = sdt /\ evq' = << >> /\ evq = <<e>> /\ task' = task
    BY DEF Drop
  <1>2. sdt \in SdtType /\ sdt.state \in States BY DEF TypeOK, SdtType
  <1>3. e \notin DOMAIN NextStates[sdt.state] BY DEF Drop
  <1>4. ~Beginning' BY <1>1, BeginningOf
  <1>5. ~Beginning
    BY <1>1, <1>3, BeginningOf, RaisedTables DEF Rest, BeginsIdle
  <1>6. sdt.state \notin {"Connecting", "Connected", "Disconnecting"}
    BY <1>1, <1>3, RaisedTables, QueueFacts DEF Rest, Passing
  <1>7. QueueShape' BY <1>1, QueueFacts DEF Rest, QueueShape
  <1>8. BeginsIdle' BY <1>4 DEF BeginsIdle
  <1>9. Passing' BY <1>1, <1>6 DEF Passing
  <1>10. Ending'
    <2>1. e = "TERMINATE" => sdt.state = "Disconnected"
      BY <1>2, <1>3, <1>6, RaisedTables
    <2> QED BY <1>1, <2>1, QueueFacts DEF Rest, Ending
  <1>11. FreshHeld' /\ EndedOnce' BY <1>1 DEF Rest, FreshHeld, EndedOnce
  <1>12. PipeOwned' BY <1>1, <1>5 DEF Rest, PipeOwned
  <1> QED BY <1>7, <1>8, <1>9, <1>10, <1>11, <1>12 DEF Rest

LEMMA MoveInv ==
    ASSUME TypeOK, Rest, NEW e \in Events, NEW n \in States, Move(e, n)
    PROVE  Rest'
  <1>1. /\ evq = <<e>> /\ evq' = Raised[n] /\ task' = task
        /\ sdt' \in SdtType /\ sdt'.state = n
        /\ n = NextStates[sdt.state][e] /\ e \in DOMAIN NextStates[sdt.state]
    BY DEF Move
  <1>2. /\ sdt \in SdtType /\ sdt.state \in States
        /\ sdt.streamEnds \in Nat /\ sdt.sessionEnds \in Nat
    BY DEF TypeOK, SdtType
  <1>3. /\ sdt.state = "Disconnected" <=> e \in BeginEvents
        /\ sdt.state = "Disconnected" => n \in {"Connecting", "Buffering"}
        /\ sdt.state = "Disconnecting" =>
             n = "Disconnected" /\ ~Tells(sdt, e) /\ e # "TERMINATE"
        /\ sdt.state = "Established" => n = "Disconnecting"
        /\ Ends(sdt, e) <=> sdt.state \notin StreamOver /\ n \in StreamOver
        /\ (sdt.state \notin StreamOver /\ n \in StreamOver) => Tells(sdt, e)
        /\ e = "TERMINATE" =>
             /\ n \in {"Disconnecting", "Disconnected"} /\ Tells(sdt, e)
             /\ ExitReasons(sdt)[sdt.state][e].session = "TERMINATE"
    BY <1>1, <1>2, Tables
  <1>4. Beginning <=> e \in BeginEvents BY <1>1, BeginningOf
  <1>5. ~Beginning' BY <1>1, RaisedBegins
  <1>6. task # "idle" BY <1>1, QueueFacts DEF Rest, QueueShape
  <1>7. QueueShape' BY <1>1, <1>6, RaisedType DEF QueueShape
  <1>8. BeginsIdle' BY <1>5 DEF BeginsIdle
  <1>9. Passing' BY <1>1 DEF Passing
  <1>10. Ending'
    <2> SUFFICES ASSUME task = "terminate"
                 PROVE  /\ n \in {"Disconnecting", "Disconnected"}
                        /\ sdt'.session_end_reason = "TERMINATE"
      BY <1>1 DEF Ending
    <2>1. CASE e = "TERMINATE" BY <1>3, <2>1 DEF Move
    <2>2. CASE e # "TERMINATE"
      <3>1. /\ sdt.state \in {"Disconnecting", "Disconnected"}
            /\ sdt.session_end_reason = "TERMINATE"
        BY <1>1, <2>2, QueueFacts DEF Rest, Ending
      <3>2. sdt.state # "Disconnected" BY <1>3, <1>4 DEF Rest, BeginsIdle
      <3> QED BY <1>3, <3>1, <3>2 DEF Move
    <2> QED BY <2>1, <2>2
  <1>11. FreshHeld'
    BY <1>1, <1>3 DEF Move, Rest, FreshHeld, StreamOver
  <1>12. /\ sdt'.streamEnds = IF Ends(sdt, e) THEN sdt.streamEnds + 1
                              ELSE sdt.streamEnds
         /\ sdt'.sessionEnds = IF n = "Disconnected" THEN sdt.sessionEnds + 1
                               ELSE sdt.sessionEnds
         /\ sdt'.audio_pipe = IF n = "Disconnected" \/ Ends(sdt, e) THEN FALSE
                              ELSE sdt.audio_pipe
    BY DEF Move
  <1>13. sdt.state = "Disconnected" => sdt.streamEnds = 0 /\ sdt.sessionEnds = 0
    BY <1>3, <1>4 DEF Rest, BeginsIdle, EndedOnce
  <1>14. EndedOnce'
    BY <1>1, <1>2, <1>3, <1>12, <1>13 DEF Rest, EndedOnce, StreamOver
  <1>15. PipeOwned'
    <2>1. Owned(sdt') BY DEF Move, Rest, PipeOwned, Owned
    <2>2. sdt.audio_pipe => sdt.state \notin {"Established", "Disconnecting"}
      BY DEF Rest, PipeOwned
    <2>3. sdt'.audio_pipe =>
            n \notin {"Established", "Disconnecting", "Disconnected"}
      BY <1>3, <1>12, <2>2 DEF StreamOver
    <2> QED BY <1>1, <2>1, <2>3 DEF PipeOwned, Owned
  <1> QED BY <1>7, <1>8, <1>9, <1>10, <1>11, <1>14, <1>15 DEF Rest

\* Steps that change nothing the invariant sees but the pending handler.
LEMMA SameInv ==
    ASSUME TypeOK, Rest, evq' = evq,
           task' = task \/ (task' = "idle" /\ evq = << >>),
           /\ sdt'.state = sdt.state /\ sdt'.streamEnds = sdt.streamEnds
           /\ sdt'.sessionEnds = sdt.sessionEnds /\ sdt'.fresh = sdt.fresh
           /\ sdt'.session_end_reason = sdt.session_end_reason
           /\ sdt'.audio_pipe = sdt.audio_pipe /\ sdt'.pipes = sdt.pipes
           /\ sdt'.leaked = sdt.leaked
    PROVE  Rest' /\ (Beginning' <=> Beginning)
  <1>1. Beginning' <=> Beginning BY DEF Beginning
  <1>2. QueueShape' BY DEF Rest, QueueShape
  <1>3. BeginsIdle'
    <2>1. evq = << >> => ~Beginning BY BeginningOf
    <2> QED BY <1>1, <2>1 DEF Rest, BeginsIdle
  <1>4. Passing' BY DEF Rest, Passing
  <1>5. Ending' BY DEF Rest, Ending
  <1>6. FreshHeld' /\ EndedOnce' BY DEF Rest, FreshHeld, EndedOnce
  <1>7. PipeOwned' BY <1>1 DEF Rest, PipeOwned
  <1> QED BY <1>1, <1>2, <1>3, <1>4, <1>5, <1>6, <1>7 DEF Rest

\* Between handlers no event waits, and the machine rests.
LEMMA IdleFacts ==
    ASSUME Rest, task = "idle"
    PROVE  /\ evq = << >> /\ ~Beginning
           /\ sdt.state \notin {"Connecting", "Connected", "Disconnecting"}
  <1>1. evq = << >> BY DEF Rest, QueueShape
  <1>2. ~Beginning BY <1>1, BeginningOf
  <1>3. sdt.state \notin {"Connecting", "Connected", "Disconnecting"}
    BY <1>1, RaisedTables, QueueFacts DEF Rest, Passing
  <1> QED BY <1>1, <1>2, <1>3

\* A handler raises an event that begins no session.
LEMMA RaiseInv ==
    ASSUME TypeOK, Rest, task = "idle", UNCHANGED sdt,
           NEW e \in Events \ BeginEvents, NEW t \in {"event", "terminate"},
           Raise(e, t),
           t = "terminate" => e = "TERMINATE" /\ sdt.state # "Disconnected"
    PROVE  Rest' /\ ~Beginning'
  <1>1. /\ evq = << >> /\ ~Beginning
        /\ sdt.state \notin {"Connecting", "Connected", "Disconnecting"}
    BY IdleFacts
  <1>2. evq' = <<e>> /\ task' = t BY <1>1, QueueFacts DEF Raise
  <1>3. ~Beginning' BY <1>2, BeginningOf
  <1>4. QueueShape' BY <1>2 DEF QueueShape
  <1>5. BeginsIdle' BY <1>3 DEF BeginsIdle
  <1>6. Passing' BY <1>1 DEF Passing
  <1>7. Ending' BY <1>2 DEF Ending
  <1>8. FreshHeld' /\ EndedOnce' BY DEF Rest, FreshHeld, EndedOnce
  <1>9. PipeOwned' BY <1>1 DEF Rest, PipeOwned
  <1> QED BY <1>3, <1>4, <1>5, <1>6, <1>7, <1>8, <1>9 DEF Rest

LEMMA ConnectInv ==
    ASSUME TypeOK, Rest, Connect
    PROVE  Rest' /\ Beginning' /\ ~Beginning
  <1>1. task = "idle" BY DEF Connect, Idle
  <1>2. evq = << >> /\ ~Beginning BY <1>1, IdleFacts
  <1>3. PICK e \in BeginEvents : Raise(e, "event")
    BY DEF Connect, BeginEvents
  <1>4. evq' = <<e>> /\ task' = "event" BY <1>2, <1>3, QueueFacts DEF Raise
  <1>5. e \in Events BY DEF BeginEvents, Events
  <1>6. Beginning' BY <1>4, BeginningOf
  <1>7. /\ sdt'.state = "Disconnected"
        /\ sdt'.streamEnds = 0 /\ sdt'.sessionEnds = 0
        /\ sdt'.audio_pipe = TRUE /\ sdt'.pipes = sdt.pipes + 1
        /\ sdt'.leaked = sdt.leaked
    BY ConnectType
  <1>8. sdt.audio_pipe = FALSE
    BY <1>2 DEF Connect, TypeOK, SdtType, Rest, PipeOwned
  <1>9. sdt'.pipes = sdt'.leaked + 1
    BY <1>7, <1>8 DEF TypeOK, SdtType, Rest, PipeOwned
  <1>10. QueueShape' /\ BeginsIdle' /\ Passing' /\ Ending'
    BY <1>4, <1>5, <1>7 DEF QueueShape, BeginsIdle, Passing, Ending
  <1>11. FreshHeld' /\ EndedOnce' BY <1>7 DEF FreshHeld, EndedOnce
  <1>12. PipeOwned' BY <1>6, <1>7, <1>9 DEF PipeOwned
  <1> QED BY <1>2, <1>6, <1>10, <1>11, <1>12 DEF Rest

LEMMA RestartInv ==
    ASSUME TypeOK, Rest, Restart
    PROVE  Rest' /\ ~Beginning' /\ ~Beginning
  <1>1. task = "idle" /\ evq' = evq /\ task' = task /\ sdt' = Wiped
    BY DEF Restart
  <1>2. evq = << >> /\ ~Beginning BY <1>1, IdleFacts
  <1>3. ~Beginning' BY <1>1, <1>2, BeginningOf
  <1>4. /\ sdt'.state = "Disconnected" /\ sdt'.audio_pipe = FALSE
        /\ sdt'.pipes = sdt.pipes
        /\ sdt'.leaked = IF sdt.audio_pipe THEN sdt.leaked + 1 ELSE sdt.leaked
        /\ sdt'.streamEnds = 0 /\ sdt'.sessionEnds = 0
    BY <1>1, WipedEffect
  <1>5. sdt'.pipes = sdt'.leaked
    BY <1>4 DEF TypeOK, SdtType, Rest, PipeOwned
  <1>6. QueueShape' /\ BeginsIdle' /\ Passing' /\ Ending'
    BY <1>1, <1>2, <1>3, <1>4 DEF QueueShape, BeginsIdle, Passing, Ending
  <1>7. FreshHeld' /\ EndedOnce' BY <1>4 DEF FreshHeld, EndedOnce
  <1>8. PipeOwned'
    <2>1. sdt'.leaked + 0 = sdt'.leaked BY <1>4 DEF TypeOK, SdtType
    <2> QED BY <1>4, <1>5, <2>1 DEF PipeOwned
  <1> QED BY <1>2, <1>3, <1>6, <1>7, <1>8 DEF Rest

\* What the router sees of a step that is none of Connect, Restart and Move.
Steady ==
    /\ sdt'.state = sdt.state /\ sdt'.streamEnds = sdt.streamEnds
    /\ sdt'.sessionEnds = sdt.sessionEnds /\ sdt'.fresh = sdt.fresh
    /\ Beginning' <=> Beginning

Moves == \E e \in Events, n \in States : Move(e, n)

LEMMA NextInv ==
    ASSUME TypeOK, Rest, [Next]_vars
    PROVE  Rest' /\ (Steady \/ Connect \/ Restart \/ Moves)
  <1>1. CASE Connect BY <1>1, ConnectInv
  <1>2. CASE Restart BY <1>2, RestartInv
  <1>3. CASE Terminate
    <2>1. /\ task = "idle" /\ UNCHANGED sdt /\ sdt.state # "Disconnected"
          /\ Raise("TERMINATE", "terminate")
      BY <1>3 DEF Terminate, Idle
    <2>2. "TERMINATE" \in Events \ BeginEvents BY DEF Events, BeginEvents
    <2>3. Rest' /\ ~Beginning' BY <2>1, <2>2, RaiseInv
    <2> QED BY <2>1, <2>3, IdleFacts DEF Steady
  <1>4. CASE SpeechEvent
    <2>1. PICK e \in {"STM", "EOS"} : Raise(e, "event")
      BY <1>4 DEF SpeechEvent
    <2>2. task = "idle" /\ UNCHANGED sdt BY <1>4 DEF SpeechEvent, Idle
    <2>3. e \in Events \ BeginEvents BY DEF Events, BeginEvents
    <2>4. Rest' /\ ~Beginning' BY <2>1, <2>2, <2>3, RaiseInv
    <2> QED BY <2>2, <2>4, IdleFacts DEF Steady
  <1>5. CASE ReadPipe
    <2>1. PICK e \in {"EOS_PIPE", "AUDIO_ERROR"} : Raise(e, "event")
      BY <1>5 DEF ReadPipe
    <2>2. task = "idle" /\ UNCHANGED sdt BY <1>5 DEF ReadPipe, Idle
    <2>3. e \in Events \ BeginEvents BY DEF Events, BeginEvents
    <2>4. Rest' /\ ~Beginning' BY <2>1, <2>2, <2>3, RaiseInv
    <2> QED BY <2>2, <2>4, IdleFacts DEF Steady
  <1>6. CASE LoopEnds
    <2>1. UNCHANGED <<sdt, evq, task>> BY <1>6 DEF LoopEnds
    <2> QED BY <2>1, SameInv DEF Steady
  <1>7. CASE Step
    <2>1. PICK e \in Events : Drop(e) \/ \E n \in States : Move(e, n)
      BY <1>7, StepCases DEF Rest
    <2>2. CASE Drop(e)
      <3>1. Rest' BY <2>2, DropInv
      <3>2. sdt' = sdt /\ evq = <<e>> /\ evq' = << >>
            /\ e \notin DOMAIN NextStates[sdt.state]
        BY <2>2 DEF Drop
      <3>3. ~Beginning' /\ ~Beginning
        BY <3>2, BeginningOf, RaisedTables DEF Rest, BeginsIdle
      <3> QED BY <3>1, <3>2, <3>3 DEF Steady
    <2>3. ASSUME NEW n \in States, Move(e, n)
          PROVE  Rest' /\ Moves
      BY <2>3, MoveInv DEF Moves
    <2> QED BY <2>1, <2>2, <2>3
  <1>8. CASE Return
    <2>1. /\ evq = << >> /\ task' = "idle" /\ UNCHANGED <<sdt, evq>>
      BY <1>8 DEF Return
    <2> QED BY <2>1, SameInv DEF Steady
  <1>9. CASE SendCheck
    <2>1. UNCHANGED <<sdt, evq, task>> BY <1>9 DEF SendCheck
    <2> QED BY <2>1, SameInv DEF Steady
  <1>10. CASE SendPut
    <2>1. PICK q \in Seq(1 .. MaxSessions) : sdt' = [sdt EXCEPT !.msg_out = q]
      BY <1>10, SendPutEffect
    <2>2. /\ sdt'.state = sdt.state /\ sdt'.streamEnds = sdt.streamEnds
          /\ sdt'.sessionEnds = sdt.sessionEnds /\ sdt'.fresh = sdt.fresh
          /\ sdt'.session_end_reason = sdt.session_end_reason
          /\ sdt'.audio_pipe = sdt.audio_pipe /\ sdt'.pipes = sdt.pipes
          /\ sdt'.leaked = sdt.leaked
      BY <2>1 DEF TypeOK, SdtType
    <2>3. UNCHANGED <<evq, task>> BY <1>10 DEF SendPut
    <2> QED BY <2>2, <2>3, SameInv DEF Steady
  <1>11. CASE UNCHANGED vars
    <2>1. UNCHANGED <<sdt, evq, task>> BY <1>11 DEF vars
    <2> QED BY <2>1, SameInv DEF Steady
  <1> QED BY <1>1, <1>2, <1>3, <1>4, <1>5, <1>6, <1>7, <1>8, <1>9, <1>10, <1>11
      DEF Next, Handlers

\* What the router's handlers, the state machine, restarts and the
\* application's threads keep in every reachable state.
THEOREM InvCorrect == Spec => []IInv
  <1>1. Init => TypeOK /\ Rest
    <2> SUFFICES ASSUME Init PROVE TypeOK /\ Rest OBVIOUS
    <2>1. /\ sdt = SdtInit /\ evq = << >> /\ task = "idle" /\ running = TRUE
          /\ sender = 0
      BY DEF Init
    <2>2. /\ SdtInit.state = "Disconnected" /\ SdtInit.msg_out = << >>
          /\ SdtInit.audio_pipe = FALSE /\ SdtInit.pipes = 0
          /\ SdtInit.leaked = 0
          /\ SdtInit.streamEnds = 0 /\ SdtInit.sessionEnds = 0
      BY DEF SdtInit
    <2>3. TypeOK
      BY <2>1, <2>2, InitType, ConstantsAssumption, QueueFacts DEF TypeOK
    <2>4. ~Beginning BY <2>1, BeginningOf
    <2>5. QueueShape /\ BeginsIdle /\ Passing /\ Ending
      BY <2>1, <2>2, <2>4 DEF QueueShape, BeginsIdle, Passing, Ending
    <2>6. FreshHeld /\ EndedOnce /\ PipeOwned
      BY <2>1, <2>2 DEF FreshHeld, EndedOnce, PipeOwned
    <2> QED BY <2>3, <2>5, <2>6 DEF Rest
  <1>2. TypeOK /\ Rest /\ [Next]_vars => (TypeOK /\ Rest)'
    BY NextInv, TypeStep DEF Rest
  <1>3. TypeOK /\ Rest => IInv BY DEF Rest, IInv
  <1> QED BY <1>1, <1>2, <1>3, PTL DEF Spec

\* The fields keep their types, and the outgoing messages fit their array.
THEOREM TypeCorrect == Spec => []TypeOK
  <1>1. IInv => TypeOK BY DEF IInv
  <1> QED BY <1>1, InvCorrect, PTL

\* A session ends its stream once and then itself once, in every run.
THEOREM EndedOnceCorrect == Spec => []EndedOnce
  <1>1. IInv => EndedOnce BY DEF IInv
  <1> QED BY <1>1, InvCorrect, PTL

\* The destination's end of each audio pipe is closed once; only a restart in
\* the middle of a stream forgets one.
THEOREM PipeCorrect == Spec => []PipeOwned
  <1>1. IInv => PipeOwned BY DEF IInv
  <1> QED BY <1>1, InvCorrect, PTL

\* Terminating a connection ends its session before the call returns.
THEOREM TerminateCorrect == Spec => []TerminateDisconnects
  <1>1. IInv => TerminateDisconnects
    <2> SUFFICES ASSUME IInv, task = "terminate", evq = << >>
                 PROVE  /\ sdt.state = "Disconnected"
                        /\ sdt.session_end_reason = "TERMINATE"
      BY DEF TerminateDisconnects
    <2> QED BY RaisedTables, QueueFacts DEF IInv, Ending, Passing
  <1> QED BY <1>1, InvCorrect, PTL

\* Between handlers no state is left to a timer, for there is none.
THEOREM RestsCorrect == Spec => []Rests
  <1>1. IInv => Rests
    <2> SUFFICES ASSUME IInv, task = "idle"
                 PROVE  sdt.state \in {"Disconnected", "Buffering", "Streaming",
                                       "Established"}
      BY DEF Rests
    <2>1. Rest BY DEF IInv, Rest
    <2>2. sdt.state \in States BY DEF IInv, TypeOK, SdtType
    <2>3. sdt.state \notin {"Connecting", "Connected", "Disconnecting"}
      BY <2>1, IdleFacts
    <2> QED BY <2>2, <2>3 DEF States, NextStates
  <1> QED BY <1>1, InvCorrect, PTL

\* A session that ends has its reasons: those that ended its stream.
LEMMA MoveReasons ==
    ASSUME TypeOK, Rest, NEW e \in Events, NEW n \in States, Move(e, n),
           sdt'.sessionEnds > sdt.sessionEnds
    PROVE  sdt'.fresh
  <1>1. /\ n = NextStates[sdt.state][e] /\ e \in DOMAIN NextStates[sdt.state]
        /\ sdt'.sessionEnds = IF n = "Disconnected" THEN sdt.sessionEnds + 1
                              ELSE sdt.sessionEnds
        /\ sdt'.fresh = IF Tells(sdt, e) THEN TRUE ELSE sdt.fresh
    BY DEF Move
  <1>2. sdt \in SdtType /\ sdt.sessionEnds \in Nat BY DEF TypeOK, SdtType
  <1>3. n = "Disconnected" BY <1>1, <1>2
  <1>4. /\ sdt.state = "Disconnected" => n \in {"Connecting", "Buffering"}
        /\ sdt.state = "Established" => n = "Disconnecting"
        /\ (sdt.state \notin StreamOver /\ n \in StreamOver) => Tells(sdt, e)
    BY <1>1, <1>2, Tables
  <1>5. sdt.state = "Disconnecting" \/ Tells(sdt, e)
    BY <1>3, <1>4 DEF StreamOver
  <1> QED BY <1>1, <1>5 DEF Rest, FreshHeld

\* The reason a session ends with was set in that session.
THEOREM ReasonCorrect == Spec => ReasonOfThisSession
  <1>1. IInv => TypeOK /\ Rest BY DEF IInv, Rest
  <1>2. TypeOK /\ Rest /\ [Next]_vars =>
          (sdt'.sessionEnds > sdt.sessionEnds => sdt'.fresh)
    <2> SUFFICES ASSUME TypeOK, Rest, [Next]_vars,
                        sdt'.sessionEnds > sdt.sessionEnds
                 PROVE  sdt'.fresh
      OBVIOUS
    <2>1. sdt.sessionEnds \in Nat BY DEF TypeOK, SdtType
    <2>2. CASE Steady BY <2>1, <2>2 DEF Steady
    <2>3. CASE Connect
      <3>1. sdt'.sessionEnds = 0 BY <2>3, ConnectType
      <3> QED BY <2>1, <3>1
    <2>4. CASE Restart
      <3>1. sdt'.sessionEnds = 0 BY <2>4, WipedEffect DEF Restart
      <3> QED BY <2>1, <3>1
    <2>5. CASE Moves BY <2>5, MoveReasons DEF Moves
    <2> QED BY <2>2, <2>3, <2>4, <2>5, NextInv
  <1>3. IInv /\ [Next]_vars =>
          [sdt'.sessionEnds > sdt.sessionEnds => sdt'.fresh]_vars
    BY <1>1, <1>2
  <1> QED BY <1>3, InvCorrect, PTL DEF Spec, ReasonOfThisSession

\* Where the router sees a session.
LEMMA PhaseOf ==
    ASSUME TypeOK, Rest
    PROVE  /\ sdt.state \in {"Buffering", "Connecting", "Connected"} =>
                Phase = "opening" /\ sdt.streamEnds = 0 /\ sdt.sessionEnds = 0
           /\ sdt.state = "Streaming" =>
                Phase = "streaming" /\ sdt.streamEnds = 0
                /\ sdt.sessionEnds = 0
           /\ sdt.state \in {"Established", "Disconnecting"} =>
                Phase = "draining" /\ sdt.streamEnds = 1
                /\ sdt.sessionEnds = 0
           /\ sdt.state = "Disconnected" =>
                /\ sdt.sessionEnds = sdt.streamEnds
                /\ Beginning => Phase = "opening" /\ sdt.streamEnds = 0
                /\ ~Beginning => Phase = "idle"
  BY DEF Rest, EndedOnce, BeginsIdle, Phase

\* Where a state is entered from, and that there is no other state.
LEMMA EntryTables ==
    ASSUME NEW s \in States, NEW e \in Events, e \in DOMAIN NextStates[s],
           NEW n, n = NextStates[s][e]
    PROVE  /\ n \in {"Buffering", "Connecting", "Connected"} =>
                s \in {"Disconnected", "Buffering", "Connecting", "Connected"}
           /\ n = "Streaming" => s = "Connected"
           /\ n = "Established" => s = "Streaming"
           /\ n = "Disconnecting" =>
                s \in {"Connected", "Established", "Streaming"}
           /\ n = "Disconnected" =>
                s \in {"Buffering", "Connecting", "Disconnecting"}
           /\ n \in {"Disconnected", "Disconnecting", "Buffering", "Connecting",
                     "Connected", "Established", "Streaming"}
  <1> USE DEF NextStates, Events
  <1>0. States = {"Disconnected", "Disconnecting", "Buffering", "Connecting",
                  "Connected", "Established", "Streaming"}
    BY DEF States
  <1>1. CASE s = "Disconnected" BY <1>1
  <1>2. CASE s = "Disconnecting" BY <1>2
  <1>3. CASE s = "Buffering" BY <1>3
  <1>4. CASE s = "Connecting" BY <1>4
  <1>5. CASE s = "Connected" BY <1>5
  <1>6. CASE s = "Established" BY <1>6
  <1>7. CASE s = "Streaming" BY <1>7
  <1> HIDE DEF NextStates, Events
  <1> QED BY <1>0, <1>1, <1>2, <1>3, <1>4, <1>5, <1>6, <1>7

\* An event that leads on is a step of the contract, or invisible.
LEMMA AbstractMove ==
    ASSUME TypeOK, Rest, TypeOK', Rest',
           NEW e \in Events, NEW n \in States, Move(e, n)
    PROVE  [Abstract!Next]_(Abstract!vars)
  <1> USE DEF Abstract!Next, Abstract!vars, Abstract!Begin, Abstract!StartStream,
              Abstract!EndStream, Abstract!EndSession, Abstract!Abort
  <1>1. /\ evq = <<e>> /\ evq' = Raised[n] /\ sdt'.state = n
        /\ n = NextStates[sdt.state][e] /\ e \in DOMAIN NextStates[sdt.state]
        /\ sdt'.sessionEnds = IF n = "Disconnected" THEN sdt.sessionEnds + 1
                              ELSE sdt.sessionEnds
    BY DEF Move
  <1>2. sdt \in SdtType /\ sdt.state \in States BY DEF TypeOK, SdtType
  <1>3. ~Beginning' BY <1>1, RaisedBegins
  <1>4. sdt.state = "Disconnected" => Beginning
    BY <1>1, <1>2, Tables, BeginningOf
  <1>5. CASE n \in {"Buffering", "Connecting", "Connected"}
    <2>1. Phase' = "opening" /\ sdt'.streamEnds = 0 /\ sdt'.sessionEnds = 0
      BY <1>1, <1>5 DEF Rest, EndedOnce, Phase
    <2>2. sdt.state \in {"Disconnected", "Buffering", "Connecting", "Connected"}
      BY <1>1, <1>2, <1>5, EntryTables
    <2>3. Phase = "opening" /\ sdt.streamEnds = 0 /\ sdt.sessionEnds = 0
      BY <1>4, <2>2, PhaseOf
    <2> QED BY <2>1, <2>3
  <1>6. CASE n = "Streaming"
    <2>1. Phase' = "streaming" /\ sdt'.streamEnds = 0 /\ sdt'.sessionEnds = 0
      BY <1>1, <1>6 DEF Rest, EndedOnce, Phase
    <2>2. sdt.state = "Connected" BY <1>1, <1>2, <1>6, EntryTables
    <2>3. Phase = "opening" /\ sdt.streamEnds = 0 /\ sdt.sessionEnds = 0
      BY <2>2, PhaseOf
    <2> QED BY <2>1, <2>3
  <1>7. CASE n \in {"Established", "Disconnecting"}
    <2>1. Phase' = "draining" /\ sdt'.streamEnds = 1 /\ sdt'.sessionEnds = 0
      BY <1>1, <1>7 DEF Rest, EndedOnce, Phase
    <2>2. sdt.state \in {"Connected", "Established", "Streaming"}
      BY <1>1, <1>2, <1>7, EntryTables
    <2>3. /\ sdt.sessionEnds = 0
          /\ \/ Phase \in {"opening", "streaming"} /\ sdt.streamEnds = 0
             \/ Phase = "draining" /\ sdt.streamEnds = 1
      BY <2>2, PhaseOf
    <2> QED BY <2>1, <2>3
  <1>8. CASE n = "Disconnected"
    <2>1. sdt.state \in {"Buffering", "Connecting", "Disconnecting"}
      BY <1>1, <1>2, <1>8, EntryTables
    <2>2. /\ sdt.sessionEnds = 0
          /\ \/ Phase = "opening" /\ sdt.streamEnds = 0
             \/ Phase = "draining" /\ sdt.streamEnds = 1
      BY <2>1, PhaseOf
    <2>3. sdt'.sessionEnds = 1 BY <1>1, <1>8, <2>2
    <2>4. sdt'.streamEnds = 1 BY <1>1, <1>8, <2>3 DEF Rest, EndedOnce
    <2>5. Phase' = "idle" BY <1>1, <1>3, <1>8 DEF Phase
    <2> QED BY <2>2, <2>3, <2>4, <2>5
  <1> QED BY <1>1, <1>2, <1>5, <1>6, <1>7, <1>8, EntryTables

\* Every step of the connection is one of the contract, a restart, or
\* invisible.
LEMMA AbstractStep ==
    ASSUME TypeOK, Rest, TypeOK', Rest', [Next]_vars
    PROVE  [Abstract!Next \/ Forget]_(Abstract!vars)
  <1>1. CASE Steady BY <1>1 DEF Steady, Phase, Abstract!vars
  <1>2. CASE Connect
    <2>1. ~Beginning /\ Beginning' BY <1>2, ConnectInv
    <2>2. sdt.state = "Disconnected" BY <1>2 DEF Connect
    <2>3. Phase = "idle" BY <2>1, <2>2, PhaseOf
    <2>4. /\ sdt'.state = "Disconnected" /\ sdt'.streamEnds = 0
          /\ sdt'.sessionEnds = 0
      BY <1>2, ConnectType
    <2>5. Phase' = "opening" BY <2>1, <2>4 DEF Phase
    <2> QED BY <2>3, <2>4, <2>5 DEF Abstract!Next, Abstract!Begin
  <1>3. CASE Restart
    <2>1. ~Beginning BY <1>3, RestartInv
    <2>2. sdt.state = "Disconnected" => Phase = "idle" BY <2>1, PhaseOf
    <2>3. Forget BY <1>3, <2>2 DEF Forget, Restart
    <2> QED BY <2>3
  <1>4. CASE Moves
    <2>1. PICK e \in Events, n \in States : Move(e, n) BY <1>4 DEF Moves
    <2>2. [Abstract!Next]_(Abstract!vars) BY <2>1, AbstractMove
    <2> QED BY <2>2
  <1> QED BY <1>1, <1>2, <1>3, <1>4, NextInv

\* The destination implements the contract of every destination: to the
\* router it is a session that opens, streams, drains and ends, with one call
\* of xrsr_speech_stream_end and then one of xrsr_session_end; only a restart
\* of the router forgets one.
THEOREM ContractCorrect == Spec => Contract
  <1>1. Init => Abstract!Init
    BY DEF Init, SdtInit, Abstract!Init, Phase, Beginning
  <1>2. IInv /\ IInv' /\ [Next]_vars =>
          [Abstract!Next \/ Forget]_(Abstract!vars)
    <2> SUFFICES ASSUME IInv, IInv', [Next]_vars
                 PROVE  [Abstract!Next \/ Forget]_(Abstract!vars)
      OBVIOUS
    <2>1. TypeOK /\ Rest /\ TypeOK' /\ Rest' BY DEF IInv, Rest
    <2> QED BY <2>1, AbstractStep
  <1> QED BY <1>1, <1>2, InvCorrect, PTL DEF Spec, Contract
=============================================================================
