--------------------------- MODULE HttpConnProofs ---------------------------
(***************************************************************************)
(* What holds of the HTTP destinations for every set of them and every     *)
(* value of the other constants: the types, the inductive invariant IInv   *)
(* of HttpConn, and from it the properties and the contract of every       *)
(* destination (Conn).                                                     *)
(*                                                                         *)
(* A step belongs to one destination; what it does to that one is said of  *)
(* its record alone (Lead, Good), what it does to curl's timer and the     *)
(* count of easy handles of the shared record alone (Curl).  A step of the *)
(* state machine either drops an event or is a Move.                       *)
(***************************************************************************)
EXTENDS HttpConn, FiniteSetTheorems, TLAPS

-----------------------------------------------------------------------------
(* The tables.                                                             *)

\* EXIT of s on e ends the stream; it sets the session's reason.
Ends(s, e) == s \in DOMAIN StreamReasons /\ e \in DOMAIN StreamReasons[s]
Tells(s, e) == s \in DOMAIN SessionReasons /\ e \in DOMAIN SessionReasons[s]

LEMMA StatesAre ==
    States = {"Disconnected", "Buffering", "Connecting", "Connected",
              "Streaming", "TextOnlySession"}
  BY DEF States, NextStates

\* What the tables say of an event that leads on.
LEMMA Tables ==
    ASSUME NEW s \in States, NEW e \in Events, e \in DOMAIN NextStates[s],
           NEW n, n = NextStates[s][e]
    PROVE  /\ n \in States
           /\ s = "Disconnected" <=> e \in BeginEvents
           /\ s = "Disconnected" => n \in {"Connecting", "Buffering"}
           /\ s = "Buffering" => n \in {"Connecting", "Disconnected"}
           /\ s = "Connecting" => n \in {"Streaming", "Disconnected"}
           /\ s = "Connected" => n = "Disconnected"
           /\ s \in {"Streaming", "TextOnlySession"} =>
                n \in {"Connected", "Disconnected", "TextOnlySession"}
           /\ Ends(s, e) <=>
                /\ s \notin {"Disconnected", "Connected"}
                /\ n \in {"Disconnected", "Connected"}
           /\ (Ends(s, e) /\ s \in {"Buffering", "Connecting"}) =>
                StreamReasons[s][e] = "DID_NOT_BEGIN"
           /\ Tells(s, e) => SessionReasons[s][e] \in Reasons
           /\ e = "TERMINATE" =>
                /\ n = "Disconnected" /\ Tells(s, e)
                /\ SessionReasons[s][e] = "TERMINATE"
  <1> USE DEF NextStates, Events, BeginEvents, Ends, Tells, StreamReasons,
              SessionReasons, Reasons
  <1>1. CASE s = "Disconnected" BY <1>1, StatesAre
  <1>2. CASE s = "Buffering" BY <1>2, StatesAre
  <1>3. CASE s = "Connecting" BY <1>3, StatesAre
  <1>4. CASE s = "Connected" BY <1>4, StatesAre
  <1>5. CASE s = "Streaming" BY <1>5, StatesAre
  <1>6. CASE s = "TextOnlySession" BY <1>6, StatesAre
  <1> HIDE DEF NextStates, Events, BeginEvents, Ends, Tells, StreamReasons,
               SessionReasons, Reasons
  <1> QED BY <1>1, <1>2, <1>3, <1>4, <1>5, <1>6, StatesAre

\* Which events some states do not drop.
LEMMA Listed ==
    /\ \A s \in States \ {"Disconnected", "Connecting"} :
         "TERMINATE" \in DOMAIN NextStates[s]
    /\ \A e \in {"CONNECTED", "DISCONNECTED"} :
         e \in DOMAIN NextStates["Connecting"]
    /\ \A e \in BeginEvents : e \in DOMAIN NextStates["Disconnected"]
  BY DEF NextStates, States, BeginEvents

\* Short sequences; their equality is that of their elements.
LEMMA QueueFacts ==
    /\ \A x : /\ Head(<<x>>) = x /\ Tail(<<x>>) = << >>
              /\ Append(<< >>, x) = <<x>> /\ <<x>> # << >>
    /\ \A x, y : <<x>> = <<y>> <=> x = y
    /\ << >> \in Seq(Events)
    /\ \A x \in Events : <<x>> \in Seq(Events)
  OBVIOUS

-----------------------------------------------------------------------------
(* One destination.                                                        *)

\* The timer library holds the response timer that the destination names.
Armed(h) == h.armed = IF h.timer_id_rsp THEN 1 ELSE 0

LEMMA TypeOfFields ==
    ASSUME NEW h \in HttpType
    PROVE  /\ h.state \in States /\ h.streamEnds \in Nat
           /\ h.sessionEnds \in Nat /\ h.armed \in Int
           /\ h.begun \in BOOLEAN /\ h.falseEnd \in BOOLEAN
           /\ h.initialized \in BOOLEAN /\ h.easy_handle \in BOOLEAN
           /\ h.timer_id_rsp \in BOOLEAN /\ h.session \in 0 .. MaxSessions
           /\ h.is_session_by_text \in BOOLEAN
           /\ h.audio_pipe \in 0 .. MaxSessions /\ h.transfer \in Transfers
           /\ h.reason \in Reasons /\ h.ended \in Reasons
  BY DEF HttpType

\* What leaves the fields alone that the invariant is about.
Alike(x, h) ==
    /\ x.state = h.state /\ x.streamEnds = h.streamEnds
    /\ x.sessionEnds = h.sessionEnds /\ x.begun = h.begun
    /\ x.falseEnd = h.falseEnd /\ x.initialized = h.initialized
    /\ x.easy_handle = h.easy_handle /\ x.timer_id_rsp = h.timer_id_rsp
    /\ x.ended = h.ended

LEMMA RemoveTimerEffect ==
    ASSUME NEW h \in HttpType
    PROVE  LET x == RemoveTimer(h)
           IN  /\ x \in HttpType /\ x.timer_id_rsp = FALSE
               /\ Armed(h) => Armed(x)
               /\ x.state = h.state /\ x.streamEnds = h.streamEnds
               /\ x.sessionEnds = h.sessionEnds /\ x.begun = h.begun
               /\ x.falseEnd = h.falseEnd /\ x.initialized = h.initialized
               /\ x.easy_handle = h.easy_handle /\ x.ended = h.ended
               /\ x.reason = h.reason
  <1>1. CASE h.timer_id_rsp
    <2> DEFINE m == h.armed - 1
               x == [h EXCEPT !.timer_id_rsp = FALSE, !.armed = m]
    <2>1. \A i \in Int : [h EXCEPT !.timer_id_rsp = FALSE, !.armed = i] \in HttpType
      BY DEF HttpType
    <2>2. h.armed \in Int BY TypeOfFields
    <2>3. m \in Int BY <2>2
    <2>4. RemoveTimer(h) = x BY <1>1 DEF RemoveTimer
    <2>5. x \in HttpType
      <3> HIDE DEF m
      <3> QED BY <2>1, <2>3
    <2>6. /\ x.timer_id_rsp = FALSE /\ x.armed = m
          /\ x.state = h.state /\ x.streamEnds = h.streamEnds
          /\ x.sessionEnds = h.sessionEnds /\ x.begun = h.begun
          /\ x.falseEnd = h.falseEnd /\ x.initialized = h.initialized
          /\ x.easy_handle = h.easy_handle /\ x.ended = h.ended
          /\ x.reason = h.reason
      <3> HIDE DEF m
      <3> QED BY DEF HttpType
    <2> HIDE DEF x
    <2>7. Armed(h) => Armed(x) BY <1>1, <2>2, <2>6 DEF Armed
    <2> QED BY <2>4, <2>5, <2>6, <2>7
  <1>2. CASE ~h.timer_id_rsp
    BY <1>2, TypeOfFields DEF RemoveTimer
  <1> QED BY <1>1, <1>2

LEMMA SpeechStreamEndEffect ==
    ASSUME NEW h \in HttpType, NEW r
    PROVE  LET x == SpeechStreamEnd(h, r)
           IN  /\ x \in HttpType
               /\ x.streamEnds = h.streamEnds + 1
               /\ x.falseEnd = (h.falseEnd \/ (r # "DID_NOT_BEGIN" /\ ~h.begun))
               /\ x.timer_id_rsp = h.timer_id_rsp /\ x.armed = h.armed
               /\ x.state = h.state /\ x.initialized = h.initialized
               /\ x.sessionEnds = h.sessionEnds /\ x.begun = h.begun
               /\ x.easy_handle = h.easy_handle /\ x.ended = h.ended
               /\ x.reason = h.reason
  <1> DEFINE n == h.streamEnds + 1
             b == h.falseEnd \/ (r # "DID_NOT_BEGIN" /\ ~h.begun)
             x == [h EXCEPT !.streamEnds = n, !.falseEnd = b]
  <1>1. n \in Nat BY TypeOfFields
  <1>2. b \in BOOLEAN BY TypeOfFields
  <1>3. SpeechStreamEnd(h, r) = x BY DEF SpeechStreamEnd
  <1> HIDE DEF n, b
  <1>4. /\ x \in HttpType /\ x.streamEnds = n /\ x.falseEnd = b
        /\ x.timer_id_rsp = h.timer_id_rsp /\ x.armed = h.armed
        /\ x.state = h.state /\ x.initialized = h.initialized
        /\ x.sessionEnds = h.sessionEnds /\ x.begun = h.begun
        /\ x.easy_handle = h.easy_handle /\ x.ended = h.ended
        /\ x.reason = h.reason
    BY <1>1, <1>2 DEF HttpType
  <1> HIDE DEF x
  <1> QED BY <1>3, <1>4 DEF n, b

\* What leaving a state does.
LEMMA ExitEffect ==
    ASSUME NEW h \in HttpType, NEW e \in Events, e \in DOMAIN NextStates[h.state],
           h.timer_id_rsp <=> h.state = "Connected"
    PROVE  LET x == Exit(h, e)
           IN  /\ x \in HttpType
               /\ x.streamEnds = IF Ends(h.state, e) THEN h.streamEnds + 1
                                 ELSE h.streamEnds
               /\ x.falseEnd = IF Ends(h.state, e)
                    THEN h.falseEnd \/ (StreamReasons[h.state][e] # "DID_NOT_BEGIN"
                                        /\ ~h.begun)
                    ELSE h.falseEnd
               /\ x.timer_id_rsp = FALSE
               /\ Armed(h) => Armed(x)
               /\ x.state = h.state /\ x.initialized = h.initialized
               /\ x.sessionEnds = h.sessionEnds /\ x.begun = h.begun
               /\ x.easy_handle = h.easy_handle /\ x.ended = h.ended
               /\ x.reason = IF Tells(h.state, e)
                             THEN SessionReasons[h.state][e] ELSE h.reason
  <1> DEFINE y == IF Ends(h.state, e)
                  THEN SpeechStreamEnd(h, StreamReasons[h.state][e]) ELSE h
             r == IF Tells(h.state, e) THEN SessionReasons[h.state][e]
                  ELSE h.reason
             z == IF Tells(h.state, e) THEN [y EXCEPT !.reason = r] ELSE y
  <1>1. /\ y \in HttpType
        /\ y.streamEnds = IF Ends(h.state, e) THEN h.streamEnds + 1
                          ELSE h.streamEnds
        /\ y.falseEnd = IF Ends(h.state, e)
             THEN h.falseEnd \/ (StreamReasons[h.state][e] # "DID_NOT_BEGIN"
                                 /\ ~h.begun)
             ELSE h.falseEnd
        /\ y.timer_id_rsp = h.timer_id_rsp /\ y.armed = h.armed
        /\ y.state = h.state /\ y.initialized = h.initialized
        /\ y.sessionEnds = h.sessionEnds /\ y.begun = h.begun
        /\ y.easy_handle = h.easy_handle /\ y.ended = h.ended
        /\ y.reason = h.reason
    BY SpeechStreamEndEffect
  <1>2. r \in Reasons BY Tables, TypeOfFields
  <1>3. Exit(h, e) = IF h.state = "Connected" THEN RemoveTimer(z) ELSE z
    BY DEF Exit, Ends, Tells
  <1>4. z.reason = r /\ z \in HttpType
        /\ z.streamEnds = y.streamEnds /\ z.falseEnd = y.falseEnd
        /\ z.timer_id_rsp = y.timer_id_rsp /\ z.armed = y.armed
        /\ z.state = y.state /\ z.initialized = y.initialized
        /\ z.sessionEnds = y.sessionEnds /\ z.begun = y.begun
        /\ z.easy_handle = y.easy_handle /\ z.ended = y.ended
    <2>1. CASE Tells(h.state, e)
      <3> HIDE DEF y, r
      <3>1. \A q \in Reasons : LET w == [y EXCEPT !.reason = q] IN
              /\ w.reason = q /\ w \in HttpType
              /\ w.streamEnds = y.streamEnds /\ w.falseEnd = y.falseEnd
              /\ w.timer_id_rsp = y.timer_id_rsp /\ w.armed = y.armed
              /\ w.state = y.state /\ w.initialized = y.initialized
              /\ w.sessionEnds = y.sessionEnds /\ w.begun = y.begun
              /\ w.easy_handle = y.easy_handle /\ w.ended = y.ended
        BY <1>1 DEF HttpType
      <3>2. z = [y EXCEPT !.reason = r] BY <2>1
      <3> QED BY <1>2, <3>1, <3>2
    <2>2. CASE ~Tells(h.state, e)
      <3>1. z = y /\ r = y.reason BY <1>1, <2>2
      <3> HIDE DEF z
      <3> QED BY <1>1, <3>1
    <2> QED BY <2>1, <2>2
  <1> HIDE DEF y, z
  <1>5. CASE h.state = "Connected"
    <2> DEFINE x == RemoveTimer(z)
    <2>1. /\ x \in HttpType /\ x.timer_id_rsp = FALSE
          /\ Armed(z) => Armed(x)
          /\ x.state = z.state /\ x.streamEnds = z.streamEnds
          /\ x.sessionEnds = z.sessionEnds /\ x.begun = z.begun
          /\ x.falseEnd = z.falseEnd /\ x.initialized = z.initialized
          /\ x.easy_handle = z.easy_handle /\ x.ended = z.ended
          /\ x.reason = z.reason
      BY <1>4, RemoveTimerEffect
    <2>2. Exit(h, e) = x BY <1>3, <1>5
    <2> HIDE DEF x
    <2>3. Armed(h) => Armed(x) BY <1>1, <1>4, <2>1 DEF Armed
    <2> QED BY <1>1, <1>4, <2>1, <2>2, <2>3
  <1>6. CASE h.state # "Connected"
    <2>1. Exit(h, e) = z BY <1>3, <1>6
    <2>2. z.timer_id_rsp = FALSE BY <1>1, <1>4, <1>6, TypeOfFields
    <2>3. Armed(h) => Armed(z) BY <1>1, <1>4 DEF Armed
    <2> QED BY <1>1, <1>4, <2>1, <2>2, <2>3
  <1> QED BY <1>5, <1>6

\* What entering Disconnected does: Reset, after the callback.
LEMMA DisconnectEffect ==
    ASSUME NEW h \in HttpType
    PROVE  LET x == Disconnect(h)
           IN  /\ x \in HttpType /\ x.state = "Disconnected"
               /\ x.initialized = h.initialized
               /\ x.streamEnds = h.streamEnds
               /\ x.sessionEnds = h.sessionEnds + 1
               /\ x.easy_handle = FALSE /\ x.begun = h.begun
               /\ x.falseEnd = h.falseEnd /\ x.timer_id_rsp = FALSE
               /\ Armed(h) => Armed(x)
               /\ x.ended = h.reason
  <1> DEFINE m == h.sessionEnds + 1
             r == h.reason
             y == [h EXCEPT !.state = "Disconnected", !.ended = r,
                            !.sessionEnds = m]
             z == RemoveTimer(y)
             x == [z EXCEPT !.audio_pipe = 0, !.easy_handle = FALSE,
                            !.transfer = "none", !.reason = "EOS",
                            !.is_session_by_text = FALSE]
  <1>1. m \in Nat /\ r \in Reasons BY TypeOfFields
  <1>2. Disconnect(h) = x BY DEF Disconnect, Reset
  <1>3. "Disconnected" \in States BY StatesAre
  <1>4. /\ "EOS" \in Reasons /\ "none" \in Transfers /\ 0 \in 0 .. MaxSessions
    BY HttpAssumption DEF Reasons, Transfers
  <1>5. m = h.sessionEnds + 1 /\ r = h.reason OBVIOUS
  <1> HIDE DEF m, r
  <1>6. /\ y \in HttpType /\ y.state = "Disconnected" /\ y.ended = r
        /\ y.sessionEnds = m /\ y.initialized = h.initialized
        /\ y.streamEnds = h.streamEnds /\ y.begun = h.begun
        /\ y.falseEnd = h.falseEnd /\ y.timer_id_rsp = h.timer_id_rsp
        /\ y.armed = h.armed
    BY <1>1, <1>3 DEF HttpType
  <1> HIDE DEF y
  <1>7. /\ z \in HttpType /\ z.timer_id_rsp = FALSE
        /\ Armed(y) => Armed(z)
        /\ z.state = y.state /\ z.streamEnds = y.streamEnds
        /\ z.sessionEnds = y.sessionEnds /\ z.begun = y.begun
        /\ z.falseEnd = y.falseEnd /\ z.initialized = y.initialized
        /\ z.ended = y.ended
    BY <1>6, RemoveTimerEffect
  <1> HIDE DEF z
  <1>8. /\ x \in HttpType /\ x.timer_id_rsp = z.timer_id_rsp
        /\ x.armed = z.armed /\ x.easy_handle = FALSE
        /\ x.state = z.state /\ x.streamEnds = z.streamEnds
        /\ x.sessionEnds = z.sessionEnds /\ x.begun = z.begun
        /\ x.falseEnd = z.falseEnd /\ x.initialized = z.initialized
        /\ x.ended = z.ended
    BY <1>4, <1>7 DEF HttpType
  <1> HIDE DEF x
  <1>9. Armed(h) => Armed(x) BY <1>6, <1>7, <1>8 DEF Armed
  <1> QED BY <1>2, <1>5, <1>6, <1>7, <1>8, <1>9

\* What entering n does to a destination; its response timer is not set.
Entered(h, x, n) ==
    /\ x \in HttpType /\ x.state = n
    /\ x.initialized = h.initialized /\ x.streamEnds = h.streamEnds
    /\ x.sessionEnds = IF n = "Disconnected" THEN h.sessionEnds + 1
                       ELSE h.sessionEnds
    /\ x.easy_handle = IF n = "Disconnected" THEN FALSE ELSE h.easy_handle
    /\ x.begun = IF n = "Streaming" THEN TRUE ELSE h.begun
    /\ x.falseEnd = h.falseEnd
    /\ x.timer_id_rsp <=> n = "Connected"
    /\ Armed(h) => Armed(x)
    /\ n = "Disconnected" => x.ended = h.reason

LEMMA ConnectingEffect ==
    ASSUME NEW h \in HttpType, h.timer_id_rsp = FALSE,
           NEW t \in Transfers, NEW p \in 0 .. MaxSessions
    PROVE  Entered(h, [h EXCEPT !.state = "Connecting", !.transfer = t,
                                !.audio_pipe = p], "Connecting")
  <1> DEFINE x == [h EXCEPT !.state = "Connecting", !.transfer = t,
                            !.audio_pipe = p]
  <1>1. "Connecting" \in States BY StatesAre
  <1>2. /\ x \in HttpType /\ x.state = "Connecting"
        /\ x.initialized = h.initialized /\ x.streamEnds = h.streamEnds
        /\ x.sessionEnds = h.sessionEnds /\ x.easy_handle = h.easy_handle
        /\ x.begun = h.begun /\ x.falseEnd = h.falseEnd
        /\ x.timer_id_rsp = h.timer_id_rsp /\ x.armed = h.armed
    BY <1>1 DEF HttpType
  <1> HIDE DEF x
  <1>3. Armed(h) => Armed(x) BY <1>2 DEF Armed
  <1> QED BY <1>2, <1>3 DEF Entered, x

LEMMA PlainEffect ==
    ASSUME NEW h \in HttpType, h.timer_id_rsp = FALSE, NEW n \in States,
           NEW b \in BOOLEAN,
           n \notin {"Disconnected", "Connected"},
           b = IF n = "Streaming" THEN TRUE ELSE h.begun
    PROVE  Entered(h, [h EXCEPT !.state = n, !.begun = b], n)
  <1> DEFINE x == [h EXCEPT !.state = n, !.begun = b]
  <1>2. /\ x \in HttpType /\ x.state = n
        /\ x.initialized = h.initialized /\ x.streamEnds = h.streamEnds
        /\ x.sessionEnds = h.sessionEnds /\ x.easy_handle = h.easy_handle
        /\ x.begun = b /\ x.falseEnd = h.falseEnd
        /\ x.timer_id_rsp = h.timer_id_rsp /\ x.armed = h.armed
    BY DEF HttpType
  <1> HIDE DEF x
  <1>3. Armed(h) => Armed(x) BY <1>2 DEF Armed
  <1> QED BY <1>2, <1>3 DEF Entered, x

LEMMA ConnectedEffect ==
    ASSUME NEW h \in HttpType, h.timer_id_rsp = FALSE
    PROVE  Entered(h, [h EXCEPT !.state = "Connected", !.timer_id_rsp = TRUE,
                                !.armed = @ + 1], "Connected")
  <1> DEFINE m == h.armed + 1
             x == [h EXCEPT !.state = "Connected", !.timer_id_rsp = TRUE,
                            !.armed = m]
  <1>1. "Connected" \in States BY StatesAre
  <1>2. h.armed \in Int /\ m \in Int BY TypeOfFields
  <1>3. Armed(h) => m = 1 BY <1>2 DEF Armed
  <1>0. x = [h EXCEPT !.state = "Connected", !.timer_id_rsp = TRUE,
                      !.armed = @ + 1]
    OBVIOUS
  <1> HIDE DEF m
  <1>4. /\ x \in HttpType /\ x.state = "Connected"
        /\ x.initialized = h.initialized /\ x.streamEnds = h.streamEnds
        /\ x.sessionEnds = h.sessionEnds /\ x.easy_handle = h.easy_handle
        /\ x.begun = h.begun /\ x.falseEnd = h.falseEnd
        /\ x.timer_id_rsp = TRUE /\ x.armed = m
    BY <1>1, <1>2 DEF HttpType
  <1> HIDE DEF x
  <1>5. Armed(h) => Armed(x) BY <1>3, <1>4 DEF Armed
  <1>6. Entered(h, x, "Connected") BY <1>4, <1>5 DEF Entered
  <1> QED BY <1>0, <1>6

\* What entering n raises, and what it does to what the destinations share.
Following(h, n) ==
    /\ n # "Streaming" /\ n # "Connecting" => evq' = << >>
    /\ n = "Connecting" => evq' \in {<<"CONNECTED">>, <<"DISCONNECTED">>}
    /\ n = "Streaming" => evq' \in {<< >>, <<"TEXT_SESSION_SUCCESS">>}
    /\ n = "Disconnected" => g_http' \in ResetShared(g_http, h)
    /\ n = "Connecting" => g_http' \in CurlTimer(g_http)
    /\ n \notin {"Disconnected", "Connecting"} => g_http' = g_http

LEMMA EnterEffect ==
    ASSUME NEW c, NEW h \in HttpType, h.timer_id_rsp = FALSE,
           NEW n \in States, Enter(c, h, n, << >>)
    PROVE  /\ Following(h, n)
           /\ \E x : Entered(h, x, n) /\ http' = [http EXCEPT ![c] = x]
  <1>1. CASE n = "Disconnected"
    <2>1. EnterDisconnected(c, h, << >>) BY <1>1 DEF Enter
    <2>2. Entered(h, Disconnect(h), n)
      BY <1>1, DisconnectEffect DEF Entered
    <2> QED BY <1>1, <2>1, <2>2 DEF EnterDisconnected, Following
  <1>2. CASE n \in {"Buffering", "TextOnlySession"}
    <2>1. EnterQuiet(c, h, n, << >>) BY <1>2 DEF Enter
    <2>2. h.begun \in BOOLEAN BY TypeOfFields
    <2>3. Entered(h, [h EXCEPT !.state = n, !.begun = h.begun], n)
      BY <1>2, <2>2, PlainEffect
    <2>4. [h EXCEPT !.state = n, !.begun = h.begun] = [h EXCEPT !.state = n]
      BY DEF HttpType
    <2> QED BY <1>2, <2>1, <2>3, <2>4 DEF EnterQuiet, Following
  <1>3. CASE n = "Connecting"
    <2>1. EnterConnecting(c, h, << >>) /\ g_http' \in CurlTimer(g_http)
      BY <1>3 DEF Enter
    <2>2. h.audio_pipe \in 0 .. MaxSessions /\ 0 \in 0 .. MaxSessions
      BY TypeOfFields, HttpAssumption
    <2>3. {"done", "waiting", "sending", "none"} \subseteq Transfers
      BY DEF Transfers
    <2>4. CASE evq' = Append(<< >>, "CONNECTED") /\
              \E over \in BOOLEAN, sent \in BOOLEAN :
                http' = [http EXCEPT ![c] =
                  [h EXCEPT !.state = "Connecting",
                            !.transfer = IF over THEN "done"
                                         ELSE IF sent THEN "waiting"
                                         ELSE "sending",
                            !.audio_pipe = IF sent /\ ~h.is_session_by_text
                                           THEN 0 ELSE @]]
      <3>1. PICK over \in BOOLEAN, sent \in BOOLEAN :
              http' = [http EXCEPT ![c] =
                  [h EXCEPT !.state = "Connecting",
                            !.transfer = IF over THEN "done"
                                         ELSE IF sent THEN "waiting"
                                         ELSE "sending",
                            !.audio_pipe = IF sent /\ ~h.is_session_by_text
                                           THEN 0 ELSE @]]
        BY <2>4
      <3> DEFINE t == IF over THEN "done" ELSE IF sent THEN "waiting"
                      ELSE "sending"
                 p == IF sent /\ ~h.is_session_by_text THEN 0 ELSE h.audio_pipe
                 x == [h EXCEPT !.state = "Connecting", !.transfer = t,
                                !.audio_pipe = p]
      <3>2. t \in Transfers /\ p \in 0 .. MaxSessions BY <2>2, <2>3
      <3>3. http' = [http EXCEPT ![c] = x] BY <3>1
      <3> HIDE DEF t, p
      <3>4. Entered(h, x, n) BY <1>3, <3>2, ConnectingEffect
      <3>5. evq' = <<"CONNECTED">> BY <2>4, QueueFacts
      <3> HIDE DEF x
      <3> QED BY <1>3, <2>1, <3>3, <3>4, <3>5 DEF Following
    <2>5. CASE evq' = Append(<< >>, "DISCONNECTED") /\
              http' = [http EXCEPT ![c] =
                [h EXCEPT !.state = "Connecting",
                          !.transfer = IF g_http.multi_handle THEN "sending"
                                       ELSE "none"]]
      <3> DEFINE t == IF g_http.multi_handle THEN "sending" ELSE "none"
                 p == h.audio_pipe
                 x == [h EXCEPT !.state = "Connecting", !.transfer = t,
                                !.audio_pipe = p]
      <3>2. t \in Transfers BY <2>3
      <3>3. [h EXCEPT !.state = "Connecting", !.transfer = t] = x
        BY DEF HttpType
      <3>4. http' = [http EXCEPT ![c] = x] BY <2>5, <3>3
      <3> HIDE DEF t, p
      <3>5. Entered(h, x, n) BY <1>3, <2>2, <3>2, ConnectingEffect DEF p
      <3>6. evq' = <<"DISCONNECTED">> BY <2>5, QueueFacts
      <3> HIDE DEF x
      <3> QED BY <1>3, <2>1, <3>4, <3>5, <3>6 DEF Following
    <2> QED BY <2>1, <2>4, <2>5 DEF EnterConnecting
  <1>4. CASE n = "Streaming"
    <2>1. EnterStreaming(c, h, << >>) BY <1>4 DEF Enter
    <2>2. Entered(h, [h EXCEPT !.state = n, !.begun = TRUE], n)
      BY <1>4, PlainEffect
    <2> QED BY <1>4, <2>1, <2>2, QueueFacts DEF EnterStreaming, Following
  <1>5. CASE n = "Connected"
    <2>1. EnterConnected(c, h, << >>) BY <1>5 DEF Enter
    <2>2. Entered(h, [h EXCEPT !.state = "Connected", !.timer_id_rsp = TRUE,
                               !.armed = @ + 1], n)
      BY <1>5, ConnectedEffect
    <2> QED BY <1>5, <2>1, <2>2 DEF EnterConnected, Following
  <1> QED BY <1>1, <1>2, <1>3, <1>4, <1>5, StatesAre

-----------------------------------------------------------------------------
(* What the destinations share.                                            *)

\* curl's timer is the one that is named, and none of the k easy handles
\* outlives it; what the timer library holds counts while r, the loop runs.
Curl(g, k, r) ==
    /\ g.easy_handle_cnt = k
    /\ r => g.armed = IF g.timer_id_multi THEN 1 ELSE 0
    /\ g.easy_handle_cnt = 0 => ~g.timer_id_multi

LEMMA TypeOfShared ==
    ASSUME NEW g \in GType
    PROVE  /\ g.ref \in 0 .. Cardinality(Conns) /\ g.multi_handle \in BOOLEAN
           /\ g.easy_handle_cnt \in Int /\ g.timer_id_multi \in BOOLEAN
           /\ g.armed \in Int
  BY DEF GType

\* The timer is set to t, of which the timer library is told.
Retimed(g, t) ==
    LET m == IF t = g.timer_id_multi THEN g.armed
             ELSE IF t THEN g.armed + 1 ELSE g.armed - 1
    IN  [g EXCEPT !.timer_id_multi = t, !.armed = m]

LEMMA RetimedEffect ==
    ASSUME NEW g \in GType, NEW t \in BOOLEAN
    PROVE  LET x == Retimed(g, t)
           IN  /\ x \in GType /\ x.ref = g.ref
               /\ x.multi_handle = g.multi_handle
               /\ x.easy_handle_cnt = g.easy_handle_cnt
               /\ x.timer_id_multi = t
               /\ g.armed = (IF g.timer_id_multi THEN 1 ELSE 0) =>
                    x.armed = IF t THEN 1 ELSE 0
  <1> DEFINE m == IF t = g.timer_id_multi THEN g.armed
                  ELSE IF t THEN g.armed + 1 ELSE g.armed - 1
             x == [g EXCEPT !.timer_id_multi = t, !.armed = m]
  <1>1. g.armed \in Int /\ g.timer_id_multi \in BOOLEAN BY TypeOfShared
  <1>2. /\ m \in Int
        /\ g.armed = (IF g.timer_id_multi THEN 1 ELSE 0) =>
             m = IF t THEN 1 ELSE 0
    BY <1>1
  <1>3. Retimed(g, t) = x BY DEF Retimed
  <1> HIDE DEF m
  <1>4. /\ x \in GType /\ x.ref = g.ref /\ x.multi_handle = g.multi_handle
        /\ x.easy_handle_cnt = g.easy_handle_cnt
        /\ x.timer_id_multi = t /\ x.armed = m
    BY <1>2 DEF GType
  <1> HIDE DEF x
  <1> QED BY <1>2, <1>3, <1>4

LEMMA CurlTimerIs ==
    ASSUME NEW g \in GType, NEW x \in CurlTimer(g)
    PROVE  \E t \in BOOLEAN : x = Retimed(g, t)
  <1>1. g.armed \in Int /\ g.timer_id_multi \in BOOLEAN BY TypeOfShared
  <1>2. CASE x = g
    <2>1. g = [g EXCEPT !.timer_id_multi = g.timer_id_multi, !.armed = g.armed]
      BY DEF GType
    <2>2. g = Retimed(g, g.timer_id_multi) BY <2>1 DEF Retimed
    <2> QED BY <1>1, <1>2, <2>2
  <1>3. CASE x = [g EXCEPT !.timer_id_multi = TRUE,
                           !.armed = IF g.timer_id_multi THEN @ ELSE @ + 1]
    <2>1. x = Retimed(g, TRUE) BY <1>1, <1>3 DEF Retimed
    <2> QED BY <2>1
  <1>4. CASE x = [g EXCEPT !.timer_id_multi = FALSE,
                           !.armed = IF g.timer_id_multi THEN @ - 1 ELSE @]
    <2>1. x = Retimed(g, FALSE) BY <1>1, <1>4 DEF Retimed
    <2> QED BY <2>1
  <1> QED BY <1>2, <1>3, <1>4 DEF CurlTimer

\* Driving curl while there is an easy handle.
LEMMA CurlTimerEffect ==
    ASSUME NEW g \in GType, NEW k \in Nat \ {0}, NEW r \in BOOLEAN,
           Curl(g, k, r), NEW x \in CurlTimer(g)
    PROVE  x \in GType /\ x.ref = g.ref /\ Curl(x, k, r)
  <1>1. PICK t \in BOOLEAN : x = Retimed(g, t) BY CurlTimerIs
  <1> QED BY <1>1, RetimedEffect DEF Curl

\* xrsr_http_timeout_process, when curl's timer has expired.
LEMMA MultiTimeoutEffect ==
    ASSUME NEW g \in GType, NEW k \in Nat, Curl(g, k, TRUE), g.armed > 0,
           NEW f, f = [g EXCEPT !.timer_id_multi = FALSE,
                                !.armed = IF g.timer_id_multi THEN @ - 1
                                          ELSE @],
           NEW x, x = f \/ x \in CurlTimer(f)
    PROVE  x \in GType /\ x.ref = g.ref /\ Curl(x, k, TRUE)
  <1> DEFINE y == Retimed(g, FALSE)
  <1>1. g.armed \in Int /\ g.timer_id_multi \in BOOLEAN BY TypeOfShared
  <1>2. g.timer_id_multi = TRUE /\ k # 0 BY <1>1 DEF Curl
  <1>3. f = y BY <1>1, <1>2 DEF Retimed
  <1>4. /\ y \in GType /\ y.ref = g.ref
        /\ y.easy_handle_cnt = g.easy_handle_cnt
        /\ y.timer_id_multi = FALSE
        /\ g.armed = (IF g.timer_id_multi THEN 1 ELSE 0) => y.armed = 0
    BY RetimedEffect
  <1>5. x = y \/ x \in CurlTimer(y) BY <1>3
  <1> HIDE DEF y
  <1>6. Curl(y, k, TRUE) BY <1>2, <1>4 DEF Curl
  <1>7. x \in GType /\ x.ref = y.ref /\ Curl(x, k, TRUE)
    BY <1>2, <1>4, <1>5, <1>6, CurlTimerEffect
  <1> QED BY <1>4, <1>7

\* One easy handle fewer.
LEMMA DropHandleEffect ==
    ASSUME NEW g \in GType, NEW k \in Nat \ {0}, NEW j \in Nat,
           NEW r \in BOOLEAN, Curl(g, k, r), j = k - 1
    PROVE  LET x == DropHandle(g)
           IN  x \in GType /\ x.ref = g.ref /\ Curl(x, j, r)
  <1>1. /\ g.armed \in Int /\ g.timer_id_multi \in BOOLEAN
        /\ g.easy_handle_cnt = k /\ j = g.easy_handle_cnt - 1 /\ j \in Int
    BY TypeOfShared DEF Curl
  <1>2. CASE g.easy_handle_cnt > 1
    <2> DEFINE w == [g EXCEPT !.easy_handle_cnt = j]
    <2>1. /\ w \in GType /\ w.ref = g.ref /\ w.easy_handle_cnt = j
          /\ w.armed = g.armed /\ w.timer_id_multi = g.timer_id_multi
      BY <1>1 DEF GType
    <2>2. DropHandle(g) = w BY <1>1, <1>2 DEF DropHandle
    <2>3. j # 0 BY <1>1, <1>2
    <2> HIDE DEF w
    <2> QED BY <2>1, <2>2, <2>3 DEF Curl
  <1>3. CASE ~(g.easy_handle_cnt > 1)
    <2> DEFINE m == IF g.timer_id_multi THEN g.armed - 1 ELSE g.armed
               x == [g EXCEPT !.easy_handle_cnt = j, !.timer_id_multi = FALSE,
                              !.armed = m]
    <2>1. DropHandle(g) = x BY <1>1, <1>3 DEF DropHandle
    <2>2. m \in Int BY <1>1
    <2>3. r => m = 0 BY <1>1 DEF Curl
    <2> HIDE DEF m
    <2>4. /\ x \in GType /\ x.ref = g.ref /\ x.easy_handle_cnt = j
          /\ x.timer_id_multi = FALSE /\ x.armed = m
      BY <1>1, <2>2 DEF GType
    <2> HIDE DEF x
    <2> QED BY <2>1, <2>3, <2>4 DEF Curl
  <1> QED BY <1>2, <1>3

\* xrsr_http_reset of a destination that has an easy handle.
LEMMA ResetSharedEffect ==
    ASSUME NEW g \in GType, NEW h \in HttpType, h.easy_handle,
           NEW k \in Nat \ {0}, NEW j \in Nat, j = k - 1,
           NEW r \in BOOLEAN, Curl(g, k, r), NEW x \in ResetShared(g, h)
    PROVE  x \in GType /\ x.ref = g.ref /\ Curl(x, j, r)
  <1>1. PICK y \in RemoveHandle(g, h) : x = DropHandle(y) BY DEF ResetShared
  <1>2. y = g \/ y \in CurlTimer(g) BY DEF RemoveHandle
  <1>3. y \in GType /\ y.ref = g.ref /\ Curl(y, k, r)
    BY <1>2, CurlTimerEffect
  <1> QED BY <1>1, <1>3, DropHandleEffect

\* xrsr_http_connect: one easy handle more.
LEMMA ConnectSharedEffect ==
    ASSUME NEW g \in GType, NEW k \in Nat, Curl(g, k, TRUE)
    PROVE  LET x == [g EXCEPT !.easy_handle_cnt = @ + 1,
                              !.timer_id_multi = @ /\ g.easy_handle_cnt > 0]
           IN  x \in GType /\ x.ref = g.ref /\ Curl(x, k + 1, TRUE)
  <1> DEFINE n == g.easy_handle_cnt + 1
             t == g.timer_id_multi /\ g.easy_handle_cnt > 0
             x == [g EXCEPT !.easy_handle_cnt = n, !.timer_id_multi = t]
  <1>1. g.easy_handle_cnt = k /\ g.timer_id_multi \in BOOLEAN
    BY TypeOfShared DEF Curl
  <1>2. n = k + 1 /\ n \in Int /\ n # 0 BY <1>1
  <1>3. t = g.timer_id_multi BY <1>1 DEF Curl
  <1>4. x = [g EXCEPT !.easy_handle_cnt = @ + 1,
                      !.timer_id_multi = @ /\ g.easy_handle_cnt > 0]
    OBVIOUS
  <1> HIDE DEF n, t
  <1>5. /\ x \in GType /\ x.ref = g.ref /\ x.easy_handle_cnt = n
        /\ x.timer_id_multi = t /\ x.armed = g.armed
    BY <1>1, <1>2, <1>3 DEF GType
  <1> HIDE DEF x
  <1>6. Curl(x, k + 1, TRUE) BY <1>2, <1>3, <1>5 DEF Curl
  <1> QED BY <1>4, <1>5, <1>6

\* The references, which Route takes and Unref gives up.
LEMMA RefEffect ==
    ASSUME NEW g \in GType, NEW k \in Nat, NEW r \in BOOLEAN, Curl(g, k, r)
    PROVE  /\ LET x == Unref(g)
              IN  /\ x \in GType /\ Curl(x, k, r)
                  /\ x.ref = IF g.ref = 0 THEN 0 ELSE g.ref - 1
           /\ LET x == [g EXCEPT !.ref = @ + 1, !.multi_handle = TRUE]
              IN  /\ Curl(x, k, r) /\ x.ref = g.ref + 1
                  /\ g.ref + 1 <= Cardinality(Conns) => x \in GType
  <1>1. /\ g.ref \in Int /\ g.ref >= 0 /\ Cardinality(Conns) \in Nat
        /\ g.multi_handle \in BOOLEAN
    BY TypeOfShared, FS_CardinalityType, HttpAssumption
  <1>2. \A i \in Int, b \in BOOLEAN :
          LET w == [g EXCEPT !.ref = i, !.multi_handle = b]
          IN  /\ w.ref = i /\ w.easy_handle_cnt = g.easy_handle_cnt
              /\ w.armed = g.armed /\ w.timer_id_multi = g.timer_id_multi
              /\ i \in 0 .. Cardinality(Conns) => w \in GType
    BY DEF GType
  <1>3. \A i \in Int, b \in BOOLEAN :
          Curl([g EXCEPT !.ref = i, !.multi_handle = b], k, r)
    <2> TAKE i \in Int, b \in BOOLEAN
    <2> DEFINE w == [g EXCEPT !.ref = i, !.multi_handle = b]
    <2>1. /\ w.easy_handle_cnt = g.easy_handle_cnt
          /\ w.armed = g.armed /\ w.timer_id_multi = g.timer_id_multi
      BY <1>2
    <2> HIDE DEF w
    <2>2. Curl(w, k, r) BY <2>1 DEF Curl
    <2> QED BY <2>2 DEF w
  <1>4. g.ref = 0 => Unref(g) = g BY DEF Unref
  <1>5. ASSUME g.ref # 0
        PROVE  LET x == Unref(g)
               IN  x \in GType /\ Curl(x, k, r) /\ x.ref = g.ref - 1
    <2> DEFINE i == g.ref - 1
               b == g.ref > 1 /\ g.multi_handle
               x == [g EXCEPT !.ref = i, !.multi_handle = b]
    <2>1. i \in Int /\ b \in BOOLEAN /\ i \in 0 .. Cardinality(Conns)
      BY <1>1, <1>5, TypeOfShared
    <2>2. Unref(g) = x BY <1>5 DEF Unref
    <2>3. i = g.ref - 1 OBVIOUS
    <2> HIDE DEF i, b
    <2>4. x \in GType /\ Curl(x, k, r) /\ x.ref = i BY <1>2, <1>3, <2>1
    <2> QED BY <2>2, <2>3, <2>4
  <1>6. LET x == [g EXCEPT !.ref = @ + 1, !.multi_handle = TRUE]
        IN  /\ Curl(x, k, r) /\ x.ref = g.ref + 1
            /\ g.ref + 1 <= Cardinality(Conns) => x \in GType
    <2> DEFINE i == g.ref + 1
               x == [g EXCEPT !.ref = i, !.multi_handle = TRUE]
    <2>1. /\ i \in Int
          /\ i <= Cardinality(Conns) => i \in 0 .. Cardinality(Conns)
      BY <1>1
    <2>2. x = [g EXCEPT !.ref = @ + 1, !.multi_handle = TRUE] OBVIOUS
    <2>3. i = g.ref + 1 OBVIOUS
    <2> HIDE DEF i
    <2>4. /\ Curl(x, k, r) /\ x.ref = i
          /\ i <= Cardinality(Conns) => x \in GType
      BY <1>2, <1>3, <2>1
    <2> QED BY <2>2, <2>3, <2>4
  <1> QED BY <1>4, <1>5, <1>6

-----------------------------------------------------------------------------
(* How many destinations have an easy handle, and how many a route.        *)

Handles(hs) == {d \in Conns : hs[d].easy_handle}
Routed(hs) == {d \in Conns : hs[d].initialized}

LEMMA Counted ==
    ASSUME NEW A \in SUBSET Conns, NEW B \in SUBSET Conns, NEW c \in Conns,
           \A d \in Conns \ {c} : d \in A <=> d \in B
    PROVE  /\ Cardinality(A) \in Nat /\ Cardinality(B) \in Nat
           /\ (c \in A <=> c \in B) => Cardinality(B) = Cardinality(A)
           /\ (c \in B /\ c \notin A) => Cardinality(B) = Cardinality(A) + 1
           /\ (c \in A /\ c \notin B) => Cardinality(B) = Cardinality(A) - 1
           /\ c \in A => Cardinality(A) # 0
           /\ Cardinality(A) <= Cardinality(Conns)
  <1>1. IsFiniteSet(A) /\ IsFiniteSet(B) /\ Cardinality(A) <= Cardinality(Conns)
    BY FS_Subset, HttpAssumption
  <1>2. Cardinality(A) \in Nat /\ Cardinality(B) \in Nat
    BY <1>1, FS_CardinalityType
  <1>3. (c \in A <=> c \in B) => B = A OBVIOUS
  <1>4. (c \in B /\ c \notin A) => B = A \cup {c} OBVIOUS
  <1>5. (c \in A /\ c \notin B) => B = A \ {c} OBVIOUS
  <1>6. c \in A => Cardinality(A) # 0 BY <1>1, FS_EmptySet
  <1>7. /\ c \notin A => Cardinality(A \cup {c}) = Cardinality(A) + 1
        /\ c \in A => Cardinality(A \ {c}) = Cardinality(A) - 1
    BY <1>1, FS_AddElement, FS_RemoveElement
  <1> QED BY <1>1, <1>2, <1>3, <1>4, <1>5, <1>6, <1>7

\* How the counts change with one destination's record.
Recount(hs, to, c) ==
    /\ Cardinality(Handles(hs)) \in Nat
    /\ (to[c].easy_handle <=> hs[c].easy_handle) =>
         Cardinality(Handles(to)) = Cardinality(Handles(hs))
    /\ (to[c].easy_handle /\ ~hs[c].easy_handle) =>
         Cardinality(Handles(to)) = Cardinality(Handles(hs)) + 1
    /\ (~to[c].easy_handle /\ hs[c].easy_handle) =>
         Cardinality(Handles(to)) = Cardinality(Handles(hs)) - 1
    /\ Cardinality(Routed(hs)) \in Nat
    /\ (to[c].initialized <=> hs[c].initialized) =>
         Cardinality(Routed(to)) = Cardinality(Routed(hs))
    /\ (to[c].initialized /\ ~hs[c].initialized) =>
         Cardinality(Routed(to)) = Cardinality(Routed(hs)) + 1
    /\ (~to[c].initialized /\ hs[c].initialized) =>
         Cardinality(Routed(to)) = Cardinality(Routed(hs)) - 1
    /\ Cardinality(Routed(to)) <= Cardinality(Conns)
    /\ hs[c].easy_handle => Cardinality(Handles(hs)) # 0

LEMMA Replaced ==
    ASSUME NEW hs \in [Conns -> HttpType], NEW c \in Conns, NEW x \in HttpType
    PROVE  LET to == [hs EXCEPT ![c] = x]
           IN  /\ to \in [Conns -> HttpType] /\ to[c] = x
               /\ \A d \in Conns : d # c => to[d] = hs[d]
               /\ Recount(hs, to, c)
  <1> DEFINE to == [hs EXCEPT ![c] = x]
  <1>1. /\ to \in [Conns -> HttpType] /\ to[c] = x
        /\ \A d \in Conns : d # c => to[d] = hs[d]
    OBVIOUS
  <1> HIDE DEF to
  <1>2. /\ x.easy_handle \in BOOLEAN /\ x.initialized \in BOOLEAN
        /\ hs[c] \in HttpType
    BY TypeOfFields
  <1>3. hs[c].easy_handle \in BOOLEAN /\ hs[c].initialized \in BOOLEAN
    BY <1>2, TypeOfFields
  <1> DEFINE A == Handles(hs)
             B == Handles(to)
             C == Routed(hs)
             D == Routed(to)
  <1>4. /\ A \in SUBSET Conns /\ B \in SUBSET Conns
        /\ \A d \in Conns \ {c} : d \in A <=> d \in B
        /\ c \in A <=> hs[c].easy_handle
        /\ c \in B <=> x.easy_handle
    BY <1>1 DEF Handles
  <1>5. /\ C \in SUBSET Conns /\ D \in SUBSET Conns
        /\ \A d \in Conns \ {c} : d \in C <=> d \in D
        /\ c \in C <=> hs[c].initialized
        /\ c \in D <=> x.initialized
    BY <1>1 DEF Routed
  <1> HIDE DEF A, B, C, D
  <1>6. /\ Cardinality(A) \in Nat
        /\ (c \in A <=> c \in B) => Cardinality(B) = Cardinality(A)
        /\ (c \in B /\ c \notin A) => Cardinality(B) = Cardinality(A) + 1
        /\ (c \in A /\ c \notin B) => Cardinality(B) = Cardinality(A) - 1
        /\ c \in A => Cardinality(A) # 0
    BY <1>4, Counted
  <1>7. /\ Cardinality(C) \in Nat
        /\ (c \in C <=> c \in D) => Cardinality(D) = Cardinality(C)
        /\ (c \in D /\ c \notin C) => Cardinality(D) = Cardinality(C) + 1
        /\ (c \in C /\ c \notin D) => Cardinality(D) = Cardinality(C) - 1
    BY <1>5, Counted
  <1>8. Cardinality(D) <= Cardinality(Conns)
    BY <1>5, Counted
  <1>9. /\ (x.easy_handle <=> hs[c].easy_handle) =>
             Cardinality(B) = Cardinality(A)
        /\ (x.easy_handle /\ ~hs[c].easy_handle) =>
             Cardinality(B) = Cardinality(A) + 1
        /\ (~x.easy_handle /\ hs[c].easy_handle) =>
             Cardinality(B) = Cardinality(A) - 1
    BY <1>4, <1>6
  <1>10. /\ (x.initialized <=> hs[c].initialized) =>
              Cardinality(D) = Cardinality(C)
         /\ (x.initialized /\ ~hs[c].initialized) =>
              Cardinality(D) = Cardinality(C) + 1
         /\ (~x.initialized /\ hs[c].initialized) =>
              Cardinality(D) = Cardinality(C) - 1
    BY <1>5, <1>7
  <1>11. Recount(hs, to, c)
    BY <1>1, <1>4, <1>6, <1>7, <1>8, <1>9, <1>10 DEF A, B, C, D, Recount
  <1> QED BY <1>1, <1>11 DEF to

-----------------------------------------------------------------------------
(* What the invariant says of one destination, whose session begins or not *)
(* (b) while the router's loop runs or does not (r).                       *)

Ended(h) ==
    IF h.state = "Connected" THEN h.streamEnds = 1 /\ h.sessionEnds = 0
    ELSE IF h.state = "Disconnected"
    THEN h.streamEnds = h.sessionEnds /\ h.sessionEnds <= 1
    ELSE h.streamEnds = 0 /\ h.sessionEnds = 0

Good(h, b, r) ==
    /\ Ended(h)
    /\ b => h.state = "Disconnected" /\ h.streamEnds = 0
    /\ ~h.initialized => h.state = "Disconnected"
    /\ h.easy_handle <=> h.state # "Disconnected" \/ b
    /\ h.state \in {"Streaming", "TextOnlySession"} => h.begun
    /\ h.timer_id_rsp <=> h.state = "Connected"
    /\ ~h.falseEnd
    /\ r => Armed(h)

LEMMA GoodAlike ==
    ASSUME NEW h, NEW x, NEW b \in BOOLEAN, NEW r, NEW s,
           Good(h, b, r), Alike(x, h), s => Armed(x)
    PROVE  Good(x, b, s)
  BY DEF Good, Alike, Ended

\* What an event that is not dropped does to its destination.
Lead(h, x, e, n) ==
    /\ x \in HttpType /\ x.state = n
    /\ x.initialized = h.initialized
    /\ x.streamEnds = IF Ends(h.state, e) THEN h.streamEnds + 1
                      ELSE h.streamEnds
    /\ x.sessionEnds = IF n = "Disconnected" THEN h.sessionEnds + 1
                       ELSE h.sessionEnds
    /\ x.easy_handle = IF n = "Disconnected" THEN FALSE ELSE h.easy_handle
    /\ x.begun = IF n = "Streaming" THEN TRUE ELSE h.begun
    /\ x.falseEnd = IF Ends(h.state, e)
         THEN h.falseEnd \/ (StreamReasons[h.state][e] # "DID_NOT_BEGIN"
                             /\ ~h.begun)
         ELSE h.falseEnd
    /\ x.timer_id_rsp <=> n = "Connected"
    /\ Armed(h) => Armed(x)
    /\ n = "Disconnected" =>
         x.ended = IF Tells(h.state, e) THEN SessionReasons[h.state][e]
                   ELSE h.reason

LEMMA LeadEffect ==
    ASSUME NEW h \in HttpType, NEW e \in Events, e \in DOMAIN NextStates[h.state],
           h.timer_id_rsp <=> h.state = "Connected",
           NEW n, NEW x, Entered(Exit(h, e), x, n)
    PROVE  Lead(h, x, e, n)
  <1> DEFINE y == Exit(h, e)
  <1>1. /\ y \in HttpType
        /\ y.streamEnds = IF Ends(h.state, e) THEN h.streamEnds + 1
                          ELSE h.streamEnds
        /\ y.falseEnd = IF Ends(h.state, e)
             THEN h.falseEnd \/ (StreamReasons[h.state][e] # "DID_NOT_BEGIN"
                                 /\ ~h.begun)
             ELSE h.falseEnd
        /\ Armed(h) => Armed(y)
        /\ y.initialized = h.initialized
        /\ y.sessionEnds = h.sessionEnds /\ y.begun = h.begun
        /\ y.easy_handle = h.easy_handle
        /\ y.reason = IF Tells(h.state, e) THEN SessionReasons[h.state][e]
                      ELSE h.reason
    BY ExitEffect
  <1>2. Entered(y, x, n) OBVIOUS
  <1> HIDE DEF y
  <1> QED BY <1>1, <1>2 DEF Entered, Lead

LEMMA LeadGood ==
    ASSUME NEW h \in HttpType, NEW b \in BOOLEAN, NEW r, Good(h, b, r),
           NEW e \in Events, e \in DOMAIN NextStates[h.state],
           NEW n, n = NextStates[h.state][e], b <=> e \in BeginEvents,
           h.initialized, NEW x, Lead(h, x, e, n)
    PROVE  Good(x, FALSE, r)
  <1>1. /\ h.state \in States /\ h.streamEnds \in Nat /\ h.sessionEnds \in Nat
        /\ x \in HttpType
    BY TypeOfFields DEF Lead
  <1>2. /\ n \in States
        /\ h.state = "Disconnected" <=> b
        /\ h.state = "Disconnected" => n \in {"Connecting", "Buffering"}
        /\ h.state = "Buffering" => n \in {"Connecting", "Disconnected"}
        /\ h.state = "Connecting" => n \in {"Streaming", "Disconnected"}
        /\ h.state = "Connected" => n = "Disconnected"
        /\ h.state \in {"Streaming", "TextOnlySession"} =>
             n \in {"Connected", "Disconnected", "TextOnlySession"}
        /\ Ends(h.state, e) <=>
             /\ h.state \notin {"Disconnected", "Connected"}
             /\ n \in {"Disconnected", "Connected"}
        /\ (Ends(h.state, e) /\ h.state \in {"Buffering", "Connecting"}) =>
             StreamReasons[h.state][e] = "DID_NOT_BEGIN"
    BY <1>1, Tables
  <1>3. /\ x.state = n
        /\ x.streamEnds = IF Ends(h.state, e) THEN h.streamEnds + 1
                          ELSE h.streamEnds
        /\ x.sessionEnds = IF n = "Disconnected" THEN h.sessionEnds + 1
                           ELSE h.sessionEnds
    BY DEF Lead
  <1>4. Ended(x)
    BY <1>1, <1>2, <1>3, StatesAre DEF Good, Ended
  <1>5. x.initialized BY DEF Lead
  <1>6. x.easy_handle <=> x.state # "Disconnected"
    <2>1. h.easy_handle BY <1>2 DEF Good
    <2> QED BY <2>1 DEF Lead
  <1>7. x.state \in {"Streaming", "TextOnlySession"} => x.begun
    <2>1. x.begun = IF n = "Streaming" THEN TRUE ELSE h.begun BY DEF Lead
    <2>2. n = "TextOnlySession" =>
            h.state \in {"Streaming", "TextOnlySession"}
      BY <1>1, <1>2, StatesAre
    <2> QED BY <1>3, <2>1, <2>2 DEF Good
  <1>8. ~x.falseEnd
    <2>1. CASE Ends(h.state, e)
      <3>1. h.state \in {"Buffering", "Connecting", "Streaming",
                         "TextOnlySession"}
        BY <1>1, <1>2, <2>1, StatesAre
      <3>2. StreamReasons[h.state][e] = "DID_NOT_BEGIN" \/ h.begun
        BY <1>2, <2>1, <3>1 DEF Good
      <3> QED BY <2>1, <3>2 DEF Lead, Good
    <2>2. CASE ~Ends(h.state, e) BY <2>2 DEF Lead, Good
    <2> QED BY <2>1, <2>2
  <1>9. (r => Armed(x)) /\ (x.timer_id_rsp <=> x.state = "Connected")
    BY DEF Lead, Good
  <1> QED BY <1>4, <1>5, <1>6, <1>7, <1>8, <1>9 DEF Good

-----------------------------------------------------------------------------
(* The invariant in the parts that the proofs use.                         *)

AllGood == \A c \in Conns : Good(http[c], Beginning(c), running)

BegunByConnect == \A c \in Conns : Beginning(c) => task.kind = "connect"

TaskRouted == task # NoTask => http[task.conn].initialized

SharedHeld ==
    /\ g_http.ref <= Cardinality(Routed(http))
    /\ Curl(g_http, Cardinality(Handles(http)), running)

\* The invariant without the types.
Rest ==
    /\ QueueShape /\ BegunByConnect /\ Passing /\ Ending /\ TaskRouted
    /\ AllGood /\ SharedHeld

LEMMA RestIs == IInv <=> TypeOK /\ Rest
  <1>1. AllGood /\ BegunByConnect /\ TaskRouted <=>
          /\ BeginsIdle /\ RoutedOnly /\ HandleHeld /\ BegunHeld
          /\ EndedOnce /\ StreamWasStarted
          /\ running => \A c \in Conns : Armed(http[c])
    BY DEF AllGood, BegunByConnect, TaskRouted, Good, Ended, BeginsIdle,
           RoutedOnly, HandleHeld, BegunHeld, EndedOnce, StreamWasStarted
  <1>2. BegunHeld => (TimerMatchesState <=>
                        (running => \A c \in Conns : Armed(http[c])))
    BY DEF TimerMatchesState, BegunHeld, Armed
  <1>3. SharedHeld <=> RefsHeld /\ CurlTimerOwned
    BY DEF SharedHeld, RefsHeld, CurlTimerOwned, Curl, Routed, Handles
  <1> QED BY <1>1, <1>2, <1>3 DEF IInv, Rest

LEMMA BeginningOf ==
    ASSUME NEW c, NEW x
    PROVE  /\ evq = << >> => ~Beginning(c)
           /\ evq = <<x>> => (Beginning(c) <=> /\ task # NoTask
                                               /\ task.conn = c
                                               /\ x \in BeginEvents)
           /\ evq' = << >> => ~Beginning(c)'
           /\ evq' = <<x>> => (Beginning(c)' <=> /\ task' # NoTask
                                                 /\ task'.conn = c
                                                 /\ x \in BeginEvents)
           /\ Beginning(c) \in BOOLEAN /\ Beginning(c)' \in BOOLEAN
           /\ UNCHANGED <<evq, task>> => (Beginning(c)' <=> Beginning(c))
  BY DEF Beginning

LEMMA TaskFacts ==
    /\ NoTask \in Tasks /\ NoTask.kind = "idle"
    /\ \A c \in Conns, k \in {"event", "connect", "terminate", "term"} :
         LET t == [kind |-> k, conn |-> c]
         IN  t \in Tasks /\ t # NoTask /\ t.kind = k /\ t.conn = c
    /\ \A t \in Tasks : t # NoTask =>
         /\ t.conn \in Conns
         /\ t.kind \in {"event", "connect", "terminate", "term"}
  BY DEF Tasks, NoTask

\* The handler that works for a destination.
LEMMA TaskMade ==
    ASSUME NEW c \in Conns,
           NEW k \in {"event", "connect", "terminate", "term"},
           NEW t, t = [kind |-> k, conn |-> c]
    PROVE  t \in Tasks /\ t # NoTask /\ t.kind = k /\ t.conn = c
  <1>1. t.kind = k /\ t.conn = c /\ k # "idle" OBVIOUS
  <1>2. t \in Tasks BY DEF Tasks
  <1>3. NoTask.kind = "idle" BY TaskFacts
  <1> QED BY <1>1, <1>2, <1>3

\* A destination that is told nothing keeps what the invariant says of it.
LEMMA OneGood ==
    ASSUME TypeOK, Rest, NEW c \in Conns
    PROVE  /\ Good(http[c], Beginning(c), running) /\ http[c] \in HttpType
           /\ http[c].state \in States
           /\ http[c].state = "Connecting" =>
                /\ task # NoTask /\ task.conn = c
                /\ evq \in {<<"CONNECTED">>, <<"DISCONNECTED">>}
  BY TypeOfFields DEF TypeOK, Rest, AllGood, Passing

-----------------------------------------------------------------------------
(* Steps that begin nothing and leave every destination's session alone.   *)

\* What becomes of the records.
Kept ==
    /\ http' \in [Conns -> HttpType] /\ running' \in BOOLEAN
    /\ \A c \in Conns :
         Alike(http'[c], http[c]) /\ (running' => Armed(http'[c]))
    /\ g_http' \in GType /\ g_http'.ref <= g_http.ref
    /\ Curl(g_http', Cardinality(Handles(http)), running')

\* What becomes of the queue: an event is raised for c, ...
Raised(c, e, k) ==
    /\ task = NoTask /\ task' = [kind |-> k, conn |-> c] /\ evq' = <<e>>
    /\ http[c].initialized
    /\ e \notin BeginEvents
    /\ k \in {"terminate", "term"} => e = "TERMINATE"
    /\ k = "terminate" => http[c].state # "Disconnected"

\* ... the handler returns, ...
Over == evq = << >> /\ evq' = << >> /\ task' = NoTask

\* ... or an event is dropped.
Dropped(c, e) ==
    /\ task # NoTask /\ task.conn = c /\ evq = <<e>>
    /\ e \notin DOMAIN NextStates[http[c].state]
    /\ evq' = << >> /\ task' = task

Queued ==
    \/ UNCHANGED <<evq, task>>
    \/ \E c \in Conns, e \in Events, k \in {"event", "terminate", "term"} :
         Raised(c, e, k)
    \/ Over
    \/ \E c \in Conns, e \in Events : Dropped(c, e)

\* Nothing that the contract knows of happens to c.
Quiet(c) ==
    /\ http'[c].state = http[c].state
    /\ Beginning(c)' <=> Beginning(c)
    /\ http'[c].streamEnds = http[c].streamEnds
    /\ http'[c].sessionEnds = http[c].sessionEnds

LEMMA DroppedFacts ==
    ASSUME TypeOK, Rest, NEW c \in Conns, NEW e \in Events, Dropped(c, e)
    PROVE  /\ \A d \in Conns : ~Beginning(d) /\ http[d].state # "Connecting"
           /\ e = "TERMINATE" => http[c].state = "Disconnected"
  <1>1. /\ evq = <<e>> /\ task.conn = c
        /\ e \notin DOMAIN NextStates[http[c].state]
    BY DEF Dropped
  <1>2. http[c].state # "Connecting"
    BY <1>1, OneGood, Listed, QueueFacts
  <1>3. \A d \in Conns : http[d].state # "Connecting"
    BY <1>1, <1>2, OneGood
  <1>4. ~Beginning(c)
    <2> SUFFICES ASSUME Beginning(c) PROVE FALSE OBVIOUS
    <2>1. e \in BeginEvents BY <1>1, BeginningOf
    <2>2. http[c].state = "Disconnected" BY OneGood DEF Good
    <2> QED BY <1>1, <2>1, <2>2, Listed
  <1>5. \A d \in Conns : ~Beginning(d) BY <1>1, <1>4, BeginningOf
  <1>6. e = "TERMINATE" => http[c].state = "Disconnected"
    BY <1>1, <1>2, OneGood, Listed
  <1> QED BY <1>3, <1>5, <1>6

\* A handler that runs has a destination; a queue without one is empty.
LEMMA IdleFacts ==
    ASSUME TypeOK, Rest
    PROVE  /\ task = NoTask => evq = << >>
           /\ evq = << >> => \A c \in Conns :
                ~Beginning(c) /\ http[c].state # "Connecting"
  <1>1. task = NoTask => evq = << >> BY DEF Rest, QueueShape
  <1> QED BY <1>1, BeginningOf, OneGood, QueueFacts

LEMMA QueuedBegins ==
    ASSUME TypeOK, Rest, Queued, NEW c \in Conns
    PROVE  Beginning(c)' <=> Beginning(c)
  <1>1. CASE UNCHANGED <<evq, task>> BY <1>1, BeginningOf
  <1>2. ASSUME NEW d \in Conns, NEW e \in Events,
               NEW k \in {"event", "terminate", "term"}, Raised(d, e, k)
        PROVE  Beginning(c)' <=> Beginning(c)
    BY <1>2, IdleFacts, BeginningOf DEF Raised
  <1>3. CASE Over BY <1>3, BeginningOf DEF Over
  <1>4. ASSUME NEW d \in Conns, NEW e \in Events, Dropped(d, e)
        PROVE  Beginning(c)' <=> Beginning(c)
    <2>1. ~Beginning(c) BY <1>4, DroppedFacts
    <2> QED BY <1>4, <2>1, BeginningOf DEF Dropped
  <1> QED BY <1>1, <1>2, <1>3, <1>4 DEF Queued

LEMMA KeptInv ==
    ASSUME TypeOK, Rest, Kept, Queued
    PROVE  /\ TypeOK' /\ Rest'
           /\ \A c \in Conns : Quiet(c)
  <1>1. \A c \in Conns : Beginning(c)' <=> Beginning(c) BY QueuedBegins
  <1>2. /\ \A c \in Conns : /\ http'[c].state = http[c].state
                            /\ http'[c].initialized = http[c].initialized
                            /\ http'[c].easy_handle = http[c].easy_handle
                            /\ http'[c].ended = http[c].ended
                            /\ http'[c].streamEnds = http[c].streamEnds
                            /\ http'[c].sessionEnds = http[c].sessionEnds
        /\ http \in [Conns -> HttpType]
    BY DEF Kept, Alike, TypeOK
  <1>3. \A c \in Conns : Quiet(c) BY <1>1, <1>2 DEF Quiet
  <1>4. AllGood'
    <2>1. ASSUME NEW c \in Conns
          PROVE  Good(http'[c], Beginning(c)', running')
      <3>1. Good(http[c], Beginning(c), running) BY OneGood
      <3>2. Alike(http'[c], http[c]) /\ (running' => Armed(http'[c]))
        BY DEF Kept
      <3>3. Beginning(c) \in BOOLEAN BY BeginningOf
      <3>4. Beginning(c)' = Beginning(c) BY <1>1, BeginningOf
      <3>5. Good(http'[c], Beginning(c), running')
        BY <3>1, <3>2, <3>3, GoodAlike
      <3> QED BY <3>4, <3>5
    <2> QED BY <2>1 DEF AllGood
  <1>5. SharedHeld'
    <2>1. Handles(http') = Handles(http) /\ Routed(http') = Routed(http)
      BY <1>2 DEF Handles, Routed
    <2>2. g_http'.ref \in Int /\ g_http.ref \in Int
      BY TypeOfShared DEF Kept, TypeOK
    <2>3. Cardinality(Routed(http)) \in Nat
      <3>1. Routed(http) \in SUBSET Conns BY DEF Routed
      <3> QED BY <3>1, FS_Subset, FS_CardinalityType, HttpAssumption
    <2>4. g_http'.ref <= Cardinality(Routed(http))
      BY <2>2, <2>3 DEF Kept, Rest, SharedHeld
    <2> QED BY <2>1, <2>4 DEF Kept, SharedHeld
  <1>6. CASE UNCHANGED <<evq, task>>
    <2>1. TypeOK' BY <1>6 DEF Kept, TypeOK
    <2>2. QueueShape' /\ BegunByConnect'
      BY <1>1, <1>6 DEF Rest, QueueShape, BegunByConnect
    <2>3. Passing' BY <1>2, <1>6 DEF Rest, Passing
    <2>4. task # NoTask => task.conn \in Conns BY TaskFacts DEF TypeOK
    <2>5. Ending'
      <3>1. task.kind \in {"terminate", "term"} => task # NoTask BY TaskFacts
      <3> QED BY <1>2, <1>6, <2>4, <3>1 DEF Rest, Ending
    <2>6. TaskRouted' BY <1>2, <1>6, <2>4 DEF Rest, TaskRouted
    <2> QED BY <1>3, <1>4, <1>5, <2>1, <2>2, <2>3, <2>5, <2>6 DEF Rest
  <1>7. ASSUME NEW c \in Conns, NEW e \in Events,
               NEW k \in {"event", "terminate", "term"}, Raised(c, e, k)
        PROVE  TypeOK' /\ Rest'
    <2>1. /\ task = NoTask /\ task' = [kind |-> k, conn |-> c] /\ evq' = <<e>>
          /\ http[c].initialized
          /\ k \in {"terminate", "term"} => e = "TERMINATE"
          /\ k = "terminate" => http[c].state # "Disconnected"
      BY <1>7 DEF Raised
    <2>2. /\ task' \in Tasks /\ task' # NoTask /\ task'.kind = k
          /\ task'.conn = c
      <3>1. k \in {"event", "connect", "terminate", "term"} OBVIOUS
      <3> QED BY <2>1, <3>1, TaskMade
    <2>3. /\ evq = << >>
          /\ \A d \in Conns : ~Beginning(d) /\ http[d].state # "Connecting"
      BY <2>1, IdleFacts
    <2>4. TypeOK' BY <2>1, <2>2, QueueFacts DEF Kept, TypeOK
    <2>5. QueueShape' BY <2>1, <2>2 DEF QueueShape
    <2>6. BegunByConnect' BY <1>1, <2>3 DEF BegunByConnect
    <2>7. Passing' BY <1>2, <2>3 DEF Passing
    <2>8. Ending' BY <1>2, <2>1, <2>2 DEF Ending
    <2>9. TaskRouted' BY <1>2, <2>1, <2>2 DEF TaskRouted
    <2> QED BY <1>4, <1>5, <2>4, <2>5, <2>6, <2>7, <2>8, <2>9 DEF Rest
  <1>8. CASE Over
    <2>1. evq = << >> /\ evq' = << >> /\ task' = NoTask BY <1>8 DEF Over
    <2>2. \A d \in Conns : ~Beginning(d) /\ http[d].state # "Connecting"
      BY <2>1, IdleFacts
    <2>3. TypeOK' BY <2>1, QueueFacts, TaskFacts DEF Kept, TypeOK
    <2>4. QueueShape' BY <2>1 DEF QueueShape
    <2>5. BegunByConnect' BY <1>1, <2>2 DEF BegunByConnect
    <2>6. Passing' BY <1>2, <2>2 DEF Passing
    <2>7. Ending' BY <2>1, TaskFacts DEF Ending
    <2>8. TaskRouted' BY <2>1 DEF TaskRouted
    <2> QED BY <1>3, <1>4, <1>5, <2>3, <2>4, <2>5, <2>6, <2>7, <2>8 DEF Rest
  <1>9. ASSUME NEW c \in Conns, NEW e \in Events, Dropped(c, e)
        PROVE  TypeOK' /\ Rest'
    <2>1. /\ task # NoTask /\ task.conn = c /\ evq = <<e>>
          /\ evq' = << >> /\ task' = task
      BY <1>9 DEF Dropped
    <2>2. /\ \A d \in Conns : ~Beginning(d) /\ http[d].state # "Connecting"
          /\ e = "TERMINATE" => http[c].state = "Disconnected"
      BY <1>9, DroppedFacts
    <2>3. TypeOK' BY <2>1, QueueFacts DEF Kept, TypeOK
    <2>4. QueueShape' BY <2>1 DEF QueueShape
    <2>5. BegunByConnect' BY <1>1, <2>2 DEF BegunByConnect
    <2>6. Passing' BY <1>2, <2>2 DEF Passing
    <2>7. Ending'
      <3> SUFFICES ASSUME task.kind \in {"terminate", "term"}
                   PROVE  /\ http[c].state = "Disconnected"
                          /\ task.kind # "terminate"
        BY <1>2, <2>1 DEF Ending
      <3>1. /\ evq = <<"TERMINATE">>
            /\ task.kind = "terminate" => http[c].state # "Disconnected"
        BY <2>1, QueueFacts DEF Rest, Ending
      <3>2. e = "TERMINATE" BY <2>1, <3>1, QueueFacts
      <3> QED BY <2>2, <3>1, <3>2
    <2>8. TaskRouted' BY <1>2, <2>1 DEF Rest, TaskRouted
    <2> QED BY <1>4, <1>5, <2>3, <2>4, <2>5, <2>6, <2>7, <2>8 DEF Rest
  <1> QED BY <1>3, <1>4, <1>5, <1>6, <1>7, <1>8, <1>9 DEF Queued

\* What the shared record is, and that a connection needs an easy handle.
LEMMA SharedFacts ==
    ASSUME TypeOK, Rest
    PROVE  /\ g_http \in GType /\ g_http.ref <= g_http.ref
           /\ Cardinality(Handles(http)) \in Nat
           /\ Curl(g_http, Cardinality(Handles(http)), running)
           /\ \A c \in Conns : http[c].easy_handle =>
                Cardinality(Handles(http)) # 0
  <1>1. g_http \in GType /\ g_http.ref \in Int BY TypeOfShared DEF TypeOK
  <1>2. Handles(http) \in SUBSET Conns BY DEF Handles
  <1>3. Cardinality(Handles(http)) \in Nat /\ IsFiniteSet(Handles(http))
    BY <1>2, FS_Subset, FS_CardinalityType, HttpAssumption
  <1>4. \A c \in Conns : http[c].easy_handle => Handles(http) # {}
    BY DEF Handles
  <1> QED BY <1>1, <1>3, <1>4, FS_EmptySet DEF Rest, SharedHeld

LEMMA AlikeItself == \A h : Alike(h, h)
  BY DEF Alike

LEMMA KeptSame ==
    ASSUME TypeOK, Rest, UNCHANGED <<http, g_http, running>>
    PROVE  Kept
  <1>1. \A c \in Conns : Alike(http'[c], http[c]) BY AlikeItself
  <1>2. \A c \in Conns : running' => Armed(http'[c]) BY OneGood DEF Good
  <1> QED BY <1>1, <1>2, SharedFacts DEF Kept, TypeOK

\* One destination's transfer or pipe changes, and curl may be driven.
LEMMA KeptOne ==
    ASSUME TypeOK, Rest, NEW c \in Conns, NEW x \in HttpType,
           Alike(x, http[c]), x.armed = http[c].armed,
           http' = [http EXCEPT ![c] = x], running' = running,
           \/ g_http' = g_http
           \/ /\ g_http' \in CurlTimer(g_http)
              /\ \E d \in Conns : http[d].easy_handle
    PROVE  Kept
  <1>1. http \in [Conns -> HttpType] /\ running \in BOOLEAN BY DEF TypeOK
  <1>2. /\ http' \in [Conns -> HttpType] /\ http'[c] = x
        /\ \A d \in Conns : d # c => http'[d] = http[d]
    BY <1>1
  <1>3. Armed(http[c]) => Armed(x) BY DEF Armed, Alike
  <1>4. \A d \in Conns : Alike(http'[d], http[d]) BY <1>2, AlikeItself
  <1>5. \A d \in Conns : running' => Armed(http'[d])
    BY <1>2, <1>3, OneGood DEF Good
  <1>6. /\ g_http' \in GType /\ g_http'.ref <= g_http.ref
        /\ Curl(g_http', Cardinality(Handles(http)), running')
    <2>1. CASE g_http' = g_http BY <2>1, SharedFacts
    <2>2. CASE /\ g_http' \in CurlTimer(g_http)
               /\ \E d \in Conns : http[d].easy_handle
      <3>1. Cardinality(Handles(http)) \in Nat \ {0} BY <2>2, SharedFacts
      <3>2. /\ g_http' \in GType /\ g_http'.ref = g_http.ref
            /\ Curl(g_http', Cardinality(Handles(http)), running)
        BY <1>1, <2>2, <3>1, SharedFacts, CurlTimerEffect
      <3> QED BY <3>2, SharedFacts
    <2> QED BY <2>1, <2>2
  <1> QED BY <1>1, <1>2, <1>4, <1>5, <1>6 DEF Kept

LEMMA TransferEffect ==
    ASSUME NEW h \in HttpType, NEW t \in Transfers, NEW p \in 0 .. MaxSessions
    PROVE  LET x == [h EXCEPT !.transfer = t, !.audio_pipe = p]
           IN  x \in HttpType /\ Alike(x, h) /\ x.armed = h.armed
  BY DEF HttpType, Alike

LEMMA StrandedEffect ==
    ASSUME NEW hs \in [Conns -> HttpType], NEW g
    PROVE  /\ Stranded(hs, g) \in [Conns -> HttpType]
           /\ \A c \in Conns : /\ Alike(Stranded(hs, g)[c], hs[c])
                               /\ Stranded(hs, g)[c].armed = hs[c].armed
  <1>1. "lost" \in Transfers BY DEF Transfers
  <1>2. \A c \in Conns : LET x == [hs[c] EXCEPT !.transfer = "lost"]
                         IN  x \in HttpType /\ Alike(x, hs[c])
                             /\ x.armed = hs[c].armed
    BY <1>1 DEF HttpType, Alike
  <1>3. \A c \in Conns :
          \/ Stranded(hs, g)[c] = [hs[c] EXCEPT !.transfer = "lost"]
          \/ Stranded(hs, g)[c] = hs[c]
    BY DEF Stranded
  <1>4. \A c \in Conns : /\ Stranded(hs, g)[c] \in HttpType
                         /\ Alike(Stranded(hs, g)[c], hs[c])
                         /\ Stranded(hs, g)[c].armed = hs[c].armed
    BY <1>2, <1>3, AlikeItself
  <1>5. Stranded(hs, g) = [c \in Conns |-> Stranded(hs, g)[c]]
    BY DEF Stranded
  <1> QED BY <1>4, <1>5

LEMMA DrivenFacts ==
    ASSUME TypeOK, Rest, NEW c \in Conns, Driven(c)
    PROVE  /\ \E d \in Conns : http[d].easy_handle
           /\ task = NoTask /\ http[c].initialized
  <1>1. PICK d \in Conns : http[d].state \in ConnectedStates BY DEF Driven
  <1>2. http[d].easy_handle BY <1>1, OneGood DEF Good, ConnectedStates
  <1> QED BY <1>2 DEF Driven, Idle

\* The handlers that leave the sessions alone until their event is processed.
LEMMA HandlersKeep ==
    ASSUME TypeOK, Rest, NEW c \in Conns,
           \/ Terminate(c) \/ Term(c) \/ SpeechEvent(c) \/ ResponseTimeout(c)
           \/ ReadBody(c) \/ Complete(c) \/ MsgRecv(c) \/ ConnectFails(c)
    PROVE  Kept /\ Queued
  <1>0. /\ {"TERMINATE", "STM", "EOS", "TIMEOUT", "PIPE_EOS", "MSG_RECV"}
             \subseteq Events \ BeginEvents
        /\ {"done", "told", "waiting"} \subseteq Transfers
        /\ http[c] \in HttpType /\ http[c].audio_pipe \in 0 .. MaxSessions
        /\ http \in [Conns -> HttpType]
        /\ 0 \in 0 .. MaxSessions
    BY OneGood, TypeOfFields, HttpAssumption
       DEF Events, BeginEvents, Transfers, TypeOK
  <1>1. ASSUME NEW e \in Events \ BeginEvents, NEW k \in {"event", "term"},
               task = NoTask, http[c].initialized,
               k = "term" => e = "TERMINATE", Raise(c, e, k)
        PROVE  Queued
    <2>1. Raised(c, e, k) BY <1>1 DEF Raise, Raised
    <2> QED BY <2>1 DEF Queued
  <1>2. CASE Terminate(c)
    <2>1. Raised(c, "TERMINATE", "terminate")
      BY <1>0, <1>2 DEF Terminate, Idle, Raise, Raised
    <2>2. UNCHANGED <<http, g_http, running>> BY <1>2 DEF Terminate
    <2> QED BY <1>0, <2>1, <2>2, KeptSame DEF Queued
  <1>3. CASE Term(c)
    <2>1. UNCHANGED <<http, g_http, running>> BY <1>3 DEF Term
    <2>2. Raise(c, "TERMINATE", "term") /\ task = NoTask /\ http[c].initialized
      BY <1>3 DEF Term
    <2> QED BY <1>0, <1>1, <2>1, <2>2, KeptSame
  <1>4. CASE SpeechEvent(c)
    <2>1. UNCHANGED <<http, g_http, running>> BY <1>4 DEF SpeechEvent
    <2>2. task = NoTask /\ http[c].initialized BY <1>4 DEF SpeechEvent, Idle
    <2>3. PICK e \in {"STM", "EOS"} : Raise(c, e, "event")
      BY <1>4 DEF SpeechEvent
    <2> QED BY <1>0, <1>1, <2>1, <2>2, <2>3, KeptSame
  <1>5. CASE ResponseTimeout(c)
    <2>1. UNCHANGED <<http, g_http, running>> BY <1>5 DEF ResponseTimeout
    <2>2. Raise(c, "TIMEOUT", "event") /\ task = NoTask /\ http[c].initialized
      BY <1>5 DEF ResponseTimeout, Idle
    <2> QED BY <1>0, <1>1, <2>1, <2>2, KeptSame
  <1>6. CASE ReadBody(c)
    <2> DEFINE x == [http[c] EXCEPT !.transfer = "waiting", !.audio_pipe = 0]
    <2>1. x \in HttpType /\ Alike(x, http[c]) /\ x.armed = http[c].armed
      BY <1>0, TransferEffect
    <2>2. http' = [http EXCEPT ![c] = x] BY <1>0, <1>6 DEF ReadBody
    <2> HIDE DEF x
    <2>3. g_http' \in CurlTimer(g_http) /\ running' = running /\ Driven(c)
      BY <1>6 DEF ReadBody
    <2>4. Kept BY <2>1, <2>2, <2>3, DrivenFacts, KeptOne
    <2>5. CASE http[c].audio_pipe # 0
      <3>1. Raise(c, "PIPE_EOS", "event") BY <1>6, <2>5 DEF ReadBody
      <3> QED BY <1>0, <1>1, <2>3, <2>4, <3>1, DrivenFacts
    <2>6. CASE ~(http[c].audio_pipe # 0)
      <3>1. UNCHANGED <<evq, task>> BY <1>6, <2>6 DEF ReadBody
      <3> QED BY <2>4, <3>1 DEF Queued
    <2> QED BY <2>5, <2>6
  <1>7. CASE Complete(c)
    <2> DEFINE x == [http[c] EXCEPT !.transfer = "done",
                                    !.audio_pipe = http[c].audio_pipe]
    <2>1. x \in HttpType /\ Alike(x, http[c]) /\ x.armed = http[c].armed
      BY <1>0, TransferEffect
    <2>2. [http[c] EXCEPT !.transfer = "done"] = x BY <1>0 DEF HttpType
    <2>3. http' = [http EXCEPT ![c] = x] BY <1>7, <2>2 DEF Complete
    <2> HIDE DEF x
    <2>4. g_http' \in CurlTimer(g_http) /\ running' = running /\ Driven(c)
      BY <1>7 DEF Complete
    <2>5. Kept BY <2>1, <2>3, <2>4, DrivenFacts, KeptOne
    <2>6. UNCHANGED <<evq, task>> BY <1>7 DEF Complete
    <2> QED BY <2>5, <2>6 DEF Queued
  <1>8. CASE MsgRecv(c)
    <2> DEFINE x == [http[c] EXCEPT !.transfer = "told",
                                    !.audio_pipe = http[c].audio_pipe]
    <2>1. x \in HttpType /\ Alike(x, http[c]) /\ x.armed = http[c].armed
      BY <1>0, TransferEffect
    <2>2. [http[c] EXCEPT !.transfer = "told"] = x BY <1>0 DEF HttpType
    <2>3. http' = [http EXCEPT ![c] = x] BY <1>8, <2>2 DEF MsgRecv
    <2> HIDE DEF x
    <2>4. g_http' = g_http /\ running' = running /\ Driven(c)
      BY <1>8 DEF MsgRecv
    <2>5. Kept BY <2>1, <2>3, <2>4, KeptOne
    <2>6. Raise(c, "MSG_RECV", "event") BY <1>8 DEF MsgRecv
    <2> QED BY <1>0, <1>1, <2>4, <2>5, <2>6, DrivenFacts
  <1>9. CASE ConnectFails(c)
    <2>1. /\ http' = Stranded(http, g_http') /\ g_http' = Unref(g_http)
          /\ UNCHANGED <<evq, task, running>>
      BY <1>9 DEF ConnectFails
    <2>2. /\ http' \in [Conns -> HttpType]
          /\ \A d \in Conns : Alike(http'[d], http[d])
                              /\ http'[d].armed = http[d].armed
      BY <1>0, <2>1, StrandedEffect
    <2>3. \A d \in Conns : running' => Armed(http'[d])
      BY <2>1, <2>2, OneGood DEF Good, Armed, Alike
    <2>4. running \in BOOLEAN /\ g_http.ref \in 0 .. Cardinality(Conns)
      BY TypeOfShared DEF TypeOK
    <2>5. /\ g_http' \in GType
          /\ Curl(g_http', Cardinality(Handles(http)), running)
          /\ g_http'.ref = IF g_http.ref = 0 THEN 0 ELSE g_http.ref - 1
      BY <2>1, <2>4, SharedFacts, RefEffect
    <2>6. g_http'.ref <= g_http.ref
      BY <2>4, <2>5, FS_CardinalityType, HttpAssumption
    <2>7. Kept BY <2>1, <2>2, <2>3, <2>4, <2>5, <2>6 DEF Kept
    <2> QED BY <2>1, <2>7 DEF Queued
  <1> QED BY <1>2, <1>3, <1>4, <1>5, <1>6, <1>7, <1>8, <1>9

\* curl's timer, the router's loop, and the handlers' ends but for
\* xrsr_http_term's.
LEMMA OthersKeep ==
    ASSUME TypeOK, Rest,
           \/ MultiTimeout \/ LoopEnds \/ Open \/ UNCHANGED vars
           \/ Return /\ ~TermReturns
    PROVE  Kept /\ Queued
  <1>0. http \in [Conns -> HttpType] /\ running \in BOOLEAN BY DEF TypeOK
  <1>1. CASE MultiTimeout
    <2> DEFINE f == [g_http EXCEPT !.timer_id_multi = FALSE,
                                   !.armed = IF g_http.timer_id_multi
                                             THEN @ - 1 ELSE @]
    <2>1. /\ running = TRUE /\ g_http.armed > 0
          /\ g_http' = f \/ g_http' \in CurlTimer(f)
          /\ UNCHANGED <<http, evq, task, running>>
      BY <1>0, <1>1 DEF MultiTimeout
    <2>2. /\ g_http' \in GType /\ g_http'.ref = g_http.ref
          /\ Curl(g_http', Cardinality(Handles(http)), running)
      <3> DEFINE k == Cardinality(Handles(http))
      <3>1. g_http \in GType /\ k \in Nat /\ Curl(g_http, k, TRUE)
        BY <2>1, SharedFacts
      <3>2. f = [g_http EXCEPT !.timer_id_multi = FALSE,
                               !.armed = IF g_http.timer_id_multi
                                         THEN @ - 1 ELSE @]
        OBVIOUS
      <3> HIDE DEF f, k
      <3>3. /\ g_http' \in GType /\ g_http'.ref = g_http.ref
            /\ Curl(g_http', k, TRUE)
        BY <2>1, <3>1, <3>2, MultiTimeoutEffect
      <3> QED BY <2>1, <3>3 DEF k
    <2>3. \A c \in Conns : Alike(http'[c], http[c]) BY <2>1, AlikeItself
    <2>4. \A c \in Conns : running' => Armed(http'[c])
      BY <2>1, OneGood DEF Good
    <2>5. Kept BY <1>0, <2>1, <2>2, <2>3, <2>4, SharedFacts DEF Kept
    <2> QED BY <2>1, <2>5 DEF Queued
  <1>2. ASSUME http' = [c \in Conns |-> [http[c] EXCEPT !.armed = 0]],
               g_http' = [g_http EXCEPT !.armed = 0]
        PROVE  /\ http' \in [Conns -> HttpType]
               /\ \A c \in Conns : Alike(http'[c], http[c]) /\ http'[c].armed = 0
               /\ g_http' \in GType /\ g_http'.ref <= g_http.ref
               /\ g_http'.armed = 0
               /\ g_http'.easy_handle_cnt = g_http.easy_handle_cnt
               /\ g_http'.timer_id_multi = g_http.timer_id_multi
    <2>1. \A h \in HttpType : LET x == [h EXCEPT !.armed = 0]
                              IN  x \in HttpType /\ Alike(x, h) /\ x.armed = 0
      BY DEF HttpType, Alike
    <2>2. \A c \in Conns : http'[c] = [http[c] EXCEPT !.armed = 0]
      BY <1>2
    <2>3. \A c \in Conns : /\ http'[c] \in HttpType /\ Alike(http'[c], http[c])
                           /\ http'[c].armed = 0
      BY <1>0, <2>1, <2>2
    <2>4. http' \in [Conns -> HttpType]
      <3>1. http' = [c \in Conns |-> http'[c]] BY <1>2
      <3> QED BY <2>3, <3>1
    <2>5. /\ g_http' \in GType /\ g_http'.armed = 0
          /\ g_http'.ref = g_http.ref
          /\ g_http'.easy_handle_cnt = g_http.easy_handle_cnt
          /\ g_http'.timer_id_multi = g_http.timer_id_multi
      BY <1>2, SharedFacts DEF GType
    <2> QED BY <2>3, <2>4, <2>5, SharedFacts
  <1>3. CASE LoopEnds
    <2>1. running' = FALSE /\ UNCHANGED <<evq, task>> BY <1>3 DEF LoopEnds
    <2>2. /\ http' \in [Conns -> HttpType]
          /\ \A c \in Conns : Alike(http'[c], http[c]) /\ http'[c].armed = 0
          /\ g_http' \in GType /\ g_http'.ref <= g_http.ref
          /\ g_http'.easy_handle_cnt = g_http.easy_handle_cnt
          /\ g_http'.timer_id_multi = g_http.timer_id_multi
      BY <1>2, <1>3 DEF LoopEnds
    <2>3. Curl(g_http', Cardinality(Handles(http)), running')
      BY <2>1, <2>2, SharedFacts DEF Curl
    <2>4. Kept BY <2>1, <2>2, <2>3 DEF Kept
    <2> QED BY <2>1, <2>4 DEF Queued
  <1>4. CASE Open
    <2>1. /\ running' = TRUE /\ UNCHANGED <<evq, task>> /\ task = NoTask
          /\ \A c \in Conns : ~http[c].initialized
      BY <1>4 DEF Open
    <2>2. /\ http' \in [Conns -> HttpType]
          /\ \A c \in Conns : Alike(http'[c], http[c]) /\ http'[c].armed = 0
          /\ g_http' \in GType /\ g_http'.ref <= g_http.ref
          /\ g_http'.armed = 0
          /\ g_http'.easy_handle_cnt = g_http.easy_handle_cnt
          /\ g_http'.timer_id_multi = g_http.timer_id_multi
      BY <1>2, <1>4 DEF Open
    <2>3. \A c \in Conns : ~http[c].easy_handle /\ ~http[c].timer_id_rsp
      BY <2>1, OneGood, IdleFacts DEF Good
    <2>4. Handles(http) = {} BY <2>3 DEF Handles
    <2>5. Cardinality(Handles(http)) = 0 BY <2>4, FS_EmptySet
    <2>6. Curl(g_http', Cardinality(Handles(http)), running')
      BY <2>2, <2>5, SharedFacts DEF Curl
    <2>7. \A c \in Conns : Armed(http'[c])
      BY <2>2, <2>3 DEF Armed, Alike
    <2>8. Kept BY <2>1, <2>2, <2>6, <2>7 DEF Kept
    <2> QED BY <2>1, <2>8 DEF Queued
  <1>5. CASE UNCHANGED vars
    <2>1. UNCHANGED <<http, g_http, running, evq, task>> BY <1>5 DEF vars
    <2> QED BY <2>1, KeptSame DEF Queued
  <1>6. CASE Return /\ ~TermReturns
    <2>1. evq = << >> /\ task' = NoTask /\ UNCHANGED <<evq, running>>
      BY <1>6 DEF Return
    <2>2. Queued BY <2>1 DEF Queued, Over
    <2>3. CASE ConnectReturns
      <3>1. task.conn \in Conns BY <2>3, TaskFacts DEF TypeOK, ConnectReturns
      <3>2. PICK c \in Conns : c = task.conn BY <3>1
      <3>3. /\ http' = [http EXCEPT ![c].audio_pipe = http[c].session]
            /\ g_http' = g_http
        BY <2>3, <3>2 DEF ConnectReturns
      <3> DEFINE x == [http[c] EXCEPT !.transfer = http[c].transfer,
                                      !.audio_pipe = http[c].session]
      <3>4. /\ http[c] \in HttpType /\ http[c].transfer \in Transfers
            /\ http[c].session \in 0 .. MaxSessions
        BY OneGood, TypeOfFields
      <3>5. x \in HttpType /\ Alike(x, http[c]) /\ x.armed = http[c].armed
        BY <3>4, TransferEffect
      <3>6. [http[c] EXCEPT !.audio_pipe = http[c].session] = x
        BY <3>4 DEF HttpType
      <3>7. http' = [http EXCEPT ![c] = x] BY <1>0, <3>3, <3>6
      <3> HIDE DEF x
      <3> QED BY <2>1, <2>2, <3>3, <3>5, <3>7, KeptOne
    <2>4. CASE UNCHANGED <<http, g_http>> BY <2>1, <2>2, <2>4, KeptSame
    <2> QED BY <1>6, <2>3, <2>4 DEF Return
  <1> QED BY <1>1, <1>3, <1>4, <1>5, <1>6

-----------------------------------------------------------------------------
(* Steps that change one destination's session.                            *)

\* The other destinations are only alike, and begin nothing.
Others(c) ==
    \A d \in Conns : d # c =>
        /\ Alike(http'[d], http[d])
        /\ http'[d].armed = http[d].armed
        /\ Beginning(d)' <=> Beginning(d)

LEMMA OthersGood ==
    ASSUME TypeOK, Rest, NEW c \in Conns, Others(c), running' = running,
           Good(http'[c], Beginning(c)', running)
    PROVE  AllGood' /\ \A d \in Conns : d # c => Quiet(d)
  <1>1. ASSUME NEW d \in Conns, d # c
        PROVE  Quiet(d) /\ Good(http'[d], Beginning(d)', running)
    <2>1. Good(http[d], Beginning(d), running) BY OneGood
    <2>2. /\ Alike(http'[d], http[d]) /\ http'[d].armed = http[d].armed
          /\ Beginning(d)' <=> Beginning(d)
      BY <1>1 DEF Others
    <2>3. Armed(http[d]) => Armed(http'[d]) BY <2>2 DEF Armed, Alike
    <2>4. running => Armed(http'[d]) BY <2>1, <2>3 DEF Good
    <2>5. Beginning(d)' = Beginning(d) BY <2>2, BeginningOf
    <2>6. Good(http'[d], Beginning(d), running)
      BY <2>1, <2>2, <2>4, BeginningOf, GoodAlike
    <2>7. Good(http'[d], Beginning(d)', running) BY <2>5, <2>6
    <2>8. Quiet(d) BY <2>2 DEF Quiet, Alike
    <2> QED BY <2>7, <2>8
  <1>2. ASSUME NEW d \in Conns
        PROVE  Good(http'[d], Beginning(d)', running')
    <2>1. CASE d = c BY <2>1
    <2>2. CASE d # c BY <1>1, <2>2
    <2> QED BY <2>1, <2>2
  <1> QED BY <1>1, <1>2 DEF AllGood

\* xrsr_http_connect's destination, and that of a new route.
Connecting(h, text) ==
    [h EXCEPT !.easy_handle = TRUE, !.is_session_by_text = text,
              !.session = @ + 1, !.begun = FALSE,
              !.streamEnds = 0, !.sessionEnds = 0, !.falseEnd = FALSE]

Placed(h) ==
    [HttpInit EXCEPT !.initialized = TRUE, !.armed = h.armed,
                     !.session = h.session, !.streamEnds = h.streamEnds,
                     !.sessionEnds = h.sessionEnds]

\* A session begins on a destination that is idle.
LEMMA ConnectRecord ==
    ASSUME NEW h \in HttpType, NEW r, Good(h, FALSE, r),
           h.state = "Disconnected", h.initialized, h.session < MaxSessions,
           NEW text \in BOOLEAN
    PROVE  LET x == Connecting(h, text)
           IN  /\ x \in HttpType /\ Good(x, TRUE, r)
               /\ x.state = "Disconnected" /\ x.initialized = h.initialized
               /\ x.easy_handle = TRUE /\ h.easy_handle = FALSE
               /\ x.streamEnds = 0 /\ x.sessionEnds = 0
  <1> DEFINE m == h.session + 1
             y == [h EXCEPT !.easy_handle = TRUE,
                            !.is_session_by_text = text,
                            !.session = m, !.begun = FALSE]
             x == [y EXCEPT !.streamEnds = 0, !.sessionEnds = 0,
                            !.falseEnd = FALSE]
  <1>1. m \in 0 .. MaxSessions BY TypeOfFields, HttpAssumption
  <1>2. x = Connecting(h, text) BY DEF Connecting
  <1> HIDE DEF m
  <1>3. /\ y \in HttpType /\ y.state = h.state /\ y.easy_handle = TRUE
        /\ y.initialized = h.initialized /\ y.timer_id_rsp = h.timer_id_rsp
        /\ y.armed = h.armed
    BY <1>1 DEF HttpType
  <1> HIDE DEF y
  <1>4. /\ x \in HttpType /\ x.state = y.state /\ x.easy_handle = TRUE
        /\ x.initialized = y.initialized /\ x.timer_id_rsp = y.timer_id_rsp
        /\ x.armed = y.armed /\ x.falseEnd = FALSE
        /\ x.streamEnds = 0 /\ x.sessionEnds = 0
    BY <1>3 DEF HttpType
  <1> HIDE DEF x
  <1>5. h.easy_handle = FALSE BY TypeOfFields DEF Good
  <1>6. Armed(h) => Armed(x) BY <1>3, <1>4 DEF Armed
  <1>7. Good(x, TRUE, r) BY <1>3, <1>4, <1>6 DEF Good, Ended
  <1> QED BY <1>2, <1>3, <1>4, <1>5, <1>7

LEMMA ConnectInv ==
    ASSUME TypeOK, Rest, NEW c \in Conns, Connect(c)
    PROVE  /\ TypeOK' /\ Rest'
           /\ http[c].state = "Disconnected" /\ ~Beginning(c)
           /\ http'[c].state = "Disconnected" /\ Beginning(c)'
           /\ http'[c].streamEnds = 0 /\ http'[c].sessionEnds = 0
           /\ \A d \in Conns : d # c => Quiet(d)
  <1>0. http \in [Conns -> HttpType] BY DEF TypeOK
  <1>1. PICK text \in BOOLEAN, deferred \in BOOLEAN :
          /\ http' = [http EXCEPT ![c] = Connecting(http[c], text)]
          /\ Raise(c, IF deferred THEN "SESSION_BEGIN_STM" ELSE "SESSION_BEGIN",
                   "connect")
    BY <1>0 DEF Connect, Connecting
  <1>2. /\ task = NoTask /\ running /\ http[c].initialized
        /\ http[c].state = "Disconnected" /\ http[c].session < MaxSessions
        /\ running' = running
        /\ g_http' = [g_http EXCEPT !.easy_handle_cnt = @ + 1,
                          !.timer_id_multi = @ /\ g_http.easy_handle_cnt > 0]
    BY DEF Connect, Idle
  <1>3. /\ evq = << >> /\ http \in [Conns -> HttpType] /\ running = TRUE
        /\ \A d \in Conns : ~Beginning(d) /\ http[d].state # "Connecting"
    BY <1>2, IdleFacts DEF TypeOK
  <1>4. PICK e \in BeginEvents : e \in Events /\ evq' = <<e>>
    BY <1>1 DEF Raise, BeginEvents, Events
  <1>5. /\ task' \in Tasks /\ task' # NoTask /\ task'.conn = c
        /\ task'.kind = "connect"
    <2>1. task' = [kind |-> "connect", conn |-> c] BY <1>1 DEF Raise
    <2> QED BY <2>1, TaskMade
  <1>6. /\ Beginning(c)'
        /\ \A d \in Conns : d # c => ~Beginning(d)'
    BY <1>4, <1>5, BeginningOf
  <1> DEFINE h == http[c]
             x == Connecting(h, text)
  <1>7. Good(h, FALSE, running)
    <2>1. Beginning(c) = FALSE BY <1>3, BeginningOf
    <2> QED BY <2>1, OneGood
  <1>8. /\ x \in HttpType /\ Good(x, TRUE, running)
        /\ x.state = "Disconnected" /\ x.initialized = h.initialized
        /\ x.easy_handle = TRUE /\ h.easy_handle = FALSE
        /\ x.streamEnds = 0 /\ x.sessionEnds = 0
    <2>1. /\ h \in HttpType /\ h.state = "Disconnected" /\ h.initialized
          /\ h.session < MaxSessions
      BY <1>2, OneGood
    <2> HIDE DEF h
    <2> QED BY <1>7, <2>1, ConnectRecord
  <1>9. http' = [http EXCEPT ![c] = x] BY <1>1
  <1> HIDE DEF h, x
  <1>10. h = http[c] BY DEF h
  <1>11. /\ http' \in [Conns -> HttpType] /\ http'[c] = x
         /\ \A d \in Conns : d # c => http'[d] = http[d]
         /\ Cardinality(Handles(http')) = Cardinality(Handles(http)) + 1
         /\ Cardinality(Routed(http')) = Cardinality(Routed(http))
    <2>1. /\ http' \in [Conns -> HttpType] /\ http'[c] = x
          /\ \A d \in Conns : d # c => http'[d] = http[d]
          /\ Recount(http, http', c)
      BY <1>3, <1>8, <1>9, Replaced
    <2> QED BY <1>8, <1>10, <2>1 DEF Recount
  <1>12. Others(c) BY <1>3, <1>6, <1>11, AlikeItself DEF Others
  <1>13. AllGood' /\ \A d \in Conns : d # c => Quiet(d)
    <2>1. Beginning(c)' = TRUE BY <1>6, BeginningOf
    <2> QED BY <1>2, <1>8, <1>11, <1>12, <2>1, OthersGood
  <1>14. /\ g_http' \in GType /\ g_http'.ref = g_http.ref
         /\ Curl(g_http', Cardinality(Handles(http)) + 1, TRUE)
    BY <1>2, <1>3, SharedFacts, ConnectSharedEffect
  <1>15. SharedHeld' BY <1>2, <1>3, <1>11, <1>14 DEF Rest, SharedHeld
  <1>16. TypeOK' BY <1>2, <1>4, <1>5, <1>11, <1>14, QueueFacts DEF TypeOK
  <1>17. QueueShape' BY <1>4, <1>5 DEF QueueShape
  <1>18. BegunByConnect' BY <1>5 DEF BegunByConnect
  <1>19. Passing' BY <1>3, <1>8, <1>11 DEF Passing
  <1>20. Ending' BY <1>5 DEF Ending
  <1>21. TaskRouted' BY <1>2, <1>5, <1>8, <1>10, <1>11 DEF TaskRouted
  <1> QED BY <1>2, <1>3, <1>6, <1>8, <1>11, <1>13, <1>15, <1>16, <1>17, <1>18,
             <1>19, <1>20, <1>21 DEF Rest

\* A route's new destination is idle, like the one that it replaces.
LEMMA RouteRecord ==
    ASSUME NEW h \in HttpType, NEW r, Good(h, FALSE, r), ~h.initialized
    PROVE  LET x == Placed(h)
           IN  /\ x \in HttpType /\ Good(x, FALSE, r)
               /\ x.state = "Disconnected" /\ h.state = "Disconnected"
               /\ x.initialized = TRUE /\ h.initialized = FALSE
               /\ x.easy_handle = h.easy_handle
               /\ x.streamEnds = h.streamEnds
               /\ x.sessionEnds = h.sessionEnds
  <1> DEFINE x == Placed(h)
  <1>1. /\ h.armed \in Int /\ h.session \in 0 .. MaxSessions
        /\ h.streamEnds \in Nat /\ h.sessionEnds \in Nat
        /\ h.initialized \in BOOLEAN /\ h.easy_handle \in BOOLEAN
    BY TypeOfFields
  <1>2. /\ "Disconnected" \in States /\ 0 \in 0 .. MaxSessions
        /\ "EOS" \in Reasons /\ "none" \in Transfers
    BY StatesAre, HttpAssumption DEF Reasons, Transfers
  <1>3. /\ x \in HttpType /\ x.state = "Disconnected"
        /\ x.initialized = TRUE /\ x.easy_handle = FALSE
        /\ x.timer_id_rsp = FALSE /\ x.armed = h.armed
        /\ x.falseEnd = FALSE
        /\ x.streamEnds = h.streamEnds /\ x.sessionEnds = h.sessionEnds
    BY <1>1, <1>2 DEF HttpInit, HttpType, Placed
  <1> HIDE DEF x
  <1>4. /\ h.state = "Disconnected" /\ h.easy_handle = FALSE
        /\ ~h.timer_id_rsp /\ Ended(h) /\ (r => Armed(h))
    BY <1>1 DEF Good
  <1>5. Armed(h) => Armed(x) BY <1>3, <1>4 DEF Armed
  <1>6. Good(x, FALSE, r) BY <1>3, <1>4, <1>5 DEF Good, Ended
  <1> QED BY <1>1, <1>3, <1>4, <1>6 DEF x

LEMMA RouteInv ==
    ASSUME TypeOK, Rest, NEW c \in Conns, Route(c)
    PROVE  TypeOK' /\ Rest' /\ \A d \in Conns : Quiet(d)
  <1>1. /\ task = NoTask /\ ~http[c].initialized
        /\ UNCHANGED <<evq, task, running>>
        /\ g_http' = [g_http EXCEPT !.ref = @ + 1, !.multi_handle = TRUE]
    BY DEF Route
  <1>2. /\ evq = << >> /\ http \in [Conns -> HttpType]
        /\ \A d \in Conns : ~Beginning(d) /\ http[d].state # "Connecting"
    BY <1>1, IdleFacts DEF TypeOK
  <1>3. \A d \in Conns : Beginning(d)' <=> Beginning(d) BY <1>1, BeginningOf
  <1> DEFINE h == http[c]
             x == Placed(h)
  <1>4. Good(h, FALSE, running)
    <2>1. Beginning(c) = FALSE BY <1>2, BeginningOf
    <2> QED BY <2>1, OneGood
  <1>5. /\ x \in HttpType /\ Good(x, FALSE, running)
        /\ x.state = "Disconnected" /\ h.state = "Disconnected"
        /\ x.initialized = TRUE /\ h.initialized = FALSE
        /\ x.easy_handle = h.easy_handle
        /\ x.streamEnds = h.streamEnds /\ x.sessionEnds = h.sessionEnds
    BY <1>1, <1>4, OneGood, RouteRecord
  <1>6. http' = [http EXCEPT ![c] = x] BY DEF Route, Placed
  <1> HIDE DEF h, x
  <1>7. h = http[c] BY DEF h
  <1>8. /\ http' \in [Conns -> HttpType] /\ http'[c] = x
        /\ \A d \in Conns : d # c => http'[d] = http[d]
        /\ Cardinality(Handles(http')) = Cardinality(Handles(http))
        /\ Cardinality(Routed(http')) = Cardinality(Routed(http)) + 1
        /\ Cardinality(Routed(http')) <= Cardinality(Conns)
        /\ Cardinality(Routed(http)) \in Nat
    <2>1. /\ http' \in [Conns -> HttpType] /\ http'[c] = x
          /\ \A d \in Conns : d # c => http'[d] = http[d]
          /\ Recount(http, http', c)
      BY <1>2, <1>5, <1>6, Replaced
    <2> QED BY <1>5, <1>7, <2>1 DEF Recount
  <1>9. Others(c) BY <1>3, <1>8, AlikeItself DEF Others
  <1>10. AllGood' /\ \A d \in Conns : d # c => Quiet(d)
    <2>1. Beginning(c)' = FALSE BY <1>2, <1>3, BeginningOf
    <2> QED BY <1>1, <1>5, <1>8, <1>9, <2>1, OthersGood
  <1>11. Quiet(c) BY <1>3, <1>5, <1>7, <1>8 DEF Quiet
  <1>12. g_http.ref \in Int /\ g_http.ref <= Cardinality(Routed(http))
    BY TypeOfShared DEF TypeOK, Rest, SharedHeld
  <1>13. Cardinality(Conns) \in Nat
    BY FS_CardinalityType, HttpAssumption
  <1>14. /\ g_http.ref + 1 <= Cardinality(Routed(http'))
         /\ g_http.ref + 1 <= Cardinality(Conns)
    BY <1>8, <1>12, <1>13
  <1>15. running \in BOOLEAN BY DEF TypeOK
  <1>16. /\ g_http' \in GType /\ g_http'.ref = g_http.ref + 1
         /\ Curl(g_http', Cardinality(Handles(http)), running)
    BY <1>1, <1>14, <1>15, SharedFacts, RefEffect
  <1>17. SharedHeld' BY <1>1, <1>8, <1>14, <1>16 DEF SharedHeld
  <1>18. TypeOK' BY <1>1, <1>8, <1>16 DEF TypeOK
  <1>19. QueueShape' BY <1>1 DEF Rest, QueueShape
  <1>20. BegunByConnect' BY <1>2, <1>3 DEF BegunByConnect
  <1>21. Passing' BY <1>2, <1>5, <1>8 DEF Passing
  <1>22. Ending' BY <1>1, TaskFacts DEF Ending
  <1>23. TaskRouted' BY <1>1 DEF TaskRouted
  <1> QED BY <1>10, <1>11, <1>17, <1>18, <1>19, <1>20, <1>21, <1>22, <1>23
      DEF Rest

\* The destination is given up: it has been disconnected.
GaveUp(h) == [h EXCEPT !.initialized = FALSE]

LEMMA GivenUp ==
    ASSUME NEW h \in HttpType, NEW r, Good(h, FALSE, r),
           h.state = "Disconnected"
    PROVE  LET x == GaveUp(h)
           IN  /\ x \in HttpType /\ Good(x, FALSE, r)
               /\ x.initialized = FALSE /\ x.state = h.state
               /\ x.easy_handle = h.easy_handle
               /\ x.streamEnds = h.streamEnds
               /\ x.sessionEnds = h.sessionEnds
  <1> DEFINE x == GaveUp(h)
  <1>1. /\ x \in HttpType /\ x.initialized = FALSE /\ x.state = h.state
        /\ x.easy_handle = h.easy_handle /\ x.streamEnds = h.streamEnds
        /\ x.sessionEnds = h.sessionEnds /\ x.begun = h.begun
        /\ x.timer_id_rsp = h.timer_id_rsp /\ x.armed = h.armed
        /\ x.falseEnd = h.falseEnd
    BY DEF HttpType, GaveUp
  <1> HIDE DEF x
  <1>2. Good(x, FALSE, r) BY <1>1 DEF Good, Ended, Armed
  <1> QED BY <1>1, <1>2 DEF x

LEMMA TermInv ==
    ASSUME TypeOK, Rest, Return, TermReturns
    PROVE  TypeOK' /\ Rest' /\ \A d \in Conns : Quiet(d)
  <1>1. /\ evq = << >> /\ evq' = << >> /\ task' = NoTask /\ running' = running
        /\ task # NoTask /\ task.kind = "term"
        /\ g_http' = Unref(g_http)
    BY DEF Return, TermReturns
  <1>2. PICK c \in Conns : c = task.conn BY <1>1, TaskFacts DEF TypeOK
  <1>3. /\ http \in [Conns -> HttpType]
        /\ \A d \in Conns : ~Beginning(d) /\ http[d].state # "Connecting"
    BY <1>1, IdleFacts DEF TypeOK
  <1>4. \A d \in Conns : ~Beginning(d)' BY <1>1, BeginningOf
  <1>5. http[c].state = "Disconnected" /\ http[c].initialized
    BY <1>1, <1>2, QueueFacts DEF Rest, Ending, TaskRouted
  <1> DEFINE h == http[c]
             x == GaveUp(h)
             hs == [http EXCEPT ![c] = x]
  <1>6. Good(h, FALSE, running)
    <2>1. Beginning(c) = FALSE BY <1>3, BeginningOf
    <2> QED BY <2>1, OneGood
  <1>7. /\ x \in HttpType /\ Good(x, FALSE, running)
        /\ x.initialized = FALSE /\ x.state = h.state
        /\ x.easy_handle = h.easy_handle
        /\ x.streamEnds = h.streamEnds /\ x.sessionEnds = h.sessionEnds
    BY <1>5, <1>6, OneGood, GivenUp
  <1>8. http' = Stranded(hs, g_http') BY <1>2, <1>3 DEF TermReturns, GaveUp
  <1>9. h.initialized = TRUE BY <1>5, OneGood, TypeOfFields
  <1> HIDE DEF h, x
  <1>10. h = http[c] BY DEF h
  <1>11. /\ hs \in [Conns -> HttpType] /\ hs[c] = x
         /\ \A d \in Conns : d # c => hs[d] = http[d]
         /\ Cardinality(Handles(hs)) = Cardinality(Handles(http))
         /\ Cardinality(Routed(hs)) = Cardinality(Routed(http)) - 1
         /\ Cardinality(Routed(http)) \in Nat
    <2>1. /\ hs \in [Conns -> HttpType] /\ hs[c] = x
          /\ \A d \in Conns : d # c => hs[d] = http[d]
          /\ Recount(http, hs, c)
      BY <1>3, <1>7, Replaced
    <2> QED BY <1>7, <1>9, <1>10, <2>1 DEF Recount
  <1> HIDE DEF hs
  <1>12. /\ http' \in [Conns -> HttpType]
         /\ \A d \in Conns : /\ Alike(http'[d], hs[d])
                             /\ http'[d].armed = hs[d].armed
    BY <1>8, <1>11, StrandedEffect
  <1>13. Handles(http') = Handles(hs) /\ Routed(http') = Routed(hs)
    BY <1>12 DEF Handles, Routed, Alike
  <1>14. Others(c) BY <1>3, <1>4, <1>11, <1>12 DEF Others
  <1>15. Good(http'[c], FALSE, running)
    <2>1. Alike(http'[c], x) /\ http'[c].armed = x.armed BY <1>11, <1>12
    <2>2. running => Armed(http'[c])
      BY <1>7, <2>1 DEF Good, Armed, Alike
    <2> QED BY <1>7, <2>1, <2>2, GoodAlike
  <1>16. AllGood' /\ \A d \in Conns : d # c => Quiet(d)
    <2>1. Beginning(c)' = FALSE BY <1>4, BeginningOf
    <2> QED BY <1>1, <1>14, <1>15, <2>1, OthersGood
  <1>17. /\ http'[c].state = http[c].state
         /\ http'[c].streamEnds = http[c].streamEnds
         /\ http'[c].sessionEnds = http[c].sessionEnds
    BY <1>7, <1>10, <1>11, <1>12 DEF Alike
  <1>18. Quiet(c) BY <1>3, <1>4, <1>17 DEF Quiet
  <1>19. g_http.ref \in 0 .. Cardinality(Conns) /\ running \in BOOLEAN
    BY TypeOfShared DEF TypeOK
  <1>20. /\ g_http' \in GType
         /\ Curl(g_http', Cardinality(Handles(http)), running)
         /\ g_http'.ref = IF g_http.ref = 0 THEN 0 ELSE g_http.ref - 1
    BY <1>1, <1>19, SharedFacts, RefEffect
  <1>21. Cardinality(Routed(http)) # 0
    <2>1. Routed(http) \in SUBSET Conns /\ c \in Routed(http)
      BY <1>5 DEF Routed
    <2> QED BY <2>1, Counted
  <1>22. g_http'.ref <= Cardinality(Routed(http')) 
    <2>1. g_http.ref \in Int /\ g_http.ref <= Cardinality(Routed(http))
      BY TypeOfShared DEF TypeOK, Rest, SharedHeld
    <2> QED BY <1>11, <1>13, <1>20, <1>21, <2>1
  <1>23. SharedHeld' BY <1>1, <1>11, <1>13, <1>20, <1>22 DEF SharedHeld
  <1>24. TypeOK' BY <1>1, <1>12, <1>20, QueueFacts, TaskFacts DEF TypeOK
  <1>25. QueueShape' BY <1>1 DEF QueueShape
  <1>26. BegunByConnect' BY <1>4 DEF BegunByConnect
  <1>27. Passing'
    <2>1. \A d \in Conns : http'[d].state = http[d].state
      BY <1>16, <1>18 DEF Quiet
    <2> QED BY <1>3, <2>1 DEF Passing
  <1>28. Ending' BY <1>1, TaskFacts DEF Ending
  <1>29. TaskRouted' BY <1>1 DEF TaskRouted
  <1> QED BY <1>16, <1>18, <1>23, <1>24, <1>25, <1>26, <1>27, <1>28, <1>29
      DEF Rest

-----------------------------------------------------------------------------
(* The state machine.                                                      *)

\* Its destination c goes to n on e.
Move(c, e, n) ==
    /\ task # NoTask /\ task.conn = c /\ evq = <<e>>
    /\ UNCHANGED <<task, running>>
    /\ e \in DOMAIN NextStates[http[c].state]
    /\ n = NextStates[http[c].state][e]
    /\ http' \in [Conns -> HttpType]
    /\ Lead(http[c], http'[c], e, n)
    /\ \A d \in Conns : d # c => http'[d] = http[d]
    /\ Recount(http, http', c)
    /\ \E y \in HttpType : /\ y.easy_handle = http[c].easy_handle
                           /\ Following(y, n)

LEMMA StepCases ==
    ASSUME TypeOK, Rest, Step
    PROVE  \/ Kept /\ Queued
           \/ \E c \in Conns, e \in Events, n \in States : Move(c, e, n)
  <1>1. task # NoTask /\ evq # << >> /\ UNCHANGED <<task, running>>
    BY DEF Step
  <1>2. PICK e \in Events : evq = <<e>> BY <1>1 DEF Rest, QueueShape
  <1>3. PICK c \in Conns : c = task.conn BY <1>1, TaskFacts DEF TypeOK
  <1>4. Head(evq) = e /\ Tail(evq) = << >> BY <1>2, QueueFacts
  <1>5. http[c] \in HttpType /\ http[c].state \in States BY OneGood
  <1>6. CASE e \notin DOMAIN NextStates[http[c].state]
    <2>1. evq' = << >> /\ UNCHANGED <<http, g_http>>
      BY <1>3, <1>4, <1>6 DEF Step
    <2>2. Kept BY <1>1, <2>1, KeptSame
    <2>3. Dropped(c, e) BY <1>1, <1>2, <1>3, <1>6, <2>1 DEF Dropped
    <2> QED BY <2>2, <2>3 DEF Queued
  <1>7. CASE e \in DOMAIN NextStates[http[c].state]
    <2> DEFINE n == NextStates[http[c].state][e]
               y == Exit(http[c], e)
    <2>1. n \in States BY <1>5, <1>7, Tables
    <2>2. Enter(c, y, n, << >>) BY <1>3, <1>4, <1>7 DEF Step
    <2>3. http[c].timer_id_rsp <=> http[c].state = "Connected"
      BY OneGood DEF Good
    <2>4. /\ y \in HttpType /\ y.timer_id_rsp = FALSE
          /\ y.easy_handle = http[c].easy_handle
      BY <1>5, <1>7, <2>3, ExitEffect
    <2>5. n = NextStates[http[c].state][e] OBVIOUS
    <2>6. \A x : Entered(y, x, n) => Lead(http[c], x, e, n)
      BY <1>5, <1>7, <2>3, LeadEffect
    <2> HIDE DEF n, y
    <2>7. /\ Following(y, n)
          /\ \E x : Entered(y, x, n) /\ http' = [http EXCEPT ![c] = x]
      BY <2>1, <2>2, <2>4, EnterEffect
    <2>8. PICK x : Entered(y, x, n) /\ http' = [http EXCEPT ![c] = x]
      BY <2>7
    <2>9. Lead(http[c], x, e, n) BY <2>6, <2>8
    <2>10. x \in HttpType BY <2>9 DEF Lead
    <2>11. http \in [Conns -> HttpType] BY DEF TypeOK
    <2>12. /\ http' \in [Conns -> HttpType] /\ http'[c] = x
           /\ \A d \in Conns : d # c => http'[d] = http[d]
           /\ Recount(http, http', c)
      BY <2>8, <2>10, <2>11, Replaced
    <2>13. Move(c, e, n)
      BY <1>1, <1>2, <1>3, <1>7, <2>4, <2>5, <2>7, <2>9, <2>12 DEF Move
    <2> QED BY <2>1, <2>13
  <1> QED BY <1>6, <1>7

LEMMA MoveInv ==
    ASSUME TypeOK, Rest, NEW c \in Conns, NEW e \in Events, NEW n \in States,
           Move(c, e, n)
    PROVE  /\ TypeOK' /\ Rest'
           /\ ~Beginning(c)' /\ (Beginning(c) <=> http[c].state = "Disconnected")
           /\ \A d \in Conns : d # c => Quiet(d)
  <1>1. /\ task # NoTask /\ task.conn = c /\ evq = <<e>>
        /\ UNCHANGED <<task, running>>
        /\ e \in DOMAIN NextStates[http[c].state]
        /\ n = NextStates[http[c].state][e]
        /\ http' \in [Conns -> HttpType]
        /\ Lead(http[c], http'[c], e, n)
        /\ \A d \in Conns : d # c => http'[d] = http[d]
        /\ Recount(http, http', c)
    BY DEF Move
  <1>2. PICK y \in HttpType : /\ y.easy_handle = http[c].easy_handle
                              /\ Following(y, n)
    BY DEF Move
  <1>3. /\ http[c] \in HttpType /\ http[c].state \in States
        /\ Good(http[c], Beginning(c), running) /\ running \in BOOLEAN
    BY OneGood DEF TypeOK
  <1>4. /\ http[c].state = "Disconnected" <=> e \in BeginEvents
        /\ e = "TERMINATE" =>
             /\ n = "Disconnected" /\ Tells(http[c].state, e)
             /\ SessionReasons[http[c].state][e] = "TERMINATE"
    BY <1>1, <1>3, Tables
  <1>5. Beginning(c) <=> e \in BeginEvents BY <1>1, BeginningOf
  <1>6. \/ evq' = << >>
        \/ \E f \in {"CONNECTED", "DISCONNECTED", "TEXT_SESSION_SUCCESS"} :
             evq' = <<f>>
    BY <1>2 DEF Following
  <1>7. \A d \in Conns : ~Beginning(d)'
    BY <1>6, BeginningOf DEF BeginEvents
  <1>8. \A d \in Conns : d # c => ~Beginning(d) BY <1>1, BeginningOf
  <1>9. http[c].initialized BY <1>1 DEF Rest, TaskRouted
  <1>10. /\ http'[c].state = n /\ http'[c].initialized = http[c].initialized
         /\ http'[c].easy_handle = IF n = "Disconnected" THEN FALSE
                                   ELSE http[c].easy_handle
         /\ n = "Disconnected" =>
              http'[c].ended = IF Tells(http[c].state, e)
                               THEN SessionReasons[http[c].state][e]
                               ELSE http[c].reason
    BY <1>1 DEF Lead
  <1>11. Good(http'[c], FALSE, running)
    BY <1>1, <1>3, <1>5, <1>9, BeginningOf, LeadGood
  <1>12. Others(c) BY <1>1, <1>7, <1>8, AlikeItself DEF Others
  <1>13. AllGood' /\ \A d \in Conns : d # c => Quiet(d)
    <2>1. Beginning(c)' = FALSE BY <1>7, BeginningOf
    <2> QED BY <1>1, <1>11, <1>12, <2>1, OthersGood
  <1>14. SharedHeld' /\ g_http' \in GType
    <2>1. Cardinality(Routed(http')) = Cardinality(Routed(http))
      BY <1>1, <1>10 DEF Recount
    <2>2. http[c].easy_handle BY <1>3, <1>4, <1>5 DEF Good
    <2>3. /\ Cardinality(Handles(http)) \in Nat \ {0}
          /\ n = "Disconnected" =>
               Cardinality(Handles(http')) = Cardinality(Handles(http)) - 1
          /\ n # "Disconnected" =>
               Cardinality(Handles(http')) = Cardinality(Handles(http))
      BY <1>1, <1>10, <2>2 DEF Recount
    <2>4. /\ g_http' \in GType /\ g_http'.ref = g_http.ref
          /\ Curl(g_http', Cardinality(Handles(http')), running)
      <3>1. CASE n = "Disconnected"
        <4>1. g_http' \in ResetShared(g_http, y) BY <1>2, <3>1 DEF Following
        <4>2. y.easy_handle BY <1>2, <2>2
        <4> DEFINE k == Cardinality(Handles(http))
                   j == Cardinality(Handles(http'))
        <4>3. k \in Nat \ {0} /\ j \in Nat /\ j = k - 1 BY <2>3, <3>1
        <4>4. Curl(g_http, k, running) BY SharedFacts
        <4> HIDE DEF j, k
        <4>5. /\ g_http' \in GType /\ g_http'.ref = g_http.ref
              /\ Curl(g_http', j, running)
          BY <1>2, <1>3, <4>1, <4>2, <4>3, <4>4, SharedFacts, ResetSharedEffect
        <4> QED BY <4>5 DEF j
      <3>2. CASE n = "Connecting"
        <4>1. g_http' \in CurlTimer(g_http) BY <1>2, <3>2 DEF Following
        <4>2. /\ g_http' \in GType /\ g_http'.ref = g_http.ref
              /\ Curl(g_http', Cardinality(Handles(http)), running)
          BY <1>3, <2>3, <4>1, SharedFacts, CurlTimerEffect
        <4> QED BY <2>3, <3>2, <4>2
      <3>3. CASE n \notin {"Disconnected", "Connecting"}
        <4>1. g_http' = g_http BY <1>2, <3>3 DEF Following
        <4> QED BY <2>3, <3>3, <4>1, SharedFacts
      <3> QED BY <3>1, <3>2, <3>3
    <2> QED BY <1>1, <2>1, <2>4 DEF Rest, SharedHeld
  <1>15. evq' \in Seq(Events)
    <2>1. {"CONNECTED", "DISCONNECTED", "TEXT_SESSION_SUCCESS"} \subseteq Events
      BY DEF Events
    <2> QED BY <1>6, <2>1, QueueFacts
  <1>16. TypeOK' BY <1>1, <1>14, <1>15 DEF TypeOK
  <1>17. QueueShape'
    <2>1. {"CONNECTED", "DISCONNECTED", "TEXT_SESSION_SUCCESS"} \subseteq Events
      BY DEF Events
    <2> QED BY <1>1, <1>6, <2>1 DEF QueueShape
  <1>18. BegunByConnect' BY <1>7 DEF BegunByConnect
  <1>19. Passing'
    <2> SUFFICES ASSUME NEW d \in Conns, http'[d].state = "Connecting"
                 PROVE  /\ task # NoTask /\ task.conn = d
                        /\ evq' \in {<<"CONNECTED">>, <<"DISCONNECTED">>}
      BY <1>1 DEF Passing
    <2>1. d = c BY <1>1, OneGood
    <2> QED BY <1>1, <1>2, <1>10, <2>1 DEF Following
  <1>20. Ending'
    <2> SUFFICES ASSUME task.kind \in {"terminate", "term"}
                 PROVE  /\ evq' = << >> /\ http'[c].state = "Disconnected"
                        /\ http'[c].ended = "TERMINATE"
      BY <1>1 DEF Ending
    <2>1. e = "TERMINATE" BY <1>1, QueueFacts DEF Rest, Ending
    <2> QED BY <1>2, <1>4, <1>10, <2>1 DEF Following
  <1>21. TaskRouted' BY <1>1, <1>9, <1>10 DEF TaskRouted
  <1> QED BY <1>4, <1>5, <1>7, <1>13, <1>14, <1>16, <1>17, <1>18, <1>19,
             <1>20, <1>21 DEF Rest

-----------------------------------------------------------------------------
(* The steps, as the invariant and the contract see them.                  *)

Still == \A c \in Conns : Quiet(c)

LEMMA NextInv ==
    ASSUME TypeOK, Rest, [Next]_vars
    PROVE  /\ TypeOK' /\ Rest'
           /\ \/ Still
              \/ \E c \in Conns : Connect(c)
              \/ \E c \in Conns, e \in Events, n \in States : Move(c, e, n)
  <1>1. ASSUME Kept /\ Queued
        PROVE  TypeOK' /\ Rest' /\ Still
    BY <1>1, KeptInv DEF Still
  <1>2. ASSUME NEW c \in Conns, Handlers(c)
        PROVE  TypeOK' /\ Rest' /\ (Still \/ Connect(c))
    <2>1. CASE Route(c) BY <2>1, RouteInv DEF Still
    <2>2. CASE Connect(c) BY <2>2, ConnectInv
    <2>3. CASE \/ Terminate(c) \/ Term(c) \/ SpeechEvent(c)
               \/ ResponseTimeout(c) \/ ReadBody(c) \/ Complete(c)
               \/ MsgRecv(c) \/ ConnectFails(c)
      BY <1>1, <2>3, HandlersKeep
    <2> QED BY <1>2, <2>1, <2>2, <2>3 DEF Handlers
  <1>3. CASE MultiTimeout \/ LoopEnds \/ Open \/ UNCHANGED vars
    BY <1>1, <1>3, OthersKeep
  <1>4. CASE Return
    <2>1. CASE TermReturns BY <1>4, <2>1, TermInv DEF Still
    <2>2. CASE ~TermReturns BY <1>1, <1>4, <2>2, OthersKeep
    <2> QED BY <2>1, <2>2
  <1>5. CASE Step
    <2>1. CASE Kept /\ Queued BY <1>1, <2>1
    <2>2. ASSUME NEW c \in Conns, NEW e \in Events, NEW n \in States,
                 Move(c, e, n)
          PROVE  TypeOK' /\ Rest'
      BY <2>2, MoveInv
    <2> QED BY <1>5, <2>1, <2>2, StepCases
  <1> QED BY <1>2, <1>3, <1>4, <1>5 DEF Next, Continue

LEMMA InitInv == Init => TypeOK /\ Rest
  <1> SUFFICES ASSUME Init PROVE TypeOK /\ Rest OBVIOUS
  <1>1. /\ http = [c \in Conns |-> HttpInit] /\ g_http = GInit /\ evq = << >>
        /\ task = NoTask /\ running = TRUE
    BY DEF Init
  <1>2. HttpInit \in HttpType
    <2>1. "Disconnected" \in States /\ 0 \in 0 .. MaxSessions
      BY StatesAre, HttpAssumption
    <2> QED BY <2>1 DEF HttpInit, HttpType, Reasons, Transfers
  <1>3. GInit \in GType
    BY FS_CardinalityType, HttpAssumption DEF GInit, GType
  <1>4. TypeOK BY <1>1, <1>2, <1>3, QueueFacts, TaskFacts DEF TypeOK
  <1>5. \A c \in Conns : ~Beginning(c) BY <1>1, BeginningOf
  <1>6. \A c \in Conns : /\ http[c].state = "Disconnected"
                         /\ http[c].easy_handle = FALSE
                         /\ http[c].initialized = FALSE
                         /\ Good(http[c], FALSE, TRUE)
    BY <1>1 DEF HttpInit, Good, Ended, Armed
  <1>7. AllGood
    <2>1. \A c \in Conns : Beginning(c) = FALSE BY <1>5, BeginningOf
    <2> QED BY <1>1, <1>6, <2>1 DEF AllGood
  <1>8. SharedHeld
    <2>1. Handles(http) = {} /\ Routed(http) = {}
      BY <1>6 DEF Handles, Routed
    <2>2. Cardinality(Handles(http)) = 0 /\ Cardinality(Routed(http)) = 0
      BY <2>1, FS_EmptySet
    <2> QED BY <1>1, <2>2 DEF SharedHeld, Curl, GInit
  <1>9. QueueShape /\ Ending /\ TaskRouted
    BY <1>1, TaskFacts DEF QueueShape, Ending, TaskRouted
  <1>10. BegunByConnect /\ Passing BY <1>5, <1>6 DEF BegunByConnect, Passing
  <1> QED BY <1>4, <1>7, <1>8, <1>9, <1>10 DEF Rest

\* What the router's handlers, the state machines and curl keep in every
\* reachable state, for any number of destinations.
THEOREM InvCorrect == Spec => []IInv
  <1>1. Init => IInv BY InitInv, RestIs
  <1>2. IInv /\ [Next]_vars => IInv'
    <2> SUFFICES ASSUME IInv, [Next]_vars PROVE IInv' OBVIOUS
    <2>1. TypeOK /\ Rest BY RestIs
    <2>2. TypeOK' /\ Rest' BY <2>1, NextInv
    <2>3. (IInv <=> TypeOK /\ Rest)' BY RestIs, PTL
    <2> QED BY <2>2, <2>3
  <1> QED BY <1>1, <1>2, PTL DEF Spec

\* The fields hold what their C types allow, and no destination counts twice
\* in the references to the multi handle.
THEOREM TypeCorrect == Spec => []TypeOK
  <1>1. IInv => TypeOK BY DEF IInv
  <1> QED BY <1>1, InvCorrect, PTL

\* A session ends its stream once and then itself once.
THEOREM EndedOnceCorrect == Spec => []EndedOnce
  <1>1. IInv => EndedOnce BY DEF IInv
  <1> QED BY <1>1, InvCorrect, PTL

\* The timer library holds a response timer exactly for the destinations that
\* wait for a response.
THEOREM TimerCorrect == Spec => []TimerMatchesState
  <1>1. IInv => TimerMatchesState BY DEF IInv
  <1> QED BY <1>1, InvCorrect, PTL

\* curl's timer is the one that is named, and is gone with the last easy
\* handle of all the destinations.
THEOREM CurlCorrect == Spec => []CurlTimerOwned
  <1>1. IInv => CurlTimerOwned BY DEF IInv
  <1> QED BY <1>1, InvCorrect, PTL

\* The application is told of a stream's end only after its beginning.
THEOREM StreamCorrect == Spec => []StreamWasStarted
  <1>1. IInv => StreamWasStarted BY DEF IInv
  <1> QED BY <1>1, InvCorrect, PTL

\* Terminating a destination ends its session before the call returns.
THEOREM TerminateCorrect == Spec => []TerminateDisconnects
  <1>1. IInv => TerminateDisconnects
    <2> SUFFICES ASSUME IInv, task.kind \in {"terminate", "term"}, evq = << >>
                 PROVE  /\ http[task.conn].state = "Disconnected"
                        /\ task.kind = "terminate" =>
                             http[task.conn].ended = "TERMINATE"
      BY DEF TerminateDisconnects
    <2> QED BY QueueFacts DEF IInv, Ending
  <1> QED BY <1>1, InvCorrect, PTL

-----------------------------------------------------------------------------
(* The contract.                                                           *)

\* Where the router sees the session of a destination.
LEMMA PhaseOf ==
    ASSUME NEW c
    PROVE  /\ http[c].state \in {"Buffering", "Connecting"} =>
                Phase(c) = "opening"
           /\ http[c].state \in {"Streaming", "TextOnlySession"} =>
                Phase(c) = "streaming"
           /\ http[c].state = "Connected" => Phase(c) = "draining"
           /\ http[c].state = "Disconnected" =>
                /\ Beginning(c) => Phase(c) = "opening"
                /\ ~Beginning(c) => Phase(c) = "idle"
  BY StatesAre DEF Phase

LEMMA PhaseNext ==
    ASSUME NEW c
    PROVE  /\ http'[c].state \in {"Buffering", "Connecting"} =>
                Phase(c)' = "opening"
           /\ http'[c].state \in {"Streaming", "TextOnlySession"} =>
                Phase(c)' = "streaming"
           /\ http'[c].state = "Connected" => Phase(c)' = "draining"
           /\ http'[c].state = "Disconnected" =>
                /\ Beginning(c)' => Phase(c)' = "opening"
                /\ ~Beginning(c)' => Phase(c)' = "idle"
  BY StatesAre DEF Phase

\* What the tables do to a session's ends.
LEMMA LeadEnds ==
    ASSUME NEW h \in HttpType, NEW b \in BOOLEAN, NEW r, Good(h, b, r),
           b <=> h.state = "Disconnected",
           NEW e \in Events, e \in DOMAIN NextStates[h.state],
           NEW n, n = NextStates[h.state][e], NEW x, Lead(h, x, e, n)
    PROVE  /\ x.state = n /\ n \in States
           /\ n \in {"Buffering", "Connecting"} =>
                /\ h.state \in {"Disconnected", "Buffering"}
                /\ h.streamEnds = 0 /\ h.sessionEnds = 0
                /\ x.streamEnds = 0 /\ x.sessionEnds = 0
           /\ n \in {"Streaming", "TextOnlySession"} =>
                /\ h.state \in {"Connecting", "Streaming", "TextOnlySession"}
                /\ h.streamEnds = 0 /\ h.sessionEnds = 0
                /\ x.streamEnds = 0 /\ x.sessionEnds = 0
           /\ n = "Connected" =>
                /\ h.state \in {"Streaming", "TextOnlySession"}
                /\ h.streamEnds = 0 /\ h.sessionEnds = 0
                /\ x.streamEnds = 1 /\ x.sessionEnds = 0
           /\ n = "Disconnected" =>
                /\ \/ /\ h.state = "Connected"
                      /\ h.streamEnds = 1
                   \/ /\ h.state \in {"Buffering", "Connecting", "Streaming",
                                      "TextOnlySession"}
                      /\ h.streamEnds = 0
                /\ h.sessionEnds = 0
                /\ x.streamEnds = 1 /\ x.sessionEnds = 1
  <1>1. /\ h.state \in States /\ h.streamEnds \in Nat /\ h.sessionEnds \in Nat
    BY TypeOfFields
  <1>2. /\ n \in States
        /\ h.state = "Disconnected" => n \in {"Connecting", "Buffering"}
        /\ h.state = "Buffering" => n \in {"Connecting", "Disconnected"}
        /\ h.state = "Connecting" => n \in {"Streaming", "Disconnected"}
        /\ h.state = "Connected" => n = "Disconnected"
        /\ h.state \in {"Streaming", "TextOnlySession"} =>
             n \in {"Connected", "Disconnected", "TextOnlySession"}
        /\ Ends(h.state, e) <=>
             /\ h.state \notin {"Disconnected", "Connected"}
             /\ n \in {"Disconnected", "Connected"}
    BY <1>1, Tables
  <1>3. /\ x.state = n
        /\ x.streamEnds = IF Ends(h.state, e) THEN h.streamEnds + 1
                          ELSE h.streamEnds
        /\ x.sessionEnds = IF n = "Disconnected" THEN h.sessionEnds + 1
                           ELSE h.sessionEnds
    BY DEF Lead
  <1>4. /\ h.state = "Connected" => h.streamEnds = 1 /\ h.sessionEnds = 0
        /\ h.state # "Connected" => h.streamEnds = 0 /\ h.sessionEnds = 0
    BY <1>1 DEF Good, Ended
  <1> QED BY <1>1, <1>2, <1>3, <1>4, StatesAre

\* What happens to a destination is a step of its contract, or invisible.
LEMMA AbstractStep ==
    ASSUME TypeOK, Rest, [Next]_vars, NEW c \in Conns
    PROVE  [Abstract(c)!Next]_(Abstract(c)!vars)
  <1> USE DEF Abstract!Next, Abstract!vars, Abstract!Begin,
              Abstract!StartStream, Abstract!EndStream, Abstract!EndSession,
              Abstract!Abort
  <1>1. ASSUME Quiet(c) PROVE [Abstract(c)!Next]_(Abstract(c)!vars)
    <2>1. Phase(c)' = Phase(c) BY <1>1 DEF Quiet, Phase
    <2>2. /\ http'[c].streamEnds = http[c].streamEnds
          /\ http'[c].sessionEnds = http[c].sessionEnds
      BY <1>1 DEF Quiet
    <2> QED BY <2>1, <2>2
  <1>2. ASSUME NEW d \in Conns, Connect(d)
        PROVE  [Abstract(c)!Next]_(Abstract(c)!vars)
    <2>1. CASE d # c BY <1>1, <1>2, <2>1, ConnectInv
    <2>2. CASE d = c
      <3>1. /\ http[c].state = "Disconnected" /\ ~Beginning(c)
            /\ http'[c].state = "Disconnected" /\ Beginning(c)'
            /\ http'[c].streamEnds = 0 /\ http'[c].sessionEnds = 0
        BY <1>2, <2>2, ConnectInv
      <3>2. Phase(c) = "idle" /\ Phase(c)' = "opening"
        BY <3>1, PhaseOf, PhaseNext
      <3> QED BY <3>1, <3>2
    <2> QED BY <2>1, <2>2
  <1>3. ASSUME NEW d \in Conns, NEW e \in Events, NEW n \in States,
               Move(d, e, n)
        PROVE  [Abstract(c)!Next]_(Abstract(c)!vars)
    <2>1. CASE d # c BY <1>1, <1>3, <2>1, MoveInv
    <2>2. CASE d = c
      <3> DEFINE h == http[c]
                 x == http'[c]
                 b == Beginning(c)
      <3>1. ~Beginning(c)' /\ (b <=> h.state = "Disconnected")
        BY <1>3, <2>2, MoveInv
      <3>2. /\ e \in DOMAIN NextStates[h.state]
            /\ n = NextStates[h.state][e] /\ Lead(h, x, e, n)
        BY <1>3, <2>2 DEF Move
      <3>3. h \in HttpType /\ Good(h, b, running) /\ b \in BOOLEAN
        BY OneGood, BeginningOf
      <3>4. /\ x.state = n /\ n \in States
            /\ n \in {"Buffering", "Connecting"} =>
                 /\ h.state \in {"Disconnected", "Buffering"}
                 /\ h.streamEnds = 0 /\ h.sessionEnds = 0
                 /\ x.streamEnds = 0 /\ x.sessionEnds = 0
            /\ n \in {"Streaming", "TextOnlySession"} =>
                 /\ h.state \in {"Connecting", "Streaming", "TextOnlySession"}
                 /\ h.streamEnds = 0 /\ h.sessionEnds = 0
                 /\ x.streamEnds = 0 /\ x.sessionEnds = 0
            /\ n = "Connected" =>
                 /\ h.state \in {"Streaming", "TextOnlySession"}
                 /\ h.streamEnds = 0 /\ h.sessionEnds = 0
                 /\ x.streamEnds = 1 /\ x.sessionEnds = 0
            /\ n = "Disconnected" =>
                 /\ \/ /\ h.state = "Connected"
                       /\ h.streamEnds = 1
                    \/ /\ h.state \in {"Buffering", "Connecting", "Streaming",
                                       "TextOnlySession"}
                       /\ h.streamEnds = 0
                 /\ h.sessionEnds = 0
                 /\ x.streamEnds = 1 /\ x.sessionEnds = 1
        <4> HIDE DEF h, x, b
        <4> QED BY <3>1, <3>2, <3>3, LeadEnds
      <3>5. CASE n \in {"Buffering", "Connecting"}
        <4>1. Phase(c) = "opening" /\ Phase(c)' = "opening"
          BY <3>1, <3>4, <3>5, PhaseOf, PhaseNext
        <4> QED BY <3>4, <3>5, <4>1
      <3>6. CASE n \in {"Streaming", "TextOnlySession"}
        <4>1. Phase(c) \in {"opening", "streaming"} /\ Phase(c)' = "streaming"
          BY <3>4, <3>6, PhaseOf, PhaseNext
        <4> QED BY <3>4, <3>6, <4>1
      <3>7. CASE n = "Connected"
        <4>1. Phase(c) = "streaming" /\ Phase(c)' = "draining"
          BY <3>4, <3>7, PhaseOf, PhaseNext
        <4> QED BY <3>4, <3>7, <4>1
      <3>8. CASE n = "Disconnected"
        <4>1. Phase(c)' = "idle" BY <3>1, <3>4, <3>8, PhaseNext
        <4>2. \/ Phase(c) = "draining" /\ h.streamEnds = 1
              \/ Phase(c) \in {"opening", "streaming"} /\ h.streamEnds = 0
          BY <3>4, <3>8, PhaseOf
        <4> QED BY <3>4, <3>8, <4>1, <4>2
      <3> QED BY <3>4, <3>5, <3>6, <3>7, <3>8, StatesAre
    <2> QED BY <2>1, <2>2
  <1> HIDE DEF Abstract!Next, Abstract!vars
  <1> QED BY <1>1, <1>2, <1>3, NextInv DEF Still

\* Every destination implements the contract: to the router it is a session
\* that opens, streams, drains and ends, with one call of
\* xrsr_speech_stream_end and then one of xrsr_session_end, whatever the
\* destinations do that share the multi handle.
THEOREM ContractCorrect == Spec => Contract
  <1>1. Init => \A c \in Conns : Abstract(c)!Init
    <2> SUFFICES ASSUME Init, NEW c \in Conns PROVE Abstract(c)!Init OBVIOUS
    <2>1. ~Beginning(c) BY BeginningOf DEF Init
    <2>2. /\ http[c].state = "Disconnected"
          /\ http[c].streamEnds = 0 /\ http[c].sessionEnds = 0
      BY DEF Init, HttpInit
    <2>3. Phase(c) = "idle" BY <2>1, <2>2, PhaseOf
    <2> QED BY <2>2, <2>3 DEF Abstract!Init
  <1>2. IInv /\ [Next]_vars =>
          [\A c \in Conns : [Abstract(c)!Next]_(Abstract(c)!vars)]_vars
    <2> SUFFICES ASSUME IInv, [Next]_vars, NEW c \in Conns
                 PROVE  [Abstract(c)!Next]_(Abstract(c)!vars)
      OBVIOUS
    <2>1. TypeOK /\ Rest BY RestIs
    <2> QED BY <2>1, AbstractStep
  <1> QED BY <1>1, <1>2, InvCorrect, PTL DEF Spec, Contract
=============================================================================
