---------------------------- MODULE WsConnProofs ----------------------------
(***************************************************************************)
(* What holds of a WebSocket destination for every value of its constants. *)
(*                                                                         *)
(* First the types: what each helper returns, then each action, then       *)
(* TypeCorrect.  Then the inductive invariant IInv, in the order in which  *)
(* the code runs: one event off the queue (an event the state drops: Stay; *)
(* one that leads elsewhere: Leave; a poll of the opening connection:      *)
(* Poll), then the handlers, which raise an event (RaiseInv), change only  *)
(* what the invariant does not see (SameInv) or end (EndsInv).  The same   *)
(* case analysis gives what the router sees of a step (NextInv), and from  *)
(* it the contract of every destination (ContractCorrect).                 *)
(***************************************************************************)
EXTENDS WsConn, SequenceTheorems, TLAPS

Reasons == [stream : StreamReasons, session : SessionReasons]

LEMMA NextStatesType ==
    ASSUME NEW s \in States, NEW e \in DOMAIN NextStates[s]
    PROVE  NextStates[s][e] \in States
  BY DEF NextStates, States

LEMMA ReasonsType ==
    ASSUME NEW w \in WsType, w.state \in DOMAIN ExitReasons(w),
           NEW e \in DOMAIN ExitReasons(w)[w.state]
    PROVE  ExitReasons(w)[w.state][e] \in Reasons
  <1> USE DEF WsType, ExitReasons, Why, NotBegun, Reasons, StreamReasons,
              SessionReasons
  <1>1. CASE w.state = "Buffering" BY <1>1
  <1>2. CASE w.state = "Connecting" BY <1>2
  <1>3. CASE w.state = "Connected" BY <1>3
  <1>4. CASE w.state = "Connection_Retry" BY <1>4
  <1>5. CASE w.state = "Established" BY <1>5
  <1>6. CASE w.state = "Streaming" BY <1>6
  <1>7. CASE w.state = "TextOnlySession" BY <1>7
  <1>8. CASE w.state \in {"Disconnected", "Disconnecting"} BY <1>8
  <1> QED BY <1>1, <1>2, <1>3, <1>4, <1>5, <1>6, <1>7, <1>8 DEF States

\* States whose session has no stream any more, or none yet.
StreamOver == {"Disconnected", "Disconnecting", "Established"}

\* The EXIT actions that set reasons are those of Established and those on
\* the way from a state with a stream to one without.
LEMMA ReasonsSet ==
    ASSUME NEW w \in WsType, NEW e \in Events,
           e \in DOMAIN NextStates[w.state], NextStates[w.state][e] # w.state
    PROVE  LET why == ExitReasons(w)
           IN  /\ (w.state \in DOMAIN why /\ e \in DOMAIN why[w.state])
                    <=> \/ w.state = "Established"
                        \/ /\ w.state \notin StreamOver
                           /\ NextStates[w.state][e] \in StreamOver
               /\ (e = "TERMINATE" /\ w.state \notin {"Disconnected", "Disconnecting"})
                    => why[w.state][e].session = "TERMINATE"
  <1> USE DEF WsType, ExitReasons, Why, NotBegun, NextStates, StreamOver, Events
  <1>1. CASE w.state = "Buffering" BY <1>1
  <1>2. CASE w.state = "Connecting" BY <1>2
  <1>3. CASE w.state = "Connected" BY <1>3
  <1>4. CASE w.state = "Connection_Retry" BY <1>4
  <1>5. CASE w.state = "Established" BY <1>5
  <1>6. CASE w.state = "Streaming" BY <1>6
  <1>7. CASE w.state = "TextOnlySession" BY <1>7
  <1>8. CASE w.state = "Disconnected" BY <1>8
  <1>9. CASE w.state = "Disconnecting" BY <1>9
  <1> QED BY <1>1, <1>2, <1>3, <1>4, <1>5, <1>6, <1>7, <1>8, <1>9 DEF States

LEMMA SetReasonsType ==
    ASSUME NEW w \in WsType, NEW why \in Reasons
    PROVE  SetReasons(w, why) \in WsType
  BY DEF SetReasons, WsType, Reasons

LEMMA SpeechStreamEndType ==
    ASSUME NEW w \in WsType
    PROVE  SpeechStreamEnd(w) \in WsType
  <1>1. \A n \in Nat, b \in BOOLEAN :
          [w EXCEPT !.audio_pipe = FALSE, !.streamEnds = n, !.falseEnd = b] \in WsType
    BY DEF WsType
  <1> DEFINE n == w.streamEnds + 1
             b == w.falseEnd \/ (w.stream_end_reason # "DID_NOT_BEGIN" /\ ~w.begun)
  <1>2. n \in Nat BY DEF WsType
  <1>3. b \in BOOLEAN BY DEF WsType
  <1>4. SpeechStreamEnd(w) =
          [w EXCEPT !.audio_pipe = FALSE, !.streamEnds = n, !.falseEnd = b]
    BY DEF SpeechStreamEnd
  <1> HIDE DEF n, b
  <1> QED BY <1>1, <1>2, <1>3, <1>4

LEMMA TimerType ==
    ASSUME NEW w \in WsType
    PROVE  ArmTimer(w) \in WsType /\ RemoveTimer(w) \in WsType
  <1>1. \A n \in Int, b \in BOOLEAN :
          [w EXCEPT !.timer_id = b, !.armed = n] \in WsType
    BY DEF WsType
  <1>2. w.armed + 1 \in Int /\ w.armed - 1 \in Int BY DEF WsType
  <1> QED BY <1>1, <1>2 DEF ArmTimer, RemoveTimer

LEMMA ExitType ==
    ASSUME NEW w \in WsType, NEW e \in Events
    PROVE  Exit(w, e) \in WsType
  <1> DEFINE why == ExitReasons(w)
             ends == w.state \in DOMAIN why /\ e \in DOMAIN why[w.state]
             told == IF ends THEN SetReasons(w, why[w.state][e]) ELSE w
             ended == IF ends /\ w.state # "Established"
                      THEN SpeechStreamEnd(told) ELSE told
  <1>1. told \in WsType BY ReasonsType, SetReasonsType
  <1>2. ended \in WsType BY <1>1, SpeechStreamEndType
  <1>3. Exit(w, e) = IF w.state \in TimedStates THEN RemoveTimer(ended) ELSE ended
    BY DEF Exit
  <1> HIDE DEF ended
  <1> QED BY <1>2, <1>3, TimerType

\* The fields that no EXIT action touches.
Kept(x, w) ==
    /\ x.ctx = w.ctx /\ x.state = w.state /\ x.obj_conn = w.obj_conn
    /\ x.socket = w.socket /\ x.session = w.session
    /\ x.sessionEnds = w.sessionEnds

LEMMA SetReasonsEffect ==
    ASSUME NEW w \in WsType, NEW why \in Reasons
    PROVE  LET x == SetReasons(w, why)
           IN  /\ Kept(x, w)
               /\ x.streamEnds = w.streamEnds /\ x.audio_pipe = w.audio_pipe
               /\ x.timer_id = w.timer_id /\ x.armed = w.armed
               /\ x.session_end_reason = why.session
  BY DEF SetReasons, Kept, WsType

LEMMA SpeechStreamEndEffect ==
    ASSUME NEW w \in WsType
    PROVE  LET x == SpeechStreamEnd(w)
           IN  /\ Kept(x, w)
               /\ x.streamEnds = w.streamEnds + 1 /\ x.audio_pipe = FALSE
               /\ x.timer_id = w.timer_id /\ x.armed = w.armed
               /\ x.session_end_reason = w.session_end_reason
  BY DEF SpeechStreamEnd, Kept, WsType

LEMMA RemoveTimerEffect ==
    ASSUME NEW w \in WsType
    PROVE  LET x == RemoveTimer(w)
           IN  /\ Kept(x, w)
               /\ x.streamEnds = w.streamEnds /\ x.audio_pipe = w.audio_pipe
               /\ ~x.timer_id /\ x.armed = w.armed - (IF w.timer_id THEN 1 ELSE 0)
               /\ x.session_end_reason = w.session_end_reason
  <1>1. CASE w.timer_id BY <1>1 DEF RemoveTimer, Kept, WsType
  <1>2. CASE ~w.timer_id BY <1>2 DEF RemoveTimer, Kept, WsType
  <1> QED BY <1>1, <1>2

\* Leaving a state for one without a stream ends the stream.
Ends(w, e) == w.state \notin StreamOver /\ NextStates[w.state][e] \in StreamOver

\* What leaving a state does to the fields the invariant is about.
LEMMA ExitEffect ==
    ASSUME NEW w \in WsType, NEW e \in Events,
           e \in DOMAIN NextStates[w.state], NextStates[w.state][e] # w.state
    PROVE  LET x == Exit(w, e)
           IN  /\ Kept(x, w)
               /\ x.streamEnds = IF Ends(w, e) THEN w.streamEnds + 1 ELSE w.streamEnds
               /\ x.audio_pipe = IF Ends(w, e) THEN FALSE ELSE w.audio_pipe
               /\ w.state \in TimedStates =>
                    ~x.timer_id /\ x.armed = w.armed - (IF w.timer_id THEN 1 ELSE 0)
               /\ w.state \notin TimedStates =>
                    x.timer_id = w.timer_id /\ x.armed = w.armed
               /\ (e = "TERMINATE" /\ w.state \notin {"Disconnected", "Disconnecting"})
                    => x.session_end_reason = "TERMINATE"
               /\ w.state = "Disconnecting" =>
                    x.session_end_reason = w.session_end_reason
  <1> DEFINE why == ExitReasons(w)
             set == w.state \in DOMAIN why /\ e \in DOMAIN why[w.state]
             told == IF set THEN SetReasons(w, why[w.state][e]) ELSE w
             over == set /\ w.state # "Established"
             ended == IF over THEN SpeechStreamEnd(told) ELSE told
             terminates == /\ e = "TERMINATE"
                           /\ w.state \notin {"Disconnected", "Disconnecting"}
  <1>1. /\ told \in WsType
        /\ Kept(told, w)
        /\ told.streamEnds = w.streamEnds /\ told.audio_pipe = w.audio_pipe
        /\ told.timer_id = w.timer_id /\ told.armed = w.armed
    BY ReasonsType, SetReasonsType, SetReasonsEffect DEF Kept
  <1>2. over <=> Ends(w, e)
    BY ReasonsSet DEF StreamOver, Ends
  <1>3. ASSUME terminates PROVE told.session_end_reason = "TERMINATE"
    <2>4. \/ w.state = "Established"
          \/ /\ w.state \notin StreamOver
             /\ NextStates[w.state][e] \in StreamOver
      <3>1. w.state \in States BY DEF WsType
      <3>2. \A s \in States \ {"Disconnected", "Disconnecting"} :
              NextStates[s].TERMINATE \in {"Disconnected", "Disconnecting"}
        BY DEF NextStates, States
      <3> QED BY <1>3, <3>1, <3>2 DEF StreamOver
    <2>1. set BY <2>4, ReasonsSet
    <2>2. why[w.state][e].session = "TERMINATE" BY <1>3, ReasonsSet
    <2>3. why[w.state][e] \in Reasons BY <2>1, ReasonsType
    <2> QED BY <2>1, <2>2, <2>3, SetReasonsEffect
  <1>8. w.state = "Disconnecting" => told = w
    BY DEF ExitReasons
  <1>4. Exit(w, e) = IF w.state \in TimedStates THEN RemoveTimer(ended) ELSE ended
    BY DEF Exit
  <1> HIDE DEF told, over, set
  <1>5. /\ ended \in WsType
        /\ Kept(ended, w)
        /\ ended.streamEnds = IF Ends(w, e) THEN w.streamEnds + 1 ELSE w.streamEnds
        /\ ended.audio_pipe = IF Ends(w, e) THEN FALSE ELSE w.audio_pipe
        /\ ended.timer_id = w.timer_id /\ ended.armed = w.armed
        /\ ended.session_end_reason = told.session_end_reason
    <2>1. CASE over
      BY <2>1, <1>1, <1>2, SpeechStreamEndType, SpeechStreamEndEffect DEF Kept
    <2>2. CASE ~over BY <2>2, <1>1, <1>2
    <2> QED BY <2>1, <2>2
  <1> HIDE DEF ended
  <1>6. CASE w.state \in TimedStates
    <2> DEFINE x == RemoveTimer(ended)
    <2>1. /\ Kept(x, ended)
          /\ x.streamEnds = ended.streamEnds /\ x.audio_pipe = ended.audio_pipe
          /\ ~x.timer_id
          /\ x.armed = ended.armed - (IF ended.timer_id THEN 1 ELSE 0)
          /\ x.session_end_reason = ended.session_end_reason
      BY <1>5, RemoveTimerEffect
    <2>2. x.armed = w.armed - (IF w.timer_id THEN 1 ELSE 0) BY <2>1, <1>5
    <2>3. Exit(w, e) = x BY <1>4, <1>6
    <2>4. Kept(x, w) BY <2>1, <1>5 DEF Kept
    <2> HIDE DEF x
    <2> QED BY <1>3, <1>5, <1>6, <1>8, <2>1, <2>2, <2>3, <2>4
  <1>7. CASE w.state \notin TimedStates
    BY <1>3, <1>4, <1>5, <1>7, <1>8 DEF Kept
  <1> QED BY <1>6, <1>7

\* ... and whether the session's reasons are set.
LEMMA ExitFresh ==
    ASSUME NEW w \in WsType, NEW e \in Events,
           e \in DOMAIN NextStates[w.state], NextStates[w.state][e] # w.state
    PROVE  /\ (/\ w.state # "Disconnecting"
               /\ NextStates[w.state][e] \in {"Disconnected", "Disconnecting"})
                 => Exit(w, e).fresh
           /\ w.state = "Disconnecting" => Exit(w, e).fresh = w.fresh
  <1> DEFINE why == ExitReasons(w)
             set == w.state \in DOMAIN why /\ e \in DOMAIN why[w.state]
             told == IF set THEN SetReasons(w, why[w.state][e]) ELSE w
             ended == IF set /\ w.state # "Established"
                      THEN SpeechStreamEnd(told) ELSE told
  <1>1. told.fresh = (IF set THEN TRUE ELSE w.fresh) /\ told \in WsType
    <2>1. \A why1 : SetReasons(w, why1).fresh = TRUE BY DEF SetReasons, WsType
    <2>2. told.fresh = IF set THEN TRUE ELSE w.fresh BY <2>1
    <2>3. told \in WsType BY ReasonsType, SetReasonsType
    <2> QED BY <2>2, <2>3
  <1>2. (/\ w.state # "Disconnecting"
         /\ NextStates[w.state][e] \in {"Disconnected", "Disconnecting"}) => set
    <2>1. w.state = "Disconnected" =>
            NextStates[w.state][e] \in {"Disconnected", "Buffering", "Connecting"}
      BY DEF NextStates
    <2> QED BY <2>1, ReasonsSet DEF StreamOver
  <1>3. w.state = "Disconnecting" => ~set BY DEF ExitReasons
  <1>4. Exit(w, e) = IF w.state \in TimedStates THEN RemoveTimer(ended) ELSE ended
    BY DEF Exit
  <1> HIDE DEF told, set
  <1>5. ended.fresh = told.fresh /\ ended \in WsType
    <2>1. SpeechStreamEnd(told).fresh = told.fresh
      BY <1>1 DEF SpeechStreamEnd, WsType
    <2> QED BY <1>1, <2>1, SpeechStreamEndType
  <1> HIDE DEF ended
  <1>6. RemoveTimer(ended).fresh = ended.fresh BY <1>5 DEF RemoveTimer, WsType
  <1> QED BY <1>1, <1>2, <1>3, <1>4, <1>5, <1>6

LEMMA ResetType ==
    ASSUME NEW w \in WsType
    PROVE  Reset(w) \in WsType
  <1>1. \A q \in Seq(1 .. MaxSessions), r \in 0 .. RetryWidth - 1 :
          [w EXCEPT !.write_pending_retries = r, !.msg_out = q] \in WsType
    BY DEF WsType
  <1>2. << >> \in Seq(1 .. MaxSessions) OBVIOUS
  <1>3. 0 \in 0 .. RetryWidth - 1 BY ConstantsAssumption
  <1> DEFINE v == [w EXCEPT !.write_pending_retries = 0, !.msg_out = << >>]
  <1>4. v \in WsType BY <1>1, <1>2, <1>3
  <1>5. Reset(w) = [v EXCEPT !.socket = FALSE, !.timer_id = FALSE,
                             !.audio_pipe = FALSE, !.write_pending = FALSE,
                             !.on_close = FALSE, !.is_session_by_text = FALSE]
    BY DEF Reset, WsType
  <1>6. ASSUME NEW u \in WsType, NEW b \in BOOLEAN
        PROVE  [u EXCEPT !.socket = b, !.timer_id = b, !.audio_pipe = b] \in WsType
    BY DEF WsType
  <1>7. ASSUME NEW u \in WsType, NEW b \in BOOLEAN
        PROVE  [u EXCEPT !.write_pending = b, !.on_close = b,
                         !.is_session_by_text = b] \in WsType
    BY DEF WsType
  <1> DEFINE u == [v EXCEPT !.socket = FALSE, !.timer_id = FALSE,
                            !.audio_pipe = FALSE]
  <1>8. u \in WsType BY <1>4, <1>6
  <1>9. Reset(w) = [u EXCEPT !.write_pending = FALSE, !.on_close = FALSE,
                             !.is_session_by_text = FALSE]
    BY <1>5
  <1> HIDE DEF u
  <1> QED BY <1>7, <1>8, <1>9

LEMMA DisconnectType ==
    ASSUME NEW w \in WsType
    PROVE  Disconnect(w) \in WsType
  <1>1. \A n \in Nat, s \in States :
          [w EXCEPT !.state = s, !.sessionEnds = n] \in WsType
    BY DEF WsType
  <1>2. w.sessionEnds + 1 \in Nat BY DEF WsType
  <1>3. "Disconnected" \in States BY DEF States
  <1> QED BY <1>1, <1>2, <1>3, ResetType DEF Disconnect

LEMMA OnCloseType ==
    ASSUME NEW w \in WsType, NEW normally \in BOOLEAN
    PROVE  OnClose(w, normally) \in WsType
  BY DEF OnClose, WsType

LEMMA EnterType ==
    ASSUME NEW w \in WsType, NEW s \in States, NEW rest \in Seq(Events),
           Enter(w, s, rest)
    PROVE  ws' \in WsType /\ evq' \in Seq(Events)
  <1>1. CASE s = "Disconnected" /\ EnterDisconnected(w, rest)
    BY <1>1, DisconnectType DEF EnterDisconnected
  <1>2. CASE s = "Disconnecting" /\ EnterDisconnecting(w, rest)
    <2>1. \A t \in States :
            [w EXCEPT !.state = t, !.obj_conn = FALSE, !.conn_open = FALSE] \in WsType
      BY DEF WsType
    <2>2. "Disconnecting" \in States /\ "DISCONNECTED" \in Events
      BY DEF States, Events
    <2>3. CloseConn(w) \in WsType BY <2>1, <2>2 DEF CloseConn
    <2>4. Append(rest, "DISCONNECTED") \in Seq(Events) BY <2>2
    <2> QED BY <1>2, <2>3, <2>4 DEF EnterDisconnecting
  <1>3. CASE s \in {"Buffering", "TextOnlySession"} /\ EnterQuiet(w, s, rest)
    BY <1>3 DEF EnterQuiet, WsType
  <1>4. CASE s = "Connecting" /\ EnterConnecting(w, rest)
    <2>1. /\ [w EXCEPT !.state = "Connecting", !.obj_conn = TRUE,
                       !.conn_open = TRUE] \in WsType
          /\ [w EXCEPT !.state = "Connecting", !.obj_conn = FALSE] \in WsType
      BY DEF WsType, States
    <2>2. GiveUpOrRetry \in Events BY DEF GiveUpOrRetry, Events
    <2> QED BY <1>4, <2>1, <2>2, TimerType DEF EnterConnecting
  <1>5. CASE s = "Connected" /\ EnterConnected(w, rest)
    <2>1. \A t \in States, n \in Int :
            [w EXCEPT !.state = t, !.connect_wait_time = n] \in WsType
      BY DEF WsType
    <2>2. "Connected" \in States /\ TimeoutConnect \in Int
      BY ConstantsAssumption DEF States
    <2> QED BY <1>5, <2>1, <2>2, TimerType DEF EnterConnected
  <1>6. CASE s \in {"Established", "Connection_Retry"} /\ EnterTimed(w, s, rest)
    <2>1. [w EXCEPT !.state = s] \in WsType BY DEF WsType
    <2> QED BY <1>6, <2>1, TimerType DEF EnterTimed
  <1>7. CASE s = "Streaming" /\ EnterStreaming(w, rest)
    <2>1. \A t \in States : [w EXCEPT !.state = t, !.begun = TRUE] \in WsType
      BY DEF WsType
    <2>2. "Streaming" \in States /\ "TEXT_SESSION_SUCCESS" \in Events
      BY DEF States, Events
    <2>3. [w EXCEPT !.state = "Streaming", !.begun = TRUE] \in WsType
      BY <2>1, <2>2
    <2>4. Append(rest, "TEXT_SESSION_SUCCESS") \in Seq(Events) BY <2>2
    <2> QED BY <1>7, <2>3, <2>4 DEF EnterStreaming
  <1> QED BY <1>1, <1>2, <1>3, <1>4, <1>5, <1>6, <1>7 DEF Enter

LEMMA WaitOrGiveUpType ==
    ASSUME NEW w \in WsType, NEW e \in Events, NEW rest \in Seq(Events),
           WaitOrGiveUp(w, e, rest)
    PROVE  ws' \in WsType /\ evq' \in Seq(Events)
  <1>1. \A n \in Int : [w EXCEPT !.connect_wait_time = n] \in WsType
    BY DEF WsType
  <1>2. w.connect_wait_time - CheckInterval \in Int
    BY ConstantsAssumption DEF WsType
  <1> QED BY <1>1, <1>2 DEF WaitOrGiveUp

LEMMA StepType ==
    ASSUME TypeOK, Step
    PROVE  TypeOK'
  <1> DEFINE e == Head(evq)
             rest == Tail(evq)
             next == NextStates[ws.state]
  <1>1. e \in Events /\ rest \in Seq(Events)
    BY DEF Step, TypeOK
  <1>2. SUFFICES ws' \in WsType /\ evq' \in Seq(Events)
    BY DEF Step, TypeOK
  <1> HIDE DEF e, rest
  <1>3. CASE e \notin DOMAIN next /\ ws' = ws /\ evq' = rest
    BY <1>1, <1>3 DEF TypeOK
  <1>4. CASE e \in DOMAIN next /\ next[e] = ws.state /\ Internal(e, rest)
    <2>1. CASE PollConnecting(rest)
      <3>1. GiveUpOrRetry \in Events BY DEF GiveUpOrRetry, Events
      <3>2. "CONNECTED" \in Events BY DEF Events
      <3> QED BY <1>1, <2>1, <3>1, <3>2, WaitOrGiveUpType
              DEF PollConnecting, TypeOK
    <2>2. CASE PollConnected(rest)
      <3>1. "ESTABLISHED" \in Events /\ "ESTABLISH_TIMEOUT" \in Events
            /\ "WS_CLOSE" \in Events
        BY DEF Events
      <3>2. [ws EXCEPT !.socket = TRUE] \in WsType BY DEF TypeOK, WsType
      <3>3. \A normally \in BOOLEAN :
              Disconnect(Exit(OnClose(ws, normally), "WS_CLOSE")) \in WsType
        BY <3>1, OnCloseType, ExitType, DisconnectType DEF TypeOK
      <3>4. CASE ws' = [ws EXCEPT !.socket = TRUE]
                 /\ evq' = Append(rest, "ESTABLISHED")
        BY <1>1, <3>1, <3>2, <3>4
      <3>5. CASE WaitOrGiveUp(ws, "ESTABLISH_TIMEOUT", rest)
        BY <1>1, <3>1, <3>5, WaitOrGiveUpType DEF TypeOK
      <3>6. ASSUME NEW normally \in BOOLEAN,
                   WaitOrGiveUp(Disconnect(Exit(OnClose(ws, normally), "WS_CLOSE")),
                                "ESTABLISH_TIMEOUT", rest)
            PROVE  ws' \in WsType /\ evq' \in Seq(Events)
        BY <1>1, <3>1, <3>3, <3>6, WaitOrGiveUpType
      <3> QED BY <2>2, <3>4, <3>5, <3>6 DEF PollConnected
    <2>3. CASE ws' = ws /\ evq' = rest BY <1>1, <2>3 DEF TypeOK
    <2> QED BY <1>4, <2>1, <2>2, <2>3 DEF Internal
  <1>5. CASE e \in DOMAIN next /\ next[e] # ws.state
             /\ Enter(Exit(ws, e), next[e], rest)
    <2>1. next[e] \in States BY <1>5, NextStatesType DEF TypeOK, WsType
    <2>2. Exit(ws, e) \in WsType BY <1>1, ExitType DEF TypeOK
    <2> QED BY <1>1, <1>5, <2>1, <2>2, EnterType
  <1> QED BY <1>3, <1>4, <1>5 DEF Step, e, rest

LEMMA RaiseType ==
    ASSUME evq \in Seq(Events), NEW e \in Events, NEW t \in Tasks, Raise(e, t)
    PROVE  evq' \in Seq(Events) /\ task' \in Tasks
  BY DEF Raise

LEMMA CountRetryType ==
    ASSUME TypeOK, CountRetry
    PROVE  TypeOK'
  <1>1. (ws.write_pending_retries + 1) % RetryWidth \in 0 .. RetryWidth - 1
    BY ConstantsAssumption DEF TypeOK, WsType
  <1>2. ASSUME NEW n \in 0 .. RetryWidth - 1
        PROVE  [ws EXCEPT !.write_pending_retries = n] \in WsType
    BY DEF TypeOK, WsType
  <1>3. ws' \in WsType BY <1>1, <1>2 DEF CountRetry
  <1>4. evq' \in Seq(Events) /\ task' \in Tasks
    BY RaiseType DEF CountRetry, TypeOK, Events, Tasks
  <1> QED BY <1>3, <1>4 DEF CountRetry, TypeOK

LEMMA CloseInType ==
    ASSUME TypeOK, NEW t \in Tasks, CloseIn(t)
    PROVE  TypeOK'
  BY OnCloseType, RaiseType DEF CloseIn, TypeOK, Events

LEMMA WriteType ==
    ASSUME TypeOK, NEW w \in WsType, WriteFails(w) \/ WriteGoes(w)
    PROVE  TypeOK'
  <1>1. CASE WriteFails(w)
    BY <1>1, OnCloseType, RaiseType DEF WriteFails, TypeOK, Events, Tasks
  <1>2. CASE WriteGoes(w)
    <2>1. ASSUME NEW b \in BOOLEAN
          PROVE  [w EXCEPT !.write_pending = b] \in WsType
      BY DEF WsType
    <2> QED BY <1>2, <2>1 DEF WriteGoes, TypeOK
  <1> QED BY <1>1, <1>2

LEMMA ReportType ==
    ASSUME TypeOK, NEW ev \in RecvEvents, ReportRecvEvent(ev)
    PROVE  ws' \in WsType /\ evq' \in Seq(Events)
  <1>1. /\ Why("AUDIO_EOF", "EOS") \in Reasons
        /\ Why("DISCONNECT_REMOTE", "ERROR_WS_SEND") \in Reasons
    BY DEF Why, Reasons, StreamReasons, SessionReasons
  <1>2. "EOS_PIPE" \in Events BY DEF Events
  <1> QED BY <1>1, <1>2, SetReasonsType DEF ReportRecvEvent, TypeOK

LEMMA ConnectType ==
    ASSUME TypeOK, Connect
    PROVE  TypeOK'
  <1>1. PICK text \in BOOLEAN, deferred \in BOOLEAN :
          /\ ws' = [ws EXCEPT !.connect_wait_time = TimeoutConnect,
                              !.on_close = FALSE, !.closed_normally = FALSE,
                              !.audio_pipe = TRUE, !.is_session_by_text = text,
                              !.session = ws.session + 1, !.begun = FALSE,
                              !.streamEnds = 0, !.sessionEnds = 0,
                              !.falseEnd = FALSE, !.fresh = FALSE]
          /\ Raise(IF deferred THEN "SESSION_BEGIN_STM" ELSE "SESSION_BEGIN",
                   "event")
    BY DEF Connect
  <1>2. ASSUME NEW n \in Int, NEW k \in 0 .. MaxSessions, NEW z \in Nat
        PROVE  [ws EXCEPT !.connect_wait_time = n, !.session = k,
                          !.streamEnds = z, !.sessionEnds = z] \in WsType
    BY DEF TypeOK, WsType
  <1>3. ASSUME NEW u \in WsType, NEW b \in BOOLEAN
        PROVE  [u EXCEPT !.on_close = b, !.closed_normally = b, !.begun = b]
                 \in WsType
    BY DEF WsType
  <1>4. ASSUME NEW u \in WsType, NEW b \in BOOLEAN, NEW c \in BOOLEAN
        PROVE  [u EXCEPT !.audio_pipe = b, !.is_session_by_text = c] \in WsType
    BY DEF WsType
  <1>5. ASSUME NEW u \in WsType, NEW b \in BOOLEAN
        PROVE  [u EXCEPT !.falseEnd = b, !.fresh = b] \in WsType
    BY DEF WsType
  <1> DEFINE u1 == [ws EXCEPT !.connect_wait_time = TimeoutConnect,
                              !.session = ws.session + 1,
                              !.streamEnds = 0, !.sessionEnds = 0]
             u2 == [u1 EXCEPT !.on_close = FALSE, !.closed_normally = FALSE,
                              !.begun = FALSE]
             u3 == [u2 EXCEPT !.audio_pipe = TRUE, !.is_session_by_text = text]
             u4 == [u3 EXCEPT !.falseEnd = FALSE, !.fresh = FALSE]
  <1>6. TimeoutConnect \in Int /\ ws.session + 1 \in 0 .. MaxSessions
    <2>1. ws.session \in 0 .. MaxSessions /\ ws.session < MaxSessions
      BY DEF Connect, TypeOK, WsType
    <2> QED BY <2>1, ConstantsAssumption
  <1>7. u1 \in WsType BY <1>2, <1>6
  <1>8. u2 \in WsType BY <1>3, <1>7
  <1>9. u3 \in WsType BY <1>4, <1>8
  <1>10. u4 \in WsType BY <1>5, <1>9
  <1>11. ws' = u4 BY <1>1
  <1>12. evq' \in Seq(Events) /\ task' \in Tasks
    BY <1>1, RaiseType DEF TypeOK, Events, Tasks
  <1> QED BY <1>10, <1>11, <1>12 DEF Connect, TypeOK

LEMMA WsInitType == WsInit \in WsType
  BY ConstantsAssumption
     DEF WsInit, WsType, States, StreamReasons, SessionReasons

\* A message leaves the queue of outgoing messages.
LEMMA SentType ==
    ASSUME TypeOK, SendMsgOut
    PROVE  [ws EXCEPT !.msg_out = Tail(@)] \in WsType
  <1> DEFINE q == ws.msg_out
             D == 1 .. MaxSessions
  <1>1. q \in Seq(D) /\ q # << >> BY DEF SendMsgOut, TypeOK, WsType
  <1> HIDE DEF q, D
  <1>2. Tail(q) \in Seq(D) BY <1>1
  <1>3. Tail(ws.msg_out) \in Seq(1 .. MaxSessions) BY <1>2 DEF q, D
  <1>4. ASSUME NEW m \in Seq(1 .. MaxSessions)
        PROVE  [ws EXCEPT !.msg_out = m] \in WsType
    BY DEF TypeOK, WsType
  <1> QED BY <1>3, <1>4

\* A handler starts.
LEMMA HandlersType ==
    ASSUME TypeOK, Handlers
    PROVE  TypeOK'
  <1>1. CASE Connect BY <1>1, ConnectType
  <1>2. CASE Terminate
    BY <1>2, RaiseType DEF Terminate, TypeOK, Events, Tasks
  <1>3. CASE Term BY <1>3, RaiseType DEF Term, TypeOK, Events, Tasks
  <1>4. CASE Reinit
    <2>1. ASSUME NEW n \in Int, NEW k \in 0 .. MaxSessions, NEW a \in Nat,
                 NEW b \in Nat
          PROVE  [WsInit EXCEPT !.armed = n, !.session = k, !.streamEnds = a,
                                !.sessionEnds = b] \in WsType
      BY WsInitType DEF WsType
    <2>2. << >> \in Seq(Events) OBVIOUS
    <2>3. /\ ws.armed \in Int /\ ws.session \in 0 .. MaxSessions
          /\ ws.streamEnds \in Nat /\ ws.sessionEnds \in Nat
      BY DEF TypeOK, WsType
    <2> QED BY <1>4, <2>1, <2>2, <2>3 DEF Reinit, TypeOK
  <1>5. CASE SpeechEvent
    BY <1>5, RaiseType DEF SpeechEvent, RaiseOnly, TypeOK, Events, Tasks
  <1>6. CASE TimerFire
    BY <1>6, RaiseType DEF TimerFire, RaiseOnly, TypeOK, Events, Tasks
  <1>7. CASE ReadSocket
    BY <1>7, RaiseType, CloseInType DEF ReadSocket, TypeOK, Events, Tasks
  <1>8. CASE WritePending
    <2>1. ASSUME NEW n \in 0 .. RetryWidth - 1, NEW b \in BOOLEAN
          PROVE  [ws EXCEPT !.write_pending = b, !.write_pending_retries = n]
                   \in WsType
      BY DEF TypeOK, WsType
    <2>2. 0 \in 0 .. RetryWidth - 1 BY ConstantsAssumption
    <2>3. "write_pending" \in Tasks BY DEF Tasks
    <2> QED BY <1>8, <2>1, <2>2, <2>3, CountRetryType, CloseInType
            DEF WritePending, TypeOK
  <1>9. CASE SendMsgOut BY <1>9, SentType, WriteType DEF SendMsgOut
  <1>10. CASE ReadPipe
    <2>1. CASE RaiseOnly("EOS_PIPE") \/ RaiseOnly("AUDIO_ERROR")
      BY <2>1, RaiseType DEF RaiseOnly, TypeOK, Events, Tasks
    <2>2. CASE WriteFails(ws) \/ WriteGoes(ws)
      BY <2>2, WriteType DEF TypeOK
    <2> QED BY <1>10, <2>1, <2>2 DEF ReadPipe
  <1> QED BY <1>1, <1>2, <1>3, <1>4, <1>5, <1>6, <1>7, <1>8, <1>9, <1>10
          DEF Handlers

LEMMA ContinueType ==
    ASSUME TypeOK, Continue
    PROVE  TypeOK'
  <1>1. CASE Step BY <1>1, StepType
  <1>2. CASE CountPendingRetry BY <1>2, CountRetryType DEF CountPendingRetry
  <1>3. CASE ReportWriteError
    BY <1>3, RaiseType DEF ReportWriteError, RaiseOnly, TypeOK, Events, Tasks
  <1>4. CASE RecvMsg
    BY <1>4, RaiseType, ReportType DEF RecvMsg, TypeOK, Events, Tasks
  <1>5. CASE OnMsgDone
    BY <1>5, ReportType DEF OnMsgDone, TypeOK, Tasks, RecvEvents
  <1>6. CASE Return
    <2>1. ASSUME NEW b \in BOOLEAN PROVE [ws EXCEPT !.ctx = b] \in WsType
      BY DEF TypeOK, WsType
    <2> QED BY <1>6, <2>1 DEF Return, TypeOK, Tasks
  <1> QED BY <1>1, <1>2, <1>3, <1>4, <1>5, <1>6 DEF Continue

LEMMA SendPutType ==
    ASSUME TypeOK, SendPut
    PROVE  TypeOK'
  <1>1. ASSUME NEW q \in Seq(1 .. MaxSessions)
        PROVE  [ws EXCEPT !.msg_out = q] \in WsType
    BY DEF TypeOK, WsType
  <1>2. Append(ws.msg_out, sender) \in Seq(1 .. MaxSessions)
    BY DEF SendPut, TypeOK, WsType
  <1>3. ws' \in WsType BY <1>1, <1>2 DEF SendPut, TypeOK
  <1> QED BY <1>3, ConstantsAssumption DEF SendPut, TypeOK

\* Every reachable state of the connection is well typed.
THEOREM TypeCorrect == Spec => []TypeOK
  <1>1. Init => TypeOK
    <2>1. << >> \in Seq(Events) /\ 0 \in 0 .. MaxSessions
      BY ConstantsAssumption
    <2> QED BY WsInitType, <2>1 DEF Init, TypeOK, Tasks, RecvEvents
  <1>2. TypeOK /\ [Next]_vars => TypeOK'
    <2> SUFFICES ASSUME TypeOK, [Next]_vars PROVE TypeOK' OBVIOUS
    <2>1. CASE Handlers BY <2>1, HandlersType
    <2>2. CASE Continue BY <2>2, ContinueType
    <2>3. CASE Expire BY <2>3 DEF Expire, TypeOK
    <2>4. CASE SendCheck BY <2>4 DEF SendCheck, TypeOK, WsType
    <2>5. CASE SendPut BY <2>5, SendPutType
    <2>6. CASE UNCHANGED vars BY <2>6 DEF vars, TypeOK
    <2> QED BY <2>1, <2>2, <2>3, <2>4, <2>5, <2>6 DEF Next
  <1> QED BY <1>1, <1>2, PTL DEF Spec

-----------------------------------------------------------------------------
(* The inductive invariant.                                                *)

\* Short sequences; their equality is that of their elements.
LEMMA QueueFacts ==
    /\ \A x : /\ Head(<<x>>) = x /\ Tail(<<x>>) = << >>
              /\ Append(<< >>, x) = <<x>> /\ <<x>> # << >>
    /\ \A x, y : /\ Head(<<x, y>>) = x /\ Tail(<<x, y>>) = <<y>>
                 /\ <<x, y>> # << >>
    /\ \A x, y : <<x>> = <<y>> <=> x = y
    /\ \A x, y, z : <<x, y>> # <<z>>
    /\ \A x, y, u, v : <<x, y>> = <<u, v>> <=> x = u /\ y = v
  OBVIOUS

LEMMA AppendTwo ==
    ASSUME NEW x \in Events, NEW y \in Events
    PROVE  Append(<<x>>, y) = <<x, y>>
  <1>1. <<x>> \in Seq(Events) OBVIOUS
  <1>2. /\ Append(<<x>>, y) \in Seq(Events)
        /\ Len(Append(<<x>>, y)) = 2
        /\ Append(<<x>>, y)[1] = x /\ Append(<<x>>, y)[2] = y
    BY <1>1
  <1>3. /\ <<x, y>> \in Seq(Events) /\ Len(<<x, y>>) = 2
        /\ <<x, y>>[1] = x /\ <<x, y>>[2] = y
    OBVIOUS
  <1>4. \A i \in 1 .. 2 : Append(<<x>>, y)[i] = <<x, y>>[i] BY <1>2, <1>3
  <1> QED BY <1>2, <1>3, <1>4, SeqEqual

\* One event waits, or an EOS_PIPE and one event; is it a begin event?
One(x) == evq = <<x>> /\ (Beginning <=> x \in BeginEvents)
Two(x) == evq = <<"EOS_PIPE", x>> /\ (Beginning <=> x \in BeginEvents)

\* The queue's head, what is behind it, and whether a begin event is there.
LEMMA QueueCases ==
    ASSUME QueueShape
    PROVE  \/ evq = << >> /\ ~Beginning
           \/ \E x \in Events : One(x)
           \/ \E x \in Events : Two(x)
  <1>1. CASE evq = << >> BY <1>1 DEF Beginning
  <1>2. ASSUME NEW x \in Events, evq = <<x>>
        PROVE  One(x)
    BY <1>2 DEF Beginning, One
  <1>3. ASSUME NEW x \in Events, evq = <<"EOS_PIPE", x>>
        PROVE  Two(x)
    <2>1. DOMAIN evq = {1, 2} BY <1>3
    <2>2. evq[1] = "EOS_PIPE" /\ evq[2] = x BY <1>3
    <2> QED BY <1>3, <2>1, <2>2 DEF Beginning, BeginEvents, Two
  <1> QED BY <1>1, <1>2, <1>3 DEF QueueShape

LEMMA QueueCasesPrimed ==
    ASSUME NEW x
    PROVE  /\ evq' = << >> => ~Beginning'
           /\ evq' = <<x>> => (Beginning' <=> x \in BeginEvents)
           /\ evq' = <<"EOS_PIPE", x>> => (Beginning' <=> x \in BeginEvents)
  <1>1. ASSUME evq' = << >> PROVE ~Beginning'
    BY <1>1 DEF Beginning
  <1>2. ASSUME evq' = <<x>> PROVE Beginning' <=> x \in BeginEvents
    BY <1>2 DEF Beginning
  <1>3. ASSUME evq' = <<"EOS_PIPE", x>> PROVE Beginning' <=> x \in BeginEvents
    <2>1. DOMAIN evq' = {1, 2} BY <1>3
    <2>2. evq'[1] = "EOS_PIPE" /\ evq'[2] = x BY <1>3
    <2> QED BY <2>1, <2>2 DEF Beginning, BeginEvents
  <1> QED BY <1>1, <1>2, <1>3

\* What entering a state does to the fields the invariant is about.
LEMMA EnterEffect ==
    ASSUME NEW w \in WsType, NEW s \in States, NEW rest, Enter(w, s, rest)
    PROVE  /\ ws'.state = s /\ ws'.ctx = w.ctx
           /\ ws'.streamEnds = w.streamEnds
           /\ ws'.session_end_reason = w.session_end_reason
           /\ ws'.fresh = w.fresh
           /\ s = "Disconnected" =>
                /\ ws'.sessionEnds = w.sessionEnds + 1 /\ ws'.audio_pipe = FALSE
                /\ ws'.timer_id = FALSE /\ ws'.armed = w.armed /\ evq' = rest
           /\ s # "Disconnected" =>
                /\ ws'.sessionEnds = w.sessionEnds
                /\ ws'.audio_pipe = w.audio_pipe /\ ws'.socket = w.socket
           /\ s \in TimedStates =>
                \/ /\ ws'.timer_id = TRUE /\ ws'.armed = w.armed + 1
                   /\ ws'.obj_conn = (IF s = "Connecting" THEN TRUE ELSE w.obj_conn)
                   /\ evq' = rest
                \/ /\ s = "Connecting"
                   /\ ws'.timer_id = w.timer_id /\ ws'.armed = w.armed
                   /\ evq' \in {Append(rest, "RETRY"),
                                Append(rest, "CONNECT_TIMEOUT")}
           /\ s \in {"Disconnecting", "Buffering", "Streaming", "TextOnlySession"} =>
                /\ ws'.timer_id = w.timer_id /\ ws'.armed = w.armed
           /\ s \in {"Streaming", "TextOnlySession"} => ws'.obj_conn = w.obj_conn
           /\ s = "Disconnecting" => evq' = Append(rest, "DISCONNECTED")
           /\ s = "Streaming" =>
                evq' \in {rest, Append(rest, "TEXT_SESSION_SUCCESS")}
           /\ s \in {"Buffering", "TextOnlySession"} => evq' = rest
  <1>1. CASE s = "Disconnected" /\ EnterDisconnected(w, rest)
    BY <1>1 DEF EnterDisconnected, Disconnect, Reset, WsType, TimedStates
  <1>2. CASE s = "Disconnecting" /\ EnterDisconnecting(w, rest)
    BY <1>2 DEF EnterDisconnecting, CloseConn, WsType, TimedStates
  <1>3. CASE s \in {"Buffering", "TextOnlySession"} /\ EnterQuiet(w, s, rest)
    BY <1>3 DEF EnterQuiet, WsType, TimedStates
  <1>4. CASE s = "Connecting" /\ EnterConnecting(w, rest)
    BY <1>4 DEF EnterConnecting, ArmTimer, GiveUpOrRetry, WsType, TimedStates
  <1>5. CASE s = "Connected" /\ EnterConnected(w, rest)
    BY <1>5 DEF EnterConnected, ArmTimer, WsType, TimedStates
  <1>6. CASE s \in {"Established", "Connection_Retry"} /\ EnterTimed(w, s, rest)
    BY <1>6 DEF EnterTimed, ArmTimer, WsType, TimedStates
  <1>7. CASE s = "Streaming" /\ EnterStreaming(w, rest)
    BY <1>7 DEF EnterStreaming, WsType, TimedStates
  <1> QED BY <1>1, <1>2, <1>3, <1>4, <1>5, <1>6, <1>7 DEF Enter

\* The invariant without the types.
Rest == /\ QueueShape /\ EndedOnce /\ BeginsIdle /\ Leaving /\ Ending
        /\ Terminated /\ TimerHeld /\ ConnHeld /\ Usable

\* What one event off the queue can leave there.
LEMMA ShapeAfterStep ==
    ASSUME task' # "idle", evq' = << >> \/ \E x \in Events : evq' = <<x>>
    PROVE  QueueShape'
  BY Zenon DEF QueueShape

LEMMA HeadCases ==
    ASSUME QueueShape, evq # << >>
    PROVE  \/ \E x \in Events : One(x) /\ Head(evq) = x /\ Tail(evq) = << >>
           \/ \E x \in Events : /\ Two(x) /\ Tail(evq) = <<x>>
                               /\ Head(evq) = "EOS_PIPE"
  <1>1. ASSUME NEW x \in Events, One(x)
        PROVE  Head(evq) = x /\ Tail(evq) = << >>
    BY <1>1 DEF One
  <1>2. ASSUME NEW x \in Events, Two(x)
        PROVE  Head(evq) = "EOS_PIPE" /\ Tail(evq) = <<x>>
    BY <1>2 DEF Two
  <1> QED BY <1>1, <1>2, QueueCases

\* The tables' entries that the invariant rests on.
LEMMA Tables ==
    /\ \A s \in States : "TERMINATE" \in DOMAIN NextStates[s]
    /\ \A s \in States : s # "Disconnected" =>
          NextStates[s].TERMINATE \in {"Disconnected", "Disconnecting"}
    /\ \A s \in States : "EOS_PIPE" \in DOMAIN NextStates[s] =>
          NextStates[s].EOS_PIPE = "Established"
    /\ DOMAIN NextStates.Disconnecting = {"TERMINATE", "DISCONNECTED"}
    /\ DOMAIN NextStates.Disconnected =
          {"TERMINATE", "SESSION_BEGIN", "SESSION_BEGIN_STM"}
    /\ "RETRY" \in DOMAIN NextStates.Connecting
    /\ "CONNECT_TIMEOUT" \in DOMAIN NextStates.Connecting
    /\ "ESTABLISHED" \in DOMAIN NextStates.Connected
  <1>1. \A s \in States : "TERMINATE" \in DOMAIN NextStates[s]
    BY DEF NextStates, States
  <1>2. \A s \in States : s # "Disconnected" =>
          NextStates[s].TERMINATE \in {"Disconnected", "Disconnecting"}
    BY DEF NextStates, States
  <1>3. \A s \in States : "EOS_PIPE" \in DOMAIN NextStates[s] =>
          NextStates[s].EOS_PIPE = "Established"
    BY DEF NextStates, States
  <1>4. /\ DOMAIN NextStates.Disconnecting = {"TERMINATE", "DISCONNECTED"}
        /\ DOMAIN NextStates.Disconnected =
              {"TERMINATE", "SESSION_BEGIN", "SESSION_BEGIN_STM"}
    BY DEF NextStates
  <1>5. /\ "RETRY" \in DOMAIN NextStates.Connecting
        /\ "CONNECT_TIMEOUT" \in DOMAIN NextStates.Connecting
        /\ "ESTABLISHED" \in DOMAIN NextStates.Connected
    BY DEF NextStates
  <1> QED BY <1>1, <1>2, <1>3, <1>4, <1>5

\* The router's view of the session does not change.
Steady ==
    /\ ws'.state = ws.state
    /\ ws'.streamEnds = ws.streamEnds /\ ws'.sessionEnds = ws.sessionEnds
    /\ Beginning' <=> Beginning
    /\ ws.state = "Disconnecting" => ws'.fresh = ws.fresh

\* An event that leaves the connection as it is: the state does not list it,
\* or its self-transition has nothing to do.
Stay == /\ TypeOK /\ Rest /\ task # "idle" /\ evq # << >>
        /\ \/ Head(evq) \notin DOMAIN NextStates[ws.state]
           \/ /\ NextStates[ws.state][Head(evq)] = ws.state
              /\ ws.state \notin {"Connecting", "Connected"}
        /\ ws' = ws /\ evq' = Tail(evq) /\ task' = task

LEMMA StayInv == Stay => Rest' /\ Steady
  <1>1. ASSUME Stay PROVE ws.state \in States /\ QueueShape /\ task' # "idle"
    BY <1>1 DEF Stay, TypeOK, WsType, Rest
  <1>2. ASSUME Stay, NEW x \in Events, One(x), Head(evq) = x, Tail(evq) = << >>
        PROVE  Rest' /\ Steady
    <2>1. evq' = << >> /\ ~Beginning'
      BY <1>2, QueueCasesPrimed DEF Stay
    <2>2. \/ x \notin DOMAIN NextStates[ws.state]
          \/ /\ NextStates[ws.state][x] = ws.state
             /\ ws.state \notin {"Connecting", "Connected"}
      BY <1>2 DEF Stay
    <2>3. x = "TERMINATE" => ws.state = "Disconnected"
      <3>1. x = "TERMINATE" => NextStates[ws.state].TERMINATE = ws.state
        BY <1>1, <1>2, <2>2, Tables
      <3>2. ws.state = "Disconnecting" =>
              NextStates[ws.state].TERMINATE # ws.state
        BY DEF NextStates
      <3> QED BY <1>1, <1>2, <3>1, <3>2, Tables
    <2>4. ws.state # "Disconnecting"
      <3>1. ws.state = "Disconnecting" => x = "DISCONNECTED"
        BY <1>2, QueueFacts DEF Stay, Rest, Leaving, One
      <3> QED BY <2>2, <3>1 DEF NextStates
    <2>5. ws.state = "Disconnected" => ~Beginning
      <3>1. ws.state = "Disconnected" => x \notin BeginEvents
        BY <2>2 DEF BeginEvents, NextStates
      <3> QED BY <1>2, <3>1 DEF One
    <2>6. QueueShape' BY <1>1, <1>2, <2>1, ShapeAfterStep
    <2>7. Ending'
      <3>2. task \in {"terminate", "term"} =>
              x = "TERMINATE" /\ (task = "terminate" => ws.state # "Disconnected")
        BY <1>2, <2>4, QueueFacts DEF Stay, Rest, Ending, One
      <3> QED BY <1>2, <2>1, <2>3, <3>2 DEF Stay, Ending
    <2>8. TimerHeld'
      <3>1. ~(ws.state = "Connecting" /\ evq \in {<<"RETRY">>, <<"CONNECT_TIMEOUT">>})
        BY <1>2, <2>2, Tables, QueueFacts DEF One
      <3> QED BY <1>2, <3>1 DEF Stay, Rest, TimerHeld
    <2>9. ConnHeld'
      <3>1. evq' # <<"ESTABLISHED">> /\ evq' # <<"EOS_PIPE", "ESTABLISHED">>
        BY <2>1, QueueFacts
      <3> QED BY <1>2, <3>1 DEF Stay, Rest, ConnHeld
    <2>10. Usable'
      BY <1>2, <2>5 DEF Stay, Rest, Usable
    <2>11. EndedOnce' /\ Terminated'
      BY <1>2 DEF Stay, Rest, EndedOnce, Terminated
    <2>12. BeginsIdle' /\ Leaving'
      BY <1>2, <2>1, <2>4 DEF Stay, BeginsIdle, Leaving
    <2>13. Steady
      <3>1. ~Beginning BY <1>2, <2>5 DEF Stay, Rest, BeginsIdle
      <3> QED BY <1>2, <2>1, <3>1 DEF Stay, Steady
    <2> QED BY <2>6, <2>7, <2>8, <2>9, <2>10, <2>11, <2>12, <2>13 DEF Rest
  <1>3. ASSUME Stay, NEW x \in Events, Two(x), Tail(evq) = <<x>>
        PROVE  Rest' /\ Steady
    <2>1. evq' = <<x>> /\ (Beginning' <=> x \in BeginEvents)
      BY <1>3, QueueCasesPrimed DEF Stay
    <2>2. Beginning' <=> Beginning BY <1>3, <2>1 DEF Two
    <2>3. QueueShape' BY <1>1, <1>3, <2>1, ShapeAfterStep
    <2>4. ws.state # "Disconnecting"
      BY <1>3, QueueFacts DEF Stay, Rest, Leaving, Two
    <2>5. Ending'
      <3>1. task \in {"terminate", "term"} =>
              /\ x = "TERMINATE"
              /\ task = "terminate" => ws.state # "Disconnected"
        BY <1>3, <2>4, QueueFacts DEF Stay, Rest, Ending, Two
      <3> QED BY <1>3, <2>1, <3>1 DEF Stay, Ending
    <2>6. TimerHeld'
      <3>1. evq \notin {<<"RETRY">>, <<"CONNECT_TIMEOUT">>}
        BY <1>3, QueueFacts DEF Two
      <3> QED BY <1>3, <3>1 DEF Stay, Rest, TimerHeld
    <2>7. ConnHeld'
      <3>1. evq' # <<"ESTABLISHED">>
        BY <1>3, <2>1, QueueFacts DEF Stay, Rest, ConnHeld, Two
      <3>2. evq' # <<"EOS_PIPE", "ESTABLISHED">> BY <2>1, QueueFacts
      <3> QED BY <1>3, <3>1, <3>2 DEF Stay, Rest, ConnHeld
    <2>8. Usable'
      BY <1>3, <2>2 DEF Stay, Rest, Usable
    <2>9. EndedOnce' /\ Terminated'
      BY <1>3 DEF Stay, Rest, EndedOnce, Terminated
    <2>10. BeginsIdle' /\ Leaving'
      BY <1>3, <2>2, <2>4 DEF Stay, Rest, BeginsIdle, Leaving
    <2>11. Steady BY <1>3, <2>2 DEF Stay, Steady
    <2> QED BY <2>3, <2>5, <2>6, <2>7, <2>8, <2>9, <2>10, <2>11 DEF Rest
  <1> QED BY <1>1, <1>2, <1>3, HeadCases DEF Stay

\* Where each state is entered from, and by which event.
Edge(s, e, n) ==
    /\ n = "Disconnecting" =>
          s \in {"Connected", "Established", "Streaming", "TextOnlySession"}
    /\ n = "Buffering" => s = "Disconnected"
    /\ n = "Connecting" =>
          s \in {"Disconnected", "Buffering", "Connection_Retry"}
    /\ n = "Connected" => s = "Connecting" /\ e = "CONNECTED"
    /\ n = "Connection_Retry" => s = "Connecting"
    /\ n = "Streaming" => s = "Connected" /\ e = "ESTABLISHED"
    /\ n = "TextOnlySession" => s = "Streaming"
    /\ n = "Established" => s \in {"Streaming", "TextOnlySession"}
    /\ s = "Disconnected" => n \in {"Buffering", "Connecting"}
    /\ s = "Disconnected" => e \in BeginEvents
    /\ s = "Disconnecting" => n = "Disconnected"
    /\ s = "Established" => n \in {"Disconnected", "Disconnecting"}
    /\ e = "TERMINATE" => n \in {"Disconnected", "Disconnecting"}

LEMMA LeaveTables ==
    ASSUME NEW s \in States, NEW e \in DOMAIN NextStates[s],
           NEW n \in States, NextStates[s][e] = n, n # s
    PROVE  Edge(s, e, n)
  <1> USE DEF NextStates, BeginEvents, Edge
  <1>1. CASE s = "Disconnected" BY <1>1
  <1>2. CASE s = "Disconnecting" BY <1>2
  <1>3. CASE s = "Buffering" BY <1>3
  <1>4. CASE s = "Connecting" BY <1>4
  <1>5. CASE s = "Connected" BY <1>5
  <1>6. CASE s = "Established" BY <1>6
  <1>7. CASE s = "Streaming" BY <1>7
  <1>8. CASE s = "TextOnlySession" BY <1>8
  <1>9. CASE s = "Connection_Retry" BY <1>9
  <1> QED BY <1>1, <1>2, <1>3, <1>4, <1>5, <1>6, <1>7, <1>8, <1>9 DEF States

\* An event that leads to another state.
Leave(e, n) ==
    /\ TypeOK /\ Rest /\ task # "idle" /\ evq # << >> /\ e = Head(evq)
    /\ e \in DOMAIN NextStates[ws.state] /\ n = NextStates[ws.state][e]
    /\ n # ws.state /\ Enter(Exit(ws, e), n, Tail(evq))
    /\ task' = task

LEMMA LeaveEdge ==
    ASSUME NEW e, NEW n, Leave(e, n)
    PROVE  Edge(ws.state, e, n)
  <1>1. ws.state \in States BY DEF Leave, TypeOK, WsType
  <1>2. e \in DOMAIN NextStates[ws.state] /\ NextStates[ws.state][e] = n
        /\ n # ws.state
    BY DEF Leave
  <1>3. n \in States BY <1>1, <1>2, NextStatesType
  <1> QED BY <1>1, <1>2, <1>3, LeaveTables

\* Which event it is, and what is behind it.
LEMMA LeaveEvent ==
    ASSUME NEW e, NEW n, Leave(e, n)
    PROVE  /\ ws \in WsType /\ ws.state \in States
           /\ e \in Events /\ n \in States /\ ws.ctx
           /\ \/ One(e) /\ Tail(evq) = << >>
              \/ /\ e = "EOS_PIPE" /\ n = "Established"
                 /\ \E x \in Events : Two(x) /\ Tail(evq) = <<x>>
           /\ ws.state = "Disconnected" => One(e) /\ ws.streamEnds = 0
           /\ task \in {"terminate", "term"} =>
                \/ e = "TERMINATE" /\ ws.state # "Disconnecting"
                \/ e = "EOS_PIPE" /\ evq = <<"EOS_PIPE", "TERMINATE">>
                \/ /\ ws.state = "Disconnecting" /\ e # "TERMINATE"
                   /\ task = "terminate" => ws.session_end_reason = "TERMINATE"
  <1>1. ws \in WsType /\ ws.state \in States BY DEF Leave, TypeOK, WsType
  <1>2. n \in States BY <1>1, NextStatesType DEF Leave
  <1>3. ws.ctx BY DEF Leave, Rest, Terminated
  <1>4. \/ One(e) /\ Tail(evq) = << >> /\ e \in Events
        \/ e = "EOS_PIPE" /\ \E x \in Events : Two(x) /\ Tail(evq) = <<x>>
    BY HeadCases DEF Leave, Rest
  <1>5. e \in Events BY <1>4 DEF Events
  <1>6. e = "EOS_PIPE" => n = "Established" BY <1>1, Tables DEF Leave
  <1>7. ws.state = "Disconnected" => One(e) /\ ws.streamEnds = 0
    <2>1. ws.state = "Disconnected" => e \in BeginEvents
      BY LeaveEdge DEF Edge
    <2>2. ws.state = "Disconnected" => One(e)
      BY <1>4, <2>1 DEF BeginEvents
    <2>3. ws.state = "Disconnected" => Beginning
      BY <2>1, <2>2 DEF One
    <2> QED BY <2>2, <2>3 DEF Leave, Rest, BeginsIdle
  <1>8. task \in {"terminate", "term"} =>
                \/ e = "TERMINATE" /\ ws.state # "Disconnecting"
                \/ e = "EOS_PIPE" /\ evq = <<"EOS_PIPE", "TERMINATE">>
                \/ /\ ws.state = "Disconnecting" /\ e # "TERMINATE"
                   /\ task = "terminate" => ws.session_end_reason = "TERMINATE"
    <2>1. ws.state = "Disconnecting" => e = "DISCONNECTED"
      BY QueueFacts DEF Leave, Rest, Leaving
    <2>2. ASSUME evq = <<"TERMINATE">> PROVE e = "TERMINATE"
      BY <2>2, QueueFacts DEF Leave
    <2>3. ASSUME evq = <<"EOS_PIPE", "TERMINATE">> PROVE e = "EOS_PIPE"
      BY <2>3, QueueFacts DEF Leave
    <2> QED BY <2>1, <2>2, <2>3 DEF Leave, Rest, Ending
  <1> QED BY <1>1, <1>2, <1>3, <1>4, <1>5, <1>6, <1>7, <1>8

\* What it makes of the fields the invariant is about.
LEMMA LeaveEffect ==
    ASSUME NEW e, NEW n, Leave(e, n)
    PROVE  LET x == Exit(ws, e)
           IN  /\ x \in WsType /\ x.ctx /\ x.timer_id = FALSE /\ x.armed = 0
               /\ x.sessionEnds = 0 /\ x.obj_conn = ws.obj_conn
               /\ x.socket = ws.socket
               /\ x.streamEnds = IF n \in StreamOver THEN 1 ELSE 0
               /\ n \in StreamOver => x.audio_pipe = FALSE
               /\ e = "TERMINATE" /\ ws.state # "Disconnecting" =>
                    x.session_end_reason = "TERMINATE"
               /\ ws.state = "Disconnecting" =>
                    x.session_end_reason = ws.session_end_reason
  <1> DEFINE x == Exit(ws, e)
  <1>1. ws \in WsType /\ ws.state \in States /\ e \in Events /\ n \in States
        /\ ws.ctx /\ (ws.state = "Disconnected" => ws.streamEnds = 0)
    BY LeaveEvent
  <1>2. e \in DOMAIN NextStates[ws.state] /\ NextStates[ws.state][e] # ws.state
        /\ n = NextStates[ws.state][e]
    BY DEF Leave
  <1>11. Edge(ws.state, e, n) BY LeaveEdge
  <1>3. /\ Kept(x, ws)
        /\ x.streamEnds = IF Ends(ws, e) THEN ws.streamEnds + 1 ELSE ws.streamEnds
        /\ x.audio_pipe = IF Ends(ws, e) THEN FALSE ELSE ws.audio_pipe
        /\ ws.state \in TimedStates =>
             ~x.timer_id /\ x.armed = ws.armed - (IF ws.timer_id THEN 1 ELSE 0)
        /\ ws.state \notin TimedStates =>
             x.timer_id = ws.timer_id /\ x.armed = ws.armed
        /\ (e = "TERMINATE" /\ ws.state \notin {"Disconnected", "Disconnecting"})
             => x.session_end_reason = "TERMINATE"
        /\ ws.state = "Disconnecting" =>
             x.session_end_reason = ws.session_end_reason
    BY <1>1, <1>2, ExitEffect
  <1>4. x \in WsType BY <1>1, ExitType
  <1> HIDE DEF x
  <1>5. x.timer_id \in BOOLEAN /\ ws.timer_id \in BOOLEAN /\ ws.armed \in Int
    BY <1>1, <1>4 DEF WsType
  <1>6. x.timer_id = FALSE /\ x.armed = 0
    BY <1>3, <1>5 DEF Leave, Rest, TimerHeld
  <1>7. n \in StreamOver <=> (Ends(ws, e) \/ ws.state \in StreamOver \ {"Disconnected"})
    BY <1>1, <1>2, <1>11 DEF Edge, Ends, StreamOver
  <1>8. x.sessionEnds = 0 /\ x.streamEnds = IF n \in StreamOver THEN 1 ELSE 0
    BY <1>1, <1>3, <1>7 DEF Leave, Rest, EndedOnce, Kept, Ends, StreamOver
  <1>9. n \in StreamOver => x.audio_pipe = FALSE
    <2>1. ws.state \in StreamOver \ {"Disconnected"} => ~ws.audio_pipe
      BY DEF Leave, Rest, Usable, StreamOver
    <2>2. ws.audio_pipe \in BOOLEAN BY <1>1 DEF WsType
    <2> QED BY <1>3, <1>7, <2>1, <2>2
  <1>10. e # "TERMINATE" \/ ws.state # "Disconnected"
    BY <1>11 DEF Edge, BeginEvents
  <1> QED BY <1>1, <1>3, <1>4, <1>6, <1>8, <1>9, <1>10 DEF Kept, x

LEMMA LeaveInv ==
    ASSUME NEW e, NEW n, Leave(e, n)
    PROVE  Rest'
  <1> DEFINE x == Exit(ws, e)
             rest == Tail(evq)
  <1>1. /\ ws \in WsType /\ ws.state \in States /\ e \in Events /\ n \in States
        /\ \/ One(e) /\ rest = << >>
           \/ /\ e = "EOS_PIPE" /\ n = "Established"
              /\ \E y \in Events : Two(y) /\ rest = <<y>>
        /\ task \in {"terminate", "term"} =>
                \/ e = "TERMINATE" /\ ws.state # "Disconnecting"
                \/ e = "EOS_PIPE" /\ evq = <<"EOS_PIPE", "TERMINATE">>
                \/ /\ ws.state = "Disconnecting" /\ e # "TERMINATE"
                   /\ task = "terminate" => ws.session_end_reason = "TERMINATE"
    BY LeaveEvent
  <1>2. /\ x \in WsType /\ x.ctx /\ x.timer_id = FALSE /\ x.armed = 0
        /\ x.sessionEnds = 0 /\ x.obj_conn = ws.obj_conn
        /\ x.socket = ws.socket
        /\ x.streamEnds = IF n \in StreamOver THEN 1 ELSE 0
        /\ n \in StreamOver => x.audio_pipe = FALSE
        /\ e = "TERMINATE" /\ ws.state # "Disconnecting" =>
             x.session_end_reason = "TERMINATE"
        /\ ws.state = "Disconnecting" =>
             x.session_end_reason = ws.session_end_reason
    BY LeaveEffect
  <1>3. /\ e \in DOMAIN NextStates[ws.state] /\ n = NextStates[ws.state][e]
        /\ n # ws.state /\ Enter(x, n, rest) /\ task' = task /\ task # "idle"
    BY DEF Leave
  <1> HIDE DEF x, rest
  <1>4. /\ ws'.state = n /\ ws'.ctx = x.ctx
        /\ ws'.streamEnds = x.streamEnds
        /\ ws'.session_end_reason = x.session_end_reason
        /\ ws'.fresh = x.fresh
        /\ n = "Disconnected" =>
             /\ ws'.sessionEnds = x.sessionEnds + 1 /\ ws'.audio_pipe = FALSE
             /\ ws'.timer_id = FALSE /\ ws'.armed = x.armed /\ evq' = rest
        /\ n # "Disconnected" =>
             /\ ws'.sessionEnds = x.sessionEnds
             /\ ws'.audio_pipe = x.audio_pipe /\ ws'.socket = x.socket
        /\ n \in TimedStates =>
             \/ /\ ws'.timer_id = TRUE /\ ws'.armed = x.armed + 1
                /\ ws'.obj_conn = (IF n = "Connecting" THEN TRUE ELSE x.obj_conn)
                /\ evq' = rest
             \/ /\ n = "Connecting"
                /\ ws'.timer_id = x.timer_id /\ ws'.armed = x.armed
                /\ evq' \in {Append(rest, "RETRY"),
                             Append(rest, "CONNECT_TIMEOUT")}
        /\ n \in {"Disconnecting", "Buffering", "Streaming", "TextOnlySession"} =>
             /\ ws'.timer_id = x.timer_id /\ ws'.armed = x.armed
        /\ n \in {"Streaming", "TextOnlySession"} => ws'.obj_conn = x.obj_conn
        /\ n = "Disconnecting" => evq' = Append(rest, "DISCONNECTED")
        /\ n = "Streaming" =>
             evq' \in {rest, Append(rest, "TEXT_SESSION_SUCCESS")}
        /\ n \in {"Buffering", "TextOnlySession"} => evq' = rest
    BY <1>1, <1>2, <1>3, EnterEffect
  <1>10. Edge(ws.state, e, n) BY LeaveEdge
  \* What does not depend on the queue.
  <1>5. EndedOnce' /\ Terminated'
    BY <1>2, <1>4 DEF EndedOnce, Terminated, StreamOver
  <1>6. Usable'
    <2>1. n \in EstablishedStates => ws'.obj_conn /\ ws'.socket
      <3>1. n = "Streaming" => ws.obj_conn /\ ws.socket
        <4>1. n = "Streaming" => ws.state = "Connected" /\ e = "ESTABLISHED"
          BY <1>10 DEF Edge
        <4>2. n = "Streaming" => evq = <<"ESTABLISHED">>
          BY <1>1, <4>1 DEF One
        <4> QED BY <4>1, <4>2 DEF Leave, Rest, ConnHeld
      <3>2. n \in {"TextOnlySession", "Established"} => ws.obj_conn /\ ws.socket
        BY <1>10 DEF Edge, Leave, Rest, Usable, EstablishedStates
      <3> QED BY <1>2, <1>4, <3>1, <3>2 DEF EstablishedStates, TimedStates
    <2>2. ws'.audio_pipe => n \notin StreamOver
      BY <1>2, <1>4
    <2> QED BY <1>4, <2>1, <2>2 DEF Usable, StreamOver
  <1>7. CASE One(e) /\ rest = << >>
    <2>1. \/ /\ evq' = << >> /\ n # "Disconnecting"
             /\ n \in TimedStates => ws'.timer_id = TRUE
          \/ n = "Disconnecting" /\ evq' = <<"DISCONNECTED">>
          \/ /\ n = "Connecting" /\ ~ws'.timer_id
             /\ evq' \in {<<"RETRY">>, <<"CONNECT_TIMEOUT">>}
          \/ n = "Streaming" /\ evq' = <<"TEXT_SESSION_SUCCESS">>
      BY <1>1, <1>2, <1>4, <1>7, QueueFacts DEF States, TimedStates
    <2>2. \/ evq' = << >>
          \/ \E y \in Events \ (BeginEvents \cup {"ESTABLISHED"}) : evq' = <<y>>
      BY <2>1 DEF Events, BeginEvents
    <2>3. QueueShape' BY <1>3, <2>2, ShapeAfterStep
    <2>4. ~Beginning' BY <2>2, QueueCasesPrimed
    <2>5. BeginsIdle' /\ Leaving'
      BY <1>4, <2>1, <2>4 DEF BeginsIdle, Leaving
    <2>6. Ending'
      <3>1. ASSUME task \in {"terminate", "term"}
            PROVE  /\ n \in {"Disconnected", "Disconnecting"}
                   /\ task = "terminate" => x.session_end_reason = "TERMINATE"
        <4>1. evq # <<"EOS_PIPE", "TERMINATE">>
          BY <1>7, QueueFacts DEF One
        <4> QED BY <1>1, <1>2, <1>3, <1>10, <3>1, <4>1 DEF Edge
      <3> QED BY <1>3, <1>4, <2>1, <3>1 DEF Ending
    <2>7. TimerHeld'
      <3>1. ws'.armed = IF ws'.timer_id THEN 1 ELSE 0
        <4>1. CASE n = "Disconnected" BY <1>2, <1>4, <4>1
        <4>2. CASE n \in TimedStates
          <5>1. \/ ws'.timer_id = TRUE /\ ws'.armed = x.armed + 1
                \/ ws'.timer_id = x.timer_id /\ ws'.armed = x.armed
            BY <1>4, <4>2, Zenon
          <5> QED BY <1>2, <5>1
        <4>3. CASE n \notin TimedStates /\ n # "Disconnected"
          BY <1>1, <1>2, <1>4, <4>3 DEF TimedStates, States
        <4> QED BY <4>1, <4>2, <4>3
      <3>2. ws'.timer_id => n \in TimedStates
        BY <1>1, <1>2, <1>4 DEF TimedStates, States
      <3>3. (n \in TimedStates /\ ~ws'.timer_id) =>
               /\ n = "Connecting"
               /\ evq' \in {<<"RETRY">>, <<"CONNECT_TIMEOUT">>}
        BY <2>1 DEF TimedStates
      <3> QED BY <1>4, <3>1, <3>2, <3>3 DEF TimerHeld
    <2>8. ConnHeld'
      <3>1. n = "Connected" => ws.obj_conn
        <4>3. n = "Connected" => ws.state = "Connecting" /\ e = "CONNECTED"
          BY <1>10 DEF Edge
        <4>1. n = "Connected" => ws.state = "Connecting" /\ evq = <<"CONNECTED">>
          BY <1>7, <4>3 DEF One
        <4>2. evq = <<"CONNECTED">> =>
                evq \notin {<<"RETRY">>, <<"CONNECT_TIMEOUT">>}
          BY QueueFacts
        <4> QED BY <4>1, <4>2 DEF Leave, Rest, TimerHeld, ConnHeld, TimedStates
      <3>2. evq' # <<"ESTABLISHED">> /\ evq' # <<"EOS_PIPE", "ESTABLISHED">>
        BY <2>2, QueueFacts
      <3> QED BY <1>2, <1>4, <3>1, <3>2 DEF ConnHeld, TimedStates
    <2> QED BY <1>5, <1>6, <2>3, <2>5, <2>6, <2>7, <2>8 DEF Rest
  <1>8. ASSUME NEW y \in Events, e = "EOS_PIPE", n = "Established",
               Two(y), rest = <<y>>
        PROVE  Rest'
    <2>1. evq' = <<y>> /\ ws'.timer_id = TRUE /\ ws'.armed = 1
      BY <1>2, <1>4, <1>8 DEF TimedStates
    <2>2. ws.state # "Disconnected"
      BY <1>8, <1>10 DEF Edge
    <2>3. QueueShape' BY <1>3, <2>1, ShapeAfterStep
    <2>4. ~Beginning
      BY <2>2 DEF Leave, Rest, BeginsIdle
    <2>5. ~Beginning' BY <1>8, <2>1, <2>4, QueueCasesPrimed DEF Two
    <2>6. BeginsIdle' /\ Leaving'
      BY <1>4, <1>8, <2>5 DEF BeginsIdle, Leaving
    <2>7. Ending'
      <3>1. task \in {"terminate", "term"} => evq = <<"EOS_PIPE", "TERMINATE">>
        BY <1>1, <1>8, <1>10 DEF Edge
      <3>2. evq = <<"EOS_PIPE", "TERMINATE">> => y = "TERMINATE"
        BY <1>8, QueueFacts DEF Two
      <3> QED BY <1>3, <1>4, <1>8, <2>1, <3>1, <3>2 DEF Ending
    <2>8. TimerHeld'
      BY <1>4, <1>8, <2>1 DEF TimerHeld, TimedStates
    <2>9. ConnHeld'
      <3>1. y # "ESTABLISHED"
        BY <1>8 DEF Leave, Rest, ConnHeld, Two
      <3>2. evq' # <<"ESTABLISHED">> /\ evq' # <<"EOS_PIPE", "ESTABLISHED">>
        BY <2>1, <3>1, QueueFacts
      <3> QED BY <1>4, <1>8, <3>2 DEF ConnHeld
    <2> QED BY <1>5, <1>6, <2>3, <2>6, <2>7, <2>8, <2>9 DEF Rest
  <1> QED BY <1>1, <1>7, <1>8

\* Where it leads, and whether the session's reasons are set.
LEMMA LeaveMoves ==
    ASSUME NEW e, NEW n, Leave(e, n)
    PROVE  /\ ws'.state = n
           /\ ws'.streamEnds = IF n \in StreamOver THEN 1 ELSE 0
           /\ (n \in {"Disconnected", "Disconnecting"}
                 /\ ws.state # "Disconnecting") => ws'.fresh
           /\ ws.state = "Disconnecting" => ws'.fresh = ws.fresh
  <1> DEFINE x == Exit(ws, e)
  <1>1. ws \in WsType /\ e \in Events /\ n \in States BY LeaveEvent
  <1>2. x \in WsType /\ x.streamEnds = IF n \in StreamOver THEN 1 ELSE 0
    BY LeaveEffect
  <1>3. /\ e \in DOMAIN NextStates[ws.state] /\ n = NextStates[ws.state][e]
        /\ n # ws.state /\ Enter(x, n, Tail(evq))
    BY DEF Leave
  <1>4. /\ (n \in {"Disconnected", "Disconnecting"}
              /\ ws.state # "Disconnecting") => x.fresh
        /\ ws.state = "Disconnecting" => x.fresh = ws.fresh
    BY <1>1, <1>3, ExitFresh
  <1> HIDE DEF x
  <1>5. ws'.state = n /\ ws'.streamEnds = x.streamEnds /\ ws'.fresh = x.fresh
    BY <1>1, <1>2, <1>3, EnterEffect
  <1> QED BY <1>2, <1>4, <1>5

\* The fields the invariant is about, the end reason apart.
Same(x, w) ==
    /\ x.ctx = w.ctx /\ x.state = w.state /\ x.obj_conn = w.obj_conn
    /\ x.socket = w.socket /\ x.audio_pipe = w.audio_pipe
    /\ x.timer_id = w.timer_id /\ x.armed = w.armed
    /\ x.streamEnds = w.streamEnds /\ x.sessionEnds = w.sessionEnds

LEMMA WaitEffect ==
    ASSUME NEW w \in WsType, NEW giveUp, NEW rest, WaitOrGiveUp(w, giveUp, rest)
    PROVE  Same(ws', w) /\ ws'.fresh = w.fresh /\ evq' \in {rest, Append(rest, giveUp)}
  BY DEF WaitOrGiveUp, Same, WsType

\* The close handler, called from inside the poll, ends the session.
LEMMA ClosedEffect ==
    ASSUME ws \in WsType, ws.state = "Connected", NEW b \in BOOLEAN,
           TimerHeld, EndedOnce, ws.ctx
    PROVE  LET x == Disconnect(Exit(OnClose(ws, b), "WS_CLOSE"))
           IN  /\ x \in WsType /\ x.ctx /\ x.state = "Disconnected"
               /\ x.audio_pipe = FALSE /\ x.timer_id = FALSE /\ x.armed = 0
               /\ x.streamEnds = 1 /\ x.sessionEnds = 1 /\ x.fresh
  <1> DEFINE c == OnClose(ws, b)
             x == Exit(c, "WS_CLOSE")
  <1>1. c \in WsType /\ Same(c, ws)
    <2>1. c \in WsType BY OnCloseType
    <2>2. Same(c, ws) BY DEF OnClose, Same, WsType
    <2> QED BY <2>1, <2>2
  <1>2. "WS_CLOSE" \in Events BY DEF Events
  <1>3. "WS_CLOSE" \in DOMAIN NextStates.Connected
        /\ NextStates.Connected.WS_CLOSE = "Disconnected"
    BY DEF NextStates
  <1>4. c.state = "Connected" BY <1>1 DEF Same
  <1> HIDE DEF c
  <1>5. /\ Kept(x, c)
        /\ x.streamEnds = IF Ends(c, "WS_CLOSE") THEN c.streamEnds + 1 ELSE c.streamEnds
        /\ c.state \in TimedStates =>
             ~x.timer_id /\ x.armed = c.armed - (IF c.timer_id THEN 1 ELSE 0)
    <2>1. "WS_CLOSE" \in DOMAIN NextStates[c.state]
          /\ NextStates[c.state]["WS_CLOSE"] # c.state
      BY <1>3, <1>4
    <2> QED BY <1>1, <1>2, <2>1, ExitEffect
  <1>11. x.fresh BY <1>1, <1>2, <1>3, <1>4, ExitFresh
  <1>6. Ends(c, "WS_CLOSE") BY <1>3, <1>4 DEF Ends, StreamOver
  <1>7. x \in WsType BY <1>1, <1>2, ExitType
  <1>8. ws.streamEnds = 0 /\ ws.sessionEnds = 0 BY DEF EndedOnce
  <1>9. x.armed = 0 /\ x.streamEnds = 1 /\ x.sessionEnds = 0 /\ x.ctx
    <2>1. ws.armed = IF ws.timer_id THEN 1 ELSE 0 BY DEF TimerHeld
    <2>2. c.armed = IF c.timer_id THEN 1 ELSE 0 BY <1>1, <2>1 DEF Same
    <2>3. x.armed = 0 BY <1>4, <1>5, <2>2 DEF TimedStates
    <2>4. x.streamEnds = 1 BY <1>1, <1>5, <1>6, <1>8 DEF Same
    <2>5. x.sessionEnds = 0 /\ x.ctx BY <1>1, <1>5, <1>8 DEF Same, Kept
    <2> QED BY <2>3, <2>4, <2>5
  <1> HIDE DEF x
  <1>10. /\ Disconnect(x).ctx = x.ctx /\ Disconnect(x).state = "Disconnected"
         /\ Disconnect(x).audio_pipe = FALSE /\ Disconnect(x).timer_id = FALSE
         /\ Disconnect(x).armed = x.armed
         /\ Disconnect(x).streamEnds = x.streamEnds
         /\ Disconnect(x).sessionEnds = x.sessionEnds + 1
         /\ Disconnect(x).fresh = x.fresh
    BY <1>7 DEF Disconnect, Reset, WsType
  <1> QED BY <1>7, <1>9, <1>10, <1>11, DisconnectType DEF x, c

\* A timeout of a connection that is being opened.
Poll == /\ TypeOK /\ Rest /\ task # "idle" /\ evq # << >>
        /\ ws.state \in {"Connecting", "Connected"}
        /\ Head(evq) \in DOMAIN NextStates[ws.state]
        /\ NextStates[ws.state][Head(evq)] = ws.state
        /\ \/ ws.state = "Connecting" /\ PollConnecting(Tail(evq))
           \/ ws.state = "Connected" /\ PollConnected(Tail(evq))
        /\ task' = task

\* It goes on, or the server closed the connection.
Closed == /\ ws.state = "Connected" /\ ws'.state = "Disconnected"
          /\ ws'.streamEnds = 1 /\ ws'.sessionEnds = 1 /\ ws'.fresh

LEMMA PollInv ==
    ASSUME Poll
    PROVE  Rest' /\ (Steady \/ Closed)
  <1>1. ws \in WsType /\ ws.state \in {"Connecting", "Connected"}
    BY DEF Poll, TypeOK
  <1>2. Head(evq) = "TIMEOUT" BY DEF Poll, NextStates
  <1>3. One("TIMEOUT") /\ Tail(evq) = << >>
    BY <1>2, HeadCases DEF Poll, Rest
  <1>4. evq = <<"TIMEOUT">> BY <1>3 DEF One
  <1>5. task \notin {"terminate", "term"} /\ task # "idle" /\ task' = task
    <2>1. evq \notin {<<"TERMINATE">>, <<"EOS_PIPE", "TERMINATE">>}
      BY <1>4, QueueFacts
    <2> QED BY <1>1, <2>1 DEF Poll, Rest, Ending
  <1>6. ws.timer_id = TRUE /\ ws.armed = 1 /\ ws.obj_conn
    <2>1. evq \notin {<<"RETRY">>, <<"CONNECT_TIMEOUT">>}
      BY <1>4, QueueFacts
    <2>2. ws.timer_id \in BOOLEAN BY <1>1 DEF WsType
    <2> QED BY <1>1, <2>1, <2>2 DEF Poll, Rest, TimerHeld, ConnHeld, TimedStates
  <1>7. ws.ctx BY <1>1 DEF Poll, Rest, Terminated
  \* Still opening.
  <1>8. ASSUME NEW x \in Events \ BeginEvents,
               evq' = << >> \/ evq' = <<x>>,
               x = "ESTABLISHED" => ws.state = "Connected" /\ ws'.socket,
               Same([ws' EXCEPT !.socket = ws.socket], ws)
        PROVE  Rest' /\ Steady
    <2>1. /\ ws'.ctx = ws.ctx /\ ws'.state = ws.state /\ ws'.obj_conn = ws.obj_conn
          /\ ws'.audio_pipe = ws.audio_pipe
          /\ ws'.timer_id = ws.timer_id /\ ws'.armed = ws.armed
          /\ ws'.streamEnds = ws.streamEnds /\ ws'.sessionEnds = ws.sessionEnds
      BY <1>8 DEF Same
    <2>2. QueueShape' BY <1>5, <1>8, ShapeAfterStep
    <2>3. ~Beginning' BY <1>8, QueueCasesPrimed
    <2>4. EndedOnce' /\ Terminated'
      BY <1>7, <2>1 DEF Poll, Rest, EndedOnce, Terminated
    <2>5. BeginsIdle' /\ Leaving' /\ Ending'
      BY <1>1, <1>5, <2>1, <2>3 DEF BeginsIdle, Leaving, Ending
    <2>6. TimerHeld' BY <1>1, <1>6, <2>1 DEF TimerHeld, TimedStates
    <2>7. ConnHeld'
      <3>1. evq' # <<"EOS_PIPE", "ESTABLISHED">> BY <1>8, QueueFacts
      <3>2. evq' = <<"ESTABLISHED">> => x = "ESTABLISHED" BY <1>8, QueueFacts
      <3> QED BY <1>6, <1>8, <2>1, <3>1, <3>2 DEF ConnHeld
    <2>8. Usable' BY <1>1, <2>1 DEF Usable, EstablishedStates
    <2>9. Steady
      <3>1. ~Beginning BY <1>1 DEF Poll, Rest, BeginsIdle
      <3> QED BY <1>1, <2>1, <2>3, <3>1 DEF Steady
    <2> QED BY <2>2, <2>4, <2>5, <2>6, <2>7, <2>8, <2>9 DEF Rest
  \* Closed by the server while it was polled.
  <1>9. ASSUME ws'.ctx, ws'.state = "Disconnected", ws'.audio_pipe = FALSE,
               ws'.timer_id = FALSE, ws'.armed = 0,
               ws'.streamEnds = 1, ws'.sessionEnds = 1,
               evq' = << >> \/ evq' = <<"ESTABLISH_TIMEOUT">>
        PROVE  Rest'
    <2>1. "ESTABLISH_TIMEOUT" \in Events \ BeginEvents
      BY DEF Events, BeginEvents
    <2>2. QueueShape' BY <1>5, <1>9, <2>1, ShapeAfterStep
    <2>3. ~Beginning' BY <1>9, <2>1, QueueCasesPrimed
    <2>4. EndedOnce' /\ Terminated' BY <1>9 DEF EndedOnce, Terminated
    <2>5. BeginsIdle' /\ Leaving' /\ Ending'
      BY <1>5, <1>9, <2>3 DEF BeginsIdle, Leaving, Ending
    <2>6. TimerHeld' BY <1>9 DEF TimerHeld, TimedStates
    <2>7. ConnHeld'
      <3>1. evq' # <<"ESTABLISHED">> /\ evq' # <<"EOS_PIPE", "ESTABLISHED">>
        <4>1. CASE evq' = << >> BY <4>1, QueueFacts
        <4>2. CASE evq' = <<"ESTABLISH_TIMEOUT">> BY <4>2, QueueFacts
        <4> QED BY <1>9, <4>1, <4>2
      <3> QED BY <1>9, <3>1 DEF ConnHeld
    <2>8. Usable' BY <1>9 DEF Usable, EstablishedStates
    <2> QED BY <2>2, <2>4, <2>5, <2>6, <2>7, <2>8 DEF Rest
  <1>10. ASSUME NEW x \in Events \ BeginEvents, x # "ESTABLISHED",
                WaitOrGiveUp(ws, x, << >>)
         PROVE  Rest' /\ Steady
    <2>1. Same(ws', ws) BY <1>1, <1>10, WaitEffect
    <2>2. evq' = << >> \/ evq' = <<x>>
      <3>1. evq' \in {<< >>, Append(<< >>, x)} BY <1>1, <1>10, WaitEffect
      <3>2. Append(<< >>, x) = <<x>> BY QueueFacts
      <3> QED BY <3>1, <3>2
    <2>3. ws' \in WsType
      <3>1. x \in Events /\ << >> \in Seq(Events) BY <1>10
      <3> QED BY <1>1, <1>10, <3>1, WaitOrGiveUpType
    <2>4. Same([ws' EXCEPT !.socket = ws.socket], ws)
      BY <2>1, <2>3 DEF Same, WsType
    <2> QED BY <1>8, <1>10, <2>2, <2>4
  <1>11. CASE ws.state = "Connecting" /\ PollConnecting(<< >>)
    <2>1. /\ "CONNECTED" \in Events \ BeginEvents
          /\ GiveUpOrRetry \in Events \ BeginEvents
          /\ GiveUpOrRetry # "ESTABLISHED"
      BY DEF Events, BeginEvents, GiveUpOrRetry
    <2>2. CASE ws' = ws /\ evq' = Append(<< >>, "CONNECTED")
      <3>1. evq' = <<"CONNECTED">> BY <2>2, QueueFacts
      <3>2. Same([ws' EXCEPT !.socket = ws.socket], ws)
        BY <1>1, <2>2 DEF Same, WsType
      <3> QED BY <1>8, <2>1, <3>1, <3>2
    <2>3. CASE WaitOrGiveUp(ws, GiveUpOrRetry, << >>) BY <1>10, <2>1, <2>3
    <2> QED BY <1>11, <2>2, <2>3 DEF PollConnecting
  <1>12. CASE ws.state = "Connected" /\ PollConnected(<< >>)
    <2>1. {"ESTABLISHED", "ESTABLISH_TIMEOUT"} \subseteq Events \ BeginEvents
      BY DEF Events, BeginEvents
    <2>2. CASE ws' = [ws EXCEPT !.socket = TRUE]
               /\ evq' = Append(<< >>, "ESTABLISHED")
      <3>1. evq' = <<"ESTABLISHED">> BY <2>2, QueueFacts
      <3>2. Same([ws' EXCEPT !.socket = ws.socket], ws) /\ ws'.socket
        BY <1>1, <2>2 DEF Same, WsType
      <3> QED BY <1>8, <1>12, <2>1, <3>1, <3>2
    <2>3. CASE WaitOrGiveUp(ws, "ESTABLISH_TIMEOUT", << >>)
      BY <1>10, <2>1, <2>3
    <2>4. ASSUME NEW b \in BOOLEAN,
                 WaitOrGiveUp(Disconnect(Exit(OnClose(ws, b), "WS_CLOSE")),
                              "ESTABLISH_TIMEOUT", << >>)
          PROVE  Rest' /\ Closed
      <3> DEFINE x == Disconnect(Exit(OnClose(ws, b), "WS_CLOSE"))
      <3>1. /\ x \in WsType /\ x.ctx /\ x.state = "Disconnected"
            /\ x.audio_pipe = FALSE /\ x.timer_id = FALSE /\ x.armed = 0
            /\ x.streamEnds = 1 /\ x.sessionEnds = 1 /\ x.fresh
        BY <1>1, <1>7, <1>12, ClosedEffect DEF Poll, Rest
      <3>2. WaitOrGiveUp(x, "ESTABLISH_TIMEOUT", << >>) BY <2>4
      <3> HIDE DEF x
      <3>3. Same(ws', x) /\ ws'.fresh = x.fresh BY <3>1, <3>2, WaitEffect
      <3>4. evq' = << >> \/ evq' = <<"ESTABLISH_TIMEOUT">>
        <4>1. evq' \in {<< >>, Append(<< >>, "ESTABLISH_TIMEOUT")}
          BY <3>1, <3>2, WaitEffect
        <4>2. Append(<< >>, "ESTABLISH_TIMEOUT") = <<"ESTABLISH_TIMEOUT">>
          BY QueueFacts
        <4> QED BY <4>1, <4>2
      <3>5. Closed BY <1>12, <3>1, <3>3 DEF Same, Closed
      <3> QED BY <1>9, <3>1, <3>3, <3>4, <3>5 DEF Same
    <2> QED BY <1>12, <2>2, <2>3, <2>4 DEF PollConnected
  <1> QED BY <1>3, <1>11, <1>12 DEF Poll

LEMMA StepInv ==
    ASSUME TypeOK, Rest, Step
    PROVE  Rest' /\ (Steady \/ Closed \/ \E e, n : Leave(e, n))
  <1>1. task # "idle" /\ evq # << >> /\ task' = task BY DEF Step
  <1> DEFINE e == Head(evq)
             next == NextStates[ws.state]
  <1>2. CASE e \notin DOMAIN next /\ ws' = ws /\ evq' = Tail(evq)
    BY <1>1, <1>2, StayInv DEF Stay
  <1>3. CASE e \in DOMAIN next /\ next[e] = ws.state /\ Internal(e, Tail(evq))
    <2>1. CASE ws.state \in {"Connecting", "Connected"}
      BY <1>1, <1>3, <2>1, PollInv DEF Internal, Poll
    <2>2. CASE ws.state \notin {"Connecting", "Connected"}
      BY <1>1, <1>3, <2>2, StayInv DEF Internal, Stay
    <2> QED BY <2>1, <2>2
  <1>4. CASE /\ e \in DOMAIN next /\ next[e] # ws.state
             /\ Enter(Exit(ws, e), next[e], Tail(evq))
    <2>1. Leave(e, next[e]) BY <1>1, <1>4 DEF Leave
    <2> QED BY <2>1, LeaveInv
  <1> QED BY <1>2, <1>3, <1>4 DEF Step

-----------------------------------------------------------------------------
(* The handlers keep the invariant.                                        *)

\* No event is being processed: a handler starts, goes on or ends.
Quiet == task = "idle" \/ evq = << >>

LEMMA QuietFacts ==
    ASSUME TypeOK, Rest, Quiet
    PROVE  /\ evq \in {<< >>, <<"EOS_PIPE">>} /\ ~Beginning
           /\ ws.state # "Disconnecting"
           /\ ws.state \in TimedStates => ws.timer_id
  <1>1. evq \in {<< >>, <<"EOS_PIPE">>} BY DEF Rest, QueueShape, Quiet
  <1>2. evq \notin {<<"DISCONNECTED">>, <<"RETRY">>, <<"CONNECT_TIMEOUT">>}
    <2>1. CASE evq = << >> BY <2>1, QueueFacts
    <2>2. CASE evq = <<"EOS_PIPE">> BY <2>2, QueueFacts
    <2> QED BY <1>1, <2>1, <2>2
  <1>3. ~Beginning
    <2>1. CASE evq = << >> BY <2>1 DEF Beginning
    <2>2. CASE evq = <<"EOS_PIPE">> BY <2>2 DEF Beginning, BeginEvents
    <2> QED BY <1>1, <2>1, <2>2
  <1>4. ws.timer_id \in BOOLEAN BY DEF TypeOK, WsType
  <1> QED BY <1>1, <1>2, <1>3, <1>4 DEF Rest, Leaving, TimerHeld

SameReason(x, w) ==
    x.session_end_reason = w.session_end_reason /\ x.fresh = w.fresh

\* Nothing changes that the invariant is about.
LEMMA SameInv ==
    ASSUME Rest, Same(ws', ws), SameReason(ws', ws),
           evq' = evq, task' = task
    PROVE  Rest' /\ Steady
  <1>1. Beginning' <=> Beginning BY DEF Beginning
  <1>2. QueueShape' /\ EndedOnce' /\ BeginsIdle' /\ Leaving'
    BY <1>1 DEF Rest, Same, QueueShape, EndedOnce, BeginsIdle, Leaving
  <1>3. Ending' /\ Terminated' BY DEF Rest, Same, SameReason, Ending, Terminated
  <1>4. TimerHeld' /\ ConnHeld' BY DEF Rest, Same, TimerHeld, ConnHeld
  <1>5. Usable' BY <1>1 DEF Rest, Same, Usable
  <1>6. Steady BY <1>1 DEF Same, SameReason, Steady
  <1> QED BY <1>2, <1>3, <1>4, <1>5, <1>6 DEF Rest

\* A handler ends, or does without an event.
LEMMA EndsInv ==
    ASSUME TypeOK, Rest, Quiet, Same(ws', ws), task' = "idle",
           evq' \in {<< >>, <<"EOS_PIPE">>}
    PROVE  Rest' /\ Steady
  <1>1. ~Beginning'
    <2>1. CASE evq' = << >> BY <2>1 DEF Beginning
    <2>2. CASE evq' = <<"EOS_PIPE">> BY <2>2 DEF Beginning, BeginEvents
    <2> QED BY <2>1, <2>2
  <1>2. QueueShape' BY DEF QueueShape, Events
  <1>3. EndedOnce' /\ BeginsIdle' BY <1>1 DEF Rest, Same, EndedOnce, BeginsIdle
  <1>4. Leaving' BY QuietFacts DEF Same, Leaving
  <1>5. Ending' BY DEF Ending
  <1>6. Terminated' BY DEF Rest, Same, Terminated
  <1>7. TimerHeld' BY QuietFacts DEF Rest, Same, TimerHeld
  <1>8. ConnHeld'
    <2>1. evq' # <<"ESTABLISHED">> /\ evq' # <<"EOS_PIPE", "ESTABLISHED">>
      <3>1. CASE evq' = << >> BY <3>1, QueueFacts
      <3>2. CASE evq' = <<"EOS_PIPE">> BY <3>2, QueueFacts
      <3> QED BY <3>1, <3>2
    <2> QED BY <2>1 DEF Rest, Same, ConnHeld
  <1>9. Usable' BY QuietFacts DEF Rest, Same, Usable
  <1>10. Steady BY <1>1, QuietFacts DEF Same, Steady
  <1> QED BY <1>2, <1>3, <1>4, <1>5, <1>6, <1>7, <1>8, <1>9, <1>10 DEF Rest

\* What may happen outside the state machine.
Outer == Events \ (BeginEvents \cup {"ESTABLISHED"})

\* A handler raises an event.
LEMMA RaiseInv ==
    ASSUME TypeOK, Rest, Quiet, Same(ws', ws), ws.ctx,
           NEW e \in Outer, NEW t \in Tasks \ {"idle"}, Raise(e, t),
           t \in {"terminate", "term"} => e = "TERMINATE",
           t = "terminate" => ws.state # "Disconnected"
    PROVE  Rest' /\ Steady
  <1>1. e \in Events /\ e \notin BeginEvents /\ e # "ESTABLISHED" BY DEF Outer
  <1>2. task' = t /\ t # "idle" BY DEF Raise
  <1>3. evq' = <<e>> \/ evq' = <<"EOS_PIPE", e>>
    <2>1. CASE evq = << >> BY <2>1, QueueFacts DEF Raise
    <2>2. CASE evq = <<"EOS_PIPE">>
      <3>1. "EOS_PIPE" \in Events BY DEF Events
      <3> QED BY <1>1, <2>2, <3>1, AppendTwo DEF Raise
    <2> QED BY <2>1, <2>2, QuietFacts
  <1>4. ~Beginning' BY <1>1, <1>3, QueueCasesPrimed
  <1>5. QueueShape' BY <1>1, <1>2, <1>3, Zenon DEF QueueShape
  <1>6. EndedOnce' /\ BeginsIdle' BY <1>4 DEF Rest, Same, EndedOnce, BeginsIdle
  <1>7. Leaving' BY QuietFacts DEF Same, Leaving
  <1>8. Ending' BY <1>2, <1>3 DEF Same, Ending
  <1>9. Terminated' BY DEF Same, Terminated
  <1>10. TimerHeld' BY QuietFacts DEF Rest, Same, TimerHeld
  <1>11. ConnHeld'
    <2>1. evq' # <<"ESTABLISHED">> /\ evq' # <<"EOS_PIPE", "ESTABLISHED">>
      BY <1>1, <1>3, QueueFacts
    <2> QED BY <2>1 DEF Rest, Same, ConnHeld
  <1>12. Usable' BY QuietFacts DEF Rest, Same, Usable
  <1>13. Steady BY <1>4, QuietFacts DEF Same, Steady
  <1> QED BY <1>5, <1>6, <1>7, <1>8, <1>9, <1>10, <1>11, <1>12, <1>13 DEF Rest

\* The updates that leave the invariant's fields alone.
LEMMA SameUpdates ==
    ASSUME NEW w \in WsType
    PROVE  /\ Same(w, w)
           /\ \A b : Same(OnClose(w, b), w)
           /\ \A why : Same(SetReasons(w, why), w)
           /\ \A b : Same([w EXCEPT !.write_pending = b], w)
           /\ \A n : Same([w EXCEPT !.write_pending_retries = n], w)
           /\ \A b, n : Same([w EXCEPT !.write_pending = b,
                                       !.write_pending_retries = n], w)
           /\ \A m : Same([w EXCEPT !.msg_out = m], w)
  BY DEF Same, OnClose, SetReasons, WsType

\* ... and the end reason.
LEMMA ReasonKept ==
    ASSUME NEW w \in WsType
    PROVE  /\ SameReason(w, w)
           /\ \A b : SameReason([w EXCEPT !.write_pending = b], w)
           /\ \A b, n : SameReason([w EXCEPT !.write_pending = b,
                                             !.write_pending_retries = n], w)
           /\ \A m : SameReason([w EXCEPT !.msg_out = m], w)
  BY DEF SameReason, WsType

LEMMA OuterEvents ==
    {"TERMINATE", "STM", "EOS", "EOS_PIPE", "TIMEOUT", "MSG_RECV", "APP_CLOSE",
     "AUDIO_ERROR", "WS_ERROR", "WS_CLOSE"} \subseteq Outer
  BY DEF Outer, Events, BeginEvents

\* A handler that raises an event and does not end the session.
LEMMA RaiseEvent ==
    ASSUME TypeOK, Rest, Quiet, Same(ws', ws), ws.ctx, NEW e \in Outer,
           NEW t \in {"event", "on_msg", "on_msg_done", "write_pending",
                      "write_error"},
           Raise(e, t)
    PROVE  Rest' /\ Steady
  <1>1. t \in Tasks \ {"idle"} /\ t \notin {"terminate", "term"} BY DEF Tasks
  <1> QED BY <1>1, RaiseInv

LEMMA RaiseOnlyInv ==
    ASSUME TypeOK, Rest, Quiet, ws.ctx, NEW e \in Outer, RaiseOnly(e)
    PROVE  Rest' /\ Steady
  <1>1. Same(ws', ws) BY SameUpdates DEF RaiseOnly, TypeOK
  <1> QED BY <1>1, RaiseEvent DEF RaiseOnly

LEMMA CloseInInv ==
    ASSUME TypeOK, Rest, Quiet, ws.ctx, NEW t \in {"event", "write_pending"},
           CloseIn(t)
    PROVE  Rest' /\ Steady
  <1>1. Same(ws', ws) BY SameUpdates DEF CloseIn, TypeOK
  <1>2. Raise("WS_CLOSE", t) BY DEF CloseIn
  <1> QED BY <1>1, <1>2, OuterEvents, RaiseEvent

LEMMA CountRetryInv ==
    ASSUME TypeOK, Rest, Quiet, ws.ctx, CountRetry
    PROVE  Rest' /\ Steady
  <1>1. Same(ws', ws) BY SameUpdates DEF CountRetry, TypeOK
  <1>2. CASE Raise("WS_ERROR", "event")
    BY <1>1, <1>2, OuterEvents, RaiseEvent
  <1>3. CASE task' = "idle" /\ UNCHANGED evq
    BY <1>1, <1>3, QuietFacts, EndsInv
  <1> QED BY <1>2, <1>3 DEF CountRetry

\* A write, of the audio or of the first message of the queue.
LEMMA WriteInv ==
    ASSUME TypeOK, Rest, Quiet, ws.ctx, NEW w \in WsType, Same(w, ws),
           SameReason(w, ws),
           WriteFails(w) \/ WriteGoes(w)
    PROVE  Rest' /\ Steady
  <1>1. CASE ws' = w /\ Raise("WS_ERROR", "event")
    BY <1>1, OuterEvents, RaiseEvent
  <1>2. ASSUME NEW b \in BOOLEAN, ws' = OnClose(w, b),
               Raise("WS_CLOSE", "write_error")
        PROVE  Rest' /\ Steady
    <2>1. Same(ws', w) BY <1>2, SameUpdates
    <2>2. Same(ws', ws) BY <2>1 DEF Same
    <2> QED BY <1>2, <2>2, OuterEvents, RaiseEvent
  <1>3. CASE WriteGoes(w)
    <2>1. PICK b \in BOOLEAN : ws' = [w EXCEPT !.write_pending = b]
      BY <1>3 DEF WriteGoes
    <2>2. Same(ws', w) BY <2>1, SameUpdates
    <2>3. Same(ws', ws) BY <2>2 DEF Same
    <2>4. SameReason(ws', ws)
      <3>1. SameReason(ws', w) BY <2>1, ReasonKept
      <3> QED BY <3>1 DEF SameReason
    <2>5. evq' = evq /\ task' = task BY <1>3 DEF WriteGoes
    <2> QED BY <2>3, <2>4, <2>5, SameInv
  <1> QED BY <1>1, <1>2, <1>3 DEF WriteFails

\* A session begins.
LEMMA ConnectInv ==
    ASSUME TypeOK, Rest, Connect
    PROVE  Rest' /\ Beginning'
  <1>1. task = "idle" /\ ws.ctx /\ ws.state = "Disconnected" /\ ws \in WsType
    BY DEF Connect, Idle, TypeOK
  <1>2. PICK e \in BeginEvents : Raise(e, "event")
    BY DEF Connect, BeginEvents
  <1>3. /\ ws'.ctx /\ ws'.state = "Disconnected" /\ ws'.timer_id = ws.timer_id
        /\ ws'.armed = ws.armed /\ ws'.streamEnds = 0 /\ ws'.sessionEnds = 0
    BY <1>1 DEF Connect, WsType
  <1>4. e \in Events /\ e # "ESTABLISHED" BY DEF BeginEvents, Events
  <1>5. evq' = <<e>> \/ evq' = <<"EOS_PIPE", e>>
    <2>1. CASE evq = << >> BY <1>2, <2>1, QueueFacts DEF Raise
    <2>2. CASE evq = <<"EOS_PIPE">>
      <3>1. "EOS_PIPE" \in Events BY DEF Events
      <3> QED BY <1>2, <1>4, <2>2, <3>1, AppendTwo DEF Raise
    <2> QED BY <1>1, <2>1, <2>2, QuietFacts DEF Quiet
  <1>6. task' = "event" BY <1>2 DEF Raise
  <1>7. Beginning' BY <1>5, QueueCasesPrimed
  <1>8. QueueShape' BY <1>4, <1>5, <1>6, Zenon DEF QueueShape
  <1>9. EndedOnce' BY <1>3 DEF EndedOnce
  <1>10. BeginsIdle' /\ Leaving' BY <1>3 DEF BeginsIdle, Leaving
  <1>11. Ending' /\ Terminated' BY <1>3, <1>6 DEF Ending, Terminated
  <1>12. TimerHeld' BY <1>1, <1>3 DEF Rest, TimerHeld, TimedStates
  <1>13. ConnHeld'
    <2>1. evq' # <<"ESTABLISHED">> /\ evq' # <<"EOS_PIPE", "ESTABLISHED">>
      BY <1>4, <1>5, QueueFacts
    <2> QED BY <1>3, <2>1 DEF ConnHeld
  <1>14. Usable' BY <1>3, <1>7 DEF Usable, EstablishedStates
  <1> QED BY <1>7, <1>8, <1>9, <1>10, <1>11, <1>12, <1>13, <1>14 DEF Rest

\* xrsr_ws_init.
LEMMA ReinitInv ==
    ASSUME TypeOK, Rest, Reinit
    PROVE  Rest' /\ Steady
  <1>1. ws.state = "Disconnected" /\ ws \in WsType
    BY DEF Reinit, Rest, Terminated, TypeOK
  <1>2. ~ws.timer_id /\ ws.armed = 0
    BY <1>1 DEF Rest, TimerHeld, TimedStates
  <1>3. /\ ws'.ctx /\ ws'.state = "Disconnected" /\ ws'.timer_id = FALSE
        /\ ws'.armed = 0 /\ ws'.audio_pipe = FALSE
        /\ ws'.streamEnds = ws.streamEnds /\ ws'.sessionEnds = ws.sessionEnds
    BY <1>2 DEF Reinit, WsInit
  <1>4. evq' = << >> /\ task' = "idle" BY DEF Reinit
  <1>5. ~Beginning' BY <1>4, QueueCasesPrimed
  <1>6. QueueShape' BY <1>4 DEF QueueShape
  <1>7. EndedOnce' BY <1>1, <1>3 DEF Rest, EndedOnce
  <1>8. BeginsIdle' /\ Leaving' /\ Ending' /\ Terminated'
    BY <1>3, <1>4, <1>5 DEF BeginsIdle, Leaving, Ending, Terminated
  <1>9. TimerHeld' BY <1>3 DEF TimerHeld, TimedStates
  <1>10. ConnHeld' BY <1>3, <1>4, QueueFacts DEF ConnHeld
  <1>11. Usable' BY <1>3 DEF Usable, EstablishedStates
  <1>12. Steady
    <2>1. ~Beginning /\ ws.state # "Disconnecting" BY QuietFacts DEF Reinit, Quiet
    <2> QED BY <1>1, <1>3, <1>5, <2>1 DEF Steady
  <1> QED BY <1>6, <1>7, <1>8, <1>9, <1>10, <1>11, <1>12 DEF Rest

LEMMA HandlersInv ==
    ASSUME TypeOK, Rest, Handlers
    PROVE  Rest' /\ (Steady \/ Connect)
  <1>1. CASE Connect BY <1>1, ConnectInv
  <1>2. CASE Terminate
    <2>1. Same(ws', ws) /\ Quiet /\ ws.ctx
      BY <1>2, SameUpdates DEF Terminate, Idle, Quiet, TypeOK
    <2>2. "terminate" \in Tasks \ {"idle"} BY DEF Tasks
    <2> QED BY <1>2, <2>1, <2>2, OuterEvents, RaiseInv DEF Terminate
  <1>3. CASE Term
    <2>1. Same(ws', ws) /\ Quiet /\ ws.ctx
      BY <1>3, SameUpdates DEF Term, Idle, Quiet, TypeOK
    <2>2. "term" \in Tasks \ {"idle"} BY DEF Tasks
    <2> QED BY <1>3, <2>1, <2>2, OuterEvents, RaiseInv DEF Term
  <1>4. CASE Reinit BY <1>4, ReinitInv
  <1>5. CASE SpeechEvent
    BY <1>5, OuterEvents, RaiseOnlyInv DEF SpeechEvent, Idle, Quiet
  <1>6. CASE TimerFire
    BY <1>6, OuterEvents, RaiseOnlyInv DEF TimerFire, Idle, Quiet
  <1>7. CASE ReadSocket
    <2>1. Quiet /\ ws.ctx BY <1>7 DEF ReadSocket, Serving, Idle, Quiet
    <2>2. CASE Raise("MSG_RECV", "on_msg") /\ UNCHANGED ws
      <3>1. Same(ws', ws) BY <2>2, SameUpdates DEF TypeOK
      <3> QED BY <2>1, <2>2, <3>1, OuterEvents, RaiseEvent
    <2>3. CASE CloseIn("event") BY <2>1, <2>3, CloseInInv
    <2> QED BY <1>7, <2>2, <2>3 DEF ReadSocket
  <1>8. CASE WritePending
    <2>1. Quiet /\ ws.ctx BY <1>8 DEF WritePending, Serving, Idle, Quiet
    <2>2. CASE /\ ws' = [ws EXCEPT !.write_pending = FALSE,
                                   !.write_pending_retries = 0]
               /\ UNCHANGED <<evq, task, recv, expired, sender>>
      <3>1. Same(ws', ws) /\ SameReason(ws', ws)
        <4>1. ws \in WsType BY DEF TypeOK
        <4>2. Same(ws', ws) BY <2>2, <4>1, SameUpdates
        <4>3. SameReason(ws', ws)
          BY <2>2, <4>1, ReasonKept
        <4> QED BY <4>2, <4>3
      <3> QED BY <2>2, <3>1, SameInv
    <2>3. CASE CountRetry BY <2>1, <2>3, CountRetryInv
    <2>4. CASE CloseIn("write_pending") BY <2>1, <2>4, CloseInInv
    <2> QED BY <1>8, <2>2, <2>3, <2>4 DEF WritePending
  <1>9. CASE SendMsgOut
    <2> DEFINE w == [ws EXCEPT !.msg_out = Tail(@)]
    <2>1. Quiet /\ ws.ctx BY <1>9 DEF SendMsgOut, Serving, Idle, Quiet
    <2>2. Same(w, ws) /\ SameReason(w, ws)
      BY SameUpdates, ReasonKept DEF TypeOK
    <2>3. w \in WsType BY <1>9, SentType
    <2>4. WriteFails(w) \/ WriteGoes(w) BY <1>9 DEF SendMsgOut
    <2> HIDE DEF w
    <2> QED BY <2>1, <2>2, <2>3, <2>4, WriteInv
  <1>10. CASE ReadPipe
    <2>1. Quiet /\ ws.ctx BY <1>10 DEF ReadPipe, Serving, Idle, Quiet
    <2>2. CASE RaiseOnly("EOS_PIPE") \/ RaiseOnly("AUDIO_ERROR")
      BY <2>1, <2>2, OuterEvents, RaiseOnlyInv
    <2>3. CASE WriteFails(ws) \/ WriteGoes(ws)
      BY <2>1, <2>3, SameUpdates, ReasonKept, WriteInv DEF TypeOK
    <2> QED BY <1>10, <2>2, <2>3 DEF ReadPipe
  <1> QED BY <1>1, <1>2, <1>3, <1>4, <1>5, <1>6, <1>7, <1>8, <1>9, <1>10
          DEF Handlers

LEMMA ContinueInv ==
    ASSUME TypeOK, Rest, Continue
    PROVE  Rest' /\ (Steady \/ Step)
  <1>1. CASE Step BY <1>1, StepInv
  \* Every other step starts where the queue is empty.
  <1>2. ASSUME task # "idle", evq = << >>
        PROVE  Quiet /\ ws.ctx
    BY <1>2 DEF Quiet, TypeOK, WsType, Rest, Terminated
  <1>3. CASE CountPendingRetry
    BY <1>2, <1>3, CountRetryInv DEF CountPendingRetry
  <1>4. CASE ReportWriteError
    BY <1>2, <1>4, OuterEvents, RaiseOnlyInv DEF ReportWriteError
  <1>5. ASSUME NEW ev, evq = << >>, ReportRecvEvent(ev)
        PROVE  Same(ws', ws) /\ evq' \in {<< >>, <<"EOS_PIPE">>}
    <2>1. ws \in WsType BY DEF TypeOK
    <2>2. CASE UNCHANGED <<ws, evq>> BY <1>5, <2>1, <2>2, SameUpdates
    <2>3. ASSUME NEW why, ws' = SetReasons(ws, why), evq' = Append(evq, "EOS_PIPE")
          PROVE  Same(ws', ws) /\ evq' \in {<< >>, <<"EOS_PIPE">>}
      BY <1>5, <2>1, <2>3, SameUpdates, QueueFacts
    <2> QED BY <1>5, <2>2, <2>3 DEF ReportRecvEvent
  <1>6. CASE RecvMsg
    <2>1. Quiet /\ ws.ctx BY <1>2, <1>6 DEF RecvMsg
    <2>2. CASE Raise("APP_CLOSE", "on_msg_done") /\ UNCHANGED ws
      <3>1. Same(ws', ws) BY <2>2, SameUpdates DEF TypeOK
      <3> QED BY <2>1, <2>2, <3>1, OuterEvents, RaiseEvent
    <2>3. ASSUME NEW ev \in RecvEvents, ReportRecvEvent(ev), task' = "idle"
          PROVE  Rest' /\ Steady
      BY <1>5, <1>6, <2>1, <2>3, EndsInv DEF RecvMsg
    <2> QED BY <1>6, <2>2, <2>3 DEF RecvMsg
  <1>7. CASE OnMsgDone
    BY <1>2, <1>5, <1>7, EndsInv DEF OnMsgDone
  <1>8. CASE Return
    <2>1. CASE task # "term"
      <3>1. Same(ws', ws) BY <1>8, <2>1, SameUpdates DEF Return, TypeOK
      <3> QED BY <1>2, <1>8, <3>1, EndsInv DEF Return
    <2>2. CASE task = "term"
      <3>1. evq = << >> /\ evq' = << >> /\ task' = "idle" /\ ws \in WsType
        BY <1>8 DEF Return, TypeOK
      <3>2. ws.state = "Disconnected"
        BY <2>2, <3>1, QueueFacts DEF Rest, Ending, Leaving
      <3>3. /\ ws'.state = ws.state /\ ws'.timer_id = ws.timer_id
            /\ ws'.armed = ws.armed /\ ws'.audio_pipe = ws.audio_pipe
            /\ ws'.streamEnds = ws.streamEnds
            /\ ws'.sessionEnds = ws.sessionEnds
        BY <1>8, <2>2, <3>1 DEF Return, WsType
      <3>4. ~Beginning /\ ~Beginning' BY <3>1, QueueCasesPrimed DEF Beginning
      <3>5. QueueShape' /\ BeginsIdle' /\ Leaving' /\ Ending'
        BY <3>1, <3>2, <3>3, <3>4 DEF QueueShape, BeginsIdle, Leaving, Ending
      <3>6. EndedOnce' /\ Terminated' /\ TimerHeld'
        BY <3>1, <3>2, <3>3
           DEF Rest, EndedOnce, Terminated, TimerHeld, TimedStates
      <3>7. ConnHeld' BY <3>1, <3>2, <3>3, QueueFacts DEF ConnHeld
      <3>8. Usable' BY <3>2, <3>3, <3>4 DEF Rest, Usable, EstablishedStates
      <3>9. Steady BY <3>2, <3>3, <3>4 DEF Steady
      <3> QED BY <3>5, <3>6, <3>7, <3>8, <3>9 DEF Rest
    <2> QED BY <2>1, <2>2
  <1> QED BY <1>1, <1>3, <1>4, <1>6, <1>7, <1>8 DEF Continue

\* What a step does to the session.
LEMMA NextInv ==
    ASSUME TypeOK, Rest, [Next]_vars
    PROVE  Rest' /\ (Steady \/ Closed \/ Connect \/ \E e, n : Leave(e, n))
  <1>1. CASE Handlers BY <1>1, HandlersInv
  <1>2. CASE Continue BY <1>2, ContinueInv, StepInv
  <1>3. ws \in WsType /\ Same(ws, ws) /\ SameReason(ws, ws)
    BY SameUpdates, ReasonKept DEF TypeOK
  <1>4. CASE Expire BY <1>3, <1>4, SameInv DEF Expire
  <1>5. CASE SendCheck BY <1>3, <1>5, SameInv DEF SendCheck
  <1>6. CASE SendPut
    <2>1. Same(ws', ws) /\ SameReason(ws', ws)
      <3>1. CASE ws' = ws BY <1>3, <3>1
      <3>2. ASSUME NEW m, ws' = [ws EXCEPT !.msg_out = m]
            PROVE  Same(ws', ws) /\ SameReason(ws', ws)
        BY <1>3, <3>2, SameUpdates, ReasonKept
      <3> QED BY <1>6, <3>1, <3>2 DEF SendPut
    <2> QED BY <1>6, <2>1, SameInv DEF SendPut
  <1>7. CASE UNCHANGED vars BY <1>3, <1>7, SameInv DEF vars
  <1> QED BY <1>1, <1>2, <1>4, <1>5, <1>6, <1>7 DEF Next

\* What the router's handlers, the state machine, the clock and the
\* application's threads keep in every reachable state.
THEOREM InvCorrect == Spec => []IInv
  <1>1. Init => Rest
    <2> SUFFICES ASSUME Init PROVE Rest OBVIOUS
    <2>1. evq = << >> /\ task = "idle" BY DEF Init
    <2>2. /\ ws.ctx /\ ws.state = "Disconnected" /\ ws.timer_id = FALSE
          /\ ws.armed = 0 /\ ws.audio_pipe = FALSE
          /\ ws.streamEnds = 0 /\ ws.sessionEnds = 0
      BY DEF Init, WsInit
    <2>3. ~Beginning BY <2>1 DEF Beginning
    <2>4. QueueShape /\ EndedOnce /\ BeginsIdle /\ Leaving
      BY <2>1, <2>2, <2>3 DEF QueueShape, EndedOnce, BeginsIdle, Leaving
    <2>5. Ending /\ Terminated /\ TimerHeld
      BY <2>1, <2>2 DEF Ending, Terminated, TimerHeld, TimedStates
    <2>6. ConnHeld BY <2>1, <2>2, QueueFacts DEF ConnHeld
    <2>7. Usable BY <2>2 DEF Usable, EstablishedStates
    <2> QED BY <2>4, <2>5, <2>6, <2>7 DEF Rest
  <1>2. TypeOK /\ Rest /\ [Next]_vars => Rest' BY NextInv
  <1>3. TypeOK /\ Rest => IInv BY DEF Rest, IInv
  <1> QED BY <1>1, <1>2, <1>3, TypeCorrect, PTL DEF Spec

\* A session ends its stream once and then itself once, in every run.
THEOREM EndedOnceCorrect == Spec => []EndedOnce
  <1>1. IInv => EndedOnce BY DEF IInv
  <1> QED BY <1>1, InvCorrect, PTL

\* The router never reads or writes a connection or a socket that is not
\* there, and a destination holds its audio pipe only while it streams.
THEOREM UsableCorrect == Spec => []Usable
  <1>1. IInv => Usable BY DEF IInv
  <1> QED BY <1>1, InvCorrect, PTL

\* No timer is lost and none is left behind: the timer library holds the one
\* that timer_id names, between handlers exactly in the states that wait.
THEOREM TimerCorrect == Spec => []TimerMatchesState
  <1>1. IInv => TimerMatchesState
    <2> SUFFICES ASSUME IInv PROVE TimerMatchesState OBVIOUS
    <2>1. TypeOK /\ Rest BY DEF IInv, Rest
    <2>2. ASSUME task = "idle"
          PROVE  ws.timer_id <=> ws.state \in TimedStates
      BY <2>1, <2>2, QuietFacts DEF Quiet, Rest, TimerHeld, TypeOK, WsType
    <2> QED BY <2>1, <2>2 DEF Rest, TimerHeld, TimerMatchesState
  <1> QED BY <1>1, InvCorrect, PTL

\* Terminating a connection ends its session before the call returns.
THEOREM TerminateCorrect == Spec => []TerminateDisconnects
  <1>1. IInv => TerminateDisconnects
    <2> SUFFICES ASSUME IInv, task \in {"terminate", "term"}, evq = << >>
                 PROVE  /\ ws.state = "Disconnected"
                        /\ task = "terminate" =>
                             ws.session_end_reason = "TERMINATE"
      BY DEF TerminateDisconnects
    <2>1. evq \notin {<<"TERMINATE">>, <<"EOS_PIPE", "TERMINATE">>,
                      <<"DISCONNECTED">>}
      BY QueueFacts
    <2> QED BY <2>1 DEF IInv, Ending, Leaving
  <1> QED BY <1>1, InvCorrect, PTL

\* The state machine's queue never holds more than two events.
THEOREM QueueCorrect == Spec => []QueueBounded
  <1>1. IInv => QueueBounded
    <2>1. CASE evq = << >> BY <2>1 DEF QueueBounded
    <2>2. ASSUME NEW e, evq = <<e>> PROVE QueueBounded
      BY <2>2 DEF QueueBounded
    <2>3. ASSUME NEW e, evq = <<"EOS_PIPE", e>> PROVE QueueBounded
      BY <2>3 DEF QueueBounded
    <2> QED BY <2>1, <2>2, <2>3 DEF IInv, QueueShape
  <1> QED BY <1>1, InvCorrect, PTL

-----------------------------------------------------------------------------
(* The session's reason, and the contract of every destination.            *)

\* A connection is closed with its session's reasons set.
FreshHeld == ws.state = "Disconnecting" => ws.fresh

LEMMA FreshStep ==
    ASSUME TypeOK, Rest, FreshHeld, [Next]_vars
    PROVE  FreshHeld' /\ (ws'.sessionEnds > ws.sessionEnds => ws'.fresh)
  <1>1. CASE Steady
    <2>1. ws.sessionEnds \in Nat BY DEF TypeOK, WsType
    <2> QED BY <1>1, <2>1 DEF Steady, FreshHeld
  <1>2. CASE Closed BY <1>2 DEF Closed, FreshHeld
  <1>3. CASE Connect
    <2>1. /\ ws.sessionEnds \in Nat /\ ws'.sessionEnds = 0
          /\ ws'.state = "Disconnected"
      BY <1>3 DEF Connect, Idle, TypeOK, WsType
    <2> QED BY <2>1 DEF FreshHeld
  <1>4. ASSUME NEW e, NEW n, Leave(e, n)
        PROVE  FreshHeld' /\ (ws'.sessionEnds > ws.sessionEnds => ws'.fresh)
    <2>1. ws'.state = n /\ n # ws.state BY <1>4, LeaveMoves DEF Leave
    <2>2. n \in {"Disconnected", "Disconnecting"} => ws'.fresh
      BY <1>4, LeaveMoves DEF FreshHeld
    <2>3. n # "Disconnected" => ws'.sessionEnds = 0
      BY <2>1, NextInv DEF Rest, EndedOnce
    <2>4. ws.sessionEnds \in Nat BY DEF TypeOK, WsType
    <2> QED BY <2>1, <2>2, <2>3, <2>4 DEF FreshHeld
  <1> QED BY <1>1, <1>2, <1>3, <1>4, NextInv

\* A session ends with a reason that was set in that session, never with one
\* left over from the session before.
THEOREM ReasonCorrect == Spec => ReasonOfThisSession
  <1>1. Init => FreshHeld BY DEF Init, WsInit, FreshHeld
  <1>2. IInv => TypeOK /\ Rest BY DEF IInv, Rest
  <1>3. IInv /\ FreshHeld /\ [Next]_vars =>
          FreshHeld' /\ (ws'.sessionEnds > ws.sessionEnds => ws'.fresh)
    BY <1>2, FreshStep
  <1>4. IInv /\ FreshHeld /\ [Next]_vars =>
          [ws'.sessionEnds > ws.sessionEnds => ws'.fresh]_vars
    BY <1>3
  <1> QED BY <1>1, <1>3, <1>4, InvCorrect, PTL DEF Spec, ReasonOfThisSession

\* Where the router sees a session that is not idle or about to begin.
LEMMA PhaseOf ==
    ASSUME TypeOK, Rest
    PROVE  /\ ws.state \in {"Buffering", "Connecting", "Connected",
                            "Connection_Retry"} =>
                Phase = "opening" /\ ws.streamEnds = 0 /\ ws.sessionEnds = 0
           /\ ws.state \in {"Streaming", "TextOnlySession"} =>
                Phase = "streaming" /\ ws.streamEnds = 0 /\ ws.sessionEnds = 0
           /\ ws.state \in {"Established", "Disconnecting"} =>
                Phase = "draining" /\ ws.streamEnds = 1 /\ ws.sessionEnds = 0
           /\ ws.state = "Disconnected" =>
                /\ ws.sessionEnds = ws.streamEnds
                /\ Beginning => Phase = "opening" /\ ws.streamEnds = 0
                /\ ~Beginning => Phase = "idle"
  BY DEF Rest, EndedOnce, BeginsIdle, Phase

\* Every step of the connection is one of the contract, or invisible.
LEMMA AbstractStep ==
    ASSUME TypeOK, Rest, TypeOK', Rest', [Next]_vars
    PROVE  [Abstract!Next]_(Abstract!vars)
  <1> USE DEF Abstract!Next, Abstract!vars, Abstract!Begin, Abstract!StartStream,
              Abstract!EndStream, Abstract!EndSession, Abstract!Abort
  <1> DEFINE Opening == {"Buffering", "Connecting", "Connected",
                         "Connection_Retry"}
             Flowing == {"Streaming", "TextOnlySession"}
  <1>1. CASE Steady BY <1>1 DEF Steady, Phase
  <1>2. CASE Closed
    <2>1. Phase = "opening" /\ ws.streamEnds = 0 /\ ws.sessionEnds = 0
      BY <1>2, PhaseOf DEF Closed
    <2>2. ~Beginning' BY <1>2 DEF Rest, BeginsIdle, Closed
    <2>3. Phase' = "idle" BY <1>2, <2>2 DEF Phase, Closed
    <2> QED BY <1>2, <2>1, <2>3 DEF Closed
  <1>3. CASE Connect
    <2>1. ws.state = "Disconnected" /\ ~Beginning
      BY <1>3, QuietFacts DEF Connect, Idle, Quiet
    <2>2. Phase = "idle" BY <2>1, PhaseOf
    <2>3. /\ ws'.state = "Disconnected" /\ ws'.streamEnds = 0
          /\ ws'.sessionEnds = 0
      BY <1>3, <2>1 DEF Connect, TypeOK, WsType
    <2>4. Beginning' BY <1>3, ConnectInv
    <2>5. Phase' = "opening" BY <2>3, <2>4 DEF Phase
    <2> QED BY <2>2, <2>3, <2>5
  <1>4. ASSUME NEW e, NEW n, Leave(e, n)
        PROVE  [Abstract!Next]_(Abstract!vars)
    <2>1. /\ ws.state \in States /\ n \in States
          /\ e \in DOMAIN NextStates[ws.state] /\ NextStates[ws.state][e] = n
          /\ n # ws.state
      BY <1>4, LeaveEvent DEF Leave
    <2>2. ws'.state = n BY <1>4, LeaveMoves
    <2>7. Edge(ws.state, e, n) BY <1>4, LeaveEdge
    <2>3. CASE n \in Opening
      <3>1. Phase' = "opening" /\ ws'.streamEnds = 0 /\ ws'.sessionEnds = 0
        BY <2>2, <2>3 DEF Rest, EndedOnce, Phase
      <3>2. ws.state \in Opening \/ (ws.state = "Disconnected" /\ Beginning)
        <4>1. ws.state \in Opening \cup {"Disconnected"}
          BY <2>3, <2>7 DEF Edge
        <4>2. ws.state = "Disconnected" => Beginning
          BY <1>4, <2>7, LeaveEvent DEF Edge, One
        <4> QED BY <4>1, <4>2
      <3>3. Phase = "opening" /\ ws.streamEnds = 0 /\ ws.sessionEnds = 0
        BY <3>2, PhaseOf
      <3> QED BY <3>1, <3>3
    <2>4. CASE n \in Flowing
      <3>1. Phase' = "streaming" /\ ws'.streamEnds = 0 /\ ws'.sessionEnds = 0
        BY <2>2, <2>4 DEF Rest, EndedOnce, Phase
      <3>2. ws.state \in {"Connected", "Streaming"} BY <2>4, <2>7 DEF Edge
      <3>3. /\ Phase \in {"opening", "streaming"}
            /\ ws.streamEnds = 0 /\ ws.sessionEnds = 0
        BY <3>2, PhaseOf
      <3> QED BY <3>1, <3>3
    <2>5. CASE n \in {"Established", "Disconnecting"}
      <3>1. Phase' = "draining" /\ ws'.streamEnds = 1 /\ ws'.sessionEnds = 0
        BY <2>2, <2>5 DEF Rest, EndedOnce, Phase
      <3>2. ws.state \in {"Connected", "Streaming", "TextOnlySession",
                         "Established"}
        BY <2>5, <2>7 DEF Edge
      <3>3. /\ ws.sessionEnds = 0
            /\ \/ Phase \in {"opening", "streaming"} /\ ws.streamEnds = 0
               \/ Phase = "draining" /\ ws.streamEnds = 1
        BY <3>2, PhaseOf
      <3> QED BY <3>1, <3>3
    <2>6. CASE n = "Disconnected"
      <3>1. ws'.streamEnds = 1 BY <1>4, <2>6, LeaveMoves DEF StreamOver
      <3>2. ws'.sessionEnds = 1 /\ ~Beginning'
        BY <2>2, <2>6, <3>1 DEF Rest, EndedOnce, BeginsIdle
      <3>3. Phase' = "idle" BY <2>2, <2>6, <3>2 DEF Phase
      <3>4. /\ ws.sessionEnds = 0
            /\ \/ Phase \in {"opening", "streaming"} /\ ws.streamEnds = 0
               \/ Phase = "draining" /\ ws.streamEnds = 1
        BY <2>1, <2>6, PhaseOf DEF States
      <3> QED BY <3>1, <3>2, <3>3, <3>4
    <2> QED BY <2>1, <2>3, <2>4, <2>5, <2>6 DEF States
  <1> QED BY <1>1, <1>2, <1>3, <1>4, NextInv

\* The connection implements the contract of every destination: to the
\* router it is a session that is opened, streams, drains and ends, with one
\* call of xrsr_speech_stream_end and then one of xrsr_session_end.
THEOREM ContractCorrect == Spec => Contract
  <1>1. Init => Abstract!Init
    BY DEF Init, WsInit, Abstract!Init, Phase, Beginning
  <1>2. IInv => TypeOK /\ Rest BY DEF IInv, Rest
  <1>3. IInv /\ IInv' /\ [Next]_vars => [Abstract!Next]_(Abstract!vars)
    <2> SUFFICES ASSUME IInv, IInv', [Next]_vars
                 PROVE  [Abstract!Next]_(Abstract!vars)
      OBVIOUS
    <2>1. TypeOK /\ Rest /\ TypeOK' /\ Rest' BY DEF IInv, Rest
    <2> QED BY <2>1, AbstractStep
  <1> QED BY <1>1, <1>3, InvCorrect, PTL DEF Spec, Contract, Abstract!Spec
=============================================================================
