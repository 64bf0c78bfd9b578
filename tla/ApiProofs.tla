------------------------------ MODULE ApiProofs -----------------------------
(***************************************************************************)
(* What holds of the blocking functions and the router's loop for any       *)
(* number of threads, any capacity of the message queue and any time-outs:  *)
(* the types, the inductive invariant IInv of Api, and from it that every   *)
(* message can be answered, that the modes agree, and that the functions    *)
(* implement what they promise (SyncCall).                                  *)
(***************************************************************************)
EXTENDS Api, TLAPS

-----------------------------------------------------------------------------
(* Requests, messages and the queue.                                       *)

LEMMA RequestFacts ==
    /\ \A r \in Requests : r \in Replies
    /\ \A r \in Replies : /\ r.op \in Ops /\ r.power \in PowerModes
                          /\ r.privacy \in BOOLEAN
    /\ Asking("plain") \in Requests /\ Asking("plain").op = "plain"
    /\ Begin.from = "nobody" /\ Begin.req.op = "begin" /\ Begin \in Messages
  <1>1. /\ Request("privacy_get", "FULL", TRUE).op \in Ops
        /\ Request("privacy_get", "FULL", TRUE).power \in PowerModes
        /\ Request("privacy_get", "FULL", TRUE).privacy \in BOOLEAN
    BY DEF Request, Ops, PowerModes
  <1>2. \A r \in Requests : /\ r.op \in Ops /\ r.power \in PowerModes
                            /\ r.privacy \in BOOLEAN
    BY DEF Requests
  <1>3. Asking("plain") \in Requests /\ Asking("plain").op = "plain"
    BY DEF Asking, Request, Requests, Ops, PowerModes
  <1>4. Begin.from = "nobody" /\ Begin.req.op = "begin" /\ Begin \in Messages
    BY DEF Begin, Messages, Asking, Request
  <1> QED BY <1>1, <1>2, <1>3, <1>4 DEF Replies

LEMMA GetReplies ==
    ASSUME NEW b \in BOOLEAN
    PROVE  Request("privacy_get", "FULL", b) \in Replies
  <1>1. Request("privacy_get", "FULL", TRUE) \in Replies BY DEF Replies
  <1>2. /\ Request("privacy_get", "FULL", FALSE) = Asking("privacy_get")
        /\ Asking("privacy_get") \in Requests
    BY DEF Asking, Request, Requests, Ops, PowerModes
  <1>3. Request("privacy_get", "FULL", FALSE) \in Replies
    BY <1>2, RequestFacts
  <1> QED BY <1>1, <1>3, b = TRUE \/ b = FALSE

\* Only "nobody" sends a session begin.
LEMMA MessageFacts ==
    ASSUME NEW m \in Messages
    PROVE  /\ m.from = "nobody" => m = Begin
           /\ m.from # "nobody" => m.from \in Threads /\ m.req \in Requests
           /\ m.from \in Threads => m # Begin /\ m.req \in Requests
  <1>1. CASE m = Begin
    BY <1>1, RequestFacts, ConstantsAssumption
  <1>2. CASE m # Begin
    <2>1. m.from \in Threads /\ m.req \in Requests BY <1>2 DEF Messages
    <2> QED BY <1>2, <2>1, ConstantsAssumption
  <1> QED BY <1>1, <1>2

QueueType == [exists : BOOLEAN, msgs : Seq(Messages)]

LEMMA PushedFacts ==
    ASSUME msgq \in QueueType, Len(msgq.msgs) <= MsgqMax, NEW m \in Messages
    PROVE  LET q == Pushed(m)
           IN  /\ q \in QueueType /\ Len(q.msgs) <= MsgqMax
               /\ q.exists = msgq.exists
               /\ q.msgs = msgq.msgs
                  \/ (msgq.exists /\ q.msgs = Append(msgq.msgs, m))
  <1>1. CASE msgq.exists /\ Len(msgq.msgs) < MsgqMax
    <2> DEFINE a == Append(msgq.msgs, m)
               q == [msgq EXCEPT !.msgs = a]
    <2>1. msgq.msgs \in Seq(Messages) BY DEF QueueType
    <2>2. a \in Seq(Messages) /\ Len(a) = Len(msgq.msgs) + 1 BY <2>1
    <2>3. Len(a) <= MsgqMax BY <1>1, <2>1, <2>2, ConstantsAssumption
    <2>4. Pushed(m) = q BY <1>1 DEF Pushed
    <2>5. a = Append(msgq.msgs, m) OBVIOUS
    <2> HIDE DEF a
    <2>6. q \in QueueType /\ q.msgs = a /\ q.exists = msgq.exists
      BY <2>2 DEF QueueType
    <2> QED BY <1>1, <2>3, <2>4, <2>5, <2>6
  <1>2. CASE ~(msgq.exists /\ Len(msgq.msgs) < MsgqMax)
    BY <1>2 DEF Pushed
  <1> QED BY <1>1, <1>2

\* What is in a queue to which a message was added, or from which one was
\* taken.
LEMMA AppendFacts ==
    ASSUME NEW s \in Seq(Messages), NEW m \in Messages, NEW a, a = Append(s, m)
    PROVE  /\ DOMAIN a = 1 .. Len(s) + 1 /\ DOMAIN s = 1 .. Len(s)
           /\ \A i \in 1 .. Len(s) : a[i] = s[i]
           /\ a[Len(s) + 1] = m
  OBVIOUS

LEMMA TailFacts ==
    ASSUME NEW s \in Seq(Messages), s # << >>, NEW a, a = Tail(s)
    PROVE  /\ a \in Seq(Messages) /\ Len(a) = Len(s) - 1
           /\ DOMAIN a = 1 .. Len(s) - 1 /\ DOMAIN s = 1 .. Len(s)
           /\ \A i \in 1 .. Len(s) - 1 : a[i] = s[i + 1]
           /\ 1 \in DOMAIN s /\ Head(s) = s[1]
           /\ \A i \in 1 .. Len(s) - 1 : i + 1 \in DOMAIN s /\ i + 1 # 1
  OBVIOUS

-----------------------------------------------------------------------------
(* What the steps do to the calls.                                         *)

CallRec == [pc : CallPcs, req : Replies, result : BOOLEAN]

\* The call of t is now this one; no other thread's call changes.
Becomes(t, pc, req, result) ==
    /\ call' \in [Threads -> CallRec]
    /\ call'[t] = [pc |-> pc, req |-> req, result |-> result]
    /\ call'[t].pc = pc /\ call'[t].req = req /\ call'[t].result = result
    /\ \A u \in Threads : u # t => call'[u] = call[u]

LEMMA BecomesRec ==
    ASSUME call \in [Threads -> CallRec], NEW t \in Threads, NEW x \in CallRec,
           call' = [call EXCEPT ![t] = x]
    PROVE  Becomes(t, x.pc, x.req, x.result)
  <1>1. call' \in [Threads -> CallRec] /\ call'[t] = x
        /\ \A u \in Threads : u # t => call'[u] = call[u]
    OBVIOUS
  <1>2. x = [pc |-> x.pc, req |-> x.req, result |-> x.result] BY DEF CallRec
  <1> QED BY <1>1, <1>2 DEF Becomes

LEMMA BecomesSet ==
    ASSUME call \in [Threads -> CallRec], NEW t \in Threads,
           NEW pc \in CallPcs, NEW req \in Replies, NEW result \in BOOLEAN,
           call' = [call EXCEPT ![t] = [pc |-> pc, req |-> req,
                                        result |-> result]]
    PROVE  Becomes(t, pc, req, result)
  <1> DEFINE x == [pc |-> pc, req |-> req, result |-> result]
  <1>1. /\ x \in CallRec /\ x.pc = pc /\ x.req = req /\ x.result = result
    BY DEF CallRec
  <1>2. call' = [call EXCEPT ![t] = x] OBVIOUS
  <1> HIDE DEF x
  <1>3. Becomes(t, x.pc, x.req, x.result) BY <1>1, <1>2, BecomesRec
  <1> QED BY <1>1, <1>3

LEMMA BecomesPc ==
    ASSUME call \in [Threads -> CallRec], NEW t \in Threads,
           NEW pc \in CallPcs, call' = [call EXCEPT ![t].pc = pc]
    PROVE  Becomes(t, pc, call[t].req, call[t].result)
  <1> DEFINE x == [call[t] EXCEPT !.pc = pc]
  <1>1. call[t] \in CallRec OBVIOUS
  <1>2. /\ x \in CallRec /\ x.pc = pc /\ x.req = call[t].req
        /\ x.result = call[t].result
    BY <1>1 DEF CallRec
  <1>3. call' = [call EXCEPT ![t] = x] OBVIOUS
  <1> HIDE DEF x
  <1>4. Becomes(t, x.pc, x.req, x.result) BY <1>2, <1>3, BecomesRec
  <1> QED BY <1>2, <1>4

\* A handler that answers, and one that has nobody to answer.
Replied(req, result) ==
    LET m == router.msg IN
    /\ m.from \in Threads
    /\ call[m.from].pc = "waiting" /\ call[m.from].req = m.req
    /\ req.op = m.req.op /\ (req.op = "privacy_get" \/ req = m.req)
    /\ Becomes(m.from, "answered", req, result)

Unheard == router.msg.from \notin Waiting(router.msg.req) /\ call' = call

LEMMA AnswerEffect ==
    ASSUME call \in [Threads -> CallRec], NEW req \in Replies,
           NEW result \in BOOLEAN, Answer(req, result),
           req.op = router.msg.req.op,
           req.op = "privacy_get" \/ req = router.msg.req
    PROVE  Replied(req, result) \/ Unheard
  <1> DEFINE t == router.msg.from
  <1>1. CASE t \in Waiting(router.msg.req)
    <2>1. /\ t \in Threads /\ call[t].pc = "waiting"
          /\ call[t].req = router.msg.req
      BY <1>1 DEF Waiting
    <2>2. call' = [call EXCEPT ![t] = [pc |-> "answered", req |-> req,
                                       result |-> result]]
      BY <1>1 DEF Answer
    <2>3. Becomes(t, "answered", req, result)
      BY <2>1, <2>2, BecomesSet DEF CallPcs
    <2> QED BY <2>1, <2>3 DEF Replied
  <1>2. CASE t \notin Waiting(router.msg.req)
    BY <1>2 DEF Answer, Unheard
  <1> QED BY <1>1, <1>2

\* What the handlers have in common.
Handles ==
    /\ router.pc = "handling"
    /\ router'.pc \in {"loop", "leaving"} /\ router'.msg = Begin
    /\ UNCHANGED <<g_xrsr, msgq>>
    /\ \/ \E req \in Replies, result \in BOOLEAN : Replied(req, result)
       \/ Unheard

ObjType == [exists : BOOLEAN, power : PowerModes, privacy : BOOLEAN,
            failed : BOOLEAN]
TimerType == [state : {"none", "armed", "expired"}, wait : Int]

\* A handled message of one of these functions has a caller's request.
LEMMA HandlingFacts ==
    ASSUME TypeOK, NEW ops \in SUBSET Ops, Handling(ops)
    PROVE  /\ router.pc = "handling"
           /\ router'.pc \in {"loop", "leaving"} /\ router'.msg = Begin
           /\ router' \in [pc : RouterPcs, msg : Messages]
           /\ UNCHANGED <<g_xrsr, msgq>>
           /\ router.msg.req \in Requests /\ router.msg.req \in Replies
           /\ router.msg.req.power \in PowerModes
           /\ router.msg.req.privacy \in BOOLEAN
           /\ call \in [Threads -> CallRec]
  <1>1. router.msg \in Messages /\ call \in [Threads -> CallRec]
    BY DEF TypeOK, CallRec
  <1>2. router.msg # Begin
    BY RequestFacts DEF Handling, Ops
  <1>3. router.msg.req \in Requests BY <1>1, <1>2, MessageFacts
  <1>4. /\ router'.pc \in {"loop", "leaving"} /\ router'.msg = Begin
        /\ router' \in [pc : RouterPcs, msg : Messages]
    BY RequestFacts DEF Handling, RouterPcs
  <1> QED BY <1>1, <1>3, <1>4, RequestFacts DEF Handling

\* What a handler that answers with its request does.
LEMMA PlainAnswer ==
    ASSUME TypeOK, NEW ops \in SUBSET Ops, Handling(ops),
           \E result \in BOOLEAN : Answer(router.msg.req, result)
    PROVE  Handles
  <1>1. PICK result \in BOOLEAN : Answer(router.msg.req, result) OBVIOUS
  <1>2. Replied(router.msg.req, result) \/ Unheard
    BY <1>1, AnswerEffect, HandlingFacts
  <1> QED BY <1>2, HandlingFacts DEF Handles

LEMMA HandleEffect ==
    ASSUME TypeOK, Handle
    PROVE  /\ Handles
           /\ obj' \in ObjType /\ obj'.exists = obj.exists
           /\ timer' \in TimerType
           /\ router' \in [pc : RouterPcs, msg : Messages]
  <1>0. obj \in ObjType /\ timer \in TimerType
    BY DEF TypeOK, ObjType, TimerType
  <1>1. NoTimer \in TimerType BY DEF NoTimer, TimerType
  <1>2. CASE HandleBegin
    <2>1. router.msg \in Messages /\ router.msg.req.op = "begin"
      BY <1>2 DEF HandleBegin, Handling, TypeOK
    <2>2. router.msg.from \notin Threads
      BY <2>1, MessageFacts, RequestFacts DEF Ops
    <2>3. Unheard BY <1>2, <2>2 DEF HandleBegin, Unheard, Waiting
    <2>4. /\ router.pc = "handling"
          /\ router'.pc = "loop" /\ router'.msg = Begin
          /\ UNCHANGED <<g_xrsr, msgq>>
          /\ router' \in [pc : RouterPcs, msg : Messages]
      BY <1>2, <2>1, RequestFacts DEF HandleBegin, Handling, RouterPcs
    <2>5. timer' \in TimerType /\ obj' = obj
      BY <1>0, <1>2, ConstantsAssumption DEF HandleBegin, TimerType
    <2> QED BY <1>0, <2>3, <2>4, <2>5 DEF Handles
  <1>3. CASE HandlePlain
    <2>1. Handling({"plain", "terminate", "open"})
          /\ Answer(router.msg.req, TRUE) /\ MayTerminate /\ obj' = obj
      BY <1>3 DEF HandlePlain
    <2>2. {"plain", "terminate", "open"} \in SUBSET Ops BY DEF Ops
    <2>3. Handles BY <2>1, <2>2, PlainAnswer
    <2> QED BY <1>0, <1>1, <2>1, <2>2, <2>3, HandlingFacts DEF MayTerminate
  <1>4. CASE HandleTerminate
    <2>1. Handling({"close"}) /\ Answer(router.msg.req, TRUE)
          /\ UNCHANGED <<obj, timer>>
      BY <1>4 DEF HandleTerminate
    <2>2. {"close"} \in SUBSET Ops BY DEF Ops
    <2>3. Handles BY <2>1, <2>2, PlainAnswer
    <2> QED BY <1>0, <2>1, <2>2, <2>3, HandlingFacts
  <1>5. CASE HandlePower
    <2>1. Handling({"power"}) BY <1>5 DEF HandlePower
    <2>2. {"power"} \in SUBSET Ops BY DEF Ops
    <2>3. \E result \in BOOLEAN : Answer(router.msg.req, result)
      BY <1>5 DEF HandlePower
    <2>4. Handles BY <2>1, <2>2, <2>3, PlainAnswer
    <2>5. obj' \in ObjType /\ obj'.exists = obj.exists
      <3>1. router.msg.req.power \in PowerModes BY <2>1, <2>2, HandlingFacts
      <3>2. \/ obj' = obj
            \/ obj' = [obj EXCEPT !.failed = FALSE]
            \/ \E result \in BOOLEAN :
                 obj' = [obj EXCEPT !.power = router.msg.req.power,
                                    !.failed = ~result]
        BY <1>5 DEF HandlePower
      <3> QED BY <1>0, <3>1, <3>2 DEF ObjType
    <2>6. timer' \in TimerType
      BY <1>0, <1>1, <1>5 DEF HandlePower, MayTerminate
    <2> QED BY <2>1, <2>2, <2>4, <2>5, <2>6, HandlingFacts
  <1>6. CASE HandlePrivacy
    <2>1. Handling({"privacy"}) /\ timer' = timer BY <1>6 DEF HandlePrivacy
    <2>2. {"privacy"} \in SUBSET Ops BY DEF Ops
    <2>3. \E result \in BOOLEAN : Answer(router.msg.req, result)
      BY <1>6 DEF HandlePrivacy
    <2>4. Handles BY <2>1, <2>2, <2>3, PlainAnswer
    <2>5. obj' \in ObjType /\ obj'.exists = obj.exists
      <3>1. router.msg.req.privacy \in BOOLEAN BY <2>1, <2>2, HandlingFacts
      <3>2. \/ obj' = obj
            \/ obj' = [obj EXCEPT !.privacy = router.msg.req.privacy]
        BY <1>6 DEF HandlePrivacy
      <3> QED BY <1>0, <3>1, <3>2 DEF ObjType
    <2> QED BY <1>0, <2>1, <2>2, <2>4, <2>5, HandlingFacts
  <1>7. CASE HandlePrivacyGet
    <2>1. Handling({"privacy_get"}) /\ timer' = timer
      BY <1>7 DEF HandlePrivacyGet
    <2>2. {"privacy_get"} \in SUBSET Ops BY DEF Ops
    <2>3. router.msg.req.op = "privacy_get" BY <2>1 DEF Handling
    <2>4. CASE Answer(router.msg.req, FALSE) /\ obj' = obj
      <3>1. Handles BY <2>1, <2>2, <2>4, PlainAnswer
      <3> QED BY <1>0, <2>1, <2>2, <2>4, <3>1, HandlingFacts
    <2>5. ASSUME NEW b \in BOOLEAN,
                 Answer(Request("privacy_get", "FULL", b), TRUE),
                 obj' = IF obj.exists THEN [obj EXCEPT !.privacy = b] ELSE obj
          PROVE  Handles /\ obj' \in ObjType /\ obj'.exists = obj.exists
      <3>1. obj' \in ObjType /\ obj'.exists = obj.exists
        BY <1>0, <2>5 DEF ObjType
      <3> DEFINE r == Request("privacy_get", "FULL", b)
      <3>2. r \in Replies /\ r.op = "privacy_get"
        BY GetReplies DEF Request
      <3> HIDE DEF r
      <3>3. Answer(r, TRUE) BY <2>5 DEF r
      <3>4. Replied(r, TRUE) \/ Unheard
        BY <2>1, <2>2, <2>3, <3>2, <3>3, AnswerEffect, HandlingFacts
      <3> QED BY <2>1, <2>2, <3>1, <3>2, <3>4, HandlingFacts DEF Handles
    <2> QED BY <1>0, <1>7, <2>1, <2>2, <2>4, <2>5, HandlingFacts
            DEF HandlePrivacyGet
  <1> QED BY <1>2, <1>3, <1>4, <1>5, <1>6, <1>7 DEF Handle

-----------------------------------------------------------------------------
(* The types, and what each of the other steps does.                       *)

GType == [opened : BOOLEAN, power_mode : PowerModes, privacy_mode : BOOLEAN]

\* The queue takes m, or stays as it is.
Takes(m) ==
    /\ msgq' \in QueueType /\ Len(msgq'.msgs) <= MsgqMax
    /\ msgq'.exists = msgq.exists
    /\ msgq'.msgs = msgq.msgs
       \/ (msgq.exists /\ msgq'.msgs = Append(msgq.msgs, m))

LEMMA TypeFacts ==
    ASSUME TypeOK
    PROVE  /\ g_xrsr \in GType /\ obj \in ObjType /\ timer \in TimerType
           /\ msgq \in QueueType /\ msgq.msgs \in Seq(Messages)
           /\ msgq.exists \in BOOLEAN /\ Len(msgq.msgs) <= MsgqMax
           /\ call \in [Threads -> CallRec]
           /\ \A t \in Threads : /\ call[t] \in CallRec
                                 /\ call[t].req \in Replies
                                 /\ call[t].result \in BOOLEAN
           /\ router \in [pc : RouterPcs, msg : Messages]
           /\ router.pc \in RouterPcs /\ router.msg \in Messages
           /\ Owner \in Threads
  <1>1. g_xrsr \in GType /\ obj \in ObjType /\ timer \in TimerType
    BY DEF TypeOK, GType, ObjType, TimerType
  <1>2. msgq \in QueueType /\ Len(msgq.msgs) <= MsgqMax
    BY DEF TypeOK, QueueType
  <1>3. call \in [Threads -> CallRec] BY DEF TypeOK, CallRec
  <1>4. \A t \in Threads : /\ call[t] \in CallRec /\ call[t].req \in Replies
                           /\ call[t].result \in BOOLEAN
    BY <1>3 DEF CallRec
  <1>5. router \in [pc : RouterPcs, msg : Messages] BY DEF TypeOK
  <1>6. msgq.msgs \in Seq(Messages) /\ msgq.exists \in BOOLEAN
    BY <1>2 DEF QueueType
  <1> QED BY <1>1, <1>2, <1>3, <1>4, <1>5, <1>6, ConstantsAssumption

LEMMA TypeFrom ==
    ASSUME g_xrsr' \in GType, obj' \in ObjType, timer' \in TimerType,
           msgq' \in QueueType, Len(msgq'.msgs) <= MsgqMax,
           call' \in [Threads -> CallRec],
           router' \in [pc : RouterPcs, msg : Messages]
    PROVE  TypeOK'
  BY DEF TypeOK, GType, ObjType, TimerType, QueueType, CallRec

LEMMA SendEffect ==
    ASSUME TypeOK, Asks, NEW t \in Threads, Send(t)
    PROVE  LET m == [from |-> t, req |-> call[t].req]
           IN  /\ call[t].pc = "sending" /\ m \in Messages /\ call[t].req \in Requests
               /\ m.from = t /\ m.req = call[t].req
               /\ Takes(m)
               /\ Becomes(t, "waiting", call[t].req, call[t].result)
               /\ UNCHANGED <<g_xrsr, obj, router, timer>>
  <1> DEFINE m == [from |-> t, req |-> call[t].req]
  <1>1. call[t].req \in Requests BY DEF Asks, Send
  <1>2. m \in Messages /\ m.from = t /\ m.req = call[t].req
    BY <1>1 DEF Messages
  <1>3. msgq' = Pushed(m) BY DEF Send
  <1> HIDE DEF m
  <1>4. Takes(m) BY <1>2, <1>3, PushedFacts, TypeFacts DEF Takes
  <1>5. Becomes(t, "waiting", call[t].req, call[t].result)
    BY BecomesPc, TypeFacts DEF Send, CallPcs
  <1> QED BY <1>1, <1>2, <1>4, <1>5 DEF Send, m

LEMMA CallEffect ==
    ASSUME TypeOK, NEW t \in Threads, Call(t)
    PROVE  /\ call[t].pc = "idle"
           /\ \E req \in Requests : /\ Sends(t, req)
                                    /\ Becomes(t, "sending", req, FALSE)
           /\ UNCHANGED <<g_xrsr, obj, msgq, router, timer>>
  <1>1. PICK req \in Requests :
          /\ Sends(t, req)
          /\ call' = [call EXCEPT ![t] = [pc |-> "sending", req |-> req,
                                          result |-> FALSE]]
    BY DEF Call
  <1>2. req \in Replies BY RequestFacts
  <1>3. Becomes(t, "sending", req, FALSE)
    BY <1>1, <1>2, BecomesSet, TypeFacts DEF CallPcs
  <1> QED BY <1>1, <1>3 DEF Call

LEMMA IdleEffect ==
    ASSUME TypeOK, NEW t \in Threads, call' = [call EXCEPT ![t] = Idle]
    PROVE  Becomes(t, "idle", Asking("plain"), FALSE) /\ call'[t] = Idle
  <1>1. /\ Idle.pc = "idle" /\ Idle.req = Asking("plain")
        /\ Idle.result = FALSE
    BY DEF Idle
  <1>2. Asking("plain") \in Replies BY RequestFacts
  <1>3. Idle \in CallRec BY <1>2 DEF Idle, CallRec, CallPcs
  <1>4. Becomes(t, Idle.pc, Idle.req, Idle.result)
    BY <1>3, BecomesRec, TypeFacts
  <1> QED BY <1>1, <1>4, TypeFacts

LEMMA KeptType ==
    ASSUME g_xrsr \in GType, NEW c \in CallRec
    PROVE  Kept(c) \in GType
  <1>1. c.req.power \in PowerModes /\ c.req.privacy \in BOOLEAN
    BY RequestFacts DEF CallRec
  <1> QED BY <1>1 DEF Kept, GType

LEMMA OpenEffect ==
    ASSUME TypeOK, Open
    PROVE  /\ call[Owner].pc = "idle" /\ ~g_xrsr.opened
           /\ router.pc \in {"none", "ended"} /\ router'.pc = "starting"
           /\ router' \in [pc : RouterPcs, msg : Messages]
           /\ obj' \in ObjType /\ obj'.exists = TRUE
           /\ \E req \in Requests :
                /\ req.op = "open" /\ req.power = obj'.power
                /\ req.privacy = obj'.privacy
                /\ Becomes(Owner, "starting", req, FALSE)
           /\ msgq' \in QueueType /\ msgq'.msgs = << >> /\ msgq'.exists = TRUE
           /\ Len(msgq'.msgs) <= MsgqMax
           /\ UNCHANGED <<g_xrsr, timer>>
  <1>1. PICK p \in PowerModes, b \in BOOLEAN :
          /\ obj' = [exists |-> TRUE, power |-> p, privacy |-> b,
                     failed |-> FALSE]
          /\ call' = [call EXCEPT ![Owner] =
                        [pc |-> "starting", req |-> Request("open", p, b),
                         result |-> FALSE]]
    BY DEF Open
  <1> DEFINE req == Request("open", p, b)
  <1>2. /\ req \in Requests /\ req.op = "open" /\ req.power = p
        /\ req.privacy = b
    BY DEF Request, Requests, Ops
  <1>3. /\ obj' \in ObjType /\ obj'.exists = TRUE /\ obj'.power = p
        /\ obj'.privacy = b
    BY <1>1 DEF ObjType
  <1>4. call' = [call EXCEPT ![Owner] = [pc |-> "starting", req |-> req,
                                         result |-> FALSE]]
    BY <1>1
  <1> HIDE DEF req
  <1>5. req \in Replies BY <1>2, RequestFacts
  <1>6. Becomes(Owner, "starting", req, FALSE)
    BY <1>4, <1>5, BecomesSet, TypeFacts DEF CallPcs
  <1>7. /\ msgq' \in QueueType /\ msgq'.msgs = << >> /\ msgq'.exists = TRUE
        /\ Len(msgq'.msgs) <= MsgqMax
    BY ConstantsAssumption DEF Open, QueueType
  <1>8. /\ router'.pc = "starting"
        /\ router' \in [pc : RouterPcs, msg : Messages]
    BY TypeFacts DEF Open, RouterPcs
  <1> QED BY <1>2, <1>3, <1>6, <1>7, <1>8 DEF Open

LEMMA GiveUpEffect ==
    ASSUME TypeOK, GiveUp
    PROVE  /\ call[Owner].pc = "waiting" /\ call[Owner].req.op = "close"
           /\ Becomes(Owner, "abandoned", call[Owner].req, call[Owner].result)
           /\ UNCHANGED <<g_xrsr, obj, msgq, router, timer>>
  BY BecomesPc, TypeFacts DEF GiveUp, CallPcs

LEMMA CloseEffect ==
    ASSUME TypeOK, Close
    PROVE  /\ call[Owner].req.op = "close"
           /\ call[Owner].pc \in {"answered", "abandoned"}
           /\ msgq' \in QueueType /\ msgq'.msgs = << >> /\ msgq'.exists = FALSE
           /\ Len(msgq'.msgs) <= MsgqMax
           /\ obj' \in ObjType /\ obj'.exists = FALSE
           /\ g_xrsr' \in GType /\ g_xrsr'.opened = FALSE
           /\ Becomes(Owner, "idle", Asking("plain"), FALSE)
           /\ call'[Owner] = Idle
           /\ UNCHANGED <<router, timer>>
  <1>1. Becomes(Owner, "idle", Asking("plain"), FALSE) /\ call'[Owner] = Idle
    BY IdleEffect, ConstantsAssumption DEF Close
  <1>2. /\ msgq' \in QueueType /\ msgq'.msgs = << >> /\ msgq'.exists = FALSE
        /\ Len(msgq'.msgs) <= MsgqMax
    BY ConstantsAssumption DEF Close, QueueType
  <1>3. obj' \in ObjType /\ obj'.exists = FALSE
    BY DEF Close, NoObj, ObjType, PowerModes
  <1>4. g_xrsr' \in GType /\ g_xrsr'.opened = FALSE
    BY TypeFacts DEF Close, GType
  <1> QED BY <1>1, <1>2, <1>3, <1>4 DEF Close

LEMMA StartEffect ==
    ASSUME TypeOK, Start
    PROVE  /\ router.pc = "starting" /\ router'.pc = "loop"
           /\ router' \in [pc : RouterPcs, msg : Messages]
           /\ Becomes(Owner, "sending", call[Owner].req, call[Owner].result)
           /\ UNCHANGED <<g_xrsr, obj, msgq, timer>>
  <1>1. router'.pc = "loop" /\ router' \in [pc : RouterPcs, msg : Messages]
    BY TypeFacts DEF Start, RouterPcs
  <1> QED BY <1>1, BecomesPc, TypeFacts DEF Start, CallPcs

LEMMA TakeEffect ==
    ASSUME TypeOK, Take
    PROVE  /\ router.pc = "loop" /\ router'.pc = "handling"
           /\ router' \in [pc : RouterPcs, msg : Messages]
           /\ msgq.msgs # << >> /\ router'.msg = Head(msgq.msgs)
           /\ msgq' \in QueueType /\ msgq'.msgs = Tail(msgq.msgs)
           /\ msgq'.exists = msgq.exists /\ Len(msgq'.msgs) <= MsgqMax
           /\ UNCHANGED <<g_xrsr, obj, timer, call>>
  <1> DEFINE h == Head(msgq.msgs)
             a == Tail(msgq.msgs)
  <1>1. msgq.msgs \in Seq(Messages) /\ msgq.msgs # << >>
    BY TypeFacts DEF Take
  <1>2. /\ a \in Seq(Messages) /\ Len(a) = Len(msgq.msgs) - 1
        /\ h \in Messages
    BY <1>1
  <1>3. Len(a) <= MsgqMax BY <1>1, <1>2, TypeFacts, ConstantsAssumption
  <1>4. msgq' = [msgq EXCEPT !.msgs = a] /\ router' = [pc |-> "handling", msg |-> h]
    BY DEF Take
  <1>5. h = Head(msgq.msgs) /\ a = Tail(msgq.msgs) OBVIOUS
  <1> HIDE DEF h, a
  <1>6. msgq' \in QueueType /\ msgq'.msgs = a /\ msgq'.exists = msgq.exists
    BY <1>2, <1>4, TypeFacts DEF QueueType
  <1>7. /\ router'.pc = "handling" /\ router'.msg = h
        /\ router' \in [pc : RouterPcs, msg : Messages]
    BY <1>2, <1>4 DEF RouterPcs
  <1> QED BY <1>1, <1>3, <1>5, <1>6, <1>7 DEF Take, Selecting

\* The steps that only the router's thread, or the clock, sees.
Quiet ==
    /\ UNCHANGED <<g_xrsr, obj, msgq, call>>
    /\ router' \in [pc : RouterPcs, msg : Messages]
    /\ \/ router'.pc = router.pc /\ router'.msg = router.msg
       \/ router'.pc \in {"leaving", "ended"}
    /\ timer' \in TimerType

LEMMA QuietEffect ==
    ASSUME TypeOK,
           StartFails \/ SelectFails \/ TimerFire \/ Leave \/ Tick
             \/ UNCHANGED vars
    PROVE  Quiet
  <1> USE TypeFacts
  <1>1. NoTimer \in TimerType BY DEF NoTimer, TimerType
  <1>2. CASE StartFails BY <1>2 DEF StartFails, Quiet, RouterPcs
  <1>3. CASE SelectFails BY <1>3 DEF SelectFails, Quiet, RouterPcs
  <1>4. CASE TimerFire
    <2>1. timer' \in TimerType
      BY <1>1, <1>4, ConstantsAssumption DEF TimerFire, TimerType
    <2> QED BY <1>4, <2>1 DEF TimerFire, Quiet
  <1>5. CASE Leave BY <1>1, <1>5 DEF Leave, Quiet, RouterPcs
  <1>6. CASE Tick
    <2>1. timer' \in TimerType BY <1>6 DEF Tick, TimerType
    <2> QED BY <1>6, <2>1 DEF Tick, Quiet
  <1>7. CASE UNCHANGED vars BY <1>7 DEF vars, Quiet
  <1> QED BY <1>2, <1>3, <1>4, <1>5, <1>6, <1>7

\* The steps, one disjunct for each lemma above.
LEMMA NextCases ==
    ASSUME [Next]_vars
    PROVE  \/ \E t \in Threads : Call(t) \/ Send(t) \/ Return(t)
           \/ Open \/ GiveUp \/ Close \/ SessionRequest \/ Start \/ Take \/ Handle
           \/ StartFails \/ SelectFails \/ TimerFire \/ Leave \/ Tick
           \/ UNCHANGED vars
  BY DEF Next, Proceed

LEMMA TypeStep ==
    ASSUME TypeOK, Asks, [Next]_vars
    PROVE  TypeOK'
  <1> USE TypeFacts, TypeFrom
  <1>1. ASSUME NEW t \in Threads, Call(t) PROVE TypeOK'
    BY <1>1, CallEffect DEF Becomes
  <1>2. ASSUME NEW t \in Threads, Send(t) PROVE TypeOK'
    BY <1>2, SendEffect DEF Becomes, Takes
  <1>3. ASSUME NEW t \in Threads, Return(t) PROVE TypeOK'
    <2>1. g_xrsr' \in GType BY <1>3, KeptType DEF Return
    <2>2. call' = [call EXCEPT ![t] = Idle]
          /\ UNCHANGED <<obj, msgq, router, timer>>
      BY <1>3 DEF Return
    <2>3. Becomes(t, "idle", Asking("plain"), FALSE) BY <2>2, IdleEffect
    <2> QED BY <2>1, <2>2, <2>3 DEF Becomes
  <1>4. CASE Open BY <1>4, OpenEffect DEF Becomes
  <1>5. CASE GiveUp BY <1>5, GiveUpEffect DEF Becomes
  <1>6. CASE Close BY <1>6, CloseEffect DEF Becomes
  <1>7. CASE SessionRequest
    <2>1. msgq' = Pushed(Begin) /\ UNCHANGED <<g_xrsr, obj, router, timer, call>>
      BY <1>7 DEF SessionRequest
    <2>2. msgq' \in QueueType /\ Len(msgq'.msgs) <= MsgqMax
      BY <2>1, PushedFacts, RequestFacts
    <2> QED BY <2>1, <2>2
  <1>8. CASE Start BY <1>8, StartEffect DEF Becomes
  <1>9. CASE Take BY <1>9, TakeEffect
  <1>10. CASE Handle
    <2>1. /\ obj' \in ObjType /\ timer' \in TimerType
          /\ router' \in [pc : RouterPcs, msg : Messages]
          /\ Handles
      BY <1>10, HandleEffect
    <2>2. call' \in [Threads -> CallRec] /\ UNCHANGED <<g_xrsr, msgq>>
      BY <2>1 DEF Handles, Replied, Unheard, Becomes
    <2> QED BY <2>1, <2>2
  <1>11. CASE Quiet BY <1>11 DEF Quiet
  <1> QED BY <1>1, <1>2, <1>3, <1>4, <1>5, <1>6, <1>7, <1>8, <1>9, <1>10, <1>11,
             NextCases, QuietEffect

-----------------------------------------------------------------------------
(* Who calls what.                                                         *)

LEMMA AsksStep ==
    ASSUME TypeOK, Asks, Roles, [Next]_vars
    PROVE  Asks'
  <1>1. ASSUME NEW t \in Threads, Call(t) PROVE Asks'
    BY <1>1, CallEffect DEF Asks, Becomes
  <1>2. ASSUME NEW t \in Threads, Send(t) PROVE Asks'
    BY <1>2, SendEffect DEF Asks, Becomes
  <1>3. ASSUME NEW t \in Threads, Return(t) PROVE Asks'
    BY <1>3, IdleEffect, RequestFacts DEF Asks, Becomes, Return
  <1>4. CASE Open BY <1>4, OpenEffect DEF Asks, Becomes
  <1>5. CASE GiveUp BY <1>5, GiveUpEffect, TypeFacts DEF Asks, Becomes
  <1>6. CASE Close BY <1>6, CloseEffect, RequestFacts DEF Asks, Becomes
  <1>7. CASE SessionRequest BY <1>7 DEF SessionRequest, Asks
  <1>8. CASE Start
    <2>1. call[Owner].pc = "starting" BY <1>8 DEF Start, Roles
    <2> QED BY <1>8, <2>1, StartEffect, TypeFacts DEF Asks, Becomes
  <1>9. CASE Take BY <1>9, TakeEffect DEF Asks
  <1>10. CASE Handle
    BY <1>10, HandleEffect DEF Handles, Replied, Unheard, Asks, Becomes
  <1>11. CASE Quiet BY <1>11 DEF Quiet, Asks
  <1> QED BY <1>1, <1>2, <1>3, <1>4, <1>5, <1>6, <1>7, <1>8, <1>9, <1>10, <1>11,
             NextCases, QuietEffect

\* What Roles says of one call.
Role(t) ==
    /\ call[t].req.op \in {"open", "close"} => t = Owner
    /\ call[t].req.op \in {"power", "privacy", "privacy_get"} => t \in Setters
    /\ call[t].pc = "idle" => call[t] = Idle
    /\ call[t].pc = "abandoned" => call[t].req.op = "close"

LEMMA RolesOf ==
    /\ Roles <=> /\ \A t \in Threads : Role(t)
                 /\ router.pc = "starting" => call[Owner].pc = "starting"
    /\ Roles' <=> /\ \A t \in Threads : Role(t)'
                  /\ router'.pc = "starting" => call'[Owner].pc = "starting"
  BY DEF Roles, Role

\* One call changes.
LEMMA RoleBecomes ==
    ASSUME Roles, NEW t \in Threads, NEW pc, NEW req, NEW result,
           Becomes(t, pc, req, result),
           req.op \in {"open", "close"} => t = Owner,
           req.op \in {"power", "privacy", "privacy_get"} => t \in Setters,
           pc = "idle" => call'[t] = Idle,
           pc = "abandoned" => req.op = "close",
           router'.pc = "starting" => call'[Owner].pc = "starting"
    PROVE  Roles'
  <1>1. ASSUME NEW u \in Threads PROVE Role(u)'
    <2>1. CASE u = t BY <2>1 DEF Becomes, Role
    <2>2. CASE u # t BY <2>2, RolesOf DEF Becomes, Role
    <2> QED BY <2>1, <2>2
  <1> QED BY <1>1, RolesOf

LEMMA RolesStep ==
    ASSUME TypeOK, Asks, Roles, [Next]_vars
    PROVE  Roles'
  <1> USE TypeFacts
  <1>0. /\ \A t \in Threads : Role(t)
        /\ router.pc = "starting" => call[Owner].pc = "starting"
    BY RolesOf
  <1>1. ASSUME NEW t \in Threads, Call(t) PROVE Roles'
    <2>1. PICK req \in Requests : /\ Sends(t, req)
                                  /\ Becomes(t, "sending", req, FALSE)
      BY <1>1, CallEffect
    <2>2. call[t].pc = "idle" /\ router' = router BY <1>1, CallEffect
    <2>3. /\ req.op \in {"open", "close"} => t = Owner
          /\ req.op \in {"power", "privacy", "privacy_get"} => t \in Setters
      BY <2>1 DEF Sends
    <2>4. router'.pc = "starting" => call'[Owner].pc = "starting"
      BY <1>0, <2>1, <2>2 DEF Becomes
    <2> QED BY <2>1, <2>3, <2>4, RoleBecomes
  <1>2. ASSUME NEW t \in Threads, Send(t) PROVE Roles'
    <2>1. /\ Becomes(t, "waiting", call[t].req, call[t].result)
          /\ call[t].pc = "sending" /\ router' = router
      BY <1>2, SendEffect
    <2>2. router'.pc = "starting" => call'[Owner].pc = "starting"
      BY <1>0, <2>1 DEF Becomes
    <2> QED BY <1>0, <2>1, <2>2, RoleBecomes DEF Role
  <1>3. ASSUME NEW t \in Threads, Return(t) PROVE Roles'
    <2>1. /\ call[t].pc = "answered" /\ router' = router
          /\ call' = [call EXCEPT ![t] = Idle]
      BY <1>3 DEF Return
    <2>2. Becomes(t, "idle", Asking("plain"), FALSE) /\ call'[t] = Idle
      BY <2>1, IdleEffect
    <2>3. router'.pc = "starting" => call'[Owner].pc = "starting"
      BY <1>0, <2>1, <2>2 DEF Becomes
    <2> QED BY <2>2, <2>3, RoleBecomes, RequestFacts
  <1>4. CASE Open
    <2>1. PICK req \in Requests : /\ req.op = "open"
                                  /\ Becomes(Owner, "starting", req, FALSE)
      BY <1>4, OpenEffect
    <2>2. call'[Owner].pc = "starting" BY <2>1 DEF Becomes
    <2> QED BY <2>1, <2>2, RoleBecomes
  <1>5. CASE GiveUp
    <2>1. /\ call[Owner].pc = "waiting" /\ call[Owner].req.op = "close"
          /\ Becomes(Owner, "abandoned", call[Owner].req, call[Owner].result)
          /\ router' = router
      BY <1>5, GiveUpEffect
    <2>2. router'.pc = "starting" => call'[Owner].pc = "starting"
      BY <1>0, <2>1
    <2> QED BY <2>1, <2>2, RoleBecomes
  <1>6. CASE Close
    <2>1. /\ call[Owner].pc \in {"answered", "abandoned"}
          /\ Becomes(Owner, "idle", Asking("plain"), FALSE)
          /\ call'[Owner] = Idle /\ router' = router
      BY <1>6, CloseEffect
    <2>2. router'.pc = "starting" => call'[Owner].pc = "starting"
      BY <1>0, <2>1
    <2> QED BY <2>1, <2>2, RoleBecomes, RequestFacts
  <1>7. CASE SessionRequest BY <1>7 DEF SessionRequest, Roles
  <1>8. CASE Start
    <2>1. /\ Becomes(Owner, "sending", call[Owner].req, call[Owner].result)
          /\ router'.pc = "loop"
      BY <1>8, StartEffect
    <2> QED BY <1>0, <2>1, RoleBecomes DEF Role
  <1>9. CASE Take BY <1>9, TakeEffect DEF Roles
  <1>10. CASE Handle
    <2>1. /\ router'.pc # "starting"
          /\ \/ \E req \in Replies, result \in BOOLEAN : Replied(req, result)
             \/ Unheard
      BY <1>10, HandleEffect DEF Handles
    <2>2. CASE Unheard BY <2>1, <2>2 DEF Unheard, Roles
    <2>3. ASSUME NEW req \in Replies, NEW result \in BOOLEAN,
                 Replied(req, result)
          PROVE  Roles'
      <3> DEFINE t == router.msg.from
      <3>1. /\ t \in Threads /\ req.op = call[t].req.op
            /\ Becomes(t, "answered", req, result)
        BY <2>3 DEF Replied
      <3>2. Role(t) BY <1>0, <3>1
      <3> HIDE DEF t
      <3> QED BY <2>1, <3>1, <3>2, RoleBecomes DEF Role
    <2> QED BY <2>1, <2>2, <2>3
  <1>11. CASE Quiet
    <2>1. call' = call /\ (router'.pc = "starting" => router.pc = "starting")
      BY <1>11 DEF Quiet
    <2> QED BY <2>1 DEF Roles
  <1> QED BY <1>1, <1>2, <1>3, <1>4, <1>5, <1>6, <1>7, <1>8, <1>9, <1>10, <1>11,
             NextCases, QuietEffect

-----------------------------------------------------------------------------
(* The messages and those who wait for them.                               *)

Mail == GoneEmpty /\ Answerable /\ Owns

Away == {"waiting", "abandoned"}

\* What Expected says of message m in the next state.
StillExpected(m) ==
    \/ m = Begin
    \/ m.req.op = "close"
    \/ /\ m.from \in Threads
       /\ call'[m.from].pc = "waiting" /\ call'[m.from].req = m.req

LEMMA ExpectedNext ==
    Answerable' <=>
        /\ \A i \in DOMAIN msgq'.msgs : StillExpected(msgq'.msgs[i])
        /\ router'.pc = "handling" => StillExpected(router'.msg)
        /\ \A t \in Threads : Queued(t)' => ~Handled(t)'
        /\ \A i, j \in DOMAIN msgq'.msgs :
              msgq'.msgs[i].from = msgq'.msgs[j].from /\ i # j =>
                msgq'.msgs[i] = Begin
  BY DEF Answerable, Expected, Waiting, StillExpected

\* A call changes of a thread that waits for nothing, before and after.
LEMMA MailCall ==
    ASSUME TypeOK, Mail, NEW t \in Threads, NEW pc, NEW req, NEW result,
           call[t].pc \notin Away, pc \notin Away,
           Becomes(t, pc, req, result), msgq' = msgq,
           router' = router \/ router'.pc # "handling"
    PROVE  Mail'
  <1>1. ~Queued(t) BY DEF Mail, Owns, Away
  <1>2. \A u \in Threads : u # t => call'[u] = call[u] BY DEF Becomes
  <1>3. \A m : Expected(m) /\ m.from # t => StillExpected(m)
    BY <1>2 DEF Expected, Waiting, StillExpected
  <1>4. \A m : Expected(m) /\ m.from = t => StillExpected(m)
    BY DEF Expected, Waiting, Away, StillExpected
  <1>5. \A u : /\ Queued(u)' <=> Queued(u)
               /\ Handled(u)' => Handled(u)
    BY DEF Queued, Handled
  <1>6. Answerable'
    BY <1>3, <1>4, <1>5, ExpectedNext DEF Mail, Answerable
  <1>7. Owns'
    <2> SUFFICES ASSUME NEW u \in Threads, call'[u].pc \notin Away
                 PROVE  ~Queued(u)' /\ (Handled(u)' => u = Owner /\ ~msgq'.exists)
      BY DEF Owns, Away
    <2>1. call[u].pc \notin Away BY <1>2
    <2> QED BY <1>5, <2>1 DEF Mail, Owns, Away
  <1>8. GoneEmpty' BY DEF Mail, GoneEmpty
  <1> QED BY <1>6, <1>7, <1>8 DEF Mail

\* The queue takes a message of somebody who has none there.
LEMMA MailTakes ==
    ASSUME TypeOK, Mail, NEW m \in Messages, Takes(m), router' = router,
           \A x \in Messages : Expected(x) => StillExpected(x),
           StillExpected(m),
           \A u \in Threads : call'[u].pc \notin Away =>
             call[u].pc \notin Away /\ m.from # u,
           m # Begin => ~Queued(m.from) /\ (Handled(m.from) => ~msgq.exists)
    PROVE  Mail'
  <1> DEFINE s == msgq.msgs
             a == msgq'.msgs
  <1>0. s \in Seq(Messages) /\ router.msg \in Messages BY TypeFacts
  <1>1. CASE a = s
    <2>1. \A u : (Queued(u)' <=> Queued(u)) /\ (Handled(u)' <=> Handled(u))
      BY <1>1 DEF Queued, Handled
    <2>2. Answerable'
      <3>1. \A i \in DOMAIN s : s[i] \in Messages BY <1>0
      <3> QED BY <1>0, <1>1, <2>1, <3>1, ExpectedNext DEF Mail, Answerable
    <2>3. Owns' BY <2>1 DEF Mail, Owns, Takes, Away
    <2>4. GoneEmpty' BY <1>1 DEF Mail, GoneEmpty, Takes
    <2> QED BY <2>2, <2>3, <2>4 DEF Mail
  <1>2. CASE msgq.exists /\ a = Append(s, m)
    <2>1. /\ DOMAIN a = 1 .. Len(s) + 1 /\ DOMAIN s = 1 .. Len(s)
          /\ \A i \in 1 .. Len(s) : a[i] = s[i]
          /\ a[Len(s) + 1] = m
      BY <1>0, <1>2, AppendFacts
    <2> HIDE DEF a, s
    <2>2. \A i \in DOMAIN a : (i \in DOMAIN s /\ a[i] = s[i]) \/ i = Len(s) + 1
      BY <1>0, <2>1
    <2>3. \A i \in DOMAIN a : a[i] = m \/ \E j \in DOMAIN s : a[i] = s[j]
      BY <2>1, <2>2
    <2>4. \A u : Queued(u)' => Queued(u) \/ u = m.from
      BY <2>3 DEF Queued, a, s
    <2>5. \A u : Handled(u)' <=> Handled(u) BY DEF Handled
    <2>6. \A i \in DOMAIN a : StillExpected(a[i])
      <3>1. \A j \in DOMAIN s : StillExpected(s[j])
        <4>1. \A j \in DOMAIN s : s[j] \in Messages BY <1>0
        <4> QED BY <4>1 DEF Mail, Answerable, s
      <3> QED BY <2>3, <3>1
    <2>7. router'.pc = "handling" => StillExpected(router'.msg)
      BY <1>0 DEF Mail, Answerable
    <2>8. m.from \in Threads => m # Begin BY MessageFacts
    <2>9. \A u \in Threads : Queued(u)' => ~Handled(u)'
      BY <1>2, <2>4, <2>5, <2>8 DEF Mail, Answerable
    <2>10. ASSUME NEW i \in DOMAIN a, NEW j \in DOMAIN a,
                  a[i].from = a[j].from, i # j
           PROVE  a[i] = Begin
      <3>1. CASE i \in DOMAIN s /\ j \in DOMAIN s
        BY <2>1, <2>10, <3>1 DEF Mail, Answerable, s
      <3>2. CASE i \notin DOMAIN s \/ j \notin DOMAIN s
        <4>1. a[i].from = m.from
          BY <2>1, <2>2, <2>10, <3>2
        <4>2. i \in DOMAIN s \/ j \in DOMAIN s BY <2>2, <2>10
        <4>3. \E k \in DOMAIN s : s[k].from = m.from
          BY <2>1, <2>10, <4>1, <4>2
        <4>4. m = Begin BY <4>3 DEF Queued, s
        <4>5. a[i] \in Messages BY <1>0, <2>3
        <4> QED BY <4>1, <4>4, <4>5, MessageFacts, RequestFacts
      <3> QED BY <3>1, <3>2
    <2>11. Answerable'
      BY <2>6, <2>7, <2>9, <2>10, ExpectedNext DEF a
    <2>12. Owns'
      <3> SUFFICES ASSUME NEW u \in Threads, call'[u].pc \notin Away
                   PROVE  /\ ~Queued(u)'
                          /\ Handled(u)' => u = Owner /\ ~msgq'.exists
        BY DEF Owns, Away
      <3>1. call[u].pc \notin Away /\ m.from # u OBVIOUS
      <3> QED BY <2>4, <2>5, <3>1 DEF Mail, Owns, Away, Takes
    <2>13. GoneEmpty' BY <1>2 DEF GoneEmpty, Takes
    <2> QED BY <2>11, <2>12, <2>13 DEF Mail
  <1> QED BY <1>1, <1>2 DEF Takes

LEMMA MailSend ==
    ASSUME TypeOK, Asks, Mail, NEW t \in Threads, Send(t)
    PROVE  Mail'
  <1> DEFINE m == [from |-> t, req |-> call[t].req]
  <1>1. /\ call[t].pc = "sending" /\ m \in Messages
        /\ m.from = t /\ m.req = call[t].req /\ Takes(m)
        /\ Becomes(t, "waiting", call[t].req, call[t].result)
        /\ router' = router
    BY SendEffect
  <1> HIDE DEF m
  <1>2. ~Queued(t) /\ (Handled(t) => t = Owner /\ ~msgq.exists)
    BY <1>1 DEF Mail, Owns
  <1>3. /\ call'[t].pc = "waiting" /\ call'[t].req = call[t].req
        /\ \A u \in Threads : u # t => call'[u] = call[u]
    BY <1>1 DEF Becomes
  <1>4. \A x \in Messages : Expected(x) => StillExpected(x)
    BY <1>1, <1>3 DEF Expected, Waiting, StillExpected
  <1>5. StillExpected(m) BY <1>1, <1>3 DEF StillExpected
  <1>6. ASSUME NEW u \in Threads, call'[u].pc \notin Away
        PROVE  call[u].pc \notin Away /\ m.from # u
    BY <1>1, <1>3, <1>6 DEF Away
  <1>7. ~Queued(m.from) /\ (Handled(m.from) => ~msgq.exists)
    BY <1>1, <1>2
  <1> QED BY <1>1, <1>4, <1>5, <1>6, <1>7, MailTakes, TypeFacts

LEMMA MailBegin ==
    ASSUME TypeOK, Mail, SessionRequest
    PROVE  Mail'
  <1>1. msgq' = Pushed(Begin) /\ router' = router /\ call' = call
    BY DEF SessionRequest
  <1>2. Takes(Begin) BY <1>1, PushedFacts, TypeFacts, RequestFacts DEF Takes
  <1>3. \A x \in Messages : Expected(x) => StillExpected(x)
    BY <1>1 DEF Expected, Waiting, StillExpected
  <1>4. StillExpected(Begin) BY DEF StillExpected
  <1>5. \A u \in Threads : Begin.from # u BY RequestFacts, ConstantsAssumption
  <1>6. Begin \in Messages BY RequestFacts
  <1> QED BY <1>1, <1>2, <1>3, <1>4, <1>5, <1>6, MailTakes

\* The queue is empty, and no thread that was there has left a message.
LEMMA MailEmpty ==
    ASSUME TypeOK, msgq'.msgs = << >>,
           router'.pc = "handling" =>
             /\ router'.msg \in Messages /\ StillExpected(router'.msg)
             /\ ~msgq'.exists,
           \A u \in Threads :
             Handled(u)' => u = Owner \/ call'[u].pc \in Away
    PROVE  Mail'
  <1>1. DOMAIN msgq'.msgs = {} OBVIOUS
  <1>2. \A u : ~Queued(u)' BY <1>1 DEF Queued
  <1>3. Answerable' BY <1>1, <1>2, ExpectedNext
  <1>4. Owns' BY <1>2 DEF Owns, Handled, Away
  <1>5. GoneEmpty' BY DEF GoneEmpty
  <1> QED BY <1>3, <1>4, <1>5 DEF Mail

LEMMA MailTake ==
    ASSUME TypeOK, Mail, Take
    PROVE  Mail'
  <1> DEFINE s == msgq.msgs
             a == msgq'.msgs
  <1>1. /\ router'.pc = "handling" /\ s # << >> /\ s \in Seq(Messages)
        /\ router'.msg = Head(s) /\ a = Tail(s)
        /\ msgq'.exists = msgq.exists /\ call' = call
    BY TakeEffect, TypeFacts
  <1>2. /\ DOMAIN a = 1 .. Len(s) - 1 /\ DOMAIN s = 1 .. Len(s)
        /\ \A i \in 1 .. Len(s) - 1 : a[i] = s[i + 1]
        /\ 1 \in DOMAIN s /\ Head(s) = s[1]
        /\ \A i \in 1 .. Len(s) - 1 : i + 1 \in DOMAIN s /\ i + 1 # 1
    BY <1>1, TailFacts
  <1>3. \A i \in DOMAIN s : s[i] \in Messages BY <1>1
  <1>4. \A i \in DOMAIN s : Expected(s[i]) BY DEF Mail, Answerable
  <1>5. \A i, j \in DOMAIN s : s[i].from = s[j].from /\ i # j => s[i] = Begin
    BY DEF Mail, Answerable
  <1>6. \A u : Queued(u) <=> \E i \in DOMAIN s : s[i].from = u BY DEF Queued
  <1>7. \A u : Queued(u)' <=> \E i \in DOMAIN a : a[i].from = u BY DEF Queued
  <1>8. \A u : Handled(u)' <=> s[1].from = u BY <1>1, <1>2 DEF Handled
  <1> HIDE DEF s, a
  <1>9. \A x : Expected(x) => StillExpected(x)
    BY <1>1 DEF Expected, Waiting, StillExpected
  <1>10. \A i \in DOMAIN a : i + 1 \in DOMAIN s /\ i + 1 # 1 /\ a[i] = s[i + 1]
    BY <1>2
  <1>11. \A i \in DOMAIN a : StillExpected(a[i]) BY <1>4, <1>9, <1>10
  <1>12. StillExpected(router'.msg) BY <1>1, <1>2, <1>4, <1>9
  <1>13. ASSUME NEW u \in Threads, Queued(u)', Handled(u)' PROVE FALSE
    <2>1. PICK i \in DOMAIN a : a[i].from = u BY <1>7, <1>13
    <2>2. s[1].from = u /\ s[i + 1].from = u BY <1>8, <1>10, <1>13, <2>1
    <2>3. s[1] = Begin BY <1>2, <1>5, <1>10, <2>2
    <2> QED BY <2>2, <2>3, RequestFacts, ConstantsAssumption
  <1>14. ASSUME NEW i \in DOMAIN a, NEW j \in DOMAIN a, a[i].from = a[j].from,
                i # j
         PROVE  a[i] = Begin
    <2>1. i + 1 # j + 1 BY <1>2, <1>14
    <2> QED BY <1>5, <1>10, <1>14, <2>1
  <1>15. Answerable' BY <1>11, <1>12, <1>13, <1>14, ExpectedNext DEF a
  <1>16. \A u : Queued(u)' \/ Handled(u)' => Queued(u)
    BY <1>2, <1>6, <1>7, <1>8, <1>10
  <1>17. Owns' BY <1>1, <1>16 DEF Mail, Owns
  <1>18. GoneEmpty'
    <2>1. msgq.exists BY <1>1 DEF Mail, GoneEmpty, s
    <2> QED BY <1>1, <2>1 DEF GoneEmpty
  <1> QED BY <1>15, <1>17, <1>18 DEF Mail

LEMMA MailHandle ==
    ASSUME TypeOK, Mail, Handle
    PROVE  Mail'
  <1>1. /\ router.pc = "handling" /\ router'.pc # "handling"
        /\ UNCHANGED <<g_xrsr, msgq>>
        /\ \/ \E req \in Replies, result \in BOOLEAN : Replied(req, result)
           \/ Unheard
    BY HandleEffect DEF Handles
  <1>2. \A u : (Queued(u)' <=> Queued(u)) /\ ~Handled(u)'
    BY <1>1 DEF Queued, Handled
  <1>3. GoneEmpty' BY <1>1 DEF Mail, GoneEmpty
  <1>4. CASE Unheard
    <2>1. call' = call BY <1>4 DEF Unheard
    <2>2. \A x : Expected(x) => StillExpected(x)
      BY <2>1 DEF Expected, Waiting, StillExpected
    <2>3. Answerable' BY <1>1, <1>2, <2>2, ExpectedNext DEF Mail, Answerable
    <2>4. Owns' BY <1>1, <1>2, <2>1 DEF Mail, Owns
    <2> QED BY <1>3, <2>3, <2>4 DEF Mail
  <1>5. ASSUME NEW req \in Replies, NEW result \in BOOLEAN, Replied(req, result)
        PROVE  Mail'
    <2> DEFINE t == router.msg.from
    <2>1. t \in Threads /\ Becomes(t, "answered", req, result)
      BY <1>5 DEF Replied
    <2>2. Handled(t) BY <1>1 DEF Handled
    <2> HIDE DEF t
    <2>3. ~Queued(t) BY <2>1, <2>2 DEF Mail, Answerable
    <2>4. \A u \in Threads : u # t => call'[u] = call[u] BY <2>1 DEF Becomes
    <2>5. \A x : Expected(x) /\ x.from # t => StillExpected(x)
      BY <2>4 DEF Expected, Waiting, StillExpected
    <2>6. \A i \in DOMAIN msgq.msgs : msgq.msgs[i].from # t BY <2>3 DEF Queued
    <2>7. Answerable'
      BY <1>1, <1>2, <2>5, <2>6, ExpectedNext DEF Mail, Answerable
    <2>8. Owns' BY <1>1, <1>2, <2>3, <2>4 DEF Mail, Owns
    <2> QED BY <1>3, <2>7, <2>8 DEF Mail
  <1> QED BY <1>1, <1>4, <1>5

LEMMA MailStep ==
    ASSUME TypeOK, Asks, Roles, Mail, [Next]_vars
    PROVE  Mail'
  <1> USE TypeFacts
  <1>1. ASSUME NEW t \in Threads, Call(t) PROVE Mail'
    <2>1. call[t].pc = "idle" /\ msgq' = msgq /\ router' = router
      BY <1>1, CallEffect
    <2>2. PICK req \in Requests : Becomes(t, "sending", req, FALSE)
      BY <1>1, CallEffect
    <2> QED BY <2>1, <2>2, MailCall DEF Away
  <1>2. ASSUME NEW t \in Threads, Send(t) PROVE Mail'
    BY <1>2, MailSend
  <1>3. ASSUME NEW t \in Threads, Return(t) PROVE Mail'
    <2>1. /\ call[t].pc = "answered" /\ msgq' = msgq /\ router' = router
          /\ call' = [call EXCEPT ![t] = Idle]
      BY <1>3 DEF Return
    <2>2. Becomes(t, "idle", Asking("plain"), FALSE) BY <2>1, IdleEffect
    <2> QED BY <2>1, <2>2, MailCall DEF Away
  <1>4. CASE Open
    <2>1. msgq'.msgs = << >> /\ router'.pc = "starting" BY <1>4, OpenEffect
    <2>2. \A u : ~Handled(u)' BY <2>1 DEF Handled
    <2> QED BY <2>1, <2>2, MailEmpty
  <1>5. CASE GiveUp
    <2>1. /\ call[Owner].pc = "waiting" /\ call[Owner].req.op = "close"
          /\ Becomes(Owner, "abandoned", call[Owner].req, call[Owner].result)
          /\ UNCHANGED <<msgq, router>>
      BY <1>5, GiveUpEffect
    <2>2. \A u \in Threads : u # Owner => call'[u] = call[u]
      BY <2>1 DEF Becomes
    <2>3. \A x : Expected(x) => StillExpected(x)
      BY <2>1, <2>2 DEF Expected, Waiting, StillExpected
    <2>4. \A u : (Queued(u)' <=> Queued(u)) /\ (Handled(u)' <=> Handled(u))
      BY <2>1 DEF Queued, Handled
    <2>5. Answerable' BY <2>1, <2>3, <2>4, ExpectedNext DEF Mail, Answerable
    <2>6. call'[Owner].pc = "abandoned" BY <2>1 DEF Becomes
    <2>7. Owns' BY <2>1, <2>2, <2>4, <2>6 DEF Mail, Owns
    <2> QED BY <2>1, <2>5, <2>7 DEF Mail, GoneEmpty
  <1>6. CASE Close
    <2>1. /\ call[Owner].pc \in {"answered", "abandoned"}
          /\ Becomes(Owner, "idle", Asking("plain"), FALSE)
          /\ msgq'.msgs = << >> /\ msgq'.exists = FALSE /\ router' = router
      BY <1>6, CloseEffect
    <2>2. \A u \in Threads : u # Owner => call'[u] = call[u]
      BY <2>1 DEF Becomes
    <2>3. \A x : Expected(x) => StillExpected(x)
      BY <2>1, <2>2 DEF Expected, Waiting, StillExpected
    <2>4. \A u \in Threads : Handled(u)' <=> Handled(u) BY <2>1 DEF Handled
    <2>5. \A u \in Threads : Handled(u)' => u = Owner \/ call'[u].pc \in Away
      BY <2>2, <2>4 DEF Mail, Owns, Away
    <2>6. router'.pc = "handling" => StillExpected(router'.msg)
      BY <2>1, <2>3 DEF Mail, Answerable
    <2> QED BY <2>1, <2>5, <2>6, MailEmpty
  <1>7. CASE SessionRequest BY <1>7, MailBegin
  <1>8. CASE Start
    <2>1. /\ Becomes(Owner, "sending", call[Owner].req, call[Owner].result)
          /\ router'.pc # "handling" /\ msgq' = msgq
      BY <1>8, StartEffect
    <2>2. call[Owner].pc = "starting" BY <1>8 DEF Start, Roles
    <2> QED BY <2>1, <2>2, MailCall DEF Away
  <1>9. CASE Take BY <1>9, MailTake
  <1>10. CASE Handle BY <1>10, MailHandle
  <1>11. CASE Quiet
    <2>1. /\ call' = call /\ msgq' = msgq
          /\ router'.pc = "handling" => router.pc = "handling"
                                       /\ router'.msg = router.msg
      BY <1>11 DEF Quiet
    <2>2. \A x : Expected(x) => StillExpected(x)
      BY <2>1 DEF Expected, Waiting, StillExpected
    <2>3. \A u : (Queued(u)' <=> Queued(u)) /\ (Handled(u)' => Handled(u))
      BY <2>1 DEF Queued, Handled
    <2>4. Answerable' BY <2>1, <2>2, <2>3, ExpectedNext DEF Mail, Answerable
    <2> QED BY <2>1, <2>3, <2>4 DEF Mail, Owns, GoneEmpty
  <1> QED BY <1>1, <1>2, <1>3, <1>4, <1>5, <1>6, <1>7, <1>8, <1>9, <1>10, <1>11,
             NextCases, QuietEffect

-----------------------------------------------------------------------------
(* The audio object and its modes.                                         *)

LEMMA DeviceStep ==
    ASSUME TypeOK, Asks, Roles, Device, [Next]_vars
    PROVE  Device'
  <1> USE TypeFacts
  <1>0. \A t \in Threads : Role(t) BY RolesOf
  <1>1. ASSUME NEW t \in Threads, Call(t) PROVE Device'
    <2>1. call[t].pc = "idle" /\ UNCHANGED <<g_xrsr, obj>> BY <1>1, CallEffect
    <2>2. PICK req \in Requests : /\ Sends(t, req)
                                  /\ Becomes(t, "sending", req, FALSE)
      BY <1>1, CallEffect
    <2>3. req.op # "open" /\ (req.op = "close" => g_xrsr.opened)
      BY <2>2 DEF Sends
    <2>4. call[t].req.op = "plain"
      BY <1>0, <2>1, RequestFacts DEF Role, Idle
    <2>5. CASE t = Owner BY <2>1, <2>2, <2>3, <2>4, <2>5 DEF Device, Becomes
    <2>6. CASE t # Owner BY <2>1, <2>2, <2>6 DEF Device, Becomes
    <2> QED BY <2>5, <2>6
  <1>2. ASSUME NEW t \in Threads, Send(t) PROVE Device'
    <2>1. UNCHANGED <<g_xrsr, obj>> /\ call'[Owner].req = call[Owner].req
      BY <1>2, SendEffect DEF Becomes
    <2> QED BY <2>1 DEF Device
  <1>3. ASSUME NEW t \in Threads, Return(t) PROVE Device'
    <2>1. /\ call[t].req.op # "close" /\ g_xrsr' = Kept(call[t]) /\ obj' = obj
          /\ call' = [call EXCEPT ![t] = Idle]
      BY <1>3 DEF Return
    <2>2. Becomes(t, "idle", Asking("plain"), FALSE) BY <2>1, IdleEffect
    <2>3. g_xrsr'.opened = (g_xrsr.opened \/ call[t].req.op = "open")
      BY <2>1 DEF Kept, GType
    <2>4. CASE t = Owner
      BY <2>1, <2>2, <2>3, <2>4, RequestFacts DEF Device, Becomes
    <2>5. CASE t # Owner
      <3>1. call[t].req.op # "open" BY <1>0, <2>5 DEF Role
      <3> QED BY <2>1, <2>2, <2>3, <2>5, <3>1 DEF Device, Becomes, GType
    <2> QED BY <2>4, <2>5
  <1>4. CASE Open BY <1>4, OpenEffect DEF Device, Becomes
  <1>5. CASE GiveUp BY <1>5, GiveUpEffect DEF Device, Becomes
  <1>6. CASE Close BY <1>6, CloseEffect, RequestFacts DEF Device, Becomes
  <1>7. CASE SessionRequest BY <1>7 DEF SessionRequest, Device
  <1>8. CASE Start BY <1>8, StartEffect DEF Device, Becomes
  <1>9. CASE Take BY <1>9, TakeEffect DEF Device
  <1>10. CASE Handle
    <2>1. /\ obj'.exists = obj.exists /\ g_xrsr' = g_xrsr
          /\ \/ \E req \in Replies, result \in BOOLEAN : Replied(req, result)
             \/ Unheard
      BY <1>10, HandleEffect DEF Handles
    <2>2. call'[Owner].req.op = call[Owner].req.op
      BY <2>1 DEF Replied, Unheard, Becomes
    <2> QED BY <2>1, <2>2 DEF Device
  <1>11. CASE Quiet BY <1>11 DEF Quiet, Device
  <1> QED BY <1>1, <1>2, <1>3, <1>4, <1>5, <1>6, <1>7, <1>8, <1>9, <1>10, <1>11,
             NextCases, QuietEffect

ModeOps == {"power", "privacy", "privacy_get"}

\* Who hears the answer of a handler that changes a mode, and that no other
\* handler does.
LEMMA ModeHandlers ==
    ASSUME TypeOK, Roles, Mail, Handle
    PROVE  /\ obj' = obj \/ router.msg.req.op \in ModeOps
           /\ router.msg.req.op \in ModeOps =>
                /\ router.msg.from \in Setters
                /\ router.msg.from \in Waiting(router.msg.req)
                /\ ~Unheard
  <1>1. obj' = obj \/ router.msg.req.op \in ModeOps
    BY DEF Handle, HandleBegin, HandlePlain, HandleTerminate, HandlePower,
           HandlePrivacy, HandlePrivacyGet, Handling, ModeOps
  <1>2. ASSUME router.msg.req.op \in ModeOps
        PROVE  /\ router.msg.from \in Setters
               /\ router.msg.from \in Waiting(router.msg.req)
               /\ ~Unheard
    <2>1. router.pc = "handling" BY HandleEffect DEF Handles
    <2>2. Expected(router.msg) BY <2>1 DEF Mail, Answerable
    <2>3. router.msg # Begin /\ router.msg.req.op # "close"
      BY <1>2, RequestFacts DEF ModeOps
    <2>4. router.msg.from \in Waiting(router.msg.req) BY <2>2, <2>3 DEF Expected
    <2>5. /\ router.msg.from \in Threads
          /\ call[router.msg.from].req = router.msg.req
      BY <2>4 DEF Waiting
    <2>6. Role(router.msg.from) BY <2>5, RolesOf
    <2>7. router.msg.from \in Setters BY <1>2, <2>5, <2>6 DEF Role, ModeOps
    <2> QED BY <2>4, <2>7 DEF Unheard
  <1> QED BY <1>1, <1>2

\* What Known says, when it says anything.
KnownModes ==
    LET req == call[Owner].req IN
    IF req.op = "open"
    THEN obj.privacy = req.privacy /\ obj.power = req.power
    ELSE /\ IF Told(Owner, "privacy") \/ Told(Owner, "privacy_get")
            THEN obj.privacy = req.privacy
            ELSE obj.privacy = g_xrsr.privacy_mode
         /\ IF Told(Owner, "power")
            THEN obj.power = req.power
            ELSE obj.power = g_xrsr.power_mode \/ obj.failed

LEMMA KnownOf ==
    /\ Known <=> (Setters = {Owner} /\ obj.exists => KnownModes)
    /\ Known' <=> (Setters = {Owner} /\ obj'.exists => KnownModes')
  BY DEF Known, KnownModes

\* Steps that leave the modes alone and bring the one who sets them no answer.
LEMMA KnownSame ==
    ASSUME KnownModes, g_xrsr' = g_xrsr, obj' = obj,
           \/ call'[Owner] = call[Owner]
           \/ /\ call[Owner].pc # "answered" /\ call'[Owner].pc # "answered"
              /\ call'[Owner].req = call[Owner].req
           \/ /\ call[Owner].pc # "answered" /\ call'[Owner].pc # "answered"
              /\ call[Owner].req.op # "open" /\ call'[Owner].req.op # "open"
           \/ /\ call'[Owner].req = call[Owner].req
              /\ call[Owner].req.op \notin ModeOps
    PROVE  KnownModes'
  BY DEF KnownModes, Told, ModeOps

LEMMA KnownReturn ==
    ASSUME TypeOK, Roles, KnownModes, Setters = {Owner},
           NEW t \in Threads, Return(t)
    PROVE  KnownModes'
  <1>1. /\ call[t].pc = "answered" /\ call[t].req.op # "close"
        /\ g_xrsr' = Kept(call[t]) /\ obj' = obj
        /\ call' = [call EXCEPT ![t] = Idle]
    BY DEF Return
  <1>2. Becomes(t, "idle", Asking("plain"), FALSE) BY <1>1, IdleEffect
  <1>3. g_xrsr \in GType BY TypeFacts
  <1>4. CASE t = Owner
    <2>1. call'[Owner].pc = "idle" /\ call'[Owner].req.op = "plain"
      BY <1>2, <1>4, RequestFacts DEF Becomes
    <2>2. obj.privacy = g_xrsr'.privacy_mode
      BY <1>1, <1>3, <1>4 DEF Kept, KnownModes, Told, GType
    <2>3. obj.power = g_xrsr'.power_mode \/ obj.failed
      BY <1>1, <1>3, <1>4 DEF Kept, KnownModes, Told, GType
    <2> QED BY <1>1, <2>1, <2>2, <2>3 DEF KnownModes, Told
  <1>5. CASE t # Owner
    <2>1. call[t].req.op \notin ModeOps /\ call[t].req.op # "open"
      BY <1>5, RolesOf DEF Role, ModeOps
    <2>2. g_xrsr' = g_xrsr BY <1>1, <2>1 DEF Kept, ModeOps
    <2>3. call'[Owner] = call[Owner] BY <1>2, <1>5, TypeFacts DEF Becomes
    <2> QED BY <1>1, <2>2, <2>3, KnownSame
  <1> QED BY <1>4, <1>5

LEMMA KnownHandle ==
    ASSUME TypeOK, Roles, Mail, KnownModes, Setters = {Owner}, obj.exists, Handle
    PROVE  KnownModes'
  <1> USE TypeFacts
  <1> DEFINE req == router.msg.req
  <1>1. /\ g_xrsr' = g_xrsr
        /\ \/ \E r \in Replies, result \in BOOLEAN : Replied(r, result)
           \/ Unheard
    BY HandleEffect DEF Handles
  <1>2. CASE req.op \notin ModeOps
    <2>1. obj' = obj BY <1>2, ModeHandlers
    <2>2. CASE Unheard BY <1>1, <2>1, <2>2, KnownSame DEF Unheard
    <2>3. ASSUME NEW r \in Replies, NEW result \in BOOLEAN, Replied(r, result)
          PROVE  KnownModes'
      <3>1. CASE router.msg.from = Owner
        <4>1. /\ call[Owner].req = req /\ r.op = req.op
              /\ r.op = "privacy_get" \/ r = req
              /\ call'[Owner].req = r
          BY <2>3, <3>1 DEF Replied, Becomes
        <4>2. call'[Owner].req = call[Owner].req
          BY <1>2, <4>1 DEF ModeOps
        <4> QED BY <1>1, <1>2, <2>1, <4>1, <4>2, KnownSame
      <3>2. CASE router.msg.from # Owner
        <4>1. call'[Owner] = call[Owner]
          BY <2>3, <3>2 DEF Replied, Becomes
        <4> QED BY <1>1, <2>1, <4>1, KnownSame
      <3> QED BY <3>1, <3>2
    <2> QED BY <1>1, <2>2, <2>3
  <1>3. CASE req.op \in ModeOps
    <2>1. /\ router.msg.from = Owner /\ ~Unheard
          /\ Owner \in Waiting(req)
      BY <1>3, ModeHandlers
    <2>2. call[Owner].pc = "waiting" /\ call[Owner].req = req
      BY <2>1 DEF Waiting
    <2>3. /\ obj.privacy = g_xrsr.privacy_mode
          /\ obj.power = g_xrsr.power_mode \/ obj.failed
      BY <1>3, <2>2 DEF KnownModes, Told, ModeOps
    <2>4. ASSUME NEW r \in Replies, NEW result \in BOOLEAN, Answer(r, result)
          PROVE  /\ call'[Owner].pc = "answered" /\ call'[Owner].req = r
                 /\ call'[Owner].result = result
      <3>1. call' = [call EXCEPT ![Owner] = [pc |-> "answered", req |-> r,
                                             result |-> result]]
        BY <2>1, <2>4 DEF Answer
      <3>2. Becomes(Owner, "answered", r, result)
        BY <3>1, BecomesSet DEF CallPcs
      <3> QED BY <3>2 DEF Becomes
    <2>5. req \in Replies /\ req.op # "open"
      BY <1>3, <2>2 DEF ModeOps
    <2>6. CASE HandlePower
      <3>1. req.op = "power" BY <2>6 DEF HandlePower, Handling
      <3>2. CASE obj.power = req.power /\ Answer(req, TRUE)
                 /\ obj' = [obj EXCEPT !.failed = FALSE]
        <4>1. /\ call'[Owner].pc = "answered" /\ call'[Owner].req = req
              /\ call'[Owner].result = TRUE
          BY <2>4, <2>5, <3>2
        <4>2. obj'.privacy = obj.privacy /\ obj'.power = obj.power
          BY <3>2 DEF ObjType
        <4> QED BY <1>1, <2>3, <3>1, <3>2, <4>1, <4>2 DEF KnownModes, Told
      <3>3. ASSUME NEW result \in BOOLEAN, Answer(req, result),
                   obj' = [obj EXCEPT !.power = req.power, !.failed = ~result]
            PROVE  KnownModes'
        <4>1. /\ call'[Owner].pc = "answered" /\ call'[Owner].req = req
              /\ call'[Owner].result = result
          BY <2>4, <2>5, <3>3
        <4>2. /\ obj'.privacy = obj.privacy /\ obj'.power = req.power
              /\ obj'.failed = ~result
          BY <3>3 DEF ObjType
        <4>3. CASE result = TRUE
          BY <1>1, <2>3, <3>1, <4>1, <4>2, <4>3 DEF KnownModes, Told
        <4>4. CASE result = FALSE
          BY <1>1, <2>3, <3>1, <4>1, <4>2, <4>4 DEF KnownModes, Told
        <4> QED BY <4>3, <4>4
      <3> QED BY <2>6, <3>2, <3>3 DEF HandlePower
    <2>7. CASE HandlePrivacy
      <3>1. req.op = "privacy" BY <2>7 DEF HandlePrivacy, Handling
      <3>2. CASE Answer(req, FALSE) /\ obj' = obj
        <4>1. /\ call'[Owner].pc = "answered" /\ call'[Owner].req = req
              /\ call'[Owner].result = FALSE
          BY <2>4, <2>5, <3>2
        <4> QED BY <1>1, <2>3, <3>1, <3>2, <4>1 DEF KnownModes, Told
      <3>3. CASE Answer(req, TRUE) /\ obj' = [obj EXCEPT !.privacy = req.privacy]
        <4>1. /\ call'[Owner].pc = "answered" /\ call'[Owner].req = req
              /\ call'[Owner].result = TRUE
          BY <2>4, <2>5, <3>3
        <4>2. /\ obj'.privacy = req.privacy /\ obj'.power = obj.power
              /\ obj'.failed = obj.failed
          BY <3>3 DEF ObjType
        <4> QED BY <1>1, <2>3, <3>1, <4>1, <4>2 DEF KnownModes, Told
      <3> QED BY <2>7, <3>2, <3>3 DEF HandlePrivacy
    <2>8. CASE HandlePrivacyGet
      <3>1. req.op = "privacy_get" BY <2>8 DEF HandlePrivacyGet, Handling
      <3>2. CASE Answer(req, FALSE) /\ obj' = obj
        <4>1. /\ call'[Owner].pc = "answered" /\ call'[Owner].req = req
              /\ call'[Owner].result = FALSE
          BY <2>4, <2>5, <3>2
        <4> QED BY <1>1, <2>3, <3>1, <3>2, <4>1 DEF KnownModes, Told
      <3>3. ASSUME NEW b \in BOOLEAN,
                   Answer(Request("privacy_get", "FULL", b), TRUE),
                   obj' = [obj EXCEPT !.privacy = b]
            PROVE  KnownModes'
        <4> DEFINE r == Request("privacy_get", "FULL", b)
        <4>1. r \in Replies /\ r.op = "privacy_get" /\ r.privacy = b
          BY GetReplies DEF Request
        <4> HIDE DEF r
        <4>2. Answer(r, TRUE) BY <3>3 DEF r
        <4>3. /\ call'[Owner].pc = "answered" /\ call'[Owner].req = r
              /\ call'[Owner].result = TRUE
          BY <2>4, <4>1, <4>2
        <4>4. /\ obj'.privacy = b /\ obj'.power = obj.power
              /\ obj'.failed = obj.failed
          BY <3>3 DEF ObjType
        <4> QED BY <1>1, <2>3, <4>1, <4>3, <4>4 DEF KnownModes, Told
      <3> QED BY <2>8, <3>2, <3>3 DEF HandlePrivacyGet
    <2>9. HandlePower \/ HandlePrivacy \/ HandlePrivacyGet
      BY <1>3, RequestFacts DEF Handle, HandleBegin, HandlePlain, HandleTerminate,
                                Handling, ModeOps
    <2> QED BY <2>6, <2>7, <2>8, <2>9
  <1> QED BY <1>2, <1>3

LEMMA KnownStep ==
    ASSUME TypeOK, Asks, Roles, Mail, Device, Known, [Next]_vars
    PROVE  Known'
  <1> USE TypeFacts
  <1> SUFFICES ASSUME Setters = {Owner}, obj'.exists PROVE KnownModes'
    BY KnownOf
  <1>0. Role(Owner) /\ (obj.exists => KnownModes) BY RolesOf, KnownOf
  <1>1. ASSUME NEW t \in Threads, Call(t) PROVE KnownModes'
    <2>1. call[t].pc = "idle" /\ UNCHANGED <<g_xrsr, obj>> BY <1>1, CallEffect
    <2>2. PICK req \in Requests : /\ Sends(t, req)
                                  /\ Becomes(t, "sending", req, FALSE)
      BY <1>1, CallEffect
    <2>3. req.op # "open" BY <2>2 DEF Sends
    <2>4. CASE t = Owner
      <3>1. call[Owner].req.op = "plain"
        BY <1>0, <2>1, <2>4, RequestFacts DEF Role, Idle
      <3>2. /\ call[Owner].pc # "answered" /\ call'[Owner].pc # "answered"
            /\ call[Owner].req.op # "open" /\ call'[Owner].req.op # "open"
        BY <2>1, <2>2, <2>3, <2>4, <3>1 DEF Becomes
      <3> QED BY <1>0, <2>1, <3>2, KnownSame
    <2>5. CASE t # Owner
      <3>1. call'[Owner] = call[Owner] BY <2>2, <2>5 DEF Becomes
      <3> QED BY <1>0, <2>1, <3>1, KnownSame
    <2> QED BY <2>4, <2>5
  <1>2. ASSUME NEW t \in Threads, Send(t) PROVE KnownModes'
    <2>1. /\ UNCHANGED <<g_xrsr, obj>> /\ call[t].pc = "sending"
          /\ Becomes(t, "waiting", call[t].req, call[t].result)
      BY <1>2, SendEffect
    <2>2. \/ call'[Owner] = call[Owner]
          \/ /\ call[Owner].pc # "answered" /\ call'[Owner].pc # "answered"
             /\ call'[Owner].req = call[Owner].req
      BY <2>1 DEF Becomes
    <2> QED BY <1>0, <2>1, <2>2, KnownSame
  <1>3. ASSUME NEW t \in Threads, Return(t) PROVE KnownModes'
    BY <1>0, <1>3, KnownReturn DEF Return
  <1>4. CASE Open
    <2>1. PICK req \in Requests :
            /\ req.op = "open" /\ req.power = obj'.power
            /\ req.privacy = obj'.privacy
            /\ Becomes(Owner, "starting", req, FALSE)
      BY <1>4, OpenEffect
    <2>2. call'[Owner].req = req BY <2>1 DEF Becomes
    <2> QED BY <2>1, <2>2 DEF KnownModes
  <1>5. CASE GiveUp
    <2>1. /\ UNCHANGED <<g_xrsr, obj>> /\ call[Owner].pc # "answered"
          /\ call'[Owner].pc # "answered" /\ call'[Owner].req = call[Owner].req
      BY <1>5, GiveUpEffect DEF Becomes
    <2> QED BY <1>0, <2>1, KnownSame
  <1>6. CASE Close BY <1>6, CloseEffect
  <1>7. CASE SessionRequest
    BY <1>0, <1>7, KnownSame DEF SessionRequest
  <1>8. CASE Start
    <2>1. call[Owner].pc = "starting" BY <1>8 DEF Start, Roles
    <2>2. /\ UNCHANGED <<g_xrsr, obj>> /\ call'[Owner].pc # "answered"
          /\ call'[Owner].req = call[Owner].req
      BY <1>8, StartEffect DEF Becomes
    <2> QED BY <1>0, <2>1, <2>2, KnownSame
  <1>9. CASE Take
    <2>1. UNCHANGED <<g_xrsr, obj, call>> BY <1>9, TakeEffect
    <2> QED BY <1>0, <2>1, KnownSame
  <1>10. CASE Handle
    <2>1. obj.exists BY <1>10, HandleEffect
    <2> QED BY <1>0, <1>10, <2>1, KnownHandle
  <1>11. CASE Quiet
    BY <1>0, <1>11, KnownSame DEF Quiet
  <1> QED BY <1>1, <1>2, <1>3, <1>4, <1>5, <1>6, <1>7, <1>8, <1>9, <1>10, <1>11,
             NextCases, QuietEffect

-----------------------------------------------------------------------------
(* The theorems.                                                           *)

LEMMA InvParts == IInv <=> TypeOK /\ Asks /\ Roles /\ Mail /\ Device /\ Known
  BY DEF IInv, Mail

\* What the callers, the router's thread and the closing of the router keep
\* in every reachable state.
THEOREM InvCorrect == Spec => []IInv
  <1>1. Init => IInv
    <2> SUFFICES ASSUME Init PROVE IInv OBVIOUS
    <2>1. /\ Idle \in CallRec /\ Idle.pc = "idle" /\ Idle.req = Asking("plain")
          /\ Idle.req \in Requests /\ Idle.req.op = "plain"
      BY RequestFacts DEF Idle, CallRec, CallPcs
    <2>2. /\ call \in [Threads -> CallRec]
          /\ \A t \in Threads : call[t] = Idle
      BY <2>1 DEF Init
    <2>3. /\ g_xrsr \in GType /\ ~g_xrsr.opened
          /\ obj \in ObjType /\ ~obj.exists /\ timer \in TimerType
          /\ msgq \in QueueType /\ msgq.msgs = << >> /\ Len(msgq.msgs) <= MsgqMax
          /\ router \in [pc : RouterPcs, msg : Messages] /\ router.pc = "none"
      BY ConstantsAssumption, RequestFacts
         DEF Init, GType, ObjType, TimerType, QueueType, PowerModes, NoObj,
             NoTimer, RouterPcs
    <2>4. TypeOK
      BY <2>2, <2>3 DEF TypeOK, GType, ObjType, TimerType, QueueType, CallRec
    <2>5. Asks /\ Roles /\ Device /\ Known
      BY <2>1, <2>2, <2>3, ConstantsAssumption DEF Asks, Roles, Device, Known
    <2>6. GoneEmpty /\ Answerable /\ Owns
      BY <2>1, <2>2, <2>3 DEF GoneEmpty, Answerable, Owns, Queued, Handled
    <2> QED BY <2>4, <2>5, <2>6 DEF IInv
  <1>2. IInv /\ [Next]_vars => IInv'
    <2> SUFFICES ASSUME IInv, [Next]_vars PROVE IInv' OBVIOUS
    <2>1. TypeOK /\ Asks /\ Roles /\ Mail /\ Device /\ Known BY InvParts
    <2>2. TypeOK' /\ Asks' /\ Roles' BY <2>1, TypeStep, AsksStep, RolesStep
    <2>3. Mail' BY <2>1, MailStep
    <2>4. Device' BY <2>1, DeviceStep
    <2>5. Known' BY <2>1, KnownStep
    <2> QED BY <2>2, <2>3, <2>4, <2>5 DEF IInv, Mail
  <1> QED BY <1>1, <1>2, PTL DEF Spec

\* The fields keep their types, and the message queue never exceeds its
\* capacity.
THEOREM TypeCorrect == Spec => []TypeOK
  <1>1. IInv => TypeOK BY DEF IInv
  <1> QED BY <1>1, InvCorrect, PTL

\* Whoever sent a message still waits for its answer, and for no other.
THEOREM AnswerableCorrect == Spec => []Answerable
  <1>1. IInv => Answerable BY DEF IInv
  <1> QED BY <1>1, InvCorrect, PTL

\* Between the calls of the one thread that sets them, g_xrsr and the audio
\* object agree on the modes, but for a power mode the library refused.
THEOREM ModesCorrect == Spec => []ModesAgree
  <1>1. IInv => ModesAgree
    <2> SUFFICES ASSUME IInv, Setters = {Owner}, call[Owner].pc = "idle",
                        g_xrsr.opened
                 PROVE  /\ g_xrsr.privacy_mode = obj.privacy
                        /\ g_xrsr.power_mode = obj.power \/ obj.failed
      BY DEF ModesAgree
    <2>1. Owner \in Threads BY ConstantsAssumption
    <2>2. call[Owner].req.op = "plain"
      BY <2>1, RequestFacts DEF IInv, Roles, Idle
    <2>3. obj.exists BY DEF IInv, Device
    <2> QED BY <2>2, <2>3 DEF IInv, Known, Told
  <1> QED BY <1>1, InvCorrect, PTL

\* The abstract requests when one call changes.
LEMMA RequestMoves ==
    ASSUME TypeOK, NEW t \in Threads, NEW pc, NEW req, NEW result,
           Becomes(t, pc, req, result)
    PROVE  [u \in Threads |-> RequestOf(u)]' =
             [[u \in Threads |-> RequestOf(u)] EXCEPT ![t] = RequestOf(t)']
  BY DEF Becomes, RequestOf

LEMMA RequestsSame ==
    ASSUME \A u \in Threads : RequestOf(u)' = RequestOf(u)
    PROVE  [u \in Threads |-> RequestOf(u)]' = [u \in Threads |-> RequestOf(u)]
  OBVIOUS

\* Every step of the callers and of the router is one of SyncCall, or
\* invisible to it.
LEMMA AbstractStep ==
    ASSUME TypeOK, Asks, Roles, Mail, Device, [Next]_vars
    PROVE  [Abstract!Next]_(Abstract!vars)
  <1> USE TypeFacts
  <1> DEFINE R == [u \in Threads |-> RequestOf(u)]
  <1>0. Role(Owner) BY RolesOf
  <1>a. ASSUME R' = R, obj' = obj PROVE UNCHANGED Abstract!vars
    BY <1>a DEF Abstract!vars
  <1>1. ASSUME NEW t \in Threads, Call(t) PROVE UNCHANGED Abstract!vars
    <2>1. call[t].pc = "idle" /\ obj' = obj BY <1>1, CallEffect
    <2>2. PICK req \in Requests : Becomes(t, "sending", req, FALSE)
      BY <1>1, CallEffect
    <2>3. \A u \in Threads : RequestOf(u)' = RequestOf(u)
      BY <2>1, <2>2 DEF RequestOf, Becomes
    <2> QED BY <1>a, <2>1, <2>3, RequestsSame
  <1>2. ASSUME NEW t \in Threads, Send(t) PROVE [Abstract!Next]_(Abstract!vars)
    <2>1. /\ call[t].pc = "sending" /\ obj' = obj
          /\ Becomes(t, "waiting", call[t].req, call[t].result)
      BY <1>2, SendEffect
    <2>2. CASE call[t].req.op = "close"
      <3>1. \A u \in Threads : RequestOf(u)' = RequestOf(u)
        BY <2>1, <2>2 DEF RequestOf, Becomes
      <3> QED BY <1>a, <2>1, <3>1, RequestsSame
    <2>3. CASE call[t].req.op # "close"
      <3>1. RequestOf(t) = "none" /\ RequestOf(t)' = "pending"
        BY <2>1, <2>3 DEF RequestOf, Becomes
      <3>2. R' = [R EXCEPT ![t] = RequestOf(t)'] BY <2>1, RequestMoves
      <3>3. R[t] = "none" /\ R' = [R EXCEPT ![t] = "pending"] BY <3>1, <3>2
      <3> HIDE DEF R
      <3>4. Abstract!Request(t)
        BY <2>1, <3>3 DEF Abstract!Request, Abstract!Moves, R
      <3> QED BY <3>4 DEF Abstract!Next
    <2> QED BY <2>2, <2>3
  <1>3. ASSUME NEW t \in Threads, Return(t) PROVE [Abstract!Next]_(Abstract!vars)
    <2>1. /\ call[t].pc = "answered" /\ call[t].req.op # "close" /\ obj' = obj
          /\ call' = [call EXCEPT ![t] = Idle]
      BY <1>3 DEF Return
    <2>2. Becomes(t, "idle", Asking("plain"), FALSE) BY <2>1, IdleEffect
    <2>3. RequestOf(t) = "served" /\ RequestOf(t)' = "none"
      BY <2>1, <2>2 DEF RequestOf, Becomes
    <2>4. R' = [R EXCEPT ![t] = RequestOf(t)'] BY <2>2, RequestMoves
    <2>5. R[t] = "served" /\ R' = [R EXCEPT ![t] = "none"] BY <2>3, <2>4
    <2> HIDE DEF R
    <2>6. Abstract!Return(t)
      BY <2>1, <2>5 DEF Abstract!Return, Abstract!Moves, R
    <2> QED BY <2>6 DEF Abstract!Next
  <1>4. CASE Open
    <2>1. PICK req \in Requests : Becomes(Owner, "starting", req, FALSE)
      BY <1>4, OpenEffect
    <2>2. call[Owner].pc = "idle" /\ ~g_xrsr.opened /\ obj'.exists = TRUE
      BY <1>4, OpenEffect
    <2>3. call[Owner].req.op = "plain" BY <1>0, <2>2, RequestFacts DEF Role, Idle
    <2>4. ~obj.exists BY <2>2, <2>3 DEF Device
    <2>5. \A u \in Threads : RequestOf(u)' = RequestOf(u)
      BY <2>1, <2>2 DEF RequestOf, Becomes
    <2>6. R' = R BY <2>5, RequestsSame
    <2> HIDE DEF R
    <2>7. Abstract!Create BY <2>2, <2>4, <2>6 DEF Abstract!Create, R
    <2> QED BY <2>7 DEF Abstract!Next
  <1>5. CASE GiveUp
    <2>1. /\ call[Owner].req.op = "close" /\ obj' = obj
          /\ Becomes(Owner, "abandoned", call[Owner].req, call[Owner].result)
      BY <1>5, GiveUpEffect
    <2>2. \A u \in Threads : RequestOf(u)' = RequestOf(u)
      BY <2>1 DEF RequestOf, Becomes
    <2> QED BY <1>a, <2>1, <2>2, RequestsSame
  <1>6. CASE Close
    <2>1. /\ call[Owner].req.op = "close" /\ obj'.exists = FALSE
          /\ Becomes(Owner, "idle", Asking("plain"), FALSE)
      BY <1>6, CloseEffect
    <2>2. obj.exists BY <2>1 DEF Device
    <2>3. \A u \in Threads : RequestOf(u)' = RequestOf(u)
      BY <2>1 DEF RequestOf, Becomes
    <2>4. R' = R BY <2>3, RequestsSame
    <2> HIDE DEF R
    <2>5. Abstract!Destroy BY <2>1, <2>2, <2>4 DEF Abstract!Destroy, R
    <2> QED BY <2>5 DEF Abstract!Next
  <1>7. CASE SessionRequest
    <2>1. call' = call /\ obj' = obj BY <1>7 DEF SessionRequest
    <2>2. \A u \in Threads : RequestOf(u)' = RequestOf(u) BY <2>1 DEF RequestOf
    <2> QED BY <1>a, <2>1, <2>2, RequestsSame
  <1>8. CASE Start
    <2>1. call[Owner].pc = "starting" BY <1>8 DEF Start, Roles
    <2>2. /\ Becomes(Owner, "sending", call[Owner].req, call[Owner].result)
          /\ obj' = obj
      BY <1>8, StartEffect
    <2>3. \A u \in Threads : RequestOf(u)' = RequestOf(u)
      BY <2>1, <2>2 DEF RequestOf, Becomes
    <2> QED BY <1>a, <2>2, <2>3, RequestsSame
  <1>9. CASE Take
    <2>1. call' = call /\ obj' = obj BY <1>9, TakeEffect
    <2>2. \A u \in Threads : RequestOf(u)' = RequestOf(u) BY <2>1 DEF RequestOf
    <2> QED BY <1>a, <2>1, <2>2, RequestsSame
  <1>10. CASE Handle
    <2>1. /\ obj'.exists = obj.exists
          /\ \/ \E req \in Replies, result \in BOOLEAN : Replied(req, result)
             \/ Unheard
      BY <1>10, HandleEffect DEF Handles
    <2>2. CASE Unheard
      <3>1. obj' = obj /\ call' = call
        BY <1>10, <2>2, ModeHandlers DEF Unheard
      <3>2. \A u \in Threads : RequestOf(u)' = RequestOf(u)
        BY <3>1 DEF RequestOf
      <3> QED BY <1>a, <3>1, <3>2, RequestsSame
    <2>3. ASSUME NEW req \in Replies, NEW result \in BOOLEAN,
                 Replied(req, result)
          PROVE  [Abstract!Next]_(Abstract!vars)
      <3>0. PICK t \in Threads : t = router.msg.from BY <2>3 DEF Replied
      <3>1. /\ t \in Threads /\ Becomes(t, "answered", req, result)
            /\ call[t].pc = "waiting" /\ req.op = call[t].req.op
            /\ call[t].req = router.msg.req
        BY <2>3, <3>0 DEF Replied
      <3>2. obj' = obj \/ router.msg.req.op \in ModeOps
        BY <1>10, ModeHandlers
      <3>3. CASE req.op = "close"
        <4>1. \A u \in Threads : RequestOf(u)' = RequestOf(u)
          BY <3>1, <3>3 DEF RequestOf, Becomes
        <4>2. obj' = obj BY <3>1, <3>2, <3>3 DEF ModeOps
        <4> QED BY <1>a, <4>1, <4>2, RequestsSame
      <3>4. CASE req.op # "close"
        <4>1. RequestOf(t) = "pending" /\ RequestOf(t)' = "served"
          BY <3>1, <3>4 DEF RequestOf, Becomes
        <4>2. R' = [R EXCEPT ![t] = RequestOf(t)'] BY <3>1, RequestMoves
        <4>3. R[t] = "pending" /\ R' = [R EXCEPT ![t] = "served"]
          BY <3>1, <4>1, <4>2
        <4> HIDE DEF R
        <4>4. Abstract!Serve(t)
          BY <2>1, <4>3 DEF Abstract!Serve, Abstract!Moves, R
        <4> QED BY <3>1, <4>4 DEF Abstract!Next
      <3> QED BY <3>3, <3>4
    <2> QED BY <2>1, <2>2, <2>3
  <1>11. CASE Quiet
    <2>1. call' = call /\ obj' = obj BY <1>11 DEF Quiet
    <2>2. \A u \in Threads : RequestOf(u)' = RequestOf(u) BY <2>1 DEF RequestOf
    <2> QED BY <1>a, <2>1, <2>2, RequestsSame
  <1> HIDE DEF R
  <1> QED BY <1>1, <1>2, <1>3, <1>4, <1>5, <1>6, <1>7, <1>8, <1>9, <1>10, <1>11,
             NextCases, QuietEffect

\* The blocking functions implement their promise: a call returns only when
\* the router has served it, once, and the audio device's modes change only
\* when a request is served or the device is created or destroyed.
THEOREM ContractCorrect == Spec => Contract
  <1>1. Init => Abstract!Init
    BY DEF Init, Abstract!Init, RequestOf, Idle, NoObj
  <1>2. IInv /\ [Next]_vars => [Abstract!Next]_(Abstract!vars)
    BY InvParts, AbstractStep
  <1> QED BY <1>1, <1>2, InvCorrect, PTL DEF Spec, Contract, Abstract!Spec
=============================================================================
