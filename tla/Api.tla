-------------------------------- MODULE Api -------------------------------
(***************************************************************************)
(* The router's thread as its callers see it (xrsr.c, xrsr_msgq.c, and the *)
(* modes that xrsr_xraudio.c keeps for the audio device): opening and      *)
(* closing the router, the blocking functions, the bounded message queue   *)
(* they use, and the loop that serves the queue and the next timer.        *)
(*                                                                         *)
(* A blocking function looks at g_xrsr, pushes a message that points to a  *)
(* semaphore and a result on its own stack, waits for the semaphore, and   *)
(* writes what it was told back to g_xrsr.  It ignores whether the push    *)
(* succeeded.  Each of these is a step, so that calls, the router and the  *)
(* closing of the router interleave.  One thread, the Owner, opens and     *)
(* closes the router.                                                      *)
(*                                                                         *)
(* The connection attempts of the destinations (WsConn) appear as one      *)
(* timer: the loop serves an expired timer instead of its message queue.   *)
(***************************************************************************)
EXTENDS Integers, Sequences

CONSTANTS
    Threads,         \* application threads
    Owner,           \* the one that opens and closes the router
    Setters,         \* the ones that set or get power and privacy mode
    MsgqMax,         \* capacity of the message queue (16)
    TimeoutConnect,  \* timeout_connect, in units of the model's clock
    CheckInterval    \* connect_check_interval, in the same units

ASSUME ConstantsAssumption ==
    /\ Owner \in Threads
    /\ "nobody" \notin Threads \* of a message that nobody waits for
    /\ Setters \subseteq Threads
    /\ MsgqMax \in Nat \ {0}
    /\ TimeoutConnect \in Nat
    /\ CheckInterval \in Nat

VARIABLES
    g_xrsr,   \* opened, and the modes as the last calls left them
    obj,      \* the xraudio object, its modes as the router's thread left
              \* them, and whether the last change of the power mode failed
    msgq,     \* the message queue: is it there, and what it holds
    router,   \* the router's thread: where it is and what it handles
    timer,    \* the timer of a connection attempt
    call      \* the call each thread is in

vars == <<g_xrsr, obj, msgq, router, timer, call>>

-----------------------------------------------------------------------------
PowerModes == {"FULL", "LOW"}

\* What a call asks for: a mode that its function does not set is the default.
Request(op, power, privacy) == [op |-> op, power |-> power, privacy |-> privacy]
Asking(op) == Request(op, "FULL", FALSE)

\* xrsr_route, xrsr_host_name_set, xrsr_keyword_config_set,
\* xrsr_keyword_sensitivity_limits_get, xrsr_session_capture_start and _stop
\* do nothing with g_xrsr, and xrsr_session_terminate does not look whether
\* the router is open.
Ops == {"plain", "terminate", "privacy_get", "power", "privacy", "open", "close"}

Requests ==
    {r \in [op : Ops, power : PowerModes, privacy : BOOLEAN] :
        /\ r.op \notin {"power", "open"} => r.power = "FULL"
        /\ r.op \notin {"privacy", "open"} => ~r.privacy}

\* A message: who waits for its answer, and the request.  A session begin has
\* nobody who waits.
Begin == [from |-> "nobody", req |-> Asking("begin")]
Messages == {Begin} \cup [from : Threads, req : Requests]

Idle == [pc |-> "idle", req |-> Asking("plain"), result |-> FALSE]

NoObj == [exists |-> FALSE, power |-> "FULL", privacy |-> FALSE,
          failed |-> FALSE]
NoTimer == [state |-> "none", wait |-> 0]

Init ==
    /\ g_xrsr = [opened |-> FALSE, power_mode |-> "FULL", privacy_mode |-> FALSE]
    /\ obj = NoObj
    /\ msgq = [exists |-> FALSE, msgs |-> << >>]
    /\ router = [pc |-> "none", msg |-> Begin]
    /\ timer = NoTimer
    /\ call = [t \in Threads |-> Idle]

-----------------------------------------------------------------------------
(* The callers.                                                            *)

\* The calls that do more than return at once: a setter returns if g_xrsr
\* holds the mode already.
Sends(t, req) ==
    \/ req.op = "terminate"
    \/ req.op = "plain" /\ g_xrsr.opened
    \/ req.op = "privacy_get" /\ g_xrsr.opened /\ t \in Setters
    \/ /\ req.op = "power" /\ g_xrsr.opened /\ t \in Setters
       /\ g_xrsr.power_mode # req.power
    \/ /\ req.op = "privacy" /\ g_xrsr.opened /\ t \in Setters
       /\ g_xrsr.privacy_mode # req.privacy
    \/ req.op = "close" /\ g_xrsr.opened /\ t = Owner

\* A thread calls a function, which checks g_xrsr.
Call(t) ==
    /\ call[t].pc = "idle"
    /\ \E req \in Requests :
         /\ Sends(t, req)
         /\ call' = [call EXCEPT ![t] = [pc |-> "sending", req |-> req,
                                         result |-> FALSE]]
    /\ UNCHANGED <<g_xrsr, obj, msgq, router, timer>>

\* Mutant of Pushed: one message more than the queue's capacity.
PushedAnyway(msg) ==
    IF msgq.exists /\ Len(msgq.msgs) <= MsgqMax
    THEN [msgq EXCEPT !.msgs = Append(@, msg)] ELSE msgq

\* xrsr_queue_msg_push: a message that does not fit, or for a queue that was
\* destroyed, is dropped.
Pushed(msg) ==
    IF msgq.exists /\ Len(msgq.msgs) < MsgqMax
    THEN [msgq EXCEPT !.msgs = Append(@, msg)] ELSE msgq

\* Mutant of Send: the message joins the queue twice when there is room.
SendTwice(t) ==
    /\ call[t].pc = "sending"
    /\ msgq' = IF msgq.exists /\ Len(msgq.msgs) + 1 < MsgqMax
               THEN [msgq EXCEPT !.msgs = @ \o
                       <<[from |-> t, req |-> call[t].req],
                         [from |-> t, req |-> call[t].req]>>]
               ELSE Pushed([from |-> t, req |-> call[t].req])
    /\ call' = [call EXCEPT ![t].pc = "waiting"]
    /\ UNCHANGED <<g_xrsr, obj, router, timer>>

\* The message is pushed; the caller waits, whether that succeeded or not.
Send(t) ==
    /\ call[t].pc = "sending"
    /\ msgq' = Pushed([from |-> t, req |-> call[t].req])
    /\ call' = [call EXCEPT ![t].pc = "waiting"]
    /\ UNCHANGED <<g_xrsr, obj, router, timer>>

\* What a call leaves in g_xrsr when it was answered.
Kept(c) ==
    IF c.req.op = "open"
    THEN [opened |-> TRUE, power_mode |-> c.req.power,
          privacy_mode |-> c.req.privacy]
    ELSE IF c.req.op = "power" /\ c.result
    THEN [g_xrsr EXCEPT !.power_mode = c.req.power]
    ELSE IF c.req.op \in {"privacy", "privacy_get"} /\ c.result
    THEN [g_xrsr EXCEPT !.privacy_mode = c.req.privacy]
    ELSE g_xrsr

\* The semaphore was posted.
Return(t) ==
    /\ call[t].pc = "answered"
    /\ call[t].req.op # "close"
    /\ g_xrsr' = Kept(call[t])
    /\ call' = [call EXCEPT ![t] = Idle]
    /\ UNCHANGED <<obj, msgq, router, timer>>

\* xrsr_open creates the audio object, the queue and the thread, and waits
\* until the thread has started.
Open ==
    /\ call[Owner].pc = "idle"
    /\ ~g_xrsr.opened
    /\ router.pc \in {"none", "ended"}
    /\ \E p \in PowerModes, b \in BOOLEAN :
         /\ obj' = [exists |-> TRUE, power |-> p, privacy |-> b,
                    failed |-> FALSE]
         /\ call' = [call EXCEPT ![Owner] =
                       [pc |-> "starting", req |-> Request("open", p, b),
                        result |-> FALSE]]
    /\ msgq' = [exists |-> TRUE, msgs |-> << >>]
    /\ router' = [router EXCEPT !.pc = "starting"]
    /\ UNCHANGED <<g_xrsr, timer>>

\* Mutant of GiveUp: the other calls wait five seconds, too.
GiveUpAnyCall ==
    /\ call[Owner].pc = "waiting"
    /\ call' = [call EXCEPT ![Owner] =
                  IF @.req.op = "close" THEN [@ EXCEPT !.pc = "abandoned"]
                  ELSE Idle]
    /\ UNCHANGED <<g_xrsr, obj, msgq, router, timer>>

\* xrsr_threads_term waits five seconds for the answer to TERMINATE, or finds
\* that it cannot tell the time.
GiveUp ==
    /\ call[Owner].pc = "waiting"
    /\ call[Owner].req.op = "close"
    /\ call' = [call EXCEPT ![Owner].pc = "abandoned"]
    /\ UNCHANGED <<g_xrsr, obj, msgq, router, timer>>

\* Mutant of Close: the thread is joined in any case.
CloseJoining ==
    /\ call[Owner].req.op = "close"
    /\ call[Owner].pc \in {"answered", "abandoned"}
    /\ router.pc = "ended"
    /\ msgq' = [exists |-> FALSE, msgs |-> << >>]
    /\ obj' = NoObj
    /\ g_xrsr' = [g_xrsr EXCEPT !.opened = FALSE]
    /\ call' = [call EXCEPT ![Owner] = Idle]
    /\ UNCHANGED <<router, timer>>

\* xrsr_threads_term joins a thread that answered, and destroys the queue;
\* xrsr_close destroys the audio object.
Close ==
    /\ call[Owner].req.op = "close"
    /\ \/ call[Owner].pc = "answered" /\ router.pc = "ended"
       \/ call[Owner].pc = "abandoned"
    /\ msgq' = [exists |-> FALSE, msgs |-> << >>]
    /\ obj' = NoObj
    /\ g_xrsr' = [g_xrsr EXCEPT !.opened = FALSE]
    /\ call' = [call EXCEPT ![Owner] = Idle]
    /\ UNCHANGED <<router, timer>>

\* A source wants a session (xrsr_protocol_handler_ws): its message has no
\* semaphore, and nobody cares whether it fits.
SessionRequest ==
    /\ msgq.exists
    /\ Len(msgq.msgs) < MsgqMax
    /\ msgq' = Pushed(Begin)
    /\ UNCHANGED <<g_xrsr, obj, router, timer, call>>

-----------------------------------------------------------------------------
(* The router's thread.                                                    *)

\* The thread tells its creator that it runs.
Start ==
    /\ router.pc = "starting"
    /\ router' = [router EXCEPT !.pc = "loop"]
    /\ call' = [call EXCEPT ![Owner].pc = "sending"]
    /\ UNCHANGED <<g_xrsr, obj, msgq, timer>>

\* It cannot create its timers, and ends without telling anybody.
StartFails ==
    /\ router.pc = "starting"
    /\ router' = [router EXCEPT !.pc = "ended"]
    /\ UNCHANGED <<g_xrsr, obj, msgq, timer, call>>

Selecting == router.pc = "loop" /\ timer.state # "expired"

\* The message queue is readable: one message is taken and handled.
Take ==
    /\ Selecting
    /\ msgq.msgs # << >>
    /\ router' = [pc |-> "handling", msg |-> Head(msgq.msgs)]
    /\ msgq' = [msgq EXCEPT !.msgs = Tail(@)]
    /\ UNCHANGED <<g_xrsr, obj, timer, call>>

\* select fails: it was interrupted, or the queue it waits for is gone.
SelectFails ==
    /\ Selecting
    /\ router' = [router EXCEPT !.pc = "leaving"]
    /\ UNCHANGED <<g_xrsr, obj, msgq, timer, call>>

Waiting(req) == {t \in Threads : call[t].pc = "waiting" /\ call[t].req = req}

\* The handler is done: it stores the result for the caller and posts the
\* semaphore.  Nobody waits for a TERMINATE that xrsr_close gave up.
Answer(req, result) ==
    LET t == router.msg.from IN
        call' = IF router.msg.from \in Waiting(router.msg.req)
                THEN [call EXCEPT ![t] = [pc |-> "answered", req |-> req,
                                          result |-> result]]
                ELSE call

Handling(ops) ==
    /\ router.pc = "handling"
    /\ router.msg.req.op \in ops
    /\ router' = [pc |-> IF router.msg.req.op = "close" THEN "leaving"
                         ELSE "loop",
                  msg |-> Begin]
    /\ UNCHANGED <<g_xrsr, msgq>>

\* xrsr_msg_session_begin: a destination without a session starts to connect.
HandleBegin ==
    /\ Handling({"begin"})
    /\ \/ /\ timer.state = "none"
          /\ timer' = [state |-> "armed", wait |-> TimeoutConnect]
       \/ UNCHANGED timer
    /\ UNCHANGED <<obj, call>>

\* The handlers may terminate the session whose attempt it is.
MayTerminate == timer' \in {timer, NoTimer}

\* xrsr_msg_route_update (of xrsr_open, too), xrsr_msg_session_terminate,
\* xrsr_msg_host_name_update, xrsr_msg_keyword_update, the capture messages.
HandlePlain ==
    /\ Handling({"plain", "terminate", "open"})
    /\ Answer(router.msg.req, TRUE)
    /\ MayTerminate
    /\ UNCHANGED obj

\* xrsr_msg_terminate: the loop ends, whatever is left in the queue.
HandleTerminate ==
    /\ Handling({"close"})
    /\ Answer(router.msg.req, TRUE)
    /\ UNCHANGED <<obj, timer>>

\* xrsr_xraudio_power_mode_update: the object takes the mode before the
\* library does, and keeps it when the library fails.
HandlePower ==
    /\ Handling({"power"})
    /\ LET p == router.msg.req.power IN
         \/ /\ ~obj.exists \* it was freed
            /\ \E result \in BOOLEAN : Answer(router.msg.req, result)
            /\ UNCHANGED obj
         \/ /\ obj.exists /\ obj.power = p
            /\ Answer(router.msg.req, TRUE)
            /\ obj' = [obj EXCEPT !.failed = FALSE]
         \/ /\ obj.exists /\ obj.power # p
            /\ \E result \in BOOLEAN :
                 /\ obj' = [obj EXCEPT !.power = p, !.failed = ~result]
                 /\ Answer(router.msg.req, result)
    /\ IF router.msg.req.power = "LOW" THEN MayTerminate ELSE UNCHANGED timer

\* Mutant of HandlePrivacy: the object takes the mode before the library does.
HandlePrivacyFirst ==
    /\ Handling({"privacy"})
    /\ \E result \in BOOLEAN :
         /\ obj' = IF obj.exists THEN [obj EXCEPT !.privacy =
                                         router.msg.req.privacy] ELSE obj
         /\ Answer(router.msg.req, result)
    /\ UNCHANGED timer

\* xrsr_xraudio_privacy_mode_update: fails for the mode that is set already.
HandlePrivacy ==
    /\ Handling({"privacy"})
    /\ LET b == router.msg.req.privacy IN
         \/ /\ ~obj.exists
            /\ \E result \in BOOLEAN : Answer(router.msg.req, result)
            /\ UNCHANGED obj
         \/ /\ obj.exists
            /\ Answer(router.msg.req, FALSE)
            /\ UNCHANGED obj
         \/ /\ obj.exists /\ obj.privacy # b
            /\ obj' = [obj EXCEPT !.privacy = b]
            /\ Answer(router.msg.req, TRUE)
    /\ UNCHANGED timer

\* xrsr_xraudio_privacy_mode_get: the library tells the mode, which the
\* hardware may have changed, or fails.
HandlePrivacyGet ==
    /\ Handling({"privacy_get"})
    /\ \/ Answer(router.msg.req, FALSE) /\ UNCHANGED obj
       \/ \E b \in BOOLEAN :
            /\ Answer(Request("privacy_get", "FULL", b), TRUE)
            /\ obj' = IF obj.exists THEN [obj EXCEPT !.privacy = b] ELSE obj
    /\ UNCHANGED timer

\* Mutant of TimerFire: the waiting time is not used up.
FireAgain ==
    /\ router.pc = "loop"
    /\ timer.state = "expired"
    /\ \/ timer' = NoTimer
       \/ timer.wait > 0 /\ timer' = [timer EXCEPT !.state = "armed"]
    /\ UNCHANGED <<g_xrsr, obj, msgq, router, call>>

\* An expired timer is served before select: the server has answered, the
\* waiting time is used up, or the timer is updated to one interval from now.
TimerFire ==
    /\ router.pc = "loop"
    /\ timer.state = "expired"
    /\ \/ timer' = NoTimer
       \/ /\ timer.wait > 0
          /\ timer' = [state |-> IF CheckInterval = 0 THEN "expired"
                                 ELSE "armed",
                       wait |-> timer.wait - CheckInterval]
    /\ UNCHANGED <<g_xrsr, obj, msgq, router, call>>

\* The thread terminates the destinations and destroys its timers.
Leave ==
    /\ router.pc = "leaving"
    /\ router' = [router EXCEPT !.pc = "ended"]
    /\ timer' = NoTimer
    /\ UNCHANGED <<g_xrsr, obj, msgq, call>>

\* Time passes.
Tick ==
    /\ timer.state = "armed"
    /\ timer' = [timer EXCEPT !.state = "expired"]
    /\ UNCHANGED <<g_xrsr, obj, msgq, router, call>>

-----------------------------------------------------------------------------
\* What a call does without anybody's help.
Proceed(t) == Send(t) \/ Return(t) \/ (t = Owner /\ (GiveUp \/ Close))

Handle ==
    HandleBegin \/ HandlePlain \/ HandleTerminate \/ HandlePower
    \/ HandlePrivacy \/ HandlePrivacyGet

Next ==
    \/ \E t \in Threads : Call(t) \/ Proceed(t)
    \/ Open \/ SessionRequest
    \/ Start \/ StartFails \/ Take \/ SelectFails \/ Handle \/ TimerFire
    \/ Leave \/ Tick

Spec == Init /\ [][Next]_vars

\* Every thread is scheduled and every handler comes to its end; select
\* returns when there is a message, and fails for a queue that is gone.
FairSpec ==
    /\ Spec
    /\ \A t \in Threads : WF_vars(Proceed(t))
    /\ WF_vars(\/ Start \/ Take \/ Handle \/ TimerFire \/ Leave
               \/ (SelectFails /\ ~msgq.exists))

-----------------------------------------------------------------------------
(* Properties.                                                             *)

CallPcs == {"idle", "sending", "waiting", "answered", "starting", "abandoned"}
Replies == Requests \cup {Request("privacy_get", "FULL", TRUE)}
RouterPcs == {"none", "starting", "loop", "handling", "leaving", "ended"}

\* The fields hold what their C types allow, and the queue no more than its
\* capacity, although nobody who pushes looks at it first.
TypeOK ==
    /\ g_xrsr \in [opened : BOOLEAN, power_mode : PowerModes,
                   privacy_mode : BOOLEAN]
    /\ obj \in [exists : BOOLEAN, power : PowerModes, privacy : BOOLEAN,
                failed : BOOLEAN]
    /\ msgq \in [exists : BOOLEAN, msgs : Seq(Messages)]
    /\ Len(msgq.msgs) <= MsgqMax
    /\ router \in [pc : RouterPcs, msg : Messages]
    /\ timer \in [state : {"none", "armed", "expired"}, wait : Int]
    /\ call \in [Threads -> [pc : CallPcs, req : Replies, result : BOOLEAN]]

\* Somebody waits for the answer to m; xrsr_close may have given up.
Expected(m) ==
    \/ m = Begin
    \/ m.req.op = "close"
    \/ m.from \in Waiting(m.req)

\* A message of t that the router has still to answer.
Queued(t) == \E i \in DOMAIN msgq.msgs : msgq.msgs[i].from = t
Handled(t) == router.pc = "handling" /\ router.msg.from = t

\* The semaphore and the result that a message points to are there until it
\* is answered: its caller still waits in the call that sent it, and no
\* message is in the queue, or handled, twice.
Answerable ==
    /\ \A i \in DOMAIN msgq.msgs : Expected(msgq.msgs[i])
    /\ router.pc = "handling" => Expected(router.msg)
    /\ \A t \in Threads : Queued(t) => ~Handled(t)
    /\ \A i, j \in DOMAIN msgq.msgs :
          msgq.msgs[i].from = msgq.msgs[j].from /\ i # j => msgq.msgs[i] = Begin

\* When one thread sets the modes, opens and closes, then between its calls
\* g_xrsr, by which the next call of a setter decides to do nothing, holds the
\* modes of the audio object; only a power mode that the library refused makes
\* a difference.
ModesAgree ==
    (Setters = {Owner} /\ call[Owner].pc = "idle" /\ g_xrsr.opened) =>
        /\ g_xrsr.privacy_mode = obj.privacy
        /\ g_xrsr.power_mode = obj.power \/ obj.failed

\* What became of t's request, as the abstract specification sees it.
RequestOf(t) ==
    IF call[t].req.op # "close" /\ call[t].pc = "waiting" THEN "pending"
    ELSE IF call[t].req.op # "close" /\ call[t].pc = "answered" THEN "served"
    ELSE "none"

Abstract == INSTANCE SyncCall WITH
    request <- [t \in Threads |-> RequestOf(t)],
    device <- obj.exists,
    modes <- <<obj.power, obj.privacy>>

\* The blocking functions keep their promise, whatever is dropped or left
\* behind when the router closes: a call that returns was served, once.
Contract == Abstract!Spec

\* A call whose message is in the queue returns, or the router ends first: an
\* attempt to connect does not keep the loop from its queue for ever.
QueuedCallsReturn ==
    \A t \in Threads :
        (call[t].pc = "waiting" /\ (Queued(t) \/ Handled(t)))
            ~> (call[t].pc # "waiting" \/ router.pc \in {"leaving", "ended"})

\* xrsr_close returns, also when the queue was full, the router is in a long
\* handler, or it has ended before.
CloseReturns == call[Owner].req.op = "close" ~> call[Owner].req.op # "close"

-----------------------------------------------------------------------------
(* What declarations of the repository say, and the code does not do.      *)

\* xrsr.h of xrsr_power_mode_set and xrsr_privacy_mode_set: "This call is
\* synchronous and will block until completion or an error occurs."
SettersReturn ==
    \A t \in Setters :
        (call[t].pc = "waiting" /\ call[t].req.op \in {"power", "privacy"})
            ~> call[t].pc # "waiting"

-----------------------------------------------------------------------------
(* The inductive invariant: what a call and the queue say of each other,    *)
(* and the modes on their way between the audio object and g_xrsr.          *)

\* Only the answer tells a caller what it did not ask for.
Asks == \A t \in Threads : call[t].pc # "answered" => call[t].req \in Requests

\* Who calls what, and where only an opening or a closing thread is.
Roles ==
    /\ \A t \in Threads :
         /\ call[t].req.op \in {"open", "close"} => t = Owner
         /\ call[t].req.op \in {"power", "privacy", "privacy_get"} => t \in Setters
         /\ call[t].pc = "idle" => call[t] = Idle
         /\ call[t].pc = "abandoned" => call[t].req.op = "close"
    /\ router.pc = "starting" => call[Owner].pc = "starting"

\* A thread that waits for nothing has left no message behind, a TERMINATE
\* apart that the router still handles when the queue is gone.
Owns ==
    \A t \in Threads :
        call[t].pc \notin {"waiting", "abandoned"} =>
            ~Queued(t) /\ (Handled(t) => t = Owner /\ ~msgq.exists)

\* A queue that was destroyed holds nothing.
GoneEmpty == ~msgq.exists => msgq.msgs = << >>

\* The audio object is there from the beginning of xrsr_open to the end of
\* xrsr_close, which only a router that is open sees.
Device ==
    /\ obj.exists <=> g_xrsr.opened \/ call[Owner].req.op = "open"
    /\ call[Owner].req.op = "open" => ~g_xrsr.opened
    /\ call[Owner].req.op = "close" => g_xrsr.opened

\* t is about to write the mode that its call of op brought.
Told(t, op) ==
    call[t].req.op = op /\ call[t].pc = "answered" /\ call[t].result

\* Where the modes of the audio object are known, when one thread sets them.
Known ==
    (Setters = {Owner} /\ obj.exists) =>
        LET req == call[Owner].req IN
        IF req.op = "open"
        THEN obj.privacy = req.privacy /\ obj.power = req.power
        ELSE /\ IF Told(Owner, "privacy") \/ Told(Owner, "privacy_get")
                THEN obj.privacy = req.privacy
                ELSE obj.privacy = g_xrsr.privacy_mode
             /\ IF Told(Owner, "power")
                THEN obj.power = req.power
                ELSE obj.power = g_xrsr.power_mode \/ obj.failed

IInv ==
    /\ TypeOK /\ Asks /\ Roles /\ GoneEmpty /\ Answerable /\ Owns
    /\ Device /\ Known
=============================================================================
