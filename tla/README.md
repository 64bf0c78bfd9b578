# A formal model of the XR speech router

The speech router (`xrsr`) is a library: an application gives it a table of
routes, one destination (a WebSocket, HTTP or SDT server) per audio source, and
the router turns keywords and requests into *sessions*: it takes an audio pipe
from the audio library, connects the source's destination, streams audio until
the speech, the server or the application ends it, and releases everything for
the next session. This directory holds TLA+ modules that model it, the TLC
configurations that check them and the proofs TLAPS has checked.

`PROJECT.json` maps every definition to the source lines it stands for, and
lists the runs, the mutants that show each property can fail, the findings and
the hazards.

## 1. Inventory

One thread, the *router thread* (`xrsr_thread_main`), runs everything that has
state: it waits for its message queue, the sockets, the audio pipes and the next
timer, and runs one handler at a time. Application threads and the audio
library's threads put messages into its queue; a few functions
(`xrsr_session_request`, the send handlers) touch state from the caller's thread.

| Component | State | Operations | Interacts with | Hard behaviour |
|---|---|---|---|---|
| **WebSocket destination** `xrsr_protocol_ws.c` | 9-state machine and its event queue (5), timer, nopoll connection, socket, pipe, pending write, outgoing messages (5), end reasons | connect, terminate, init/term, speech events, timer, socket read/write, pipe read, receive callback, send from any thread | router (stream end, session end), nopoll callbacks, application callbacks | events raised inside handlers, close detected inside the connection poll, retries, sends racing the session's end |
| **HTTP destination** `xrsr_protocol_http.c` | 6-state machine each; shared: curl multi handle, reference count, easy handle count, curl timer | init/term, connect, terminate, speech events, response timer, body read callback, completion, curl timer | curl's callbacks, router | shared timer and reference count, failed connect, body ended before the pipe is known |
| **SDT destination** `xrsr_protocol_sdt.c` | 7-state machine and its event queue, pipe, outgoing messages, end reasons | init, term (empty), connect, terminate, speech events, pipe service, send from any thread | router, application's audio handler | an event raised and processed inside an ENTER action, no timers, a session that outlives its router |
| **Router and sessions** `xrsr.c` | per group of sources: active source, first-stream flag, pipe; per source: destination, uuid | the 15 messages of `g_xrsr_msg_handlers` | all | late configurations, begins queued behind sessions, route changes under sessions |
| **Audio glue** `xrsr_xraudio.c` | device state, streams (`active`), `detecting`, inputs, power mode, rejected flag | device request/grant/revoke/update/close, detector start/stop/error, stream begin/end | audio library, resource manager, router | bookkeeping on error paths against the library's own state |
| **Message queue, blocking API** `xrsr_msgq.c`, `xrsr.c` | queue of 16 messages; each caller's semaphore and result on its stack; `opened` and the cached modes of `g_xrsr` | push, route, host name, keyword, power, privacy, terminate, capture calls | application threads, every handler | ignored push failures, messages behind TERMINATE, caches written after the answer |
| **Open, close, loop** `xrsr.c` | thread, queue, next timer | open, close with its five seconds, `select`, one timer or one message per pass, the loop's end | all | a loop that ended by itself, a close that gave up, timers ahead of the queue |
| **Keyword, privacy and capture APIs** | privacy mode in the library, the audio object and `g_xrsr` | set, get | audio library | a library that fails half-way |
| **Configuration, URL utilities** | values | parsing | | numeric ranges |

What makes each right: a destination ends stream and session exactly once and
in order, in a bounded time while it opens, with the reason of that session; its
timer exists exactly when it is needed; the router gives a group to one source
at a time, starts a session only with its own configuration, and never loses a
pipe; the audio glue's idea of the device is the library's; the shared curl
timer runs while some destination needs it; a blocking call returns only after
its message was handled, once, while its caller's frame exists; `xrsr_close`
always returns; and the modes in `g_xrsr` are those of the audio device.

## 2. Modules

```
Conn   what a destination      Microphone  what the       SyncCall  what a blocking
  ^    promises                  ^         router promises    ^     call promises
  |                              |                            |
  |  refinement (Contract)       |  Contract                  |  Contract
WsConn  HttpConn  SdtConn      Router -- EXTENDS XrAudio     Api
  ^        ^         ^           ^          ^                 ^
MCWsConn MCHttpConn MCSdtConn  MCRouter     |                MCApi
WsConnProofs  |   SdtConnProofs  |     XrAudioProofs          ApiProofs
          HttpConnProofs      RouterProofs --^
```

The `MC` modules give the constants to TLC; a `..Proofs` module EXTENDS its
module and TLAPS.

**`Conn`** (abstract). A destination's session is idle, opening, streaming or
draining; `EndStream`, `EndSession` and `Abort` count the calls of
`xrsr_speech_stream_end` and `xrsr_session_end`.

**`WsConn`**. `ws` is `xrsr_state_ws_t` (fields keep their names) with history
fields: the timers `rdkx_timer` holds for it, and the calls made in the latest
session. `evq` is the state machine's queue, `task` the router handler that is
running. `xrsr_ws_event(.., false)` is `Raise`: it queues the event, and `Step`
actions process the queue until it is empty; then the handler's remaining code
runs (`CountPendingRetry`, `ReportWriteError`, `RecvMsg`, `OnMsgDone`, `Return`).
`xrsr_ws_event(.., true)` only queues. The tables `NextStates` and `ExitReasons`
are the `_NextStates` arrays and the EXIT actions; `Enter` is the ENTER actions.
An event the state does not list is dropped, as in the state machine library.
An application thread sends in two steps, `SendCheck` and `SendPut`, which
interleave with everything.

**`HttpConn`**. The same for each HTTP destination in `Conns`, with `g_http`
shared. curl is external: `transfer` is where its transfer is; each call that
drives it, or removes a handle, may set, move or remove its timer (`CurlTimer`), read the request's
body or complete the transfer. `LoopEnds` and `Open` are the router's end and
restart around `xrsr_close`.

**`SdtConn`**. The state machine again, without timers: opening a connection always
succeeds, `Raised` is the event each ENTER action raises, and `Step` processes one.
`Disconnected` raises TERMINATE by calling `xrsr_sdt_terminate` from its own ENTER
action; the machine is in `Disconnected` by then and drops it. `LoopEnds` is the end
of the router's loop, which calls an empty `xrsr_sdt_term`, and `Restart` the
`xrsr_sdt_init` of the next router or of a route update, which zeroes whatever the
structure holds; `leaked` counts the streams it forgot. The contract is `Conn`'s, and
`Forget` for a restart.

**`Api`**. Application threads, the queue, and the router's thread as they see it.
A blocking function is the steps `Call` (it looks at `g_xrsr`), `Send` (it pushes,
whether that succeeds or not), the router's answer, and `Return` (it writes the mode
back to `g_xrsr`); other threads, the router and `xrsr_close` interleave with each.
The owner's `Open`, `Start` or `StartFails`, and `GiveUp` and `Close` are `xrsr_open`
and `xrsr_close`. The loop serves an expired timer (`TimerFire`, standing for the
polling of a connection attempt as in `WsConn`) or takes one message (`Take`), whose
handler (`HandleBegin`, `HandlePlain`, `HandlePower`, `HandlePrivacy`,
`HandlePrivacyGet`, `HandleTerminate`) answers. `SelectFails` is the interrupted
`select`. Calls whose messages are handled alike are one request, `plain`: route,
host name, keyword configuration, sensitivity limits and capture.

**`SyncCall`** (abstract). A thread's request is pending, served, returned; it is
served once and the device's modes change with it.

**`XrAudio`** has operators from the audio object to the audio object, or to the
set of its outcomes where the library or the resource manager decides. `open`,
`detector`, `streaming` (the source whose stream the library has), `halted` (that
stream failed on its own) and `resource` are the library's own state; `refused` is
history, that the library would not stop a stream when asked. The constant
`Fallible` says which calls the library may refuse on an open device: the stop of a
stream (`xraudio_stream_stop`), the start and the stop of the detector
(`xraudio_detect_keyword`, `xraudio_detect_stop`). A stream that it refuses to stop
stays active, and the detector is not restarted, while the router gives up the pipe
and ends the session (`xrsr_xraudio.c:672`, `xrsr.c:2691`).

**`Router`** EXTENDS it. `xrsr` is `g_xrsr`, `msgq` the queue, `awaited` the uuid
the application has still to answer with a configuration, `caller` the
application thread. One action per message handler (`SessionBegin`,
`SessionConfigIn`, `SessionTerminate`, `StreamFailed`, `KeywordDetected`,
`KeywordDetectError`, `RouteUpdate`, `PowerUpdate`, `Granted`, `Revoked`). A
destination appears by its phase, and takes `Conn`'s steps with what its calls do
to the router; that it disconnects before `terminate` returns is
`TerminateDisconnects` of the protocol modules. The modelled build ignores a
keyword while its own session is in progress (`XRSR_SESSION_RETRIGGER_ABORT` is
not defined) and has one destination per source (`XRSR_DST_QTY_MAX` is 1).

**`Microphone`** (abstract). Per group of sources, an audio path goes through
free, taken, recording, recorded, and passes on only when free. A path may be
`stuck`: its stream would not stop when its session stopped it, and may run on until
it stops or the next stream takes its place. Nothing else may be recorded for nobody.

## 3. Runs

| Run | What it shows |
|---|---|
| `Ws` | safety of a WebSocket destination, refinement of `Conn`, `OpeningResolves` |
| `Router` | a remote control (WS) and the microphone (HTTP) in one group, no resource manager; the library may refuse every call in `Fallible` |
| `RouterTap` | the microphone (HTTP) and its tap (SDT), two groups on one device, resource manager; the library may refuse to stop a stream |
| `Http` | two HTTP destinations on one multi handle, curl failing, loop end and restart; refinement of `Conn` per destination; the wait for a response ends |
| `Sdt` | an SDT destination through three sessions, sends, late speech events and restarts of the router; refinement of `Conn` |
| `Api` | two application threads, a queue of two, a library and a `select` that may fail, opening and closing; refinement of `SyncCall`, queued calls return, closing returns |

The six other runs each check one statement of a comment or of the header that
the code does not keep; the traces are in section 6.

Properties, by the question they answer:

* *Does a session end once, and in order?* `EndedOnce`, `Contract` (WS, HTTP,
  SDT: `Conn`; router: `Microphone`), `TerminateDisconnects`.
* *Does it report its own reason?* `ReasonOfThisSession`, `StreamWasStarted`.
* *Are timers, handles and pipes owned?* `TimerMatchesState`, `CurlTimerOwned`,
  `Usable`, `QueueBounded`, `PipeOwned`, `Rests`.
* *Does the router keep sessions apart?* `Exclusive`, `ConfiguredOnce`,
  `StreamOwned`, `DeviceTruth`.
* *Is a call answered once, while it waits?* `Answerable`, `Contract` (`SyncCall`).
* *Is the cache right?* `ModesAgree`.
* *Does something happen at last?* `OpeningResolves`, `AnswerAwaited`,
  `QueuedCallsReturn`, `CloseReturns`.

`TypeOK` of each module includes what no type checker sees: the bounds of the
queues and arrays, and the counts that HTTP destinations share.

### Bounds

* `MaxSessions` is 2 per destination: what a session leaves behind is met by the
  next one, and a third meets no more than the second. History counters
  restart with each session.
* `TimeoutConnect` 2 and `CheckInterval` 1: the wait is extended twice and then
  given up; larger values repeat the same step. `MsgOutMax` 1: empty and full.
  `WriteRetryMax` 1 with `RetryWidth` 4: below, at and beyond the limit.
* HTTP: two destinations, the smallest number that shares; the proofs cover every
  number.
* SDT: three sessions, one before, one during and one after a restart; outgoing
  messages 2: empty, in between and full.
* Api: two threads, of which one sets modes, opens and closes; the other's calls are
  those that keep nothing. `MsgqMax` 2: a session begin and one call fill it, and a
  call may be behind TERMINATE. `TimeoutConnect` 1, `CheckInterval` 1: the timer is
  re-armed once and given up. The proofs cover every number of threads and setters,
  and every capacity.
* Router: two sources; they share a group in one run and are in different groups
  in the other. `MsgqMax` 2 makes the full queue frequent (`RouterListens` has 4,
  so that its trace does not depend on a full queue). Three uuids: a queued
  configuration, the awaited one and the destination's; when all are in use a
  begin waits. The route tables are all routes, and one that deletes the remote
  control's. The uuids are symmetric.
* `Fallible` is all three calls in `Router`, the stop of a stream in `RouterTap` (two
  groups are what is new there), and empty in the three violation runs of the
  router: their traces need no failing library.
* Power modes are full and low: sleep behaves as low in this code.

The router and `Api` runs say `CHECK_DEADLOCK FALSE` because the code really may
stop: a blocking call whose message a full queue refuses waits for ever, and when
`xrsr_open` waits for a thread that did not start, or with no session, device and
detector, nothing else happens. The other runs check deadlock.

### Fairness

`WsConn!FairSpec` assumes that a running handler goes on (`Continue`: it is code
without waits), that the clock reaches the end of the retry period (`Expire`),
and that the timer is served again and again while the connection opens (strong
fairness of `TimerFire` in `OpeningStates`): `xrsr_thread_main` asks
`rdkx_timer` for the next timer before each `select` and serves an expired one
first, so other traffic cannot put it off, but other handlers may run in between,
and each of them disables the action for its duration, so weak fairness would
assume too little. Nothing is assumed of servers, sockets, pipes
or applications. `HttpConn!FairSpec` assumes the same of `Continue` and the
response timer, and that `xrsr_close`, after the loop's end, frees the routes.
(It does when `xrsr_close` ended the loop. After a failed `select` nothing is freed
until the application calls it, and the wait is as long.)

No property says that a stream ends: `Streaming` and `TextOnlySession` of WebSocket
and HTTP destinations have no timer, nor has any SDT state, so a server that neither
closes nor answers, with a pipe that has no end, keeps a session open for ever.

`Api!FairSpec` assumes that every thread is scheduled (`Proceed`: push, return, and
the five seconds of `xrsr_close` pass), and that the router's thread goes on: its
handlers are code that ends, `select` returns when there is a message, and it fails
when its queue was destroyed. It does not assume that applications call, that time
expires a timer, that `select` is interrupted, or that sessions begin. Weak fairness
of the disjunction of the router's steps leaves open whether a pass serves the timer
or the queue; that the timer cannot starve the queue is what `QueuedCallsReturn`
shows, and it rests on the waiting time that each poll uses up.

`OpeningResolves` and `QueuedCallsReturn` need a `CheckInterval` above 0; the JSON configuration accepts
0, for which an attempt never gives up, and holds up the queue (see the hazards).

## 4. Proofs

`WsConnProofs` proves, for every value of the constants that
`ConstantsAssumption` admits:

* **`TypeCorrect`**: `Spec => []TypeOK`. `TypeOK` is inductive. Besides the fields'
  types it says that each exit table gives stream reasons to the stream and
  session reasons to the session, that the retry counter stays below its width,
  and that only events the machine knows are queued. The argument goes along the
  code: the tables (`NextStatesType`, `ReasonsType`), what each helper does to a
  connection (`ExitType`, `ResetType`, `DisconnectType`, `EnterType`), one event
  (`StepType`), the handlers (`HandlersType`, `ContinueType`), the temporal step.
* **`InvCorrect`**: `Spec => []IInv`, the inductive invariant, and from it
  `EndedOnceCorrect`, `UsableCorrect`, `TimerCorrect`, `TerminateCorrect` and
  `QueueCorrect`: the state invariants of the run `Ws`.
* **`ReasonCorrect`** and **`ContractCorrect`**: the action property
  `ReasonOfThisSession`, and that `WsConn` implements `Conn`.

*Why `IInv` is needed.* None of the properties is inductive: an event that is
processed in a state that never sees it would break each of them, so one has to
know what the queue may hold. `IInv` (in `WsConn`) adds to `TypeOK`, `EndedOnce`
and `Usable`:

| Conjunct | What it says | What breaks without it |
|---|---|---|
| `QueueShape` | one event waits, or an `EOS_PIPE` a message callback left and one event; between handlers at most that `EOS_PIPE` | `QueueBounded`, and every case split below |
| `BeginsIdle` | a begin event waits only in an idle connection that has not ended anything yet | a second begin would restart a session that is in progress |
| `Leaving` | in `Disconnecting` the queue holds `DISCONNECTED` alone | a handler could find the connection half closed |
| `Ending` | in terminate and term, `TERMINATE` is still queued, or the session is over or about to be, with its reason set | `TerminateDisconnects` |
| `Terminated` | a connection without context is idle | an event could reach a machine that is gone |
| `TimerHeld` | no timer is lost; only an attempt that could not start has none, and then the event that ends the attempt is queued | `TimerMatchesState` |
| `ConnHeld` | the connection object exists from `Connecting` on, the socket as soon as `ESTABLISHED` is queued | `Usable` |

*The argument.* `EnterEffect` and `ExitEffect` say what the ENTER and EXIT actions
do to the fields the invariant reads; `Tables` and `LeaveTables` (`Edge`) what the
next-state tables allow. One event is dropped (`StayInv`), leads to another state
(`LeaveInv`) or polls the opening connection, nested `WS_CLOSE` included
(`PollInv`); `StepInv` combines them. A handler raises an event (`RaiseInv`),
touches only what the invariant does not read (`SameInv`) or ends (`EndsInv`);
`ConnectInv` and `ReinitInv` are by hand. The same lemmas say what the router sees:
`NextInv` sorts every step into one that is invisible (`Steady`), a connect, a
move, or a close during the poll, and `AbstractStep` maps these to `Conn`.
`ReasonCorrect` adds one conjunct, `FreshHeld`: in `Disconnecting` the reasons are
set.

The assumptions are those of `ConstantsAssumption` and nothing else; in particular
`CheckInterval` may be 0, and `MaxSessions`, the only bound of the model, is any
positive number.

`SdtConnProofs` proves of `SdtConn`, for any length of the outgoing queue and any
number of sessions, the inductive invariant (`InvCorrect`), all five invariants of the
run `Sdt` (`TypeCorrect`, `EndedOnceCorrect`, `TerminateCorrect`, `PipeCorrect`,
`RestsCorrect`), `ReasonCorrect` and `ContractCorrect`: everything the run checks.
`IInv` there adds `QueueShape` (at most one event waits, none between handlers),
`BeginsIdle` (a begin event only in the idle destination it was raised for), `Passing`
(the states that raise the event that leaves them hold exactly that event), `Ending`
(TERMINATE is still queued or has taken effect) and `FreshHeld`. Without `Passing` a
TERMINATE could find the machine in `Connecting`; without `BeginsIdle` a late begin
could reach a session in progress. One event is dropped (`DropInv`) or is a `Move`
(`MoveInv`), for which `Tables` says what the tables of the state machine allow, once.

`ApiProofs` proves of `Api`, for any set of threads and setters and any capacity of
the queue, `InvCorrect`, `TypeCorrect`, `AnswerableCorrect`, `ModesCorrect` and
`ContractCorrect` (the refinement of `SyncCall`): all safety properties of its run.
`Answerable` is not inductive: that a call's return leaves no message behind needs
`Owns` (a thread that waits for nothing has nothing queued or handled, a TERMINATE
apart that `xrsr_close` gave up), which needs `GoneEmpty`, `Roles` and `Asks` to know
whose TERMINATE it is. `ModesAgree` needs `Known`: where the modes are while a call is
under way, that is with the device, in the answer, or in `g_xrsr`; and `Device`, that
the audio object exists exactly while the router is open or opening. The argument has
one lemma for what each step does to calls, queue and router (`..Effect`), and for
each part of the invariant one that it survives every step (`AsksStep`, `RolesStep`,
`MailStep`, `DeviceStep`, `KnownStep`). The assumptions are `ConstantsAssumption`,
among them that the name of the message nobody waits for is no thread.

`HttpConnProofs` proves of `HttpConn`, for any finite set of destinations, any of
them failing to get an easy handle, and any number of sessions, the inductive
invariant (`InvCorrect`), the six invariants of the run `Http` (`TypeCorrect`,
`EndedOnceCorrect`, `TimerCorrect`, `CurlCorrect`, `StreamCorrect`,
`TerminateCorrect`) and `ContractCorrect`, the refinement of `Conn` by every
destination: all its safety properties. What is proved of one destination depends on
the others through `g_http` only, and the invariant is split along that line:

| Conjunct | What it says | What breaks without it |
|---|---|---|
| `QueueShape`, `BeginsIdle`, `Passing`, `Ending` | as in `SdtConn`, for the destination whose handler runs | `EndedOnce`, `TerminateDisconnects` |
| `RoutedOnly` | a destination without a route is idle and has no handler | a new route would forget a session |
| `HandleHeld` | a destination has an easy handle exactly during its session | `CurlTimerOwned`: a connection could enter `Connecting`, where curl sets its timer, without one |
| `BegunHeld` | what streams has begun; a response timer is that of `Connected` | `StreamWasStarted`, `TimerMatchesState` |
| `RefsHeld` | the references to the multi handle are those of routed destinations; fewer, when a connect has failed | `TypeOK` |

The proofs regroup it: `Good` is what one destination's record satisfies, `Curl` what
the shared record does, and `RestIs` says that this is `IInv`. `ExitEffect`,
`EnterEffect` and `Lead` say what an event does to one record (`LeadGood`), `Recount`
how the numbers of easy handles and routes change with one record, by the theorems on
finite sets; `CurlTimerEffect`, `ResetSharedEffect`, `ConnectSharedEffect` and
`RefEffect` what becomes of the shared record. Every step leaves all sessions alone
(`KeptInv`), begins one (`ConnectInv`), moves one (`MoveInv`), or places or gives up
an idle destination (`RouteInv`, `TermInv`); `AbstractStep` maps them to `Conn`. The
assumptions are those of `HttpAssumption`.

`XrAudioProofs` proves of every operation on the audio object that it keeps the object
`Sound` (well typed, and `Truthful` about the library's device, detector and streams:
a stream is active exactly while the library has it), whichever call is refused, and
that it is `Quieter`: no stream is active or running afterwards that was not before.
`AudioStreamEndQuieter` says in addition that a stream which is active after its end
was refused. `StreamStart` alone is an exception, and `StreamStartSound` says that it
touches one group. The assumption is `AudioAssumption`.

`RouterProofs` proves of `Router`, for any subset of the four sources, any table of
protocols and of requested sources, any capacity of the queue, with or without a
resource manager, any set of calls that the library may refuse, and any finite or
infinite set of uuids:

* `InvCorrect`, the inductive invariant, and from it all of the runs' state invariants
  but one: `TypeCorrect`, `ExclusiveCorrect`, `DeviceCorrect`;
* `ConfiguredOnceCorrect`, the action property;
* `StreamCorrect` and `ContractCorrect`, the invariant `StreamOwned` and the refinement
  of `Microphone`. None of these theorems has a hypothesis on the constants but those
  of `AudioAssumption` and `RouterAssumption`.

`IInv` (in `Router`) adds to `TypeOK`, `Exclusive` and `DeviceTruth`:

| Conjunct | What it says | What breaks without it |
|---|---|---|
| `Grouped` | the active source of a group is of that group | `Exclusive`: the end of one group's session could free the other group's |
| `IdleSource` | an idle destination works for no source, or, a fresh SDT one, for source 0 | `Exclusive`: a failed stream begin could end a session that is connected |
| `UuidsOnce` | a uuid is in one place: with the application, in one queued configuration, or with its connected destination | `ConfiguredOnce`: a late configuration could start another session |

*The argument.* What the router's calls do is a composition of few operations (end a
stream, end a session, set a phase, touch the audio object), nearly all of which only
*end* things. `Stops(x, y)` says that: `y` is well formed, its audio is quieter, and
each group has in it the same session as in `x` or has come to the end of it. It is
transitive (`StopsTrans`), so it suffices to prove it once per operation
(`DisconnectedStops`, `AbortedStops`, `TerminatedStops`, ...) and for `AllTerminated`
once per group, since by `Exclusive` a group has at most one destination to terminate.
`Calm` adds what such a step may do to queue and uuids: lose, never gain. `Steps` sorts every
step of `Next` into a calm one, or one of five that begin something: a session begin
that takes the group, the application's answer, the answer's handling, a stream that
starts, a stream that ends. These have a lemma each that says what they do to all the
invariant reads (`BeginSessionEffect`, `ConfigureEffect`, `SessionConfigInEffect`,
`StartStreamEffect`, `EndStreamEffect`). `NextInv` is then short, and the same
sorting serves `ConfiguredOnceCorrect`, `NextOwned` (the pipes) and `NextMoves`, which
says per group which action of `Microphone` each step is.

*The exemption.* `TypeOK`, `Exclusive`, `DeviceTruth` and `ConfiguredOnce` need none.
`StreamOwned` and `Contract` have one, `ZeroReleases`, for a reason that is the code's:
`xrsr_sdt_init` zeroes `audio_src`, and source 0 is `RCU_PTT`; when the audio of an SDT
destination that never connected does not start, "perform clean up of the session"
(`xrsr.c:1907`) ends the session of `audio_src`. If `MICROPHONE_TAP` has an SDT
destination and `RCU_PTT` an HTTP one whose `xrsr_http_connect` has just failed (it
keeps its pipe), the latter's session is released while its pipe is open: with these
constants, and without the exemption, TLC finds the state in ten steps. Under such a
table (`ZeroReleases`) the group of `RCU_PTT` need not have an owner for its pipe, and
is no path of `Mic`; the pipe is still there exactly while its stream is requested, and
the other group keeps the whole contract. No table of the runs is of this kind.

Out of the prover's reach and only model-checked: liveness (`OpeningResolves`,
`AnswerAwaited`, `QueuedCallsReturn`, `CloseReturns`). Every other property of the
passing runs is proved. The modules have no recursive definition.

## 5. Not modelled, and why

* Timeout values, back-off delays, URLs, JSON, statistics: data. A timer may fire
  at any time, which covers every delay.
* Descriptor sets: the model lets any ready handler run.
* In `XrAudio`, further failures of the library: `xraudio_close` and the release of the
  resource are taken to succeed (nobody looks at their results; closing the device
  stops what runs on it), and a stream that the library would not stop gives way when
  the next one of its group starts.
* In `Router`: that another thread fills the queue between the pop of a detected keyword
  and the begin its handler pushes (`xrsr_xraudio.c:513`); a begin that a full queue
  drops is in the model for requests.
* In `HttpConn`: the returns of `xrsr_http_connect` after it has counted its easy handle
  (`xrsr_protocol_http.c:401`, `411`, `441`), which need a route without a URL or of
  another protocol, which is not handled by HTTP, or `URL_ENCODE`, which no build file
  defines; and what removing a timer does after the router has destroyed the timer
  object (`xrsr.c:1302`): `armed` is then meaningless, and the properties about it speak
  of a running router only.
* In `Api`: an `xrsr_open` after an `xrsr_close` that gave up, while the old thread
  still runs (two threads on one `g_xrsr`); the failure to create the queue or the
  thread, which returns before anything waits; what the old thread does to the frame
  of the `xrsr_close` that gave up. `sem_wait` is taken to return only when posted: the
  signal handlers of the application restart it. Sleep is a low power mode.
* What the plain messages change: routes are in `Router`, host name and keyword
  sensitivity are values passed on.
* In `SdtConn`: the keyword notification, which changes no state, and the removal of
  the timer 0 that the zeroed structure names: the library's timers are not there.
* `xrsr_ws_update_dst_params`, keyword and STM statistics of streams, session retry,
  which no message asks for.
* The URL and JSON parsers: sequential, without state.

## 6. Findings

Each is a run that TLC ends with a counterexample.

1. `WsStreamStarted`: the application is told of the end of a stream that never
   began. There are three ways (speech ends while buffering; the server closes before
   the handshake; a retry is terminated), and the trace TLC prints is the first its
   workers meet: a deferred session whose speech ends in `Buffering`, or one that is
   terminated in `Connection_Retry`. HTTP does it right (`StreamWasStarted` passes
   there).
2. `WsSend`: a message that passed the state check just before its session ended
   is queued after the reset and sent in the next session.
3. `RouterTerminate`: terminating a session whose configuration is still to come
   has no effect.
4. `RouterListens`: a request that is refused leaves the keyword detector stopped.
5. `RouterCleansUp`: a WebSocket session whose audio stream fails to begin keeps
   its source: the clean-up uses an `audio_src` that is not set yet.
6. `ApiReturns`: the power and privacy setters "will block until completion or an
   error occurs"; a dropped message, or a loop that has ended, blocks them for ever.

Four facts that the models show and that no text of the repository contradicts: an SDT
destination of `MICROPHONE_TAP` may release the HTTP session of `RCU_PTT` (section 4); a
message handler that asks to close is ignored in `Streaming` and `TextOnlySession`; an
HTTP connect that finds no easy handle gives up its reference to the multi handle
twice; messages queued for an SDT destination are never sent.

## 7. Plan

Done: the three destinations against `Conn`, `Router` with `XrAudio` against
`Microphone`, `Api` against `SyncCall`; all safety properties of the five proved, their
refinements included.

Next: `Router` composed with the real `WsConn` in place of its phase.
