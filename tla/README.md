# jpv2g in TLA+

jpv2g is a C library for the two sides of vehicle-to-grid charging communication:
the SECC (the charger's controller) and the EVCC (the vehicle's), speaking
DIN 70121, ISO 15118-2 and, when built with `JPV2G_ENABLE_ISO20`, ISO 15118-20 DC.
This directory holds its formal models, the TLC runs that check them on small
instances and the proofs that hold for every instance. Paths below are those of
the repository.

1. Inventory
2. What is modelled, and how it corresponds to the code
3. What the runs check
4. What is proved
5. Where the code and its documentation disagree
6. What is not modelled
7. Plan

## 1. Inventory

| component | state it keeps | operations |
|---|---|---|
| SECC stream loop (`src/secc.c` 1783-2583) | in its frame: protocol, sequencer, `handled_any`, `saw_session_stop`, undecodable tally; in `jpv2g_secc_t`: live SessionID, pause memory, DIN offer, pending flags | receive, decode, two gates, dispatch, send, classify the drop |
| SECC default handlers (`src/secc.c` 1018-1085, 1311-1758) | the same object, and two function statics about authorization | one per request type, either protocol |
| SECC sequencer (`src/state_secc.c` 1-238) | phase, pinned protocol, AC/DC mode of one connection | accept a request, a PowerDelivery, a renegotiation |
| application protocol selection (`src/secc.c` 61-244) | the protocol mask, which another thread may set | choose among the vehicle's offers, twice per handshake |
| SECC ISO 15118-20 (`src/secc_iso20.c`, and its branch of the stream loop) | state, SessionID, contactor, three deadlines | one handler per request, sequence timer, teardown hold |
| EVCC (`src/evcc.c`) | socket, SessionID, discovery result | connect, one exchange at a time |
| discovery (`src/discovery.c`, `src/sdp.c`) | none between calls | multicast request, bounded retries |
| transport, framing (`src/transport.c`, `src/v2gtp.c`) | sockets | receive and send under a deadline, frame header |
| TLS (`src/tls.c`, `src/security.c`) | mbedtls session | handshake, send, receive, ownership of the descriptor |
| firmware service (`platformio/esp32s3_slac_hlc_precharge`) | sockets, queue of accepted descriptors, `g_hlc_ready` | start and stop the stack, accept and queue, serve |
| legacy state machines (`src/state_machine.c`, `src/state_evcc.c`, `src/state_secc.c` 240-305, `src/simple_flow.c`) | current state | linear example flow |
| EXI codec (`src/cbv2g_codec.c`, `src/codec.c`), vendored cbv2g | none | encode, decode |
| configuration, controllers, backend | tables | callbacks, read at start |

**How they interact.** A firmware worker accepts a connection and calls the stream loop,
which returns when the connection is over. Each frame is decoded (application handshake,
then ISO 15118-2, then DIN), passes the sequence gate and the session gate and goes to
`handle_request` if the firmware installed one, else to the default handlers; the
response is framed and sent. When the loop returns, the drop is classified for the power
path, and the worker ought to call `jpv2g_secc_retire_session`. A registered ISO
15118-20 session takes over the frames of its payload types after a handshake that
settles on it. There is one worker and one connection at a time: within the SECC the
difficulty is not parallelism but **what one connection leaves for the next**, in the
object and in statics, when it ends at an arbitrary point.

**What is hard.** A response that is never sent after its handler has changed the
state; a worker that does not retire the session; a pause and its resumption across
connections, under a clock that may be set; a terminated stream whose flag stays up;
a vehicle that repeats, reorders, switches grammar, ignores response codes, or sends
nothing decodable for ever; renegotiation; a failing random provider. Timers that
are stopped and restarted around undecodable frames, and a handshake repeated in the
middle of a charge (ISO 15118-20); a protocol mask set while offers are compared; a
stop of the stack while a vehicle waits in the queue or is being served, with numbers
of descriptors handed out again at once (firmware service); late answers taken for the
current exchange, bytes that come one at a time (EVCC); late and foreign datagrams
(discovery).

**What makes each component correct.** Sequencer: no protocol switch, no AC charging for
DIN, no power after a stop, a mode that renegotiation keeps. Stream loop and handlers:
answers only under the session announced on that connection, resumption exactly for what
was paused, a refusal delivered before the stream ends and never charged to another
connection, a DC mode that was earned, an orderly stop reported exactly when it
happened, release of the worker. ISO 15118-20: no charge loop without a closed
contactor, timers that run whenever the vehicle is to act, a final response before every
end. Selection: the best supported offer, and the same one both times. Firmware service:
every accepted connection is closed once, by its holder. EVCC: a response belongs to its
request, and every call to a SECC that reads returns. `PROJECT.json` lists the hazards,
each at its line, with the property that is about it.

## 2. What is modelled

### `SeccSequence`: the sequencer as a table

`jpv2g_secc_sequence_accept`, `..._accept_power_delivery` and
`..._accept_renegotiation` are one table of guarded transitions: a row says in which
phases a request is accepted and where it leads. `Applicable` picks the rows by
protocol and mode, `NextPhases` is the verdict (empty: `-EPROTO`), `Advance` the
sequencer afterwards. A PowerDeliveryReq is three requests, as
`secc_accept_request_sequence` distinguishes Start, Stop and Renegotiate (for DIN,
ReadyToChargeState). The module has no variables: the sequencer is a value of the
stream loop's frame, as in the code. What a refused request leaves in the sequencer
is left out, because a refusal ends the stream.

### `SeccStream`: one connection after another

| model | code |
|---|---|
| `session_id`, `last_session_*`, `resume_dc_pending`, `terminate_after_response`, `din_advertised` | the fields of `jpv2g_secc_t` (`secc.h` 84-145) |
| `last_auth_sid`, `auth_pending_sent` | the statics of `jpv2g_secc_default_handle` |
| `protocol`, `sequence`, `handled_any`, `saw_session_stop`, `undecodable`, `rc` | the locals of `jpv2g_secc_handle_stream_obs` |
| `pc`, `out` | where the loop stands, and the response encoded or last sent |
| `now` | `jpv2g_now_monotonic_ms` |
| `log`, `paused` | history only: nothing reads them but the properties |

Steps are as large as the code lets nothing observable happen in between, and no
larger: **receiving and handling** a request is one step (decoding, gates, handler,
encoding), **sending** its response is another, because a send can fail and the state
the handler changed is then already changed. The handlers are one action each
(`SessionSetup`, `ServiceDiscovery`, ..., `SessionStop`); those without session state
share `Stateless`. Each can fail to encode (`Unencoded`), which ends the stream with
nothing sent. `Firmware` is an override by `handle_request`, which may answer by
itself or call back into the default handler. `RejectSequence` and `RejectSession`
are the two gates, answering FAILED on a best-effort basis before the stream ends.
`TeardownRetired` and `TeardownKept` are the worker with and without the call of
`jpv2g_secc_retire_session`: the API document asks for it, the bundled firmware does
not make it.

The vehicle is unconstrained. It may send any request, in either grammar, under any
SessionID, or be silent, babble or go.

Abstractions, each with its reason:

- SessionIDs are model values. A generated one is different from every SessionID the
  SECC still remembers: a collision of 64-bit random numbers is left out, a failure of
  the random provider (`RngMayFail`) is not.
- A SessionID shorter than eight bytes is `NoSid`, as `secc_resolve_session` and the
  session gate treat both alike.
- The clock is a small set of readings, and may step either way, as the host build
  reads the wall clock. Deadlines are not counted: a receive may time out whenever it
  waits.
- The outcome of the application handshake is an input (a protocol or none); which
  offer wins is not modelled.
- The energy modes that decide anything are DC_core and DC_extended; all others are
  `DC_other`. Voltages, currents and the meter influence no control.
- The history variable `paused` records a pause when its handler runs, as the code
  retains it then, whether or not the response goes out.

### `ChargeSession`: what the stream loop promises

`ChargeSession` says what a vehicle may rely on, without messages or phases: a connection
serves one session under one SessionID; a paused session is remembered over any number of
other connections for one return (`Suspend`, `Rejoin`, `LoseRejoin` when the grant is
lost with its response), and no session announced meanwhile bears its SessionID; energy
flows under a SessionID only, is interrupted for a renegotiation, and once stopped does
not flow again. `SeccStream` implements it under the mapping `Stage`, `Served`, `Power`:
the stage and the power follow from `pc` and the sequencer's phase, the session served is
the live SessionID while the stage is serving (what the object holds before that, of an
earlier connection or made up by the handshake, serves nobody), and the memory is
`last_session_id`. The resumption window and the AC/DC mode are not part of it; they have
properties of their own.

### `SeccIso20`: the ISO 15118-20 session, and `EnergySession`: what it promises

| model | code |
|---|---|
| `state`, `session_established`, `contactor_closed`, `cable_check_started`, `charge_loop_started` | the fields of `jpv2g_secc20_t` |
| `sequence_deadline`, `se_deadline`, `eim_deadline` | its deadlines, as what is left of them in ticks: `Off` for the 0 of the code, `Late` once passed |
| `pc`, `undecodable`, `disposition`, `out`, `hold`, `saw_session_stop`, `rc` | the branch of `jpv2g_secc_handle_stream_obs` that feeds the engine |
| `contactor` | the contactors themselves, which the engine does not see |
| `log` | history: grounds obtained, time since the first AuthorizationReq, whether the engine lost sight of closed contactors |

There is one action per request and one per other event: a receive that ends, a frame
that neither grammar decodes (`IgnoreUndecodable`, `RejectUndecodable`), a frame too
late (`SequenceTimedOut`), a repeated handshake, sending, and the two ends of the hold.
`Answer` is the end of `handle_frame`: the response code and what the handler asked for
decide the disposition, and this the state and the timer. Handling is atomic, as one
thread runs it; time passes between frames, while an answer is sent and in the hold.
The controller behind the callbacks is undecided: every verdict is a choice, and it may
open the contactors by itself.

`EnergySession` says what the power path may rely on, without messages: grounds are
established in order, energy flows on all of them, never again once stopped, and a
session stops in order only when none flows. `SeccIso20` implements it under the mapping
`Stage`, `Obtained`: the stage follows from the disposition, the state and the contactors
as the engine takes them to be, the grounds from the state.

### `AppProtocol`: one selection made twice

The loop of `select_app_protocol` runs one offer at a time, first to find what to pin
(`Accept`, `Reject` by the sequencer), then for the response (`Answer`), while `SetMask`
may happen between any two turns. `Receive` brings any list of offers. `IsBest` states
what the loop is to find, without a loop. The namespace of an offer is abstracted to the
protocol it matches; the minor version only distinguishes two positive codes and is left
out, and so is a mask of 0, which the setter ignores.

### `HlcService`: two tasks and one table of descriptors

The main task of the firmware starts the stack (`StartUdp`, `StartTcp` and their
failures), accepts (`HandOff` to the queue, `Drop` when it is full) and stops it (`Stop`,
`Drain`, `CloseServers`, `Clear`, in the order of `stop_hlc_stack`). The worker takes a
descriptor, checks `g_hlc_ready`, serves and closes (`Take`, `Refuse`, `Serve`,
`PlainEnds` or `TlsEnds`, `CloseClient`). A vehicle being served may `Leave` (`gone`), after
which what the stream receives or sends fails; the stream may also end before that. A descriptor is a number, the lowest free one
is handed out, and closing closes whatever the number stands for by then. The queue and
the worker remember which vehicle a number stood for; the code does not, and no guard
reads it but that of `TlsEnds`, for which the peer must be a vehicle. `strayed` records
that the worker closed a socket that was not its vehicle's.

### `Evcc`: discovery and exchanges

Discovery is a loop of attempts over datagrams that come as they please (`Datagram`,
good or bad); an attempt ends by `SdpTimeout`, `SdpReject` or `SdpAccept`. An exchange
builds its request (`Exchange`) and sends it, by parts or whole (`SendPart`, `SendWhole`),
or fails to (`SendFails`: an error, or a deadline found to be past). Each of these is a
`send()` that returns, and none need be taken: the socket is a blocking one again after
the connect (`transport.c` 321-323), and `evcc_send_bytes` looks at its deadline between
two calls only, so that a SECC that stays and reads nothing holds the caller in
`pc = "send"`, past its deadline too. Part of a request that is never completed leaves the
SECC with the beginning of a frame, and it answers nothing more. Then header and payload
are received in pieces (`Recv`), each part under a deadline of its own, which the receive
does keep, and the exchange ends in `Handle`, `Refuse`, `RecvTimeout`, `RecvReset` or
`HeaderTooLong`. The SECC of the model (external) answers in order, a unit at a time, as
late as it likes, or closes. A response carries nothing
that names its request, as in the code: that the frame read answers request n is history.
The application may go on after a failed exchange, as the API lets it. A read that begins
in the middle of a frame is taken to yield no frame, whatever length it claims. A failed
connect leaves the number of its closed socket behind (`fd = "stale"`).

## 3. What the runs check

Deadlock is checked in every run. Where a state space is unbounded in the code (number
of connections, of handshakes, of time) the models either close by themselves, as the
first three passing runs do, or name the bound.

| run | checks | bounds and why they suffice |
|---|---|---|
| `secc_stream` | the type invariant, ten invariants and four action properties below, and `ChargeSession` as a property; 449 124 distinct states | three SessionIDs: one paused, one live, one for a stranger or the next session (symmetric); clock 0..2 with a window of 1, so that a pause can be in the window, past it, and in the future; one tolerated undecodable frame; CableCheck overridden by the firmware (the library's own always fails), the rest the library's |
| `secc_stream_live` | `BabblingPeerIsReleased` under `FairSpec`; 48 081 distinct states | two tolerated frames, two SessionIDs, no clock; no DC mode configured, so that the refused DIN offer is reached |
| `secc_iso20` | five invariants, `AuthorizationHasDeadline`, two liveness properties, and `EnergySession` as a property; 128 701 distinct states | deadlines of 2, 1 and 4 ticks, a hold of 1, two undecodable frames: the order of the three timeouts (55, 60 and 180 s) is kept, and each can pass while another runs; connections and handshakes unbounded |
| `app_protocol` | four invariants; 2.35 million distinct states | three offers, so that a better one can come before, between and after others; priorities 1 and 255, the latter the value the search starts from; a right and a wrong major version; any mask at any moment |
| `hlc_service` | four invariants, and `AcceptedIsReleased` under `FairSpec`; 77 148 distinct states | four vehicles for a queue of two and a worker, so that one finds the queue full; five descriptors, so that they run out and are reused; any number of starts and stops |
| `evcc` | three invariants, and `EveryCallReturns` under `FairSpec`; 369 883 distinct states | two kinds of request, so that a late response can and cannot be taken for another's; three exchanges on each of two connections; a timeout of 2 ticks for a receive and 1 for a send; a header of two units and a payload of one, so that a read can end within a part and begin within a frame; three attempts and two datagrams waiting |
| six `violation` runs | section 5 | the least configuration that shows the disagreement |

Properties of `secc_stream`:

- `AnsweredUnderAnnouncedSession`: answers carry the SessionID announced on this very
  connection, and answer requests made under it.
- `DcModeIsEarned`: DC mode takes a CableCheck or a granted resumption on this connection.
- `DcEnergyIsPrepared`: a connection in DC mode gets to the phases of energy only after a
  PreCharge of its own or by rejoining. Renegotiation leads back to
  ChargeParameterDiscovery, from where PowerDelivery may follow at once, so that no
  single row of the table says this.
- `DcModeIsKept`, `DinChargesInDc`, `ProtocolIsPinned`, `StopIsFinal`: the sequencer
  through renegotiation, resumption and repeated PowerDelivery.
- `DinAgreesToItsOffer`, `IsoAuthorizationIsDeferred`: what the library's handlers
  remember in the object and in statics is about this connection. Both hold for the
  library's handlers only, not for overriding firmware, and say so.
- `PauseIsRemembered`, `JoinedIffPaused`: pause and resumption across connections.
- `ImplementsChargeSession`: session, pause and energy as one story over all connections,
  where the properties above look at one of them at a time.
- `RefusedPaymentEndsStream`, `RejectionWasDelivered`, `StopIsReportedWhenOver`: how
  and why a stream ends, and what the power path is told. The last is about the
  plaintext entry: over TLS the code classifies without what the stream observed.

Of `secc_iso20`:

- `EnergyIsEarned`, `ImplementsEnergySession`: energy on its grounds, of this session and
  in order, whatever order fifteen requests come in.
- `StopLeavesContactorOpen`: an orderly stop, on which the power path relaxes, leaves the
  contactors open, with two exceptions the property names: a controller that refused to
  open them, and a handshake repeated while they were closed.
- `EndsOnFailureAlone`: the cut between warnings and failures is where the session ends.
- `TimerRunsWhileReceiving`: the sequence timer runs whenever a request is awaited, but
  not after a frame that did not decode. The code stops the timer before it decodes; what
  then bounds the session is the receive's deadline and the limit of such frames.
- `AuthorizationHasDeadline`, `AuthorizationIsDecided`: a vehicle cannot prolong the
  180 s by asking again or selecting something else in between, and, if it reads its
  responses, is not kept waiting for ever by a controller that does not decide.
- `HoldIsOver`: a vehicle that goes on sending does not prolong the teardown hold.

Of `secc_stream_live`: `BabblingPeerIsReleased`, of a vehicle that reads its responses and
from some point on sends nothing decodable.

Of `app_protocol`: `SelectionIsBest` compares the loop with `IsBest` at every turn;
`AnswerIsPinned` relates the two selections; `SelectedWasEnabled` bounds what a mask set
in between can do. While the mask changes between the two selections the response can
indeed name another protocol than was pinned, which the second property excludes by
saying so.

Of `hlc_service`: `QueueDiesWithItsStack`, `EverySocketHasAHolder` (with the one leak
there is, the SDP socket of a start whose TCP half failed, as its exception),
`SocketsStayTheirs` (as long as the double close of section 5 has hit nobody), and
`AcceptedIsReleased`: if no vehicle that is served stays for ever, every accepted
connection is closed in the end, however the stack is stopped and started.

Of `evcc`: `LagIsBoundedByFailures` says how far a response can be from the request it is
taken for, and that it is the right one while no exchange has failed on the connection;
`FrameIsBounded` that a dripping SECC holds the caller of a receive for two timeouts and
no longer; `EveryCallReturns` that, with a SECC that reads what it is sent, neither
datagrams nor bytes can keep a call.

**Fairness, and what is asked of the peer.** A fairness assumption stands for a deadline
the code keeps, or for a task that runs. What the code leaves to the peer is not assumed
there: it is a premise of the property, in words and in the formula.

| specification | fair | why |
|---|---|---|
| `SeccStream` | `Receive`; the teardown | `secc_recv_bytes` waits under its deadline, and the worker goes on from a finished connection |
| `SeccIso20` | `Tick`, `Receive`, `HoldExpires` | the clock; the same receive; the hold's own deadline. The hold is not assumed to be ended by the peer |
| `HlcService` | the worker's `Take`, `Refuse`, `Serve`, `CloseClient`; the end of the stream once the vehicle is gone | the worker is a task of its own, and a socket whose peer has gone fails. The main task need not do anything |
| `Evcc` | `Tick`; the end of an attempt of the discovery; a receive; a send to a SECC that has closed | the clock; both receives wait under a deadline; such a `send()` fails |

No send is fair in any of them. Both `secc_send_bytes` and `evcc_send_bytes` look at
their deadline between two calls, the sockets block, and the loop of `jpv2g_tls_send` has
no deadline at all: a peer that stays and reads nothing holds the thread, and the models
let it. Nor need a stream ever end: its idle deadline starts anew with every frame, and
a charge loop may be asked for again without end. Hence the premises:

| property | premise | says |
|---|---|---|
| `BabblingPeerIsReleased`, `AuthorizationIsDecided` | `VehicleReads` | no response holds the worker for ever |
| `EveryCallReturns` | `SeccReads` | no request holds the caller for ever, unless the SECC has closed |
| `AcceptedIsReleased` | `VehiclesLeave` | whoever is served leaves, or is done, in the end |
| `HoldIsOver` | none | there is no send in the hold |

`BabblingPeerIsReleased` then rests on the limit of six undecodable frames, for each frame
restarts the idle deadline. No specification assumes that a vehicle sends anything useful,
that anyone connects, or that the stack is ever started.

## 4. What is proved

For every value of the constants that satisfies the assumptions named in the modules:
any set of SessionIDs with a zero one outside it, any clock, window and limits; any
deadlines in natural numbers; any priorities that fit a byte and any number of offers;
any number of vehicles, descriptors and any queue; any timeout, number of exchanges and
frame. No assumption is made about the peers, and finiteness of nothing is needed.

| module | theorems |
|---|---|
| `SeccSequenceProofs` | `OnePhaseFollows`: the table is deterministic, as the switch it stands for; lemmas on what it and `Advance` yield |
| `SeccStreamProofs` | `TypeCorrect` |
| `SeccSafetyProofs` | each of the other fourteen safety properties of `secc_stream`; `LonePauseResumesItsMode`; `PatienceEnds` |
| `ChargeSessionProofs` | `Refinement`: `Spec => ImplementsChargeSession`; `SessionPromiseKept` |
| `SeccIso20Proofs` | every invariant of `secc_iso20`, `AuthorizationInTime`, and `Refinement`: `Spec => ImplementsEnergySession`; `EnergyPromiseKept`; `CleanStop`; `HoldRunsOut` |
| `AppProtocolProofs` | every invariant of `app_protocol` |
| `HlcServiceProofs` | every invariant of `hlc_service`; `PlainClosesAreOwn`; `ReleaseIsBounded` |
| `EvccProofs` | every invariant of `evcc`; `CallProgress` |

Most properties are not inductive. The strengthenings stand before their proofs:

| invariant | what it adds, and why it is needed |
|---|---|
| `EarnedInv` | a pending DC grant while a SessionSetupRes waits to go out belongs to a resumption: a new session has cleared whatever was left |
| `PreparedInv` | a connection in DC mode with neither a PreCharge nor a return is in CableCheck still, or at its end |
| `TerminationInv` | while a request is awaited no termination is pending; a pending one comes with a refusal |
| `SessionInv` | past SessionSetup the live SessionID is the announced one; up to it, nothing but the handshake and SessionSetup passes |
| `SequencerInv` | the protocol is pinned past the handshake; DIN's charging phases are in DC mode; DC mode implies the mode is known |
| `StopInv` | a SessionStopRes on its way is OK with no session live and the sequencer complete |
| `OfferInv` | the remembered DIN offer is the advertised one, or none, past SessionSetup |
| `AuthorizationInv` | if the statics say the live session was told to wait, this connection was told so |
| `SessionApart` | the live session is not the paused one: a new SessionID is apart from it, a pause ends the live session, a return ends the pause |
| `ResumedInv` | the note of a mode is of the paused session, between the handler that makes the pause and the send that notes its mode too; before SessionSetup a sequencer has no mode |
| `FlowInv` (iso20) | what an answer on its way or sent says of state and disposition: a failure is in the code, the state and the disposition at once |
| `TimerInv` (iso20) | an answer on its way after which the session goes on has armed the timer already |
| `Earning` (iso20) | each state has the grounds of those before it; the engine takes the contactors for closed in the charge loop and at an end only; contactors that are closed without its knowledge are in the history |
| `Asking` (iso20) | while the session asks, time asked and time left make up the deadline |
| `CleanInv` (iso20) | without all its grounds a session has closed no contactor, and none begins with one closed |
| `Loop` (selection) | the priority kept is that of the offer selected, and the offers seen are those before the current one |
| `Pinned` (selection) | the second selection finds what the first did, as there is one best offer (`BestIsUnique`) |
| `WasEnabled` (selection) | what is selected so far was enabled at some moment |
| `IInv` (service) | a vehicle is in one place only, and each stage of the stack has the descriptors it should; without it one close could hit two holders |
| `HolderInv` (service) | the stack's descriptors are known from the start of one half to the end of the stop |
| `PlainInv` (service) | the number the worker holds stands for the vehicle it serves all along |
| `ReleaseInv` (service) | each open vehicle is in the queue or with the worker, under its number |
| `TypeInv`, `TimeInv` (EVCC) | a part's time left and the time passed make up the deadlines given so far |
| `LagInv` (EVCC) | the answers still to come, in the buffer and at the SECC, are in order, and none is older than the count of exchanges that did not fail allows; a frame begun counts as read, and a request being sent is not yet answered |

`PauseIsRemembered` is inductive as it stands; `StopIsFinal` needs types only. In
`SeccSafetyProofs` each proof goes over the sorts of steps in `StepCases`, and
`HandleShape` states once what a handled request may change; `ChargeSessionProofs` goes
over the same cases, with the state seen through the mapping only. In `SeccIso20Proofs`
`FrameAnswered` plays this part for the engine's answers; the refinement takes the steps of the
detailed specification one by one, each shown to be one step of `EnergySession` or none,
under `Earning` and `FlowInv`.

**What the abstract specifications promise.** `SessionPromise` and `EnergyPromise` are
invariants of `ChargeSession` and `EnergySession`, stated and proved there in their few
variables; `SessionPromiseKept` and `EnergyPromiseKept` carry them over to the detailed
specifications by the refinement alone.

**The causes of what section 5 shows.** A run finds that a statement is violated, and the
theorem that one condition is enough to make it true: nothing else leads to the violation.

| statement | holds as long as | theorem |
|---|---|---|
| `ResumedModeIsPausedMode` | no session stops while another one's pause is kept (`LonePauses`) | `LonePauseResumesItsMode` |
| `CleanStopWithContactorsOpen` | a handshake is answered with the contactors open (`HandshakesComeFirst`) | `CleanStop` |
| `CloseIsOfOwnSocket` | no stream ends on the TLS route (`PlainStreams`) | `PlainClosesAreOwn` |

Each condition is one of a behaviour's steps and leaves the rest of the program its
freedom: with lone pauses connections still drop anywhere, and plaintext streams still run
while the stack is stopped and started. The other three statements have no such theorem.
After a failed negotiation and a FAILED authorization the code violates them whenever it
comes there; of `NewSessionHasNewSid` the ignored result of the generator is the cause, and
without that failure the model draws a new SessionID by definition.

**The safety half of the liveness properties.** What keeps a worker or a caller from being
held for ever is a measure that is bounded, that each step of the call lowers and that
no other step raises. These are facts about steps, and proved; that the steps are taken is
what the fairness, and the premise about the peer, are for:

| liveness property | measure | theorem |
|---|---|---|
| `BabblingPeerIsReleased` | `Patience`: receives and sends until the connection is over, if no request is accepted; `UndecodableLimit + 2` at most | `PatienceEnds` |
| `EveryCallReturns` | `StepsLeft`: attempts, units to send and to receive, and ticks left; `MaxRetries + 3 * FrameLen + 2 * Timeout + SetupTimeout + 3` at most | `CallProgress` |
| `AcceptedIsReleased` | `Within`: steps of the worker until it has closed the vehicle; `4 * QueueDepth + 3` at most | `ReleaseIsBounded` |
| `HoldIsOver` | the deadline of the hold, which only the clock moves | `HoldRunsOut` |
| `AuthorizationIsDecided` | the deadline of the authorization, set once | `AuthorizationInTime` |

Only model-checked: the liveness properties themselves, where the steps of these measures
are shown to be taken. That a step assumed fair is enabled whenever the measure is not
used up takes ENABLED, which the prover does not reason about. So are the violations,
which are single behaviours.

## 5. Where the code and its documentation disagree

| run | statement | what the code does |
|---|---|---|
| `secc_resumed_mode` | `secc.h` 102: `last_session_was_dc` is the "DC-ness of the paused session" | it is overwritten by every SessionStop while a pause is retained: a vehicle that paused before settling on a mode rejoins in DC mode after another one charged in DC and stopped, and may then skip CableCheck and PreCharge |
| `secc_failed_negotiation` | `state_secc.c` 93-95: after a failed negotiation "any subsequent V2G request still fails the protocol check" | the check pins whatever protocol comes next |
| `secc_failed_authorization` | `secc.c` 2383-2389: the stream is not left open past a FAILED Authorization | only a refused payment raises the flag; a FAILED AuthorizationRes leaves the stream open |
| `secc_random_fails` | `secc.c` 1048: every other case gets a freshly generated SessionID | the result of the generator is ignored: the old or the zero SessionID is announced |
| `secc_iso20_stop` | `secc_iso20.c` 612-619: a SessionStop before the Start is a "clean stop while the contactors are still open" | a handshake repeated in the charge loop resets `contactor_closed` without opening the contactors; a new session stopped before its Start then ends in order with the contactors closed |
| `hlc_service_tls` | `platform_compat.h` 97-99: the worker is "the sole owner of the eventual close()" | on the TLS route the library closes the descriptor and the worker closes it again, by when the number may be another vehicle's |

Met while modelling, without a run: `README.md` 91 passes a null codec to
`jpv2g_secc_init`, which refuses it (`secc.c` 1858); `SECC_API.md` 116 says that both
gates record the rejected message, and only the sequence gate does; a failed
negotiation that fails again is refused, where `state_secc.c` 116-118 allows the retry;
the firmware's undo of a start whose TCP half failed returns at once, so that the SDP
socket stays open (`main.cpp` 969); `tls.c` 503-505 leaves the deadline of a send to
"the caller (secc_send_bytes)", to which its loop does not return while it is told to
wait; and the deadlines of `secc_send_bytes` and `evcc_send_bytes` do not bound a `send()`
on the blocking sockets they are given.

`DcModeIsEarned` and the first of these are no contradiction: the sequencer takes DC
mode only from a CableCheck or a granted resumption, but what the resumption grants can
be another vehicle's mode. Nor do `StopLeavesContactorOpen` and the fifth contradict each
other: the invariant is about sessions of which the engine has not lost sight of the
contactors.

## 6. What is not modelled, and why

- The vendored cbv2g, generated EXI code and some 96 percent of the repository's lines: a
  grammar unrolled into switches, without state that outlives a call. The models
  therefore cover a small part of the lines, and a large part of the library's own
  control. The library's message builders (`cbv2g_codec.c`, `codec.c`) have no control
  either. Their failures are inputs of the models.
- mbedtls and the operating system's sockets: external. Of `tls.c` only the ownership of
  the descriptor is modelled, and that its send loop has no deadline of its own: a stream
  of `HlcService` need not end while its vehicle stays.
- The loops below the SECC's receive and send (`secc.c`, `transport.c`): in `SeccStream`
  and `SeccIso20` a receive succeeds, fails or times out as a whole, and a send succeeds,
  fails or never returns. In `Evcc` both are modelled in pieces.
- What the worker reads of `g_secc` once a stop has zeroed it under a running stream
  (`main.cpp` 911): undefined, and nothing is promised of it.
- The legacy linear state machines (`state_machine.c`, `state_evcc.c`, the end of
  `state_secc.c`, `simple_flow.c`): a fixed sequence without failure or concurrency.
- Configuration parsing, controller and backend tables: read at start, or callbacks whose
  verdicts are inputs. SLAC, the control pilot and the board.
- Electrical values, the meter, certificates: no control depends on them.

## 7. Plan

Done: `SeccSequence` and `SeccStream` with `ChargeSession`; `SeccIso20` with
`EnergySession`; `AppProtocol`; `HlcService`; `Evcc`; the proofs of all their safety
properties, of the measures their liveness rests on, and of the causes of three of the six
disagreements.

Left, in order of worth:

1. The composition of `AppProtocol` and `SeccIso20` with `SeccStream`, so that the
   protocol a handshake settles on, and the switch to the -20 branch, are one
   specification. The interface is narrow (the protocol pinned), and each module states
   what it assumes of the others.
2. The TLS entry: the observations it loses.
3. The legacy linear state machines, small, last.
