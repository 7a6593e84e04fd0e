------------------------------ MODULE SeccStream ------------------------------
(***************************************************************************)
(* The SECC's message loop over one connection after another               *)
(* (src/src/secc.c, jpv2g_secc_handle_stream_obs and the default request   *)
(* handler it dispatches to), in the default build without ISO 15118-20.   *)
(*                                                                         *)
(* One worker serves one connection at a time.  What it keeps in its stack *)
(* frame (the sequencer, the protocol, what was handled) dies with the     *)
(* connection; what it keeps in the jpv2g_secc_t object and in the         *)
(* handler's static variables (the live SessionID, the memory of a paused  *)
(* session, the DIN energy offer, pending flags) lives on, whether the     *)
(* last connection ended in order or in the middle of a step.  The module  *)
(* is about what one connection leaves for the next.                       *)
(*                                                                         *)
(* The vehicle is unconstrained: it may send any decodable request with    *)
(* any SessionID it likes, babble, stay silent or drop the connection.     *)
(***************************************************************************)
EXTENDS SeccSequence, Integers

CONSTANTS
  Sids,               \* the non-zero 8-byte SessionIDs
  NoSid,              \* the all-zero SessionID, also one absent or too short
  Times,              \* what the clock may read
  Window,             \* SECC_PAUSE_RESUME_WINDOW_MS, in ticks of that clock
  UndecodableLimit,   \* undecodable frames in a row that are tolerated
  Negotiable,         \* the protocols left by jpv2g_secc_set_protocol_mask
  SupportedModes,     \* the DC modes listed in cfg.supported_energy_modes
  Overridden,         \* the requests the firmware's handle_request answers
  RngMayFail          \* whether the registered random provider can fail

\* DC_other stands for every energy mode the vehicle can ask for and this SECC
\* never offers: the AC modes, DC_dual, and the two modes only ISO knows
\* (DC_combo_core, DC_unique), which the configurations here do not list.
DcModes == {"DC_core", "DC_extended"}
Modes   == DcModes \cup {"DC_other"}

\* Handlers the firmware replaces answer for themselves and touch none of the
\* SECC's session state; those that own session state stay with the library.
Overridable == Kinds \ {"SupportedAppProtocol", "SessionSetup",
                        "ServiceDiscovery", "SessionStop"}

ASSUME SidAssumption == NoSid \notin Sids
ASSUME ClockAssumption == Times \subseteq Int /\ 0 \in Times /\ Window \in Nat
ASSUME LimitAssumption == UndecodableLimit \in Nat
ASSUME ConfigAssumption == /\ Negotiable \subseteq Protocols
                           /\ SupportedModes \subseteq DcModes
                           /\ Overridden \subseteq Overridable
                           /\ RngMayFail \in BOOLEAN

VARIABLES
  \* jpv2g_secc_t and the statics of the default handler
  session_id, last_session_id, last_session_end, last_session_was_dc,
  resume_dc_pending, terminate_after_response, din_advertised,
  last_auth_sid, auth_pending_sent,
  \* the stack frame of the stream loop, and its return code
  pc, protocol, sequence, handled_any, saw_session_stop, undecodable, out, rc,
  \* jpv2g_now_monotonic_ms
  now,
  \* history: this connection's, and the pause not yet joined or overwritten
  log, paused

pauseVars  == <<last_session_id, last_session_end, last_session_was_dc>>
authVars   == <<last_auth_sid, auth_pending_sent>>
seccVars   == <<session_id, pauseVars, resume_dc_pending,
                terminate_after_response, din_advertised, authVars>>
frameVars  == <<pc, protocol, sequence, handled_any, saw_session_stop,
                undecodable, out, rc>>
history    == <<log, paused>>
vars       == <<seccVars, frameVars, now, history>>

-------------------------------------------------------------------------------

(* Responses and return codes. *)

Refusals == {"FAILED", "FAILED_NoNegotiation", "FAILED_PaymentSelectionInvalid",
             "FAILED_WrongEnergyTransfer", "FAILED_SequenceError",
             "FAILED_UnknownSession"}

Codes == Refusals \cup {"OK", "OK_NewSessionEstablished",
                        "OK_OldSessionJoined", "Ongoing", "none"}

\* sid is the SessionID in the response's header, asked the one in the
\* request's; mode is the energy mode an offer or an agreement is about.
Responses == [kind     : Kinds \cup {"none"},
              code     : Codes,
              protocol : Protocols \cup {"UNKNOWN"},
              sid      : Sids \cup {NoSid},
              asked    : Sids \cup {NoSid},
              mode     : Modes \cup {"none"}]

NoResponse == [kind |-> "none", code |-> "none", protocol |-> "UNKNOWN",
               sid |-> NoSid, asked |-> NoSid, mode |-> "none"]

RecvErrors    == {"ECONNRESET", "EBADMSG", "E2BIG"}
SendErrors    == {"ETIMEDOUT", "EPIPE", "ECONNRESET"}
HandlerErrors == {"EIO", "EINVAL"}

ReturnCodes == RecvErrors \cup SendErrors \cup HandlerErrors
                 \cup {"OK", "EPROTO", "EACCES", "ESHUTDOWN"}

\* jpv2g_secc_classify_disconnect: the drop reason the power path acts on.
Reason(code, handled, stopped) ==
  CASE code = "OK"              -> IF stopped THEN "EV_SESSION_STOP" ELSE "IDLE_TIMEOUT"
    [] code = "ETIMEDOUT"       -> IF handled THEN "IDLE_TIMEOUT" ELSE "FIRST_PACKET_TIMEOUT"
    [] code = "ECONNRESET"      -> "PEER_RESET"
    [] code = "ESHUTDOWN"       -> "APP_REJECTED"
    [] code \in {"EBADMSG", "E2BIG", "ENOSPC"} -> "CODEC_ERROR"
    [] code \in {"EIO", "EPIPE"}               -> "TCP_SEND_FAIL"
    [] code = "EPROTO"          -> "SEQUENCE_ERROR"
    [] code = "EACCES"          -> "UNKNOWN_SESSION"
    [] code = "EINVAL"          -> "INVALID_ARG"
    [] OTHER                    -> "TCP_RECV_FAIL"

Logs == [announced  : Sids \cup {NoSid},      \* SessionID of the SessionSetupRes
         advertised : Modes \cup {"none"},    \* mode of the DIN ServiceDiscoveryRes
         joined     : BOOLEAN,                \* OK_OldSessionJoined was granted
         joined_dc  : BOOLEAN,                \* ... to a session paused in DC
         cable      : BOOLEAN,                \* a CableCheck was accepted
         precharge  : BOOLEAN,                \* a PreCharge was accepted
         ongoing    : BOOLEAN]                \* an AuthorizationRes said Ongoing

EmptyLog == [announced |-> NoSid, advertised |-> "none", joined |-> FALSE,
             joined_dc |-> FALSE, cable |-> FALSE, precharge |-> FALSE,
             ongoing |-> FALSE]

Pauses  == [sid : Sids \cup {NoSid}, at : Times, dc : BOOLEAN]
NoPause == [sid |-> NoSid, at |-> 0, dc |-> FALSE]

TypeOK ==
  /\ session_id \in Sids \cup {NoSid}
  /\ last_session_id \in Sids \cup {NoSid}
  /\ last_session_end \in Times
  /\ last_session_was_dc \in BOOLEAN
  /\ resume_dc_pending \in BOOLEAN
  /\ terminate_after_response \in BOOLEAN
  /\ din_advertised \in DcModes \cup {"none"}
  /\ last_auth_sid \in Sids \cup {NoSid}
  /\ auth_pending_sent \in BOOLEAN
  /\ pc \in {"idle", "recv", "send", "done"}
  /\ protocol \in Protocols \cup {"UNKNOWN"}
  /\ sequence \in Sequences
  /\ handled_any \in BOOLEAN
  /\ saw_session_stop \in BOOLEAN
  /\ undecodable \in 0..UndecodableLimit
  /\ out \in Responses
  /\ rc \in ReturnCodes
  /\ now \in Times
  /\ log \in Logs
  /\ paused \in Pauses

\* jpv2g_secc_init clears the object; the statics start zeroed.
Init ==
  /\ session_id = NoSid
  /\ last_session_id = NoSid
  /\ last_session_end = 0
  /\ last_session_was_dc = FALSE
  /\ resume_dc_pending = FALSE
  /\ terminate_after_response = FALSE
  /\ din_advertised = "none"
  /\ last_auth_sid = NoSid
  /\ auth_pending_sent = FALSE
  /\ pc = "idle"
  /\ protocol = "UNKNOWN"
  /\ sequence = InitSequence
  /\ handled_any = FALSE
  /\ saw_session_stop = FALSE
  /\ undecodable = 0
  /\ out = NoResponse
  /\ rc = "OK"
  /\ now \in Times
  /\ log = EmptyLog
  /\ paused = NoPause

-------------------------------------------------------------------------------

(* The life of a connection. *)

\* Mutation: a termination asked for earlier is not forgotten.
ConnectKeepingTermination ==
  /\ pc = "idle"
  /\ pc' = "recv"
  /\ UNCHANGED <<seccVars, protocol, sequence, handled_any, saw_session_stop,
                 undecodable, out, rc, now, history>>

\* The loop is entered with a fresh frame.  The first thing it does is to
\* forget a termination that an earlier connection asked for.
Connect ==
  /\ pc = "idle"
  /\ pc' = "recv"
  /\ terminate_after_response' = FALSE
  /\ UNCHANGED <<session_id, pauseVars, resume_dc_pending, din_advertised,
                 authVars, protocol, sequence, handled_any, saw_session_stop,
                 undecodable, out, rc, now, history>>

\* The worker drops the frame.  SECC_API.md asks it to retire the session on
\* every teardown; the README's example and the bundled firmware do not.
Teardown ==
  /\ pc = "done"
  /\ pc' = "idle"
  /\ protocol' = "UNKNOWN"
  /\ sequence' = InitSequence
  /\ handled_any' = FALSE
  /\ saw_session_stop' = FALSE
  /\ undecodable' = 0
  /\ out' = NoResponse
  /\ rc' = "OK"
  /\ log' = EmptyLog
  /\ UNCHANGED <<pauseVars, resume_dc_pending, terminate_after_response,
                 authVars, now, paused>>

\* Mutation: retiring the session clears the memory of a pause as well.
TeardownForgettingPause ==
  /\ pc = "done"
  /\ pc' = "idle"
  /\ protocol' = "UNKNOWN"
  /\ sequence' = InitSequence
  /\ handled_any' = FALSE
  /\ saw_session_stop' = FALSE
  /\ undecodable' = 0
  /\ out' = NoResponse
  /\ rc' = "OK"
  /\ log' = EmptyLog
  /\ session_id' = NoSid
  /\ din_advertised' = "none"
  /\ last_session_id' = NoSid
  /\ UNCHANGED <<last_session_end, last_session_was_dc, resume_dc_pending,
                 terminate_after_response, authVars, now, paused>>

\* jpv2g_secc_retire_session leaves the memory of a pause alone.
TeardownRetired ==
  /\ Teardown
  /\ session_id' = NoSid
  /\ din_advertised' = "none"

TeardownKept ==
  /\ Teardown
  /\ UNCHANGED <<session_id, din_advertised>>

\* The host build reads the wall clock, which may be set either way.
Tick ==
  /\ now' \in Times \ {now}
  /\ UNCHANGED <<seccVars, frameVars, history>>

\* The loop ends with a return code and the last response it put on the wire.
Exit(code, response) ==
  /\ pc' = "done"
  /\ rc' = code
  /\ out' = response

-------------------------------------------------------------------------------

(* Receiving a frame. *)

\* Silence until the deadline: an error only before the first request.
RecvTimeout ==
  /\ pc = "recv"
  /\ Exit(IF handled_any THEN "OK" ELSE "ETIMEDOUT", out)
  /\ UNCHANGED <<seccVars, protocol, sequence, handled_any, saw_session_stop,
                 undecodable, now, history>>

\* The peer is gone, or the V2GTP header is malformed or announces too much.
RecvFails ==
  /\ pc = "recv"
  /\ \E code \in RecvErrors : Exit(code, out)
  /\ UNCHANGED <<seccVars, protocol, sequence, handled_any, saw_session_stop,
                 undecodable, now, history>>

\* Mutation: one frame too many is passed over.
ToleratedOnceMore == handled_any /\ undecodable <= UndecodableLimit

\* A frame none of the decoders accepts is passed over, a bounded number of
\* times in a row and only once the session has got going.
Tolerated == handled_any /\ undecodable < UndecodableLimit

\* Mutation: the tally of undecodable frames starts over when it is full.
IgnoreUndecodableForever ==
  /\ pc = "recv"
  /\ handled_any
  /\ undecodable' = (undecodable + 1) % (UndecodableLimit + 1)
  /\ UNCHANGED <<seccVars, pc, protocol, sequence, handled_any,
                 saw_session_stop, out, rc, now, history>>

IgnoreUndecodable ==
  /\ pc = "recv"
  /\ Tolerated
  /\ undecodable' = undecodable + 1
  /\ UNCHANGED <<seccVars, pc, protocol, sequence, handled_any,
                 saw_session_stop, out, rc, now, history>>

RejectUndecodable ==
  /\ pc = "recv"
  /\ ~Tolerated
  /\ Exit("EBADMSG", out)
  /\ UNCHANGED <<seccVars, protocol, sequence, handled_any, saw_session_stop,
                 undecodable, now, history>>

\* The ISO decoder is not tried once the stream speaks DIN; the DIN decoder is
\* tried last and always.
Decodable(p) == p = "ISO2" => protocol # "DIN"

\* A SupportedAppProtocolReq without a common protocol leaves the stream's
\* protocol as it was.
Effective(p) == IF p = "UNKNOWN" THEN protocol ELSE p

\* What the vehicle can send: a handshake that settles on one of the enabled
\* protocols or on none, or a request in one of the two grammars.
Request(k, p) ==
  IF k = "SupportedAppProtocol" THEN p \in Negotiable \cup {"UNKNOWN"}
                                ELSE p \in Protocols /\ Decodable(p)

\* Mutation: any SessionID passes while a session is live.
SessionUnchecked(k, asked) ==
  k \in {"SupportedAppProtocol", "SessionSetup"} \/ session_id # NoSid

\* jpv2g_secc_validate_request_session: the handshake and SessionSetup come
\* without a session, every other request belongs to the live one.
SessionAccepted(k, asked) ==
  \/ k \in {"SupportedAppProtocol", "SessionSetup"}
  \/ session_id # NoSid /\ asked = session_id

\* An answer under the live session, about no energy mode in particular.
Response(k, p, code, asked) ==
  [kind |-> k, code |-> code, protocol |-> Effective(p),
   sid |-> session_id, asked |-> asked, mode |-> "none"]

\* secc_send_min_failed, best effort: the request's own response with only the
\* code changed.  SupportedAppProtocol and DIN's ChargingStatus have none.
MinFailed(k, p, code) ==
  {NoResponse} \cup
  IF k = "SupportedAppProtocol" \/ (k = "ChargingStatus" /\ p = "DIN") THEN {}
  ELSE {Response(k, p, code, NoSid)}

\* Both gates answer first and end the stream then.
Reject(k, p, code, refusal) ==
  /\ \E response \in MinFailed(k, p, refusal) : Exit(code, response)
  /\ protocol' = Effective(p)
  /\ undecodable' = 0
  /\ UNCHANGED <<seccVars, sequence, handled_any, saw_session_stop, now, history>>

RejectSequence(k, p) ==
  /\ pc = "recv"
  /\ Request(k, p)
  /\ NextPhases(sequence, Effective(p), k) = {}
  /\ Reject(k, p, "EPROTO", "FAILED_SequenceError")

RejectSession(k, p, asked) ==
  /\ pc = "recv"
  /\ Request(k, p)
  /\ NextPhases(sequence, Effective(p), k) # {}
  /\ ~SessionAccepted(k, asked)
  /\ Reject(k, p, "EACCES", "FAILED_UnknownSession")

\* A request that passes both gates.
Accept(k, p, asked) ==
  /\ pc = "recv"
  /\ SessionAccepted(k, asked)
  /\ Request(k, p)
  /\ \E phase \in NextPhases(sequence, Effective(p), k) :
        sequence' = Advance(sequence, Effective(p), k, phase)
  /\ protocol' = Effective(p)
  /\ undecodable' = 0
  /\ UNCHANGED <<handled_any, saw_session_stop, now>>

\* The handler encodes its response; if it cannot, the stream ends and nothing
\* is sent, but what the handler has changed by then stays changed.
Encoded(response) ==
  /\ pc' = "send"
  /\ out' = response
  /\ UNCHANGED rc

Unencoded == \E code \in HandlerErrors : Exit(code, NoResponse)

Answer(response) == Encoded(response) \/ Unencoded

-------------------------------------------------------------------------------

(* The request handlers (jpv2g_secc_default_handle), one action each. *)

\* jpv2g_generate_session_id: a number that nothing in the SECC remembers, or,
\* when the random provider fails, the buffer left as it was.
Generated == (Sids \ {session_id, last_session_id, last_auth_sid})
               \cup (IF RngMayFail THEN {session_id} ELSE {})

\* The handshake has no header; yet resolving its session makes up a SessionID
\* when none is live.
SupportedAppProtocol(p) ==
  /\ Accept("SupportedAppProtocol", p, NoSid)
  /\ session_id' \in (IF session_id = NoSid THEN Generated ELSE {session_id})
  /\ Answer(Response("SupportedAppProtocol", p,
                     IF p = "UNKNOWN" THEN "FAILED_NoNegotiation" ELSE "OK", NoSid))
  /\ UNCHANGED <<pauseVars, resume_dc_pending, terminate_after_response,
                 din_advertised, authVars, history>>

\* secc_paused_session_resumable
Resumable(sid) ==
  /\ last_session_id # NoSid
  /\ sid = last_session_id
  /\ (now - last_session_end) \in 0..Window

\* Mutation: the memory of the pause is not consumed.
JoinKeepingMemory(asked) ==
  /\ session_id' = asked
  /\ resume_dc_pending' = last_session_was_dc
  /\ log' = [log EXCEPT !.joined = TRUE, !.joined_dc = paused.dc]
  /\ paused' = NoPause
  /\ UNCHANGED pauseVars

\* Rejoining consumes the memory of the pause and carries its DC mode over.
JoinOldSession(asked) ==
  /\ session_id' = asked
  /\ resume_dc_pending' = last_session_was_dc
  /\ last_session_id' = NoSid
  /\ last_session_end' = 0
  /\ last_session_was_dc' = FALSE
  /\ log' = [log EXCEPT !.joined = TRUE, !.joined_dc = paused.dc]
  /\ paused' = NoPause

\* Mutation: a grant that was never consumed is left for the new session.
EstablishKeepingGrant ==
  /\ session_id' \in Generated
  /\ UNCHANGED <<resume_dc_pending, pauseVars, history>>

EstablishNewSession ==
  /\ session_id' \in Generated
  /\ resume_dc_pending' = FALSE
  /\ UNCHANGED <<pauseVars, history>>

\* Mutation: what an earlier session was told is not forgotten.
KeepAuthorization(p, sid) == UNCHANGED authVars

\* An ISO session starts its authorization anew.
RestartAuthorization(p, sid) ==
  IF p = "ISO2" THEN last_auth_sid' = sid /\ auth_pending_sent' = FALSE
                ELSE UNCHANGED authVars

\* Any session, rejoined or not, renegotiates its DIN offer.
SessionSetup(p, asked) ==
  /\ Accept("SessionSetup", p, asked)
  /\ IF Resumable(asked) THEN JoinOldSession(asked) ELSE EstablishNewSession
  /\ din_advertised' = "none"
  /\ RestartAuthorization(p, session_id')
  /\ Answer([Response("SessionSetup", p,
                      IF Resumable(asked) THEN "OK_OldSessionJoined"
                                          ELSE "OK_NewSessionEstablished", asked)
             EXCEPT !.sid = session_id'])
  /\ UNCHANGED terminate_after_response

\* secc_resolve_din_etm: DIN offers one mode, DC_extended for preference.
DinOffer == IF "DC_extended" \in SupportedModes THEN {"DC_extended"}
            ELSE SupportedModes \cap {"DC_core"}

\* The DIN offer binds the session once it has been encoded.
ServiceDiscovery(p, asked) ==
  /\ Accept("ServiceDiscovery", p, asked)
  /\ IF p = "ISO2"
     THEN /\ Answer(Response("ServiceDiscovery", p, "OK", asked))
          /\ UNCHANGED din_advertised
     ELSE \/ \E mode \in DinOffer :
               /\ Encoded([Response("ServiceDiscovery", p, "OK", asked)
                           EXCEPT !.mode = mode])
               /\ din_advertised' = mode
          \/ /\ DinOffer = {}
             /\ Encoded(Response("ServiceDiscovery", p, "FAILED", asked))
             /\ din_advertised' = "none"
          \/ /\ Unencoded
             /\ din_advertised' = "none"
  /\ UNCHANGED <<session_id, pauseVars, resume_dc_pending,
                 terminate_after_response, authVars, history>>

\* Only external payment is offered: any other choice is answered FAILED, and
\* the flag has the stream loop end the stream once the answer is out.
PaymentServiceSelection(p, asked, external) ==
  /\ Accept("PaymentServiceSelection", p, asked)
  /\ terminate_after_response' = (terminate_after_response \/ ~external)
  /\ Answer(Response("PaymentServiceSelection", p,
                     IF external THEN "OK" ELSE "FAILED_PaymentSelectionInvalid",
                     asked))
  /\ UNCHANGED <<session_id, pauseVars, resume_dc_pending, din_advertised,
                 authVars, history>>

\* ok is the verdict of the backend.  ISO answers a granted authorization
\* Ongoing once per session, then Finished; DIN is Finished at once.
Authorization(p, asked, ok) ==
  LET pending == auth_pending_sent /\ last_auth_sid = session_id
      defer   == p = "ISO2" /\ ok /\ ~pending
  IN /\ Accept("Authorization", p, asked)
     /\ IF p = "ISO2"
        THEN last_auth_sid' = session_id /\ auth_pending_sent' = (pending \/ ok)
        ELSE UNCHANGED authVars
     /\ Answer(Response("Authorization", p,
                        IF defer THEN "Ongoing" ELSE IF ok THEN "OK" ELSE "FAILED",
                        asked))
     /\ UNCHANGED <<session_id, pauseVars, resume_dc_pending,
                    terminate_after_response, din_advertised, history>>

\* Mutation: DIN, too, agrees to any mode in the configuration.
AgreedByConfiguration(p, mode) == mode \in SupportedModes

\* secc_iso_etm_supported, secc_din_etm_supported: ISO agrees to any mode in the
\* configuration (DC_core when it lists none), DIN to the one it has offered.
Agreed(p, mode) ==
  IF p = "ISO2" THEN \/ mode \in SupportedModes
                     \/ mode = "DC_core" /\ SupportedModes = {}
                ELSE mode = din_advertised

ChargeParameterDiscovery(p, asked, mode) ==
  /\ Accept("ChargeParameterDiscovery", p, asked)
  /\ Answer([Response("ChargeParameterDiscovery", p,
                      IF Agreed(p, mode) THEN "OK" ELSE "FAILED_WrongEnergyTransfer",
                      asked) EXCEPT !.mode = mode])
  /\ UNCHANGED <<session_id, pauseVars, resume_dc_pending,
                 terminate_after_response, din_advertised, authVars, history>>

\* The library has no insulation monitor: its own answer is always FAILED.
CableCheck(p, asked) ==
  /\ Accept("CableCheck", p, asked)
  /\ Answer(Response("CableCheck", p, "FAILED", asked))
  /\ log' = [log EXCEPT !.cable = TRUE]
  /\ UNCHANGED <<session_id, pauseVars, resume_dc_pending,
                 terminate_after_response, din_advertised, authVars, paused>>

\* A vehicle that pauses an ISO session may rejoin it, even if the response
\* below never reaches it.  Either way the live session is over; the response
\* was encoded before and still carries its SessionID.
SessionStop(p, asked, pause) ==
  /\ Accept("SessionStop", p, asked)
  /\ Answer(Response("SessionStop", p, "OK", asked))
  /\ IF p = "ISO2" /\ pause
     THEN /\ last_session_id' = session_id
          /\ last_session_end' = now
          /\ paused' = [sid |-> session_id, at |-> now,
                        dc |-> sequence.mode_known /\ sequence.dc_mode]
     ELSE UNCHANGED <<last_session_id, last_session_end, paused>>
  /\ session_id' = NoSid
  /\ din_advertised' = "none"
  /\ UNCHANGED <<last_session_was_dc, resume_dc_pending,
                 terminate_after_response, authVars, log>>

\* The requests whose handlers keep no session state: ServiceDetail and the
\* electrical exchanges of the charge loop.  DIN has no ChargingStatusRes.
StatelessKinds == {"ServiceDetail", "PreCharge", "ChargingStatus", "CurrentDemand",
                   "MeteringReceipt", "WeldingDetection"} \cup PowerDeliveryKinds

Stateless(k, p, asked) ==
  /\ Accept(k, p, asked)
  /\ IF k = "ChargingStatus" /\ p = "DIN"
     THEN Exit("EPROTO", NoResponse)
     ELSE Answer(Response(k, p, "OK", asked))
  /\ log' = [log EXCEPT !.precharge = @ \/ k = "PreCharge"]
  /\ UNCHANGED <<seccVars, paused>>

\* Without a contract backend PaymentDetails is refused.
PaymentDetails(p, asked, ok) ==
  /\ Accept("PaymentDetails", p, asked)
  /\ Answer(Response("PaymentDetails", p, IF ok THEN "OK" ELSE "FAILED", asked))
  /\ UNCHANGED <<seccVars, history>>

\* The firmware's own handle_request: it answers as it sees fit, or calls back
\* into the library's handler (the actions above, which stay possible), and may
\* have the stream ended once a refusal of its own is out.
Firmware(k, p, asked) ==
  /\ k \in Overridden
  /\ Accept(k, p, asked)
  /\ \E code \in {"OK", "FAILED"} :
        /\ Answer(Response(k, p, code, asked))
        /\ \/ UNCHANGED terminate_after_response
           \/ code = "FAILED" /\ terminate_after_response' = TRUE
  /\ log' = [log EXCEPT !.cable = @ \/ k = "CableCheck",
                        !.precharge = @ \/ k = "PreCharge"]
  /\ UNCHANGED <<session_id, pauseVars, resume_dc_pending, din_advertised,
                 authVars, paused>>

-------------------------------------------------------------------------------

(* Sending the response. *)

\* secc_send_bytes gives up at its deadline or when the peer is gone.
SendFails ==
  /\ pc = "send"
  /\ \E code \in SendErrors : Exit(code, NoResponse)
  /\ UNCHANGED <<seccVars, protocol, sequence, handled_any, saw_session_stop,
                 undecodable, now, history>>

\* A handler asked for the stream to end with this response.
SendThenTerminate ==
  /\ pc = "send"
  /\ terminate_after_response
  /\ terminate_after_response' = FALSE
  /\ Exit("ESHUTDOWN", out)
  /\ UNCHANGED <<session_id, pauseVars, resume_dc_pending, din_advertised,
                 authVars, protocol, sequence, handled_any, saw_session_stop,
                 undecodable, now, history>>

\* Mutation: the stream goes on although it was to be terminated.
DeliveredRegardless(k) ==
  /\ pc = "send"
  /\ out.kind = k
  /\ handled_any' = TRUE
  /\ UNCHANGED <<session_id, last_session_id, last_session_end,
                 terminate_after_response, din_advertised, authVars,
                 protocol, undecodable, out, now, paused>>

\* The response is out and the stream goes on.
Delivered(k) ==
  /\ pc = "send"
  /\ out.kind = k
  /\ ~terminate_after_response
  /\ handled_any' = TRUE
  /\ UNCHANGED <<session_id, last_session_id, last_session_end,
                 terminate_after_response, din_advertised, authVars,
                 protocol, undecodable, out, now, paused>>

\* A rejoined DC session need not repeat CableCheck and PreCharge: the sequencer
\* of this connection is told what the paused one had settled, once.
SendSessionSetupRes ==
  /\ Delivered("SessionSetup")
  /\ pc' = "recv"
  /\ sequence' = IF resume_dc_pending
                 THEN [sequence EXCEPT !.dc_mode = TRUE, !.mode_known = TRUE]
                 ELSE sequence
  /\ resume_dc_pending' = FALSE
  /\ log' = [log EXCEPT !.announced = out.sid]
  /\ UNCHANGED <<last_session_was_dc, saw_session_stop, rc>>

\* Mutation: the loop ends without noting why.
SendSessionStopResUnseen ==
  /\ Delivered("SessionStop")
  /\ pc' = "done"
  /\ rc' = "OK"
  /\ last_session_was_dc' = IF last_session_id # NoSid
                            THEN sequence.mode_known /\ sequence.dc_mode
                            ELSE last_session_was_dc
  /\ UNCHANGED <<saw_session_stop, resume_dc_pending, sequence, log>>

\* The last response ends the stream.  Only the loop knows whether the session
\* had negotiated DC; it notes so whenever some pause is retained.
SendSessionStopRes ==
  /\ Delivered("SessionStop")
  /\ pc' = "done"
  /\ saw_session_stop' = TRUE
  /\ rc' = "OK"
  /\ last_session_was_dc' = IF last_session_id # NoSid
                            THEN sequence.mode_known /\ sequence.dc_mode
                            ELSE last_session_was_dc
  /\ UNCHANGED <<resume_dc_pending, sequence, log>>

SendOtherRes ==
  /\ \E k \in Kinds \ {"SessionSetup", "SessionStop"} : Delivered(k)
  /\ pc' = "recv"
  /\ log' = [log EXCEPT !.advertised = IF out.kind = "ServiceDiscovery"
                                       THEN out.mode ELSE @,
                        !.ongoing = @ \/ out.code = "Ongoing"]
  /\ UNCHANGED <<last_session_was_dc, resume_dc_pending, sequence,
                 saw_session_stop, rc>>

-------------------------------------------------------------------------------

(* The requests by the part of the dialogue they belong to. *)

AskedSids == Sids \cup {NoSid}

Establish ==
  \/ \E p \in Negotiable \cup {"UNKNOWN"} : SupportedAppProtocol(p)
  \/ \E p \in Protocols, asked \in AskedSids : SessionSetup(p, asked)

Negotiate ==
  \E p \in Protocols, asked \in AskedSids :
     \/ ServiceDiscovery(p, asked)
     \/ \E external \in BOOLEAN : PaymentServiceSelection(p, asked, external)
     \/ \E ok \in BOOLEAN : \/ PaymentDetails(p, asked, ok)
                            \/ Authorization(p, asked, ok)
     \/ \E mode \in Modes : ChargeParameterDiscovery(p, asked, mode)

Charge ==
  \E p \in Protocols, asked \in AskedSids :
     \/ CableCheck(p, asked)
     \/ \E k \in StatelessKinds : Stateless(k, p, asked)
     \/ \E k \in Overridden : Firmware(k, p, asked)

Stop == \E p \in Protocols, asked \in AskedSids, pause \in BOOLEAN :
           SessionStop(p, asked, pause)

Refuse ==
  \E k \in Kinds, p \in Protocols \cup {"UNKNOWN"} :
     \/ RejectSequence(k, p)
     \/ \E asked \in AskedSids : RejectSession(k, p, asked)

Handle == Establish \/ Negotiate \/ Charge \/ Stop

Receive == \/ RecvTimeout \/ RecvFails
           \/ IgnoreUndecodable \/ RejectUndecodable
           \/ Refuse \/ Handle

Send == \/ SendFails \/ SendThenTerminate
        \/ SendSessionSetupRes \/ SendSessionStopRes \/ SendOtherRes

Next == \/ Connect \/ TeardownRetired \/ TeardownKept \/ Tick
        \/ Receive \/ Send

Spec == Init /\ [][Next]_vars

(* Safety. *)

\* Once a session is set up, every answer on the connection belongs to the very
\* SessionID its SessionSetupRes announced and was asked for under that one:
\* neither a dead connection's, nor the one the handshake made up, nor zero.
AnsweredUnderAnnouncedSession ==
  (pc = "send" /\ out.kind \notin {"SupportedAppProtocol", "SessionSetup"}) =>
     /\ log.announced # NoSid
     /\ out.sid = log.announced
     /\ out.asked = log.announced

\* The sequencer is in DC mode only if this connection has been through a
\* CableCheck or has rejoined an old session: a grant to rejoin that never
\* reached its vehicle must not skip the CableCheck of a later one.
DcModeIsEarned ==
  (pc \in {"recv", "send"} /\ sequence.dc_mode) => (log.cable \/ log.joined)

\* A connection that is in DC mode reaches the phases in which energy flows only
\* after a PreCharge of its own, or by rejoining an old session: renegotiation
\* leads back to ChargeParameterDiscovery, from where PowerDelivery may follow at
\* once, and an AC session may turn into a DC one there.
DcEnergyIsPrepared ==
  ( /\ pc \in {"recv", "send"}
    /\ sequence.dc_mode
    /\ sequence.phase \in {"POWER_DELIVERY", "CHARGING"} )
  => (log.precharge \/ log.joined)

\* A DIN session delivers energy in DC mode only, so that the handler that
\* cannot answer DIN's ChargingStatus is never reached.
DinChargesInDc ==
  ( /\ pc \in {"recv", "send"}
    /\ sequence.protocol = "DIN"
    /\ sequence.phase \in {"PRE_CHARGE", "POWER_DELIVERY", "CHARGING",
                           "POWER_DELIVERY_STOP"} ) => sequence.dc_mode

\* What the library's DIN handler agrees to is the one mode it offered on this
\* connection, not just any mode it could have offered.
DinAgreesToItsOffer ==
  ( /\ pc = "send"
    /\ out.kind = "ChargeParameterDiscovery"
    /\ "ChargeParameterDiscovery" \notin Overridden
    /\ out.protocol = "DIN"
    /\ out.code = "OK" ) => (out.mode = log.advertised /\ out.mode # "none")

\* The library's own AuthorizationRes grants an ISO session only after it told
\* this very connection to wait, although it keeps what it said in statics that
\* outlive every connection, and SessionIDs come back after a pause.
IsoAuthorizationIsDeferred ==
  ( /\ pc = "send"
    /\ out.kind = "Authorization" /\ "Authorization" \notin Overridden
    /\ out.protocol = "ISO2"
    /\ out.code = "OK" ) => log.ongoing

\* The memory of the last pause survives whatever other connections do (drops,
\* retired sessions, new sessions, failed responses) until it is joined or
\* another pause takes its place.
PauseIsRemembered ==
  /\ last_session_id = paused.sid
  /\ paused.sid # NoSid => last_session_end = paused.at

\* A vehicle whose choice of payment was refused gets no further answer on that
\* connection, whatever it sends.
RefusedPaymentEndsStream ==
  pc = "recv" => out.code # "FAILED_PaymentSelectionInvalid"

\* A connection is reported as ended by a refusal only if its own vehicle was
\* sent that refusal last: a termination an earlier connection asked for and
\* did not live to see never falls on it.
RejectionWasDelivered ==
  (pc = "done" /\ Reason(rc, handled_any, saw_session_stop) = "APP_REJECTED") =>
     out.code \in Refusals

\* The power path relaxes its teardown on EV_SESSION_STOP: that is reported
\* exactly when the SessionStopRes went out, and then no session is live.
StopIsReportedWhenOver ==
  pc = "done" =>
     /\ (Reason(rc, handled_any, saw_session_stop) = "EV_SESSION_STOP")
          <=> (out.kind = "SessionStop" /\ out.code = "OK")
     /\ saw_session_stop => session_id = NoSid /\ sequence.phase = "COMPLETE"

\* OK_OldSessionJoined is granted exactly to the SessionID of the last pause,
\* within the window, and once.
JoinedIffPaused ==
  [][ (pc = "recv" /\ pc' = "send" /\ out'.kind = "SessionSetup") =>
        ( out'.code = "OK_OldSessionJoined" <=>
            /\ paused.sid # NoSid
            /\ out'.asked = paused.sid
            /\ (now - paused.at) \in 0..Window ) ]_vars

\* A stream never leaves the protocol it has settled on.
ProtocolIsPinned ==
  [][ (sequence.protocol # "UNKNOWN" /\ pc' \in {"recv", "send"}) =>
        sequence'.protocol = sequence.protocol ]_vars

\* A stream in DC mode stays in it, also when a renegotiation skips the
\* CableCheck the second time.
DcModeIsKept ==
  [][ (sequence.dc_mode /\ pc' # "idle") => sequence'.dc_mode ]_vars

\* After the vehicle has stopped the power delivery, or its welding has been
\* checked, nothing starts it again on that connection.
StopIsFinal ==
  [][ (sequence.phase \in {"POWER_DELIVERY_STOP", "WELDING"} /\ pc' # "idle") =>
        sequence'.phase \in {"POWER_DELIVERY_STOP", "WELDING", "COMPLETE"} ]_vars

-------------------------------------------------------------------------------

(* What the loop promises a vehicle, whatever the messages: ChargeSession. *)

\* Where a connection stands, by its phase while it is served.
Stage == IF pc = "idle" THEN "none"
         ELSE IF pc = "done" \/ sequence.phase = "COMPLETE" THEN "over"
         ELSE IF sequence.phase \in {"APP_PROTOCOL", "SESSION_SETUP"} THEN "open"
         ELSE "serving"

\* The session of the connection: what the SECC object still holds of an earlier
\* connection's, or of the handshake, serves nobody.
Served == IF Stage = "serving" THEN session_id ELSE NoSid

\* Whether the phase is one in which the vehicle may draw energy.
Power == IF Stage # "serving" THEN "off"
         ELSE IF sequence.phase \in {"POWER_DELIVERY", "CHARGING"} THEN "on"
         ELSE IF sequence.phase \in {"POWER_DELIVERY_STOP", "WELDING"} THEN "stopped"
         ELSE "off"

Session == INSTANCE ChargeSession
           WITH Ids <- Sids, None <- NoSid, stage <- Stage, session <- Served,
                memory <- last_session_id, power <- Power

\* The loop, its sequencer and its handlers keep the promises of ChargeSession:
\* one session per connection; a paused one kept for one return, under a
\* SessionID no other session gets; and no energy under no SessionID, after a
\* stop, or past the end of the connection.
ImplementsChargeSession == Session!Spec

-------------------------------------------------------------------------------

(* What the repository says of the program and the program does not do. *)

\* secc.h, last_session_was_dc: "DC-ness of the paused session", so that a session
\* paused before it had settled on DC does not come back in DC mode.
ResumedModeIsPausedMode ==
  ( /\ pc = "recv"
    /\ sequence.phase = "SERVICE_DISCOVERY"
    /\ log.joined
    /\ sequence.dc_mode ) => log.joined_dc

\* state_secc.c, of a handshake that found no common protocol: "Any subsequent
\* V2G request still fails the protocol check below".
NoRequestAfterFailedNegotiation ==
  [][ ( /\ pc = "recv" /\ pc' = "send"
        /\ out.code = "FAILED_NoNegotiation"
        /\ sequence.protocol = "UNKNOWN" )
      => out'.kind = "SupportedAppProtocol" ]_vars

\* secc.c, the stream loop on terminate_after_response: leaving the stream open
\* "let a ResponseCode-ignoring EV [...] continue as a zombie pseudo-EIM session
\* past a FAILED PaymentServiceSelection / Authorization".
FailedAuthorizationEndsStream ==
  ~( pc = "recv" /\ out.kind = "Authorization" /\ out.code = "FAILED" )

\* secc.c, secc_resolve_session: "every other case gets a freshly generated SECC
\* SID and OK_NewSessionEstablished".
NewSessionHasNewSid ==
  [][ (pc = "recv" /\ pc' = "send" /\ out'.code = "OK_NewSessionEstablished") =>
        out'.sid \notin {NoSid, session_id} ]_vars

-------------------------------------------------------------------------------

\* A receive ends at its deadline at the latest, and the worker returns from the
\* loop.  A send need not end: secc_send_bytes looks at its deadline between calls
\* of a send on a blocking socket, and the TLS one has none.  Nothing is assumed of
\* the clock or of further connections.
Fairness == WF_vars(Receive) /\ WF_vars(TeardownRetired \/ TeardownKept)

FairSpec == Spec /\ Fairness

\* The vehicle reads what it is sent, or goes: no response holds the worker forever.
VehicleReads == []<>(pc # "send")

\* A vehicle that reads its responses, and from some point on sends nothing the
\* SECC can decode, does not pin the worker, although each of its frames restarts
\* the idle deadline.
BabblingPeerIsReleased ==
  (VehicleReads /\ <>[][~(pc = "recv" /\ pc' = "send")]_vars) => []<>(pc \in {"idle", "done"})

===============================================================================
