------------------------------ MODULE SeccIso20 ------------------------------
(***************************************************************************)
(* The ISO 15118-20 DC session of the SECC: the engine of                  *)
(* src/src/secc_iso20.c, which decodes, gates and answers one frame, and   *)
(* the branch of the stream loop (src/src/secc.c,                          *)
(* jpv2g_secc_handle_stream_obs) that feeds it frames, sends its answers   *)
(* and holds the connection open after the last one.                       *)
(*                                                                         *)
(* A deadline is what is left of it, in ticks: Off when it is not armed    *)
(* (the C code's 0), Late once it has passed.  Time then needs no bound.   *)
(* The handling of a frame is atomic, as one thread runs it; time passes   *)
(* between the frames, while an answer is being sent, and in the hold.     *)
(*                                                                         *)
(* The vehicle is unconstrained.  So is the controller behind the          *)
(* callbacks, whose every verdict is a choice; callbacks that only tell it *)
(* something are left out, and so are the electrical values.               *)
(***************************************************************************)
EXTENDS Integers

CONSTANTS
  SequenceTimeout,   \* JPV2G_SECC20_SEQUENCE_TIMEOUT_MS, in ticks (60 s)
  SeTimeout,         \* JPV2G_SECC20_SE_ONGOING_TIMEOUT_MS (55 s)
  EimTimeout,        \* JPV2G_SECC20_EIM_ONGOING_TIMEOUT_MS (180 s)
  HoldTime,          \* JPV2G_SECC20_TEARDOWN_HOLD_MS (5 s)
  UndecodableLimit   \* undecodable frames in a row that are tolerated (6)

ASSUME TimeoutAssumption == /\ SequenceTimeout \in Nat
                            /\ SeTimeout \in Nat
                            /\ EimTimeout \in Nat
                            /\ HoldTime \in Nat
ASSUME LimitAssumption == UndecodableLimit \in Nat

VARIABLES
  \* jpv2g_secc20_t, which outlives the connection
  state, session_established, contactor_closed, cable_check_started,
  charge_loop_started, sequence_deadline, se_deadline, eim_deadline,
  \* the stack frame of the stream loop, and what it returns
  pc, undecodable, disposition, out, hold, saw_session_stop, rc,
  \* the position of the DC contactors
  contactor,
  \* history of the session since the last reset
  log

progressVars == <<session_established, contactor_closed, cable_check_started,
                  charge_loop_started>>
ongoingVars  == <<se_deadline, eim_deadline>>
engineVars   == <<state, progressVars, sequence_deadline, ongoingVars>>
exitVars     == <<hold, saw_session_stop, rc>>
frameVars    == <<pc, undecodable, disposition, out, exitVars>>
vars         == <<engineVars, frameVars, contactor, log>>

-------------------------------------------------------------------------------

(* Deadlines. *)

Late == -1
Off  == -2

Deadlines(timeout) == {Off, Late} \cup 0..timeout

Passed(deadline) == deadline = Late

Elapse(deadline) == IF deadline > Late THEN deadline - 1 ELSE deadline

\* Mutation: every request arms the deadline anew.
ArmedAnew(deadline, timeout) == timeout

\* A deadline that is armed by the first request of a kind and kept by others.
Armed(deadline, timeout) == IF deadline = Off THEN timeout ELSE deadline

-------------------------------------------------------------------------------

(* Requests, states, responses. *)

States == {"SESSION_SETUP", "AUTH_SETUP", "AUTHORIZATION", "SERVICE_DISCOVERY",
           "SERVICE_DETAIL", "DC_CPD", "SCHEDULE_EXCHANGE", "CABLE_CHECK",
           "PRE_CHARGE", "POWER_DELIVERY", "CHARGE_LOOP", "WELDING",
           "SESSION_STOP", "ENDED"}

\* Exotic stands for MeteringConfirmation, CertificateInstallation and vehicle
\* check-in and check-out, which no state accepts.
Kinds == {"SessionSetup", "AuthorizationSetup", "Authorization",
          "ServiceDiscovery", "ServiceDetail", "ServiceSelection",
          "ScheduleExchange", "PowerDelivery", "SessionStop",
          "DC_ChargeParameterDiscovery", "DC_CableCheck", "DC_PreCharge",
          "DC_ChargeLoop", "DC_WeldingDetection", "Exotic"}

\* s20_state_accepts, SessionStop apart.
Expected(s) ==
  CASE s = "SESSION_SETUP"     -> {"SessionSetup"}
    [] s = "AUTH_SETUP"        -> {"AuthorizationSetup"}
    [] s = "AUTHORIZATION"     -> {"Authorization"}
    [] s = "SERVICE_DISCOVERY" -> {"ServiceDiscovery"}
    [] s = "SERVICE_DETAIL"    -> {"ServiceDetail", "ServiceSelection"}
    [] s = "DC_CPD"            -> {"DC_ChargeParameterDiscovery"}
    [] s = "SCHEDULE_EXCHANGE" -> {"ScheduleExchange"}
    [] s = "CABLE_CHECK"       -> {"DC_CableCheck"}
    [] s = "PRE_CHARGE"        -> {"DC_PreCharge"}
    [] s = "POWER_DELIVERY"    -> {"PowerDelivery", "DC_PreCharge"}
    [] s = "CHARGE_LOOP"       -> {"DC_ChargeLoop", "PowerDelivery"}
    [] s = "WELDING"           -> {"DC_WeldingDetection"}
    [] OTHER                   -> {}

\* Mutation: SessionStop passes in the charge loop too.
StoppableInLoop == States \ {"SESSION_SETUP", "ENDED"}

Stoppable == States \ {"SESSION_SETUP", "CHARGE_LOOP", "ENDED"}

\* Mutation: PowerDelivery passes without a PreCharge.
AcceptsWithoutPreCharge(s, kind) == \/ kind \in Expected(s)
                                    \/ kind = "SessionStop" /\ s \in Stoppable
                                    \/ kind = "PowerDelivery" /\ s = "PRE_CHARGE"

\* Mutation: PowerDelivery passes again once the energy has been stopped.
AcceptsAfterStop(s, kind) == \/ kind \in Expected(s)
                             \/ kind = "SessionStop" /\ s \in Stoppable
                             \/ kind = "PowerDelivery" /\ s = "WELDING"

Accepts(s, kind) == \/ kind \in Expected(s)
                    \/ kind = "SessionStop" /\ s \in Stoppable

\* Ongoing is OK with EVSEProcessing = Ongoing.
Warnings == {"WARNING_AuthorizationSelectionInvalid",
             "WARNING_EIMAuthorizationFailure", "WARNING_StandbyNotAllowed"}

Failures == {"FAILED", "FAILED_SequenceError", "FAILED_UnknownSession",
             "FAILED_ServiceIDInvalid", "FAILED_NoEnergyTransferServiceSelected",
             "FAILED_ServiceSelectionInvalid", "FAILED_WrongChargeParameter",
             "FAILED_ScheduleSelectionInvalid", "FAILED_ContactorError",
             "FAILED_ScheduleRenegotiation",
             "FAILED_NoServiceRenegotiationSupported"}

Codes == {"OK", "Ongoing"} \cup Warnings \cup Failures

\* The handshake's answer, sent by the legacy branch, is the one response that
\* is not of this engine.
Responses == [kind : Kinds, code : Codes]
               \cup [kind : {"SupportedAppProtocol"}, code : {"OK", "Failed_NoNegotiation"}]
               \cup [kind : {"none"}, code : {"none"}]

NoResponse == [kind |-> "none", code |-> "none"]

Dispositions == {"CONTINUE", "STOPPED", "PAUSED", "FAILED"}

\* Mutation: a code has to be beyond FAILED to end the session.
DispositionBeyondFailed(code, asked) ==
  IF asked = "CONTINUE" /\ code \in Failures \ {"FAILED"} THEN "FAILED" ELSE asked

\* handle_frame: a code from FAILED on ends the session, a warning never does.
Disposition(code, asked) ==
  IF asked = "CONTINUE" /\ code \in Failures THEN "FAILED" ELSE asked

RecvErrors == {"ECONNRESET", "EBADMSG", "E2BIG"}
SendErrors == {"ETIMEDOUT", "EPIPE", "ECONNRESET"}
ReturnCodes == RecvErrors \cup SendErrors \cup {"OK", "EPROTO"}

Grounds == {"authorized", "isolated", "precharged"}

NewLog == [grounds |-> {}, asking |-> Off, blind |-> FALSE]

-------------------------------------------------------------------------------

Init ==
  /\ state = "SESSION_SETUP"
  /\ session_established = FALSE
  /\ contactor_closed = FALSE
  /\ cable_check_started = FALSE
  /\ charge_loop_started = FALSE
  /\ sequence_deadline = Off
  /\ se_deadline = Off
  /\ eim_deadline = Off
  /\ pc = "idle"
  /\ undecodable = 0
  /\ disposition = "CONTINUE"
  /\ out = NoResponse
  /\ hold = Off
  /\ saw_session_stop = FALSE
  /\ rc = "OK"
  /\ contactor = "open"
  /\ log = NewLog

(* The connection. *)

\* jpv2g_secc20_reset, called once a SupportedAppProtocolRes has gone out.
\* It forgets contactor_closed without asking the contactors.
Reset ==
  /\ state' = "SESSION_SETUP"
  /\ session_established' = FALSE
  /\ contactor_closed' = FALSE
  /\ cable_check_started' = FALSE
  /\ charge_loop_started' = FALSE
  /\ sequence_deadline' = SequenceTimeout
  /\ se_deadline' = Off
  /\ eim_deadline' = Off
  /\ log' = [NewLog EXCEPT !.blind = contactor = "closed"]

\* A connection of which the handshake settled on ISO 15118-20 and was answered.
\* Others are not this module's and leave the engine alone.  From here on the
\* stream has handled something.
Connect ==
  /\ pc = "idle"
  /\ Reset
  /\ pc' = "recv"
  /\ undecodable' = 0
  /\ disposition' = "CONTINUE"
  /\ out' = NoResponse
  /\ hold' = Off
  /\ saw_session_stop' = FALSE
  /\ rc' = "OK"
  /\ UNCHANGED contactor

\* The worker has returned from the stream, and the power path has acted on the
\* drop: the controller leaves no contactor closed on a dead connection.
Disconnect ==
  /\ pc = "done"
  /\ pc' = "idle"
  /\ contactor' = "open"
  /\ UNCHANGED <<engineVars, undecodable, disposition, out, exitVars, log>>

\* The controller may open the contactors at any time, for faults of its own.
ControllerOpens ==
  /\ contactor = "closed"
  /\ contactor' = "open"
  /\ UNCHANGED <<engineVars, frameVars, log>>

\* The monotonic clock.  log.asking grows up to the first tick too late.
Tick ==
  /\ sequence_deadline' = Elapse(sequence_deadline)
  /\ se_deadline' = Elapse(se_deadline)
  /\ eim_deadline' = Elapse(eim_deadline)
  /\ hold' = Elapse(hold)
  /\ log' = [log EXCEPT !.asking = IF @ \in 0..EimTimeout THEN @ + 1 ELSE @]
  /\ UNCHANGED <<state, progressVars, pc, undecodable, disposition, out,
                 saw_session_stop, rc, contactor>>

Exit(code) ==
  /\ pc' = "done"
  /\ rc' = code
  /\ UNCHANGED <<engineVars, disposition, out, hold, saw_session_stop,
                 contactor, log>>

-------------------------------------------------------------------------------

(* Receiving what is no request of this session. *)

\* The receive's deadline, which lets an idle stream go in order.
RecvTimeout == pc = "recv" /\ Exit("OK") /\ UNCHANGED undecodable

\* The peer is gone, or the frame is malformed or of another payload type.
RecvFails == /\ pc = "recv"
             /\ \E code \in RecvErrors : Exit(code)
             /\ UNCHANGED undecodable

\* A handshake for another protocol, or a request of another grammar: the
\* sequencer has pinned this one, and answers that with a failure of its own.
LegacyFrame == pc = "recv" /\ Exit("EPROTO") /\ undecodable' = 0

\* A handshake repeated for the same protocol, or one without any common
\* protocol, which leaves the one settled on in place.  It is accepted at any
\* time, as the requests of this protocol never move the sequencer on.
RepeatHandshake ==
  /\ pc = "recv"
  /\ \E code \in {"OK", "Failed_NoNegotiation"} :
       out' = [kind |-> "SupportedAppProtocol", code |-> code]
  /\ pc' = "send"
  /\ undecodable' = 0
  /\ UNCHANGED <<engineVars, disposition, exitVars, contactor, log>>

\* Mutation: one frame more than the limit.
ToleratedOnceMore == undecodable <= UndecodableLimit

Tolerated == undecodable < UndecodableLimit

\* Neither the engine nor the legacy branch can make anything of the frame.
Ignore ==
  /\ pc = "recv"
  /\ Tolerated
  /\ undecodable' = undecodable + 1
  /\ UNCHANGED <<pc, disposition, out, exitVars, contactor, log>>

\* The engine has already stopped the sequence timer, whose deadline had not
\* passed, when it finds the frame undecodable, or its answer unencodable (a
\* CertificateInstallationRes); nothing starts the timer again.
IgnoreUndecodable ==
  /\ Ignore
  /\ ~Passed(sequence_deadline)
  /\ sequence_deadline' = Off
  /\ UNCHANGED <<state, progressVars, ongoingVars>>

IgnoreUndecodableLegacy == Ignore /\ UNCHANGED engineVars

RejectUndecodable ==
  /\ pc = "recv" /\ ~Tolerated
  /\ Exit("EBADMSG")
  /\ UNCHANGED undecodable

\* Mutation: the hold has no deadline and waits for the vehicle.
HoldForPeer == Off

\* What is left of the hold when it begins.
HoldFor == HoldTime

\* A frame after the sequence timer has expired, whatever it holds: no answer,
\* but the hold.
SequenceTimedOut ==
  /\ pc = "recv"
  /\ Passed(sequence_deadline)
  /\ state' = "ENDED"
  /\ pc' = "hold"
  /\ hold' = HoldFor
  /\ UNCHANGED <<progressVars, sequence_deadline, ongoingVars, undecodable,
                 disposition, out, saw_session_stop, rc, contactor, log>>

-------------------------------------------------------------------------------

(* Requests.  A frame that decodes, in time. *)

\* Mutation: the answer does not start the sequence timer again.
UnarmedAfter(d) == Off

\* Request receipt has stopped the sequence timer; an answer after which the
\* session goes on starts it again.
ArmedAfter(d) == IF d = "CONTINUE" THEN SequenceTimeout ELSE Off

\* The end of handle_frame: the code and the handler's disposition decide
\* whether the session goes on, in the handler's state, with the timer armed.
Answer(kind, code, next, asked) ==
  LET d == Disposition(code, asked) IN
  /\ out' = [kind |-> kind, code |-> code]
  /\ disposition' = d
  /\ state' = IF d = "CONTINUE" THEN next ELSE "ENDED"
  /\ sequence_deadline' = ArmedAfter(d)
  /\ pc' = "send"
  /\ undecodable' = 0
  /\ UNCHANGED exitVars

Continue(kind, code, next) == Answer(kind, code, next, "CONTINUE")

InTime == pc = "recv" /\ ~Passed(sequence_deadline)

\* The SessionID is compared before the sequence is, and only once there is one.
RefuseSession(kind) ==
  /\ InTime
  /\ kind # "SessionSetup"
  /\ session_established
  /\ Continue(kind, "FAILED_UnknownSession", state)
  /\ UNCHANGED <<progressVars, ongoingVars, contactor, log>>

RefuseSequence(kind) ==
  /\ InTime
  /\ ~Accepts(state, kind)
  /\ Continue(kind, "FAILED_SequenceError", state)
  /\ UNCHANGED <<progressVars, ongoingVars, contactor, log>>

\* A request that passes both gates.
Accepted(kind) == InTime /\ Accepts(state, kind)

SessionSetup ==
  /\ Accepted("SessionSetup")
  /\ session_established' = TRUE
  /\ Continue("SessionSetup", "OK", "AUTH_SETUP")
  /\ UNCHANGED <<contactor_closed, cable_check_started, charge_loop_started,
                 ongoingVars, contactor, log>>

\* Requests whose handler moves the session on when it likes their contents, and
\* refuses them otherwise.
Simple(kind, next, refusals) ==
  /\ Accepted(kind)
  /\ \/ Continue(kind, "OK", next)
     \/ \E code \in refusals : Continue(kind, code, state)
  /\ UNCHANGED <<progressVars, ongoingVars, contactor, log>>

AuthorizationSetup == Simple("AuthorizationSetup", "AUTHORIZATION", {})
ServiceDiscovery   == Simple("ServiceDiscovery", "SERVICE_DETAIL", {})
ServiceDetail      == Simple("ServiceDetail", state, {"FAILED_ServiceIDInvalid"})
ServiceSelection   ==
  Simple("ServiceSelection", "DC_CPD", {"FAILED_NoEnergyTransferServiceSelected",
                                        "FAILED_ServiceSelectionInvalid"})
ChargeParameterDiscovery ==
  Simple("DC_ChargeParameterDiscovery", "SCHEDULE_EXCHANGE",
         {"FAILED_WrongChargeParameter"})

\* The first AuthorizationReq arms the deadline, also one that selects no EIM.
Authorization ==
  LET deadline == Armed(eim_deadline, EimTimeout)
      asking   == IF log.asking = Off THEN 0 ELSE log.asking
  IN
  /\ Accepted("Authorization")
  /\ \/ /\ \/ Continue("Authorization", "WARNING_AuthorizationSelectionInvalid", state)
           \/ /\ Passed(deadline)
              /\ Continue("Authorization", "FAILED", state)
           \/ /\ ~Passed(deadline)
              /\ \E code \in {"Ongoing", "WARNING_EIMAuthorizationFailure"} :
                   Continue("Authorization", code, state)
        /\ eim_deadline' = deadline
        /\ log' = [log EXCEPT !.asking = asking]
     \/ /\ ~Passed(deadline)
        /\ Continue("Authorization", "OK", "SERVICE_DISCOVERY")
        /\ eim_deadline' = Off
        /\ log' = [log EXCEPT !.asking = asking,
                              !.grounds = @ \cup {"authorized"}]
  /\ UNCHANGED <<progressVars, se_deadline, contactor>>

ScheduleExchange ==
  LET deadline == Armed(se_deadline, SeTimeout) IN
  /\ Accepted("ScheduleExchange")
  /\ \/ /\ Continue("ScheduleExchange", "FAILED", state)
        /\ se_deadline' = deadline
     \/ /\ ~Passed(deadline)
        /\ Continue("ScheduleExchange", "OK", "CABLE_CHECK")
        /\ se_deadline' = Off
  /\ UNCHANGED <<progressVars, eim_deadline, contactor, log>>

CableCheck ==
  /\ Accepted("DC_CableCheck")
  /\ cable_check_started' = TRUE
  /\ \/ /\ Continue("DC_CableCheck", "OK", "PRE_CHARGE")
        /\ log' = [log EXCEPT !.grounds = @ \cup {"isolated"}]
     \/ /\ \E code \in {"Ongoing", "FAILED"} : Continue("DC_CableCheck", code, state)
        /\ UNCHANGED log
  /\ UNCHANGED <<session_established, contactor_closed, charge_loop_started,
                 ongoingVars, contactor>>

\* Answered in POWER_DELIVERY too.
PreCharge ==
  /\ Accepted("DC_PreCharge")
  /\ Continue("DC_PreCharge", "OK", "POWER_DELIVERY")
  /\ log' = [log EXCEPT !.grounds = @ \cup {"precharged"}]
  /\ UNCHANGED <<progressVars, ongoingVars, contactor>>

\* PowerDelivery(Start) outside the loop: contactor_set(true) returns once the
\* contactors have closed, or refuses.
Start ==
  /\ Accepted("PowerDelivery")
  /\ state # "CHARGE_LOOP"
  /\ \/ /\ Continue("PowerDelivery", "OK", "CHARGE_LOOP")
        /\ contactor_closed' = TRUE
        /\ contactor' = "closed"
     \/ /\ Continue("PowerDelivery", "FAILED_ContactorError", state)
        /\ UNCHANGED <<contactor_closed, contactor>>
  /\ UNCHANGED <<session_established, cable_check_started, charge_loop_started,
                 ongoingVars, log>>

\* The contactors are asked to open if the session has closed them; a refusal
\* does not keep the vehicle from stopping.
OpenContactor ==
  \/ ~contactor_closed /\ UNCHANGED <<contactor, log>>
  \/ contactor_closed /\ contactor' = "open" /\ UNCHANGED log
  \/ /\ contactor_closed
     /\ UNCHANGED contactor
     /\ log' = [log EXCEPT !.blind = @ \/ contactor = "closed"]

PowerStop ==
  /\ Accepted("PowerDelivery")
  /\ Continue("PowerDelivery", "OK", "WELDING")
  /\ OpenContactor
  /\ contactor_closed' = FALSE
  /\ UNCHANGED <<session_established, cable_check_started, charge_loop_started,
                 ongoingVars>>

\* A Start in the loop, a Standby, a renegotiation, or a foreign schedule tuple.
OtherPowerDelivery ==
  /\ Accepted("PowerDelivery")
  /\ \/ state = "CHARGE_LOOP" /\ Continue("PowerDelivery", "OK", state)
     \/ \E code \in {"WARNING_StandbyNotAllowed", "FAILED_ScheduleRenegotiation",
                     "FAILED_ScheduleSelectionInvalid"} :
          Continue("PowerDelivery", code, state)
  /\ UNCHANGED <<progressVars, ongoingVars, contactor, log>>

ChargeLoop ==
  /\ Accepted("DC_ChargeLoop")
  /\ \/ /\ Continue("DC_ChargeLoop", "OK", state)
        /\ charge_loop_started' = TRUE
     \/ /\ Continue("DC_ChargeLoop", "FAILED", state)
        /\ UNCHANGED charge_loop_started
  /\ UNCHANGED <<session_established, contactor_closed, cable_check_started,
                 ongoingVars, contactor, log>>

\* The vehicle owns the verdict, and says when it is finished.
WeldingDetection ==
  /\ Accepted("DC_WeldingDetection")
  /\ \E next \in {state, "SESSION_STOP"} : Continue("DC_WeldingDetection", "OK", next)
  /\ UNCHANGED <<progressVars, ongoingVars, contactor, log>>

SessionStop ==
  /\ Accepted("SessionStop")
  /\ \/ \E asked \in {"STOPPED", "PAUSED"} : Answer("SessionStop", "OK", state, asked)
     \/ Continue("SessionStop", "FAILED_NoServiceRenegotiationSupported", state)
  /\ UNCHANGED <<progressVars, ongoingVars, contactor, log>>

-------------------------------------------------------------------------------

(* Sending. *)

SendFails == /\ pc = "send"
             /\ \E code \in SendErrors : Exit(code)
             /\ UNCHANGED undecodable

SendHandshakeRes ==
  /\ pc = "send"
  /\ out.kind = "SupportedAppProtocol"
  /\ Reset
  /\ pc' = "recv"
  /\ UNCHANGED <<undecodable, disposition, out, exitVars, contactor>>

SendRes ==
  /\ pc = "send"
  /\ out.kind # "SupportedAppProtocol"
  /\ IF disposition = "CONTINUE"
     THEN pc' = "recv" /\ UNCHANGED hold
     ELSE pc' = "hold" /\ hold' = HoldFor
  /\ UNCHANGED <<engineVars, undecodable, disposition, out, saw_session_stop,
                 rc, contactor, log>>

(* The hold: bytes that arrive are discarded and change nothing. *)

\* What the stream returns after the hold, of how it got there.
HoldResult == CASE disposition = "FAILED"   -> "EPROTO"
                [] disposition = "CONTINUE" -> "ETIMEDOUT"
                [] OTHER                    -> "OK"

HoldOver ==
  /\ pc = "hold"
  /\ pc' = "done"
  /\ rc' = HoldResult
  /\ saw_session_stop' = (disposition \in {"STOPPED", "PAUSED"})
  /\ UNCHANGED <<engineVars, undecodable, disposition, out, hold, contactor, log>>

HoldExpires   == hold \in {Late, 0} /\ HoldOver
HoldPeerClose == hold \notin {Late, 0} /\ HoldOver

-------------------------------------------------------------------------------

Babble == IgnoreUndecodable \/ IgnoreUndecodableLegacy \/ RejectUndecodable

Refuse == \E kind \in Kinds : RefuseSession(kind) \/ RefuseSequence(kind)

Identify == SessionSetup \/ AuthorizationSetup \/ Authorization

Configure == \/ ServiceDiscovery \/ ServiceDetail \/ ServiceSelection
             \/ ChargeParameterDiscovery \/ ScheduleExchange

Charge == \/ CableCheck \/ PreCharge \/ Start \/ PowerStop \/ OtherPowerDelivery
          \/ ChargeLoop \/ WeldingDetection \/ SessionStop

Receive == \/ RecvTimeout \/ RecvFails \/ LegacyFrame \/ RepeatHandshake
           \/ Babble \/ SequenceTimedOut
           \/ Refuse \/ Identify \/ Configure \/ Charge

Send == SendFails \/ SendHandshakeRes \/ SendRes

Next == \/ Connect \/ Disconnect \/ ControllerOpens \/ Tick
        \/ Receive \/ Send \/ HoldExpires \/ HoldPeerClose

Spec == Init /\ [][Next]_vars

-------------------------------------------------------------------------------

\* Types; every deadline is one that its timer can have, and undecodable frames
\* in a row are counted up to their limit (secc.c, the branch of this protocol).
TypeOK ==
  /\ state \in States
  /\ {session_established, contactor_closed, cable_check_started,
      charge_loop_started, saw_session_stop} \subseteq BOOLEAN
  /\ sequence_deadline \in Deadlines(SequenceTimeout)
  /\ se_deadline \in Deadlines(SeTimeout)
  /\ eim_deadline \in Deadlines(EimTimeout)
  /\ hold \in Deadlines(HoldTime)
  /\ pc \in {"idle", "recv", "send", "hold", "done"}
  /\ undecodable \in 0..UndecodableLimit
  /\ disposition \in Dispositions
  /\ out \in Responses
  /\ rc \in ReturnCodes
  /\ contactor \in {"open", "closed"}
  /\ log \in [grounds : SUBSET Grounds,
              asking  : {Off} \cup 0..(EimTimeout + 1),
              blind   : BOOLEAN]

(* Safety. *)

\* Energy flows only in a session that was authorized, has passed its isolation
\* measurement and has been precharged since its own handshake, whatever the
\* order in which the vehicle asks: the engine takes its contactors for closed,
\* or answers the charge loop, on these grounds alone.
EnergyIsEarned ==
  /\ contactor_closed => log.grounds = Grounds
  /\ (pc = "send" /\ out.kind = "DC_ChargeLoop" /\ out.code = "OK") => contactor_closed

\* An orderly stop, on which the power path relaxes its teardown, leaves the
\* contactors open, unless the controller refused to open them or a handshake
\* repeated in the charge loop made the engine forget them.
StopLeavesContactorOpen ==
  (saw_session_stop /\ ~log.blind) => contactor = "open"

\* The session goes on exactly as long as nothing failed: after a FAILED answer
\* or the SessionStopRes no request is served, and a warning ends nothing.
EndsOnFailureAlone ==
  /\ pc = "recv" => /\ state # "ENDED"
                    /\ out.code \notin Failures
                    /\ ~(out.kind = "SessionStop" /\ out.code = "OK")
  /\ (pc = "hold" /\ disposition # "CONTINUE") =>
        \/ out.code \in Failures
        \/ out.kind = "SessionStop" /\ out.code = "OK"

\* The sequence timer runs whenever a request is awaited, whatever was answered
\* last, as long as the last frame could be decoded.
TimerRunsWhileReceiving ==
  (pc = "recv" /\ undecodable = 0) => sequence_deadline # Off

\* Once EimTimeout has passed since a session first asked for authorization,
\* it is neither granted, nor refused to be asked again, nor told to wait: a
\* vehicle cannot prolong the deadline by asking, nor by other selections.
AuthorizationHasDeadline ==
  [][ ( /\ pc = "recv" /\ pc' = "send"
        /\ out'.kind = "Authorization"
        /\ out'.code \in {"OK", "Ongoing", "WARNING_EIMAuthorizationFailure"} )
      => log'.asking <= EimTimeout ]_vars

(* The session as the power path sees it. *)

\* The ground a state stands for having left behind.
Established(ground) ==
  CASE ground = "authorized" -> States \ {"SESSION_SETUP", "AUTH_SETUP", "AUTHORIZATION"}
    [] ground = "isolated"   -> {"PRE_CHARGE", "POWER_DELIVERY", "CHARGE_LOOP",
                                 "WELDING", "SESSION_STOP"}
    [] ground = "precharged" -> {"POWER_DELIVERY", "CHARGE_LOOP", "WELDING",
                                 "SESSION_STOP"}

Stage == IF pc = "idle" THEN "none"
         ELSE IF disposition \in {"STOPPED", "PAUSED"} THEN "stopped"
         ELSE IF pc = "done" \/ state = "ENDED" THEN "broken"
         ELSE IF contactor_closed THEN "energised"
         ELSE IF state \in {"WELDING", "SESSION_STOP"} THEN "relieved"
         ELSE "preparing"

Obtained == IF Stage \in {"preparing", "energised", "relieved"}
            THEN {g \in Grounds : state \in Established(g)}
            ELSE {}

Before == [g \in Grounds |-> CASE g = "authorized" -> {}
                               [] g = "isolated"   -> {"authorized"}
                               [] g = "precharged" -> {"authorized", "isolated"}]

Energy == INSTANCE EnergySession WITH stage <- Stage, grounds <- Obtained

\* The engine, with the contactors it takes for closed, keeps the promises of
\* EnergySession: grounds in order, no energy without them, none after a stop,
\* and no orderly end while it flows.
ImplementsEnergySession == Energy!Spec

-------------------------------------------------------------------------------

(* What a comment says of the program and the program does not do. *)

\* secc_iso20.c, s20_state_accepts: a SessionStop "is ACCEPTED pre-Start" so that
\* the vehicle "gets a clean stop while the contactors are still open".
CleanStopWithContactorsOpen ==
  (saw_session_stop /\ log.grounds # Grounds) => contactor = "open"

-------------------------------------------------------------------------------

\* The clock moves on, a receive ends at its deadline at the latest, and the hold
\* ends at its own.  A send need not end: it goes to a blocking socket, or through
\* a TLS loop without a deadline.  Nothing is assumed of the controller.
Fairness == WF_vars(Tick) /\ WF_vars(Receive) /\ WF_vars(HoldExpires)

FairSpec == Spec /\ Fairness

\* The vehicle reads what it is sent, or goes: no response holds the engine forever.
VehicleReads == []<>(pc # "send")

\* A vehicle that keeps sending in the hold does not keep the connection.
HoldIsOver == pc = "hold" ~> pc = "done"

\* A vehicle that reads its responses and asks for authorization over and over,
\* with a controller that never decides, is not kept in AUTHORIZATION forever
\* without a warning.
AuthorizationIsDecided ==
  VehicleReads =>
    []<>(pc \notin {"recv", "send"} \/ state # "AUTHORIZATION" \/ out.code \in Warnings)

===============================================================================
