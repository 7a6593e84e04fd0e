--------------------------- MODULE SeccSafetyProofs ---------------------------
(***************************************************************************)
(* The safety properties of the stream loop, for every value of the        *)
(* constants.  The steps of the loop are first sorted by what they do to   *)
(* the connection (StepCases) and the request handlers by what they have   *)
(* in common (HandleShape); each property then follows from an invariant   *)
(* that adds what it needs to know between two messages.                   *)
(***************************************************************************)
EXTENDS SeccStreamProofs

-------------------------------------------------------------------------------

(* The steps. *)

\* Neither a message nor the end of the connection.
Quiet == UNCHANGED <<seccVars, pc, protocol, sequence, handled_any,
                     saw_session_stop, out, rc, history>>

\* The connection ends with nothing, with a refusal by one of the gates, or in
\* a silence after the last response.
Ended ==
  /\ pc \in {"recv", "send"}
  /\ pc' = "done"
  /\ rc' # "ESHUTDOWN"
  /\ \/ pc = "recv" /\ out' = out
     \/ rc' # "OK" /\ out' = NoResponse
     \/ rc' # "OK" /\ out'.code \in {"FAILED_SequenceError", "FAILED_UnknownSession"}
  /\ UNCHANGED <<seccVars, sequence, saw_session_stop, history>>

\* Every step is of one of these sorts.
LEMMA StepCases ==
  ASSUME TypeOK, [Next]_vars
  PROVE  \/ Quiet \/ Ended \/ Connect
         \/ Teardown /\ session_id' \in {session_id, NoSid}
         \/ Handle \/ SendThenTerminate
         \/ SendSessionSetupRes \/ SendSessionStopRes \/ SendOtherRes
  <1>1. CASE Tick \/ IgnoreUndecodable \/ UNCHANGED vars
    BY <1>1 DEF Tick, IgnoreUndecodable, vars, Quiet, seccVars, pauseVars, authVars,
                frameVars, history
  <1>2. CASE RecvTimeout \/ RecvFails \/ RejectUndecodable
    BY <1>2 DEF RecvTimeout, RecvFails, RejectUndecodable, Exit, RecvErrors, Ended
  <1>3. CASE Refuse
    <2>1. PICK k \in Kinds, p \in Protocols \cup {"UNKNOWN"},
               code \in {"EPROTO", "EACCES"},
               refusal \in {"FAILED_SequenceError", "FAILED_UnknownSession"} :
                 pc = "recv" /\ Reject(k, p, code, refusal)
      BY <1>3 DEF Refuse, RejectSequence, RejectSession
    <2>2. PICK response \in MinFailed(k, p, refusal) : Exit(code, response)
      BY <2>1 DEF Reject
    <2>3. response = NoResponse \/ response.code = refusal
      BY <2>2 DEF MinFailed, Response
    <2>. QED
      BY <2>1, <2>2, <2>3 DEF Reject, Exit, Ended
  <1>4. CASE SendFails
    BY <1>4 DEF SendFails, Exit, SendErrors, Ended
  <1>. QED
    BY <1>1, <1>2, <1>3, <1>4 DEF Next, Receive, Send, TeardownRetired, TeardownKept

\* What an answer leaves: the response to send, or the end of the connection.
LEMMA AnswerShape ==
  ASSUME NEW response, Answer(response)
  PROVE  \/ pc' = "send" /\ out' = response /\ rc' = rc
         \/ pc' = "done" /\ out' = NoResponse /\ rc' \in HandlerErrors
  BY DEF Answer, Encoded, Unencoded, Exit

\* What every handler does, whatever the request is about.
Handled(k, p, asked) ==
  /\ Accept(k, p, asked)
  /\ \/ /\ pc' = "send"
        /\ out'.kind = k
        /\ out'.protocol = Effective(p)
        /\ out'.asked = asked
        /\ out'.sid = IF k = "SessionSetup" THEN session_id' ELSE session_id
        /\ k = "SessionStop" => out'.code = "OK"
        /\ terminate_after_response' => terminate_after_response \/ out'.code \in Refusals
        /\ out'.code = "FAILED_PaymentSelectionInvalid" => terminate_after_response'
        /\ out'.code = "OK_NewSessionEstablished" => k = "SessionSetup"
     \/ /\ pc' = "done"
        /\ out' = NoResponse
        /\ rc' \in HandlerErrors \cup {"EPROTO"}
  /\ k \notin {"SupportedAppProtocol", "SessionSetup", "SessionStop"} =>
        session_id' = session_id
  /\ k = "SessionStop" => session_id' = NoSid
  /\ k # "SessionSetup" => resume_dc_pending' = resume_dc_pending
  /\ k = "SessionSetup" => (resume_dc_pending' => log'.joined)
  /\ k = "CableCheck" => log'.cable
  /\ k = "PreCharge" => log'.precharge
  /\ log.cable => log'.cable
  /\ log.precharge => log'.precharge
  /\ log.joined => log'.joined
  /\ k # "SessionSetup" => log'.joined_dc = log.joined_dc
  /\ log'.announced = log.announced
  /\ log'.advertised = log.advertised
  /\ log'.ongoing = log.ongoing

\* Which handler it was, and what only some of them do.
Owned(k, p, asked) ==
  /\ k # "SupportedAppProtocol" => p \in Protocols
  /\ k = "SupportedAppProtocol" => SupportedAppProtocol(p)
  /\ k = "SessionSetup" => SessionSetup(p, asked)
  /\ k = "ServiceDiscovery" => ServiceDiscovery(p, asked)
  /\ k = "Authorization" => \/ "Authorization" \in Overridden
                            \/ \E ok \in BOOLEAN : Authorization(p, asked, ok)
  /\ k = "ChargeParameterDiscovery" =>
        \/ "ChargeParameterDiscovery" \in Overridden
        \/ \E mode \in Modes : ChargeParameterDiscovery(p, asked, mode)
  /\ k \notin {"SessionSetup", "ServiceDiscovery", "SessionStop"} =>
        din_advertised' = din_advertised
  /\ k = "SessionStop" => din_advertised' = "none"
  /\ k \notin {"SessionSetup", "Authorization"} => authVars' = authVars
  /\ k \notin {"SessionSetup", "SessionStop"} => last_session_id' = last_session_id
  /\ k = "SessionStop" => last_session_id' \in {last_session_id, session_id}
  /\ k \notin {"SessionSetup", "SessionStop"} => paused' = paused
  /\ k # "SessionSetup" => last_session_was_dc' = last_session_was_dc
  /\ k = "SessionStop" => \E pause \in BOOLEAN : SessionStop(p, asked, pause)

\* The handlers that leave the session alone: the answer is all they add, but for
\* the note of a PreCharge.
SessionAlone == /\ session_id' = session_id
                /\ resume_dc_pending' = resume_dc_pending
                /\ log.precharge => log'.precharge
                /\ log'.cable = log.cable
                /\ log'.joined = log.joined
                /\ log'.joined_dc = log.joined_dc
                /\ log'.announced = log.announced
                /\ log'.advertised = log.advertised
                /\ log'.ongoing = log.ongoing

\* A handler that makes and drops no session does what Handled says, whatever else
\* it leaves to be said of its response.
LEMMA PlainHandled ==
  ASSUME NEW k \in Kinds \ {"SupportedAppProtocol", "SessionSetup", "SessionStop", "CableCheck"},
         NEW p, NEW asked, NEW code, Accept(k, p, asked),
         \/ Answer(Response(k, p, code, asked))
         \/ \E mode \in Modes : Answer([Response(k, p, code, asked) EXCEPT !.mode = mode]),
         SessionAlone,
         k = "PreCharge" => log'.precharge,
         terminate_after_response' => terminate_after_response \/ code \in Refusals,
         code = "FAILED_PaymentSelectionInvalid" => terminate_after_response',
         code # "OK_NewSessionEstablished"
  PROVE  Handled(k, p, asked)
  <1>1. PICK response : /\ Answer(response)
                        /\ response.kind = k
                        /\ response.code = code
                        /\ response.protocol = Effective(p)
                        /\ response.sid = session_id
                        /\ response.asked = asked
    <2>1. CASE Answer(Response(k, p, code, asked))
      BY <2>1 DEF Response
    <2>2. ASSUME NEW mode \in Modes,
                 Answer([Response(k, p, code, asked) EXCEPT !.mode = mode])
          PROVE  \E response : /\ Answer(response)
                                /\ response.kind = k
                                /\ response.code = code
                                /\ response.protocol = Effective(p)
                                /\ response.sid = session_id
                                /\ response.asked = asked
      <3>1. [Response(k, p, code, asked) EXCEPT !.mode = mode] =
              [kind |-> k, code |-> code, protocol |-> Effective(p),
               sid |-> session_id, asked |-> asked, mode |-> mode]
        BY DEF Response
      <3>. QED
        BY <2>2, <3>1
    <2>. QED
      BY <2>1, <2>2
  <1>. QED
    BY <1>1, AnswerShape DEF Handled, SessionAlone

\* The handlers of the handshake and of SessionSetup, the only ones to make a session.
LEMMA EstablishShape ==
  ASSUME TypeOK, Establish
  PROVE  \E k \in Kinds, p \in Protocols \cup {"UNKNOWN"}, asked \in AskedSids :
            Handled(k, p, asked) /\ Owned(k, p, asked)
  <1>1. ASSUME NEW p \in Negotiable \cup {"UNKNOWN"}, SupportedAppProtocol(p)
        PROVE  Handled("SupportedAppProtocol", p, NoSid)
    <2>1. PICK code \in {"FAILED_NoNegotiation", "OK"} :
             Answer(Response("SupportedAppProtocol", p, code, NoSid))
      BY <1>1 DEF SupportedAppProtocol
    <2>. QED
      BY <1>1, <2>1, AnswerShape DEF SupportedAppProtocol, Handled, Response, history
  <1>2. ASSUME NEW p \in Protocols, NEW asked \in AskedSids, SessionSetup(p, asked)
        PROVE  Handled("SessionSetup", p, asked)
    <2>1. PICK code \in {"OK_OldSessionJoined", "OK_NewSessionEstablished"} :
             Answer([Response("SessionSetup", p, code, asked) EXCEPT !.sid = session_id'])
      BY <1>2 DEF SessionSetup
    <2>2. /\ resume_dc_pending' => log'.joined
          /\ log.joined => log'.joined
          /\ log'.cable = log.cable
          /\ log'.precharge = log.precharge
          /\ log'.announced = log.announced
          /\ log'.advertised = log.advertised
          /\ log'.ongoing = log.ongoing
      <3>1. CASE JoinOldSession(asked)
        BY <3>1 DEF JoinOldSession, TypeOK, Logs
      <3>2. CASE EstablishNewSession
        BY <3>2 DEF EstablishNewSession, history
      <3>. QED
        BY <1>2, <3>1, <3>2 DEF SessionSetup
    <2>. QED
      BY <1>2, <2>1, <2>2, AnswerShape DEF SessionSetup, Handled, Response
  <1>3. ASSUME NEW p, SupportedAppProtocol(p)
        PROVE  Owned("SupportedAppProtocol", p, NoSid)
    BY <1>3 DEF SupportedAppProtocol, Owned, pauseVars, history
  <1>4. ASSUME NEW p \in Protocols, NEW asked, SessionSetup(p, asked)
        PROVE  Owned("SessionSetup", p, asked)
    BY <1>4 DEF Owned
  <1>. QED
    BY <1>1, <1>2, <1>3, <1>4, ConfigAssumption, KindsAndCodes DEF Establish, AskedSids

\* The handlers from ServiceDiscovery to ChargeParameterDiscovery.
LEMMA NegotiateShape ==
  ASSUME TypeOK, Negotiate
  PROVE  \E k \in Kinds, p \in Protocols \cup {"UNKNOWN"}, asked \in AskedSids :
            Handled(k, p, asked) /\ Owned(k, p, asked)
  <1>. SUFFICES ASSUME NEW p \in Protocols, NEW asked \in AskedSids,
                       \/ ServiceDiscovery(p, asked)
                       \/ \E external \in BOOLEAN :
                             PaymentServiceSelection(p, asked, external)
                       \/ \E ok \in BOOLEAN : PaymentDetails(p, asked, ok)
                       \/ \E ok \in BOOLEAN : Authorization(p, asked, ok)
                       \/ \E mode \in Modes : ChargeParameterDiscovery(p, asked, mode)
                PROVE  \E k \in Kinds : Handled(k, p, asked) /\ Owned(k, p, asked)
    BY DEF Negotiate
  <1>. DEFINE Alone == {"SupportedAppProtocol", "SessionSetup", "SessionStop", "CableCheck"}
  <1>1. CASE ServiceDiscovery(p, asked)
    <2>1. /\ Accept("ServiceDiscovery", p, asked)
          /\ SessionAlone
          /\ terminate_after_response' = terminate_after_response
      BY <1>1 DEF ServiceDiscovery, SessionAlone, history
    <2>2. PICK code \in {"OK", "FAILED"} :
             \/ Answer(Response("ServiceDiscovery", p, code, asked))
             \/ \E mode \in Modes :
                   Answer([Response("ServiceDiscovery", p, code, asked)
                           EXCEPT !.mode = mode])
      <3>1. DinOffer \subseteq Modes
        BY ConfigAssumption DEF DinOffer, Modes, DcModes
      <3>. QED
        BY <1>1, <3>1 DEF ServiceDiscovery, Answer
    <2>3. "ServiceDiscovery" \in Kinds \ Alone
      BY KindsAndCodes
    <2>4. Handled("ServiceDiscovery", p, asked)
      BY <2>1, <2>2, <2>3, PlainHandled
    <2>5. Owned("ServiceDiscovery", p, asked)
      BY <1>1 DEF Owned, ServiceDiscovery, pauseVars, history
    <2>. QED
      BY <2>3, <2>4, <2>5
  <1>2. ASSUME NEW external \in BOOLEAN, PaymentServiceSelection(p, asked, external)
        PROVE  Handled("PaymentServiceSelection", p, asked)
    <2>1. /\ Accept("PaymentServiceSelection", p, asked)
          /\ SessionAlone
          /\ terminate_after_response' = (terminate_after_response \/ ~external)
      BY <1>2 DEF PaymentServiceSelection, SessionAlone, history
    <2>2. PICK code : /\ code = IF external THEN "OK" ELSE "FAILED_PaymentSelectionInvalid"
                      /\ Answer(Response("PaymentServiceSelection", p, code, asked))
      BY <1>2 DEF PaymentServiceSelection
    <2>3. "PaymentServiceSelection" \in Kinds \ Alone
      BY KindsAndCodes
    <2>4. /\ terminate_after_response' => terminate_after_response \/ code \in Refusals
          /\ code = "FAILED_PaymentSelectionInvalid" => terminate_after_response'
      BY <2>1, <2>2 DEF Refusals
    <2>. QED
      BY <2>1, <2>2, <2>3, <2>4, PlainHandled
  <1>3. ASSUME NEW ok \in BOOLEAN, PaymentDetails(p, asked, ok)
        PROVE  Handled("PaymentDetails", p, asked)
    <2>1. /\ Accept("PaymentDetails", p, asked)
          /\ SessionAlone
          /\ terminate_after_response' = terminate_after_response
      BY <1>3 DEF PaymentDetails, SessionAlone, seccVars, history
    <2>2. PICK code \in {"OK", "FAILED"} :
             Answer(Response("PaymentDetails", p, code, asked))
      BY <1>3 DEF PaymentDetails
    <2>3. "PaymentDetails" \in Kinds \ Alone
      BY KindsAndCodes
    <2>. QED
      BY <2>1, <2>2, <2>3, PlainHandled
  <1>4. ASSUME NEW ok \in BOOLEAN, Authorization(p, asked, ok)
        PROVE  Handled("Authorization", p, asked)
    <2>1. /\ Accept("Authorization", p, asked)
          /\ SessionAlone
          /\ terminate_after_response' = terminate_after_response
      BY <1>4 DEF Authorization, SessionAlone, history
    <2>2. PICK code \in {"OK", "Ongoing", "FAILED"} :
             Answer(Response("Authorization", p, code, asked))
      BY <1>4 DEF Authorization
    <2>3. "Authorization" \in Kinds \ Alone
      BY KindsAndCodes
    <2>. QED
      BY <2>1, <2>2, <2>3, PlainHandled
  <1>5. ASSUME NEW mode \in Modes, ChargeParameterDiscovery(p, asked, mode)
        PROVE  Handled("ChargeParameterDiscovery", p, asked)
    <2>1. /\ Accept("ChargeParameterDiscovery", p, asked)
          /\ SessionAlone
          /\ terminate_after_response' = terminate_after_response
      BY <1>5 DEF ChargeParameterDiscovery, SessionAlone, history
    <2>2. PICK code \in {"OK", "FAILED_WrongEnergyTransfer"} :
             Answer([Response("ChargeParameterDiscovery", p, code, asked)
                     EXCEPT !.mode = mode])
      BY <1>5 DEF ChargeParameterDiscovery
    <2>3. "ChargeParameterDiscovery" \in Kinds \ Alone
      BY KindsAndCodes
    <2>. QED
      BY <2>1, <2>2, <2>3, PlainHandled
  <1>6. ASSUME NEW external \in BOOLEAN, PaymentServiceSelection(p, asked, external)
        PROVE  Owned("PaymentServiceSelection", p, asked)
    BY <1>6 DEF PaymentServiceSelection, Owned, pauseVars, history
  <1>7. ASSUME NEW ok \in BOOLEAN, PaymentDetails(p, asked, ok)
        PROVE  Owned("PaymentDetails", p, asked)
    BY <1>7 DEF PaymentDetails, Owned, seccVars, pauseVars, history
  <1>8. ASSUME NEW ok \in BOOLEAN, Authorization(p, asked, ok)
        PROVE  Owned("Authorization", p, asked)
    <2>1. /\ din_advertised' = din_advertised /\ last_session_id' = last_session_id
          /\ last_session_was_dc' = last_session_was_dc /\ paused' = paused
      BY <1>8 DEF Authorization, pauseVars, history
    <2>. QED
      BY <1>8, <2>1 DEF Owned
  <1>9. ASSUME NEW mode \in Modes, ChargeParameterDiscovery(p, asked, mode)
        PROVE  Owned("ChargeParameterDiscovery", p, asked)
    <2>1. /\ din_advertised' = din_advertised /\ authVars' = authVars
          /\ last_session_id' = last_session_id
          /\ last_session_was_dc' = last_session_was_dc /\ paused' = paused
      BY <1>9 DEF ChargeParameterDiscovery, pauseVars, history
    <2>. QED
      BY <1>9, <2>1 DEF Owned
  <1>. QED
    BY <1>1, <1>2, <1>3, <1>4, <1>5, <1>6, <1>7, <1>8, <1>9, KindsAndCodes

\* The handlers of the charge loop, the firmware's among them.
LEMMA ChargeShape ==
  ASSUME TypeOK, Charge
  PROVE  \E k \in Kinds, p \in Protocols \cup {"UNKNOWN"}, asked \in AskedSids :
            Handled(k, p, asked) /\ Owned(k, p, asked)
  <1>. SUFFICES ASSUME NEW p \in Protocols, NEW asked \in AskedSids,
                       \/ CableCheck(p, asked)
                       \/ \E k \in StatelessKinds : Stateless(k, p, asked)
                       \/ \E k \in Overridden : Firmware(k, p, asked)
                PROVE  \E k \in Kinds : Handled(k, p, asked) /\ Owned(k, p, asked)
    BY DEF Charge
  <1>1. CASE CableCheck(p, asked)
    <2>1. /\ log'.cable
          /\ log'.precharge = log.precharge
          /\ log'.joined = log.joined
          /\ log'.joined_dc = log.joined_dc
          /\ log'.announced = log.announced
          /\ log'.advertised = log.advertised
          /\ log'.ongoing = log.ongoing
      BY <1>1 DEF CableCheck, TypeOK, Logs
    <2>2. Handled("CableCheck", p, asked)
      BY <1>1, <2>1, AnswerShape DEF CableCheck, Handled, Response, Refusals
    <2>3. Owned("CableCheck", p, asked)
      BY <1>1 DEF CableCheck, Owned, pauseVars
    <2>. QED
      BY <2>2, <2>3, KindsAndCodes
  <1>2. ASSUME NEW k \in StatelessKinds, Stateless(k, p, asked)
        PROVE  Handled(k, p, asked)
    <2>1. k \in Kinds \ {"SupportedAppProtocol", "SessionSetup", "SessionStop", "CableCheck"}
      BY KindsAndCodes DEF StatelessKinds, PowerDeliveryKinds
    <2>2. /\ Accept(k, p, asked)
          /\ SessionAlone
          /\ k = "PreCharge" => log'.precharge
          /\ terminate_after_response' = terminate_after_response
      BY <1>2 DEF Stateless, SessionAlone, TypeOK, Logs, seccVars
    <2>3. CASE Answer(Response(k, p, "OK", asked))
      BY <2>1, <2>2, <2>3, PlainHandled
    <2>4. CASE Exit("EPROTO", NoResponse)
      BY <2>1, <2>2, <2>4 DEF Exit, Handled, SessionAlone
    <2>. QED
      BY <1>2, <2>3, <2>4 DEF Stateless
  <1>3. ASSUME NEW k \in Overridden, Firmware(k, p, asked)
        PROVE  Handled(k, p, asked)
    <2>1. PICK code \in {"OK", "FAILED"} :
             /\ Answer(Response(k, p, code, asked))
             /\ \/ UNCHANGED terminate_after_response
                \/ code = "FAILED" /\ terminate_after_response' = TRUE
      BY <1>3 DEF Firmware
    <2>2. k \notin {"SupportedAppProtocol", "SessionSetup", "SessionStop"}
      BY ConfigAssumption DEF Overridable
    <2>3. /\ k = "CableCheck" => log'.cable
          /\ k = "PreCharge" => log'.precharge
          /\ log.cable => log'.cable
          /\ log.precharge => log'.precharge
          /\ log.joined => log'.joined
          /\ log'.joined_dc = log.joined_dc
          /\ log'.announced = log.announced
          /\ log'.advertised = log.advertised
          /\ log'.ongoing = log.ongoing
      BY <1>3 DEF Firmware, TypeOK, Logs
    <2>4. /\ Accept(k, p, asked)
          /\ session_id' = session_id
          /\ resume_dc_pending' = resume_dc_pending
      BY <1>3 DEF Firmware
    <2>. QED
      BY <2>1, <2>2, <2>3, <2>4, AnswerShape DEF Handled, Response, Refusals
  <1>4. ASSUME NEW k \in StatelessKinds, Stateless(k, p, asked)
        PROVE  Owned(k, p, asked)
    BY <1>4 DEF Stateless, Owned, seccVars, pauseVars, StatelessKinds, PowerDeliveryKinds
  <1>5. ASSUME NEW k \in Overridden, Firmware(k, p, asked)
        PROVE  Owned(k, p, asked)
    <2>1. k \notin {"SupportedAppProtocol", "SessionSetup", "ServiceDiscovery", "SessionStop"}
      BY ConfigAssumption DEF Overridable
    <2>2. /\ din_advertised' = din_advertised /\ authVars' = authVars
          /\ last_session_id' = last_session_id
          /\ last_session_was_dc' = last_session_was_dc /\ paused' = paused
      BY <1>5 DEF Firmware, pauseVars
    <2>. QED
      BY <2>1, <2>2 DEF Owned
  <1>. QED
    BY <1>1, <1>2, <1>3, <1>4, <1>5, KindsAndCodes

\* The handler of SessionStop, which ends the live session.
LEMMA StopShape ==
  ASSUME TypeOK, Stop
  PROVE  \E k \in Kinds, p \in Protocols \cup {"UNKNOWN"}, asked \in AskedSids :
            Handled(k, p, asked) /\ Owned(k, p, asked)
  <1>1. PICK p \in Protocols, asked \in AskedSids, pause \in BOOLEAN :
           SessionStop(p, asked, pause)
    BY DEF Stop
  <1>2. Handled("SessionStop", p, asked)
    BY <1>1, AnswerShape DEF SessionStop, Handled, Response
  <1>3. Owned("SessionStop", p, asked)
    BY <1>1 DEF SessionStop, Owned
  <1>. QED
    BY <1>2, <1>3, KindsAndCodes

\* Every handler does what Handled says, for some request.
LEMMA HandleShape ==
  ASSUME TypeOK, Handle
  PROVE  \E k \in Kinds, p \in Protocols \cup {"UNKNOWN"}, asked \in AskedSids :
            Handled(k, p, asked) /\ Owned(k, p, asked)
  BY EstablishShape, NegotiateShape, ChargeShape, StopShape DEF Handle

-------------------------------------------------------------------------------

(* The memory of a pause.  Only a rejoining SessionSetup and a pausing
   SessionStop touch it, so that the property is inductive as it stands. *)

\* Every step keeps the memory of the last pause, or replaces it with another.
LEMMA PauseStep ==
  ASSUME TypeOK, PauseIsRemembered, [Next]_vars
  PROVE  PauseIsRemembered'
  <1>. USE DEF PauseIsRemembered, pauseVars, history
  <1>1. CASE Quiet \/ Ended
    BY <1>1 DEF Quiet, Ended, seccVars
  <1>2. CASE Connect \/ Teardown \/ SendThenTerminate
    BY <1>2 DEF Connect, Teardown, SendThenTerminate
  <1>3. CASE SendSessionSetupRes \/ SendSessionStopRes \/ SendOtherRes
    BY <1>3 DEF SendSessionSetupRes, SendSessionStopRes, SendOtherRes, Delivered
  <1>4. CASE Establish
    <2>1. ASSUME NEW p, NEW asked, SessionSetup(p, asked)
          PROVE  PauseIsRemembered'
      BY <2>1 DEF SessionSetup, JoinOldSession, EstablishNewSession, NoPause
    <2>2. ASSUME NEW p, SupportedAppProtocol(p)
          PROVE  PauseIsRemembered'
      BY <2>2 DEF SupportedAppProtocol
    <2>. QED
      BY <1>4, <2>1, <2>2 DEF Establish
  <1>5. CASE Negotiate
    BY <1>5 DEF Negotiate, ServiceDiscovery, PaymentServiceSelection, PaymentDetails,
                Authorization, ChargeParameterDiscovery, seccVars
  <1>6. CASE Charge
    BY <1>6 DEF Charge, CableCheck, Stateless, Firmware, seccVars
  <1>7. CASE Stop
    BY <1>7 DEF Stop, SessionStop
  <1>. QED
    BY <1>1, <1>2, <1>3, <1>4, <1>5, <1>6, <1>7, StepCases DEF Handle

\* The memory of the last pause survives drops, retired sessions, new sessions
\* and failed responses until it is joined or another pause takes its place.
THEOREM PauseRemembered == Spec => []PauseIsRemembered
  <1>1. Init => PauseIsRemembered
    BY DEF Init, PauseIsRemembered, NoPause
  <1>2. TypeOK /\ PauseIsRemembered /\ [Next]_vars => PauseIsRemembered'
    BY PauseStep
  <1>. QED
    BY <1>1, <1>2, TypeCorrect, PTL DEF Spec

\* OK_OldSessionJoined is granted exactly to the SessionID of the last pause,
\* within the window, and once: rejoining forgets the pause.
THEOREM JoinedWhenPaused == Spec => JoinedIffPaused
  <1>1. ASSUME TypeOK, PauseIsRemembered, [Next]_vars,
               pc = "recv", pc' = "send", out'.kind = "SessionSetup"
        PROVE  out'.code = "OK_OldSessionJoined" <=>
                 /\ paused.sid # NoSid
                 /\ out'.asked = paused.sid
                 /\ (now - paused.at) \in 0..Window
    <2>1. Handle
      BY <1>1, StepCases
         DEF Quiet, Ended, Connect, Teardown, SendThenTerminate, SendSessionSetupRes,
             SendSessionStopRes, SendOtherRes, Delivered
    <2>2. PICK p, asked : Handled("SessionSetup", p, asked) /\ SessionSetup(p, asked)
      BY <1>1, <2>1, HandleShape DEF Handled, Owned
    <2>3. out'.code = (IF Resumable(asked) THEN "OK_OldSessionJoined"
                                           ELSE "OK_NewSessionEstablished")
      BY <1>1, <2>2, AnswerShape DEF SessionSetup, Response
    <2>4. out'.asked = asked
      BY <1>1, <2>2 DEF Handled
    <2>. QED
      BY <1>1, <2>3, <2>4 DEF PauseIsRemembered, Resumable
  <1>. QED
    BY <1>1, PauseRemembered, TypeCorrect, PTL DEF Spec, JoinedIffPaused

-------------------------------------------------------------------------------

(* What a fresh connection knows, and how a request moves its sequencer. *)

\* A request that passes the sequence gate.
LEMMA AcceptMoves ==
  ASSUME NEW k, NEW p, NEW asked, Accept(k, p, asked)
  PROVE  /\ pc = "recv"
         /\ SessionAccepted(k, asked)
         /\ Request(k, p)
         /\ saw_session_stop' = saw_session_stop
         /\ \E phase \in NextPhases(sequence, Effective(p), k) :
               sequence' = Advance(sequence, Effective(p), k, phase)
  BY DEF Accept

\* Outside the two steps that know better, a message does not touch the sequencer.
LEMMA SequenceStays ==
  ASSUME Quiet \/ Ended \/ Connect \/ SendThenTerminate \/ SendSessionStopRes \/ SendOtherRes
  PROVE  sequence' = sequence
  BY DEF Quiet, Ended, Connect, SendThenTerminate, SendSessionStopRes, SendOtherRes

-------------------------------------------------------------------------------

(* DC mode is earned.  A grant to rejoin waits in resume_dc_pending until the
   SessionSetupRes is out; one whose response was lost is still there when the
   next connection sets its session up, which is why establishing a new session
   has to drop it. *)

EarnedInv ==
  /\ pc = "idle" => sequence = InitSequence
  /\ DcModeIsEarned
  /\ (pc = "send" /\ out.kind = "SessionSetup" /\ resume_dc_pending) => log.joined

\* No step gives a connection a DC mode, or a pending grant of it, unearned.
LEMMA EarnedStep ==
  ASSUME TypeOK, EarnedInv, [Next]_vars
  PROVE  EarnedInv'
  <1>. USE DEF EarnedInv, DcModeIsEarned
  <1>1. CASE Quiet \/ Ended
    BY <1>1 DEF Quiet, Ended, seccVars, history
  <1>2. CASE Connect \/ Teardown \/ SendThenTerminate \/ SendSessionStopRes
    BY <1>2 DEF Connect, Teardown, SendThenTerminate, SendSessionStopRes, Exit,
                InitSequence, history
  <1>3. CASE SendSessionSetupRes
    <2>1. log'.joined = log.joined /\ log'.cable = log.cable
      BY <1>3 DEF SendSessionSetupRes, TypeOK, Logs
    <2>2. sequence'.dc_mode => resume_dc_pending \/ sequence.dc_mode
      BY <1>3 DEF SendSessionSetupRes
    <2>3. pc = "send" /\ out.kind = "SessionSetup" /\ pc' = "recv"
      BY <1>3 DEF SendSessionSetupRes, Delivered
    <2>. QED
      BY <2>1, <2>2, <2>3
  <1>4. CASE SendOtherRes
    <2>1. log'.joined = log.joined /\ log'.cable = log.cable
      BY <1>4 DEF SendOtherRes, TypeOK, Logs
    <2>. QED
      BY <1>4, <2>1 DEF SendOtherRes, Delivered
  <1>5. CASE Handle
    <2>1. PICK k \in Kinds, p \in Protocols \cup {"UNKNOWN"}, asked \in AskedSids :
             Handled(k, p, asked)
      BY <1>5, HandleShape
    <2>2. pc = "recv" /\ pc' \in {"send", "done"}
      BY <2>1, AcceptMoves DEF Handled
    <2>3. sequence'.dc_mode => sequence.dc_mode \/ k = "CableCheck"
      <3>1. PICK phase : sequence' = Advance(sequence, Effective(p), k, phase)
        BY <2>1, AcceptMoves DEF Handled
      <3>. QED
        BY <3>1, AdvanceFields
    <2>4. sequence'.dc_mode => log'.cable \/ log'.joined
      BY <2>1, <2>2, <2>3 DEF Handled
    <2>5. (pc' = "send" /\ out'.kind = "SessionSetup" /\ resume_dc_pending') => log'.joined
      BY <2>1 DEF Handled
    <2>. QED
      BY <2>2, <2>4, <2>5
  <1>. QED
    BY <1>1, <1>2, <1>3, <1>4, <1>5, StepCases

\* The sequencer is in DC mode only after a CableCheck on this connection, or
\* after this connection rejoined an old session.
THEOREM DcModeEarned == Spec => []DcModeIsEarned
  <1>1. Init => EarnedInv
    BY DEF Init, EarnedInv, DcModeIsEarned
  <1>2. TypeOK /\ EarnedInv /\ [Next]_vars => EarnedInv'
    BY EarnedStep
  <1>3. EarnedInv => DcModeIsEarned
    BY DEF EarnedInv
  <1>. QED
    BY <1>1, <1>2, <1>3, TypeCorrect, PTL DEF Spec

-------------------------------------------------------------------------------

(* DC energy is prepared.  DC mode comes from a CableCheck or from rejoining; a
   connection that has it from neither a PreCharge nor a return can only be in
   the CableCheck still, or at its end. *)

PreparedInv ==
  ( /\ pc \in {"recv", "send"}
    /\ sequence.dc_mode
    /\ ~log.precharge
    /\ ~log.joined ) => sequence.phase \in {"CABLE_CHECK", "COMPLETE"}

\* No step leads an unprepared connection out of the CableCheck.
LEMMA PreparedStep ==
  ASSUME TypeOK, EarnedInv, PreparedInv, [Next]_vars
  PROVE  PreparedInv'
  <1>. USE DEF PreparedInv
  <1>1. CASE Quiet \/ Ended
    BY <1>1 DEF Quiet, Ended, history
  <1>2. CASE Connect \/ Teardown \/ SendThenTerminate \/ SendSessionStopRes
    BY <1>2 DEF Connect, Teardown, SendThenTerminate, SendSessionStopRes, Exit,
                EarnedInv, InitSequence
  <1>3. CASE SendSessionSetupRes
    <2>1. log'.joined = log.joined /\ log'.precharge = log.precharge
      BY <1>3 DEF SendSessionSetupRes, TypeOK, Logs
    <2>2. /\ sequence'.dc_mode => resume_dc_pending \/ sequence.dc_mode
          /\ sequence'.phase = sequence.phase
      BY <1>3 DEF SendSessionSetupRes, TypeOK, Sequences
    <2>3. pc = "send" /\ (resume_dc_pending => log.joined)
      BY <1>3 DEF SendSessionSetupRes, Delivered, EarnedInv
    <2>. QED
      BY <2>1, <2>2, <2>3
  <1>4. CASE SendOtherRes
    <2>1. log'.joined = log.joined /\ log'.precharge = log.precharge
      BY <1>4 DEF SendOtherRes, TypeOK, Logs
    <2>. QED
      BY <1>4, <2>1 DEF SendOtherRes, Delivered
  <1>5. CASE Handle
    <2>1. PICK k \in Kinds, p \in Protocols \cup {"UNKNOWN"}, asked \in AskedSids :
             Handled(k, p, asked)
      BY <1>5, HandleShape
    <2>2. PICK phase \in NextPhases(sequence, Effective(p), k) :
             sequence' = Advance(sequence, Effective(p), k, phase)
      BY <2>1, AcceptMoves DEF Handled
    <2>3. /\ pc = "recv"
          /\ sequence'.phase = phase
          /\ sequence'.dc_mode => sequence.dc_mode \/ k = "CableCheck"
      BY <2>1, <2>2, AcceptMoves, AdvanceFields DEF Handled
    <2>4. ASSUME sequence'.dc_mode, ~log'.precharge, ~log'.joined, k # "CableCheck"
          PROVE  phase = "COMPLETE"
      <3>1. ~log.precharge /\ ~log.joined /\ k # "PreCharge"
        BY <2>1, <2>4 DEF Handled
      <3>2. sequence.phase = "CABLE_CHECK"
        BY <2>2, <2>3, <2>4, <3>1, CableCheckLeadsToPreCharge
      <3>. QED
        BY <2>2, <2>4, <3>1, <3>2, CableCheckLeadsToPreCharge
    <2>5. k = "CableCheck" => phase = "CABLE_CHECK"
      BY <2>2, CableCheckLeadsToPreCharge
    <2>. QED
      BY <2>3, <2>4, <2>5
  <1>. QED
    BY <1>1, <1>2, <1>3, <1>4, <1>5, StepCases

\* A connection in DC mode reaches the phases of energy only after a PreCharge of
\* its own, or after it rejoined an old session.
THEOREM DcEnergyPrepared == Spec => []DcEnergyIsPrepared
  <1>1. Init => EarnedInv /\ PreparedInv
    BY DEF Init, EarnedInv, PreparedInv, DcModeIsEarned
  <1>2. TypeOK /\ EarnedInv /\ PreparedInv /\ [Next]_vars => EarnedInv' /\ PreparedInv'
    BY EarnedStep, PreparedStep
  <1>3. PreparedInv => DcEnergyIsPrepared
    BY DEF PreparedInv, DcEnergyIsPrepared
  <1>. QED
    BY <1>1, <1>2, <1>3, TypeCorrect, PTL DEF Spec

-------------------------------------------------------------------------------

(* Terminations.  While a connection waits for a request none is asked for, and
   none that was asked for is ever mistaken for that of another connection. *)

TerminationInv ==
  /\ pc = "idle" => out = NoResponse
  /\ pc = "recv" => ~terminate_after_response
  /\ RefusedPaymentEndsStream
  /\ (pc = "send" /\ out.code = "FAILED_PaymentSelectionInvalid") =>
        terminate_after_response
  /\ (pc = "send" /\ terminate_after_response) => out.code \in Refusals
  /\ (pc = "done" /\ rc = "ESHUTDOWN") => out.code \in Refusals

\* No step raises the flag without a refusal to send, nor loses the refusal.
LEMMA TerminationStep ==
  ASSUME TypeOK, TerminationInv, [Next]_vars
  PROVE  TerminationInv'
  <1>. USE DEF TerminationInv, RefusedPaymentEndsStream
  <1>1. CASE Quiet \/ Ended
    BY <1>1 DEF Quiet, Ended, seccVars
  <1>2. CASE Connect \/ Teardown \/ SendThenTerminate \/ SendSessionStopRes
    BY <1>2 DEF Connect, Teardown, SendThenTerminate, SendSessionStopRes, Delivered,
                Exit, NoResponse
  <1>3. CASE SendSessionSetupRes \/ SendOtherRes
    BY <1>3 DEF SendSessionSetupRes, SendOtherRes, Delivered
  <1>4. CASE Handle
    <2>1. PICK k \in Kinds, p \in Protocols \cup {"UNKNOWN"}, asked \in AskedSids :
             Handled(k, p, asked)
      BY <1>4, HandleShape
    <2>2. pc = "recv" /\ ~terminate_after_response
      BY <2>1, AcceptMoves DEF Handled
    <2>. QED
      BY <2>1, <2>2 DEF Handled, HandlerErrors
  <1>. QED
    BY <1>1, <1>2, <1>3, <1>4, StepCases

\* The invariant of termination holds throughout.
LEMMA TerminationHolds == Spec => []TerminationInv
  <1>1. Init => TerminationInv
    BY DEF Init, TerminationInv, RefusedPaymentEndsStream, NoResponse
  <1>2. TypeOK /\ TerminationInv /\ [Next]_vars => TerminationInv'
    BY TerminationStep
  <1>. QED
    BY <1>1, <1>2, TypeCorrect, PTL DEF Spec

\* After a refused payment the vehicle gets no further answer on that connection.
THEOREM RefusedPaymentEnds == Spec => []RefusedPaymentEndsStream
  <1>1. TerminationInv => RefusedPaymentEndsStream
    BY DEF TerminationInv
  <1>. QED
    BY <1>1, TerminationHolds, PTL

\* A connection reported as ended by a refusal was sent that refusal last.
THEOREM RejectionDelivered == Spec => []RejectionWasDelivered
  <1>1. TerminationInv => RejectionWasDelivered
    BY DEF TerminationInv, RejectionWasDelivered, Reason
  <1>. QED
    BY <1>1, TerminationHolds, PTL

-------------------------------------------------------------------------------

(* The session an answer belongs to.  Between two messages of a session that
   has been set up, the live SessionID is the announced one; before that it may
   be a dead connection's, or one the handshake made up. *)

SetUp == sequence.phase \notin {"APP_PROTOCOL", "SESSION_SETUP"}

SessionInv ==
  /\ pc = "idle" => sequence = InitSequence
  /\ (pc = "recv" /\ SetUp) => session_id = log.announced
  /\ (pc = "send" /\ out.kind = "SupportedAppProtocol") => ~SetUp
  /\ (pc = "send" /\ out.kind = "SessionSetup") => out.sid = session_id
  /\ (pc = "send" /\ out.kind \notin {"SupportedAppProtocol", "SessionSetup", "SessionStop"}) =>
        session_id = log.announced
  /\ AnsweredUnderAnnouncedSession

\* The live session stays the announced one from SessionSetupRes to SessionStop.
LEMMA SessionStep ==
  ASSUME TypeOK, SessionInv, [Next]_vars
  PROVE  SessionInv'
  <1>. USE DEF SessionInv, AnsweredUnderAnnouncedSession, SetUp
  <1>1. CASE Quiet \/ Ended
    BY <1>1 DEF Quiet, Ended, seccVars, history
  <1>2. CASE Connect \/ Teardown \/ SendThenTerminate \/ SendSessionStopRes
    BY <1>2 DEF Connect, Teardown, SendThenTerminate, SendSessionStopRes, Exit,
                InitSequence, history
  <1>3. CASE SendSessionSetupRes
    <2>1. log'.announced = out.sid
      BY <1>3 DEF SendSessionSetupRes, TypeOK, Logs
    <2>2. pc = "send" /\ out.kind = "SessionSetup" /\ pc' = "recv" /\ session_id' = session_id
      BY <1>3 DEF SendSessionSetupRes, Delivered
    <2>. QED
      BY <2>1, <2>2
  <1>4. CASE SendOtherRes
    <2>1. log'.announced = log.announced
      BY <1>4 DEF SendOtherRes, TypeOK, Logs
    <2>2. /\ pc = "send" /\ pc' = "recv"
          /\ out.kind \notin {"SessionSetup", "SessionStop"}
          /\ session_id' = session_id /\ sequence' = sequence
      BY <1>4 DEF SendOtherRes, Delivered
    <2>. QED
      BY <2>1, <2>2
  <1>5. CASE Handle
    <2>1. PICK k \in Kinds, p \in Protocols \cup {"UNKNOWN"}, asked \in AskedSids :
             Handled(k, p, asked)
      BY <1>5, HandleShape
    <2>2. PICK phase \in NextPhases(sequence, Effective(p), k) :
             sequence' = Advance(sequence, Effective(p), k, phase)
      BY <2>1, AcceptMoves DEF Handled
    <2>3. pc = "recv" /\ pc' \in {"send", "done"} /\ sequence'.phase = phase
      BY <2>1, <2>2, AcceptMoves, AdvanceFields DEF Handled
    <2>4. CASE k = "SupportedAppProtocol"
      BY <2>1, <2>2, <2>3, <2>4, SetupComesFirst DEF Handled
    <2>5. CASE k = "SessionSetup"
      BY <2>1, <2>3, <2>5 DEF Handled
    <2>6. CASE k \notin {"SupportedAppProtocol", "SessionSetup"}
      <3>1. SetUp /\ session_id = log.announced /\ log'.announced = log.announced
        BY <2>1, <2>2, <2>3, <2>6, SetupComesFirst DEF Handled
      <3>2. session_id # NoSid /\ asked = session_id
        BY <2>1, <2>6, AcceptMoves DEF Handled, SessionAccepted
      <3>. QED
        BY <2>1, <2>3, <2>6, <3>1, <3>2 DEF Handled
    <2>. QED
      BY <2>4, <2>5, <2>6
  <1>. QED
    BY <1>1, <1>2, <1>3, <1>4, <1>5, StepCases

\* Every answer of a session that has been set up carries the SessionID its
\* SessionSetupRes announced, and was asked for under it.
THEOREM AnsweredUnderAnnounced == Spec => []AnsweredUnderAnnouncedSession
  <1>1. Init => SessionInv
    BY DEF Init, SessionInv, AnsweredUnderAnnouncedSession
  <1>2. TypeOK /\ SessionInv /\ [Next]_vars => SessionInv'
    BY SessionStep
  <1>3. SessionInv => AnsweredUnderAnnouncedSession
    BY DEF SessionInv
  <1>. QED
    BY <1>1, <1>2, <1>3, TypeCorrect, PTL DEF Spec

-------------------------------------------------------------------------------

(* The sequencer of a live connection.  A protocol is pinned by the time a
   session is set up and not before the first message; DIN has its mode from the
   CableCheck on; and a mode of DC is a known one. *)

SequencerInv ==
  /\ pc = "idle" => sequence = InitSequence
  /\ sequence.phase = "APP_PROTOCOL" => sequence.protocol = "UNKNOWN"
  /\ SetUp => sequence.protocol # "UNKNOWN"
  /\ (sequence.protocol = "DIN" /\ sequence.phase \in DcPhases) => sequence.dc_mode
  /\ sequence.dc_mode => sequence.mode_known

\* A handled request keeps the phase, protocol and mode consistent.
LEMMA SequencerHandle ==
  ASSUME TypeOK, SequencerInv, NEW k, NEW p \in Protocols \cup {"UNKNOWN"},
         NEW phase \in NextPhases(sequence, Effective(p), k),
         sequence' = Advance(sequence, Effective(p), k, phase),
         k # "SupportedAppProtocol" => p \in Protocols,
         pc' # "idle"
  PROVE  SequencerInv'
  <1>. DEFINE e == Effective(p)
  <1>1. e \in Protocols \cup {"UNKNOWN"} /\ (k # "SupportedAppProtocol" => e \in Protocols)
    BY EffectiveType DEF Effective, TypeOK
  <1>. HIDE DEF e
  <1>2. phase \in NextPhases(sequence, e, k) /\ sequence' = Advance(sequence, e, k, phase)
    BY DEF e
  <1>3. sequence'.phase = phase
    BY <1>2, AdvanceFields
  <1>4. phase # "APP_PROTOCOL"
    BY <1>2, SetupComesFirst
  <1>5. k # "SupportedAppProtocol" => sequence'.protocol = e /\ e \in Protocols
    <2>1. sequence'.protocol = (IF e = "UNKNOWN" THEN sequence.protocol ELSE e)
      BY <1>2 DEF Advance
    <2>. QED
      BY <1>1, <2>1 DEF Protocols
  <1>6. SetUp' => sequence'.protocol # "UNKNOWN"
    <2>1. phase \notin {"APP_PROTOCOL", "SESSION_SETUP"} => k # "SupportedAppProtocol"
      BY <1>2, SetupComesFirst
    <2>. QED
      BY <1>3, <1>5, <2>1 DEF SetUp, Protocols
  <1>7. (sequence'.protocol = "DIN" /\ phase \in DcPhases) => sequence'.dc_mode
    <2>. SUFFICES ASSUME sequence'.protocol = "DIN", phase \in DcPhases
                  PROVE  sequence'.dc_mode
      OBVIOUS
    <2>1. k # "SupportedAppProtocol" /\ k # "SessionSetup"
      BY <1>2, SetupComesFirst DEF DcPhases
    <2>2. SetUp
      BY <1>2, <2>1, SetupComesFirst DEF SetUp
    <2>3. e = "DIN"
      BY <1>5, <2>1
    <2>4. sequence.protocol = "DIN"
      BY <1>2, <2>2, <2>3, ProtocolStays DEF SequencerInv, SetUp
    <2>5. CASE sequence.phase = "CHARGE_PARAMETERS" /\ k = "CableCheck"
      BY <1>2, <2>5, AdvanceFields
    <2>6. CASE sequence.phase \in DcPhases
      <3>1. sequence.dc_mode /\ sequence.phase # "CHARGE_PARAMETERS"
        BY <2>4, <2>6 DEF SequencerInv, DcPhases
      <3>. QED
        BY <1>2, <3>1, AdvanceFields
    <2>. QED
      BY <1>2, <2>3, <2>5, <2>6, DinThroughCableCheck DEF DcPhases
  <1>8. sequence'.dc_mode => sequence'.mode_known
    <2>1. sequence'.dc_mode => sequence'.mode_known \/ sequence.dc_mode
      BY <1>2, AdvanceFields
    <2>2. sequence.mode_known => sequence'.mode_known
      BY <1>2, AdvanceFields
    <2>. QED
      BY <2>1, <2>2 DEF SequencerInv
  <1>. QED
    BY <1>3, <1>4, <1>6, <1>7, <1>8 DEF SequencerInv

\* Every step keeps the phase, protocol and mode consistent.
LEMMA SequencerStep ==
  ASSUME TypeOK, SequencerInv, [Next]_vars
  PROVE  SequencerInv'
  <1>1. CASE Quiet \/ Ended \/ Connect \/ SendThenTerminate \/ SendSessionStopRes \/ SendOtherRes
    <2>1. sequence' = sequence
      BY <1>1, SequenceStays
    <2>2. pc' = "idle" => pc = "idle"
      BY <1>1 DEF Quiet, Ended, Connect, SendThenTerminate, SendSessionStopRes,
                  SendOtherRes, Exit
    <2>. QED
      BY <2>1, <2>2 DEF SequencerInv, SetUp
  <1>2. CASE Teardown
    BY <1>2 DEF Teardown, SequencerInv, SetUp, InitSequence
  <1>3. CASE SendSessionSetupRes
    <2>1. /\ sequence'.phase = sequence.phase
          /\ sequence'.protocol = sequence.protocol
          /\ sequence.dc_mode => sequence'.dc_mode
          /\ sequence'.dc_mode => sequence'.mode_known \/ sequence' = sequence
          /\ pc' = "recv"
      BY <1>3 DEF SendSessionSetupRes, TypeOK, Sequences
    <2>. QED
      BY <2>1 DEF SequencerInv, SetUp
  <1>4. CASE Handle
    <2>1. PICK k \in Kinds, p \in Protocols \cup {"UNKNOWN"}, asked \in AskedSids :
             Handled(k, p, asked) /\ Owned(k, p, asked)
      BY <1>4, HandleShape
    <2>2. PICK phase \in NextPhases(sequence, Effective(p), k) :
             sequence' = Advance(sequence, Effective(p), k, phase)
      BY <2>1, AcceptMoves DEF Handled
    <2>3. pc' # "idle"
      BY <2>1 DEF Handled
    <2>4. k # "SupportedAppProtocol" => p \in Protocols
      BY <2>1 DEF Owned
    <2>. QED
      BY <2>2, <2>3, <2>4, SequencerHandle
  <1>. QED
    BY <1>1, <1>2, <1>3, <1>4, StepCases

\* The invariant of the sequencer holds throughout.
LEMMA SequencerHolds == Spec => []SequencerInv
  <1>1. Init => SequencerInv
    BY DEF Init, SequencerInv, SetUp, InitSequence
  <1>2. TypeOK /\ SequencerInv /\ [Next]_vars => SequencerInv'
    BY SequencerStep
  <1>. QED
    BY <1>1, <1>2, TypeCorrect, PTL DEF Spec

\* A DIN session delivers energy in DC mode only.
THEOREM DinInDc == Spec => []DinChargesInDc
  <1>1. SequencerInv => DinChargesInDc
    BY DEF SequencerInv, DinChargesInDc, DcPhases
  <1>. QED
    BY <1>1, SequencerHolds, PTL

\* A stream never leaves the protocol it has settled on.
THEOREM ProtocolPinned == Spec => ProtocolIsPinned
  <1>1. ASSUME TypeOK, SequencerInv, [Next]_vars,
               sequence.protocol # "UNKNOWN", pc' \in {"recv", "send"}
        PROVE  sequence'.protocol = sequence.protocol
    <2>1. CASE Quiet \/ Ended \/ Connect \/ SendThenTerminate \/ SendSessionStopRes \/ SendOtherRes
      BY <2>1, SequenceStays
    <2>2. CASE Teardown
      BY <1>1, <2>2 DEF Teardown
    <2>3. CASE SendSessionSetupRes
      BY <2>3, <1>1 DEF SendSessionSetupRes, TypeOK, Sequences
    <2>4. CASE Handle
      <3>1. PICK k \in Kinds, p \in Protocols \cup {"UNKNOWN"}, asked \in AskedSids :
               Handled(k, p, asked)
        BY <1>1, <2>4, HandleShape
      <3>2. PICK phase \in NextPhases(sequence, Effective(p), k) :
               sequence' = Advance(sequence, Effective(p), k, phase)
        BY <3>1, AcceptMoves DEF Handled
      <3>3. sequence.phase # "APP_PROTOCOL"
        BY <1>1 DEF SequencerInv
      <3>4. Effective(p) # "UNKNOWN" /\ sequence.protocol \in {"UNKNOWN", Effective(p)}
        BY <3>2, <3>3, ProtocolStays
      <3>. QED
        BY <1>1, <3>2, <3>4 DEF Advance
    <2>. QED
      BY <1>1, <2>1, <2>2, <2>3, <2>4, StepCases
  <1>. QED
    BY <1>1, SequencerHolds, TypeCorrect, PTL DEF Spec, ProtocolIsPinned

\* A stream in DC mode stays in it, through renegotiation too.
THEOREM DcModeKept == Spec => DcModeIsKept
  <1>1. ASSUME TypeOK, SequencerInv, [Next]_vars, sequence.dc_mode, pc' # "idle"
        PROVE  sequence'.dc_mode
    <2>1. CASE Quiet \/ Ended \/ Connect \/ SendThenTerminate \/ SendSessionStopRes \/ SendOtherRes
      BY <1>1, <2>1, SequenceStays
    <2>2. CASE Teardown
      BY <1>1, <2>2 DEF Teardown
    <2>3. CASE SendSessionSetupRes
      BY <2>3, <1>1 DEF SendSessionSetupRes, TypeOK, Sequences
    <2>4. CASE Handle
      <3>1. PICK k \in Kinds, p \in Protocols \cup {"UNKNOWN"}, asked \in AskedSids :
               Handled(k, p, asked)
        BY <1>1, <2>4, HandleShape
      <3>2. PICK phase : sequence' = Advance(sequence, Effective(p), k, phase)
        BY <3>1, AcceptMoves DEF Handled
      <3>3. sequence.mode_known
        BY <1>1 DEF SequencerInv
      <3>. QED
        BY <1>1, <3>2, <3>3, AdvanceFields
    <2>. QED
      BY <1>1, <2>1, <2>2, <2>3, <2>4, StepCases
  <1>. QED
    BY <1>1, SequencerHolds, TypeCorrect, PTL DEF Spec, DcModeIsKept

\* Nothing starts the power delivery again on a connection that has stopped it.
THEOREM StopFinal == Spec => StopIsFinal
  <1>1. ASSUME TypeOK, [Next]_vars,
               sequence.phase \in {"POWER_DELIVERY_STOP", "WELDING"}, pc' # "idle"
        PROVE  sequence'.phase \in {"POWER_DELIVERY_STOP", "WELDING", "COMPLETE"}
    <2>1. CASE Quiet \/ Ended \/ Connect \/ SendThenTerminate \/ SendSessionStopRes \/ SendOtherRes
      BY <1>1, <2>1, SequenceStays
    <2>2. CASE Teardown
      BY <1>1, <2>2 DEF Teardown
    <2>3. CASE SendSessionSetupRes
      BY <2>3, <1>1 DEF SendSessionSetupRes, TypeOK, Sequences
    <2>4. CASE Handle
      <3>1. PICK k \in Kinds, p \in Protocols \cup {"UNKNOWN"}, asked \in AskedSids :
               Handled(k, p, asked)
        BY <1>1, <2>4, HandleShape
      <3>2. PICK phase \in NextPhases(sequence, Effective(p), k) :
               sequence' = Advance(sequence, Effective(p), k, phase)
        BY <3>1, AcceptMoves DEF Handled
      <3>3. sequence'.phase = phase
        BY <3>2, AdvanceFields
      <3>. QED
        BY <1>1, <3>2, <3>3, StopLeadsOut
    <2>. QED
      BY <1>1, <2>1, <2>2, <2>3, <2>4, StepCases
  <1>. QED
    BY <1>1, TypeCorrect, PTL DEF Spec, StopIsFinal

-------------------------------------------------------------------------------

(* The end of a session.  A SessionStopRes that goes out is an OK, for a
   refusal would have ended the connection, and nothing is sent after it. *)

StopInv ==
  /\ pc = "idle" => out = NoResponse
  /\ pc # "done" => ~saw_session_stop
  /\ pc = "recv" => out.kind # "SessionStop"
  /\ (pc = "send" /\ out.kind = "SessionStop") =>
        out.code = "OK" /\ session_id = NoSid /\ sequence.phase = "COMPLETE"
  /\ (pc = "done" /\ saw_session_stop) =>
        /\ rc = "OK" /\ out.kind = "SessionStop" /\ out.code = "OK"
        /\ session_id = NoSid /\ sequence.phase = "COMPLETE"
  /\ (pc = "done" /\ ~saw_session_stop) => ~(out.kind = "SessionStop" /\ out.code = "OK")

\* Every step keeps what is known of a SessionStop and of its response.
LEMMA StopStep ==
  ASSUME TypeOK, TerminationInv, StopInv, [Next]_vars
  PROVE  StopInv'
  <1>. USE DEF StopInv
  <1>1. CASE Quiet
    BY <1>1 DEF Quiet, seccVars
  <1>2. CASE Ended
    <2>1. ~saw_session_stop' /\ pc' = "done"
      BY <1>2 DEF Ended
    <2>2. ~(out'.kind = "SessionStop" /\ out'.code = "OK")
      BY <1>2 DEF Ended, NoResponse
    <2>. QED
      BY <2>1, <2>2
  <1>3. CASE Connect \/ Teardown
    BY <1>3 DEF Connect, Teardown, NoResponse
  <1>4. CASE SendThenTerminate
    BY <1>4 DEF SendThenTerminate, Exit, TerminationInv, Refusals
  <1>5. CASE SendSessionStopRes
    BY <1>5 DEF SendSessionStopRes, Delivered
  <1>6. CASE SendSessionSetupRes \/ SendOtherRes
    BY <1>6 DEF SendSessionSetupRes, SendOtherRes, Delivered
  <1>7. CASE Handle
    <2>1. PICK k \in Kinds, p \in Protocols \cup {"UNKNOWN"}, asked \in AskedSids :
             Handled(k, p, asked)
      BY <1>7, HandleShape
    <2>2. PICK phase \in NextPhases(sequence, Effective(p), k) :
             sequence' = Advance(sequence, Effective(p), k, phase)
      BY <2>1, AcceptMoves DEF Handled
    <2>3. sequence'.phase = phase
      BY <2>2, AdvanceFields
    <2>4. k = "SessionStop" => sequence'.phase = "COMPLETE"
      BY <2>2, <2>3, SetupComesFirst
    <2>5. ~saw_session_stop'
      BY <2>1, AcceptMoves DEF Handled
    <2>. QED
      BY <2>1, <2>4, <2>5 DEF Handled, NoResponse
  <1>. QED
    BY <1>1, <1>2, <1>3, <1>4, <1>5, <1>6, <1>7, StepCases

\* EV_SESSION_STOP is reported exactly when the SessionStopRes went out, and then
\* no session is live.
THEOREM StopReported == Spec => []StopIsReportedWhenOver
  <1>1. Init => StopInv
    BY DEF Init, StopInv, NoResponse
  <1>2. TypeOK /\ TerminationInv /\ StopInv /\ [Next]_vars => StopInv'
    BY StopStep
  <1>3. StopInv => StopIsReportedWhenOver
    <2>1. ASSUME StopInv, pc = "done", saw_session_stop
          PROVE  Reason(rc, handled_any, saw_session_stop) = "EV_SESSION_STOP"
      BY <2>1 DEF StopInv, Reason
    <2>2. ASSUME ~saw_session_stop
          PROVE  Reason(rc, handled_any, saw_session_stop) # "EV_SESSION_STOP"
      BY <2>2 DEF Reason
    <2>. QED
      BY <2>1, <2>2 DEF StopInv, StopIsReportedWhenOver
  <1>. QED
    BY <1>1, <1>2, <1>3, TerminationHolds, TypeCorrect, PTL DEF Spec

-------------------------------------------------------------------------------

(* DIN's one offer.  The memory of the offer outlives a connection, but no
   session inherits it: once a session is set up the memory is what this very
   connection was told, or will be told by the response being sent. *)

OfferInv ==
  /\ (pc \in {"recv", "send"} /\ SetUp /\ din_advertised # "none") =>
        \/ pc = "send" /\ out.kind = "SessionSetup"
        \/ /\ sequence.protocol = "DIN"
           /\ din_advertised = IF pc = "send" /\ out.kind = "ServiceDiscovery"
                               THEN out.mode ELSE log.advertised
  /\ (pc = "send" /\ out.kind = "SessionSetup") => din_advertised = "none"
  /\ (pc = "send" /\ out.kind = "SupportedAppProtocol") => ~SetUp
  /\ DinAgreesToItsOffer

\* Every step keeps the DIN offer and what the vehicle was told of it together.
LEMMA OfferStep ==
  ASSUME TypeOK, SequencerInv, OfferInv, [Next]_vars
  PROVE  OfferInv'
  <1>. USE DEF OfferInv, DinAgreesToItsOffer, SetUp
  <1>1. CASE Quiet \/ Ended
    BY <1>1 DEF Quiet, Ended, seccVars, history
  <1>2. CASE Connect \/ Teardown
    BY <1>2 DEF Connect, Teardown, SequencerInv, InitSequence, history
  <1>3. CASE SendThenTerminate \/ SendSessionStopRes
    BY <1>3 DEF SendThenTerminate, SendSessionStopRes, Exit
  <1>4. CASE SendSessionSetupRes
    BY <1>4 DEF SendSessionSetupRes, Delivered
  <1>5. CASE SendOtherRes
    <2>1. log'.advertised = IF out.kind = "ServiceDiscovery" THEN out.mode ELSE log.advertised
      BY <1>5 DEF SendOtherRes, TypeOK, Logs
    <2>2. /\ pc = "send" /\ pc' = "recv" /\ out.kind # "SessionSetup"
          /\ sequence' = sequence /\ din_advertised' = din_advertised
      BY <1>5 DEF SendOtherRes, Delivered
    <2>. QED
      BY <2>1, <2>2
  <1>6. CASE Handle
    <2>1. PICK k \in Kinds, p \in Protocols \cup {"UNKNOWN"}, asked \in AskedSids :
             Handled(k, p, asked) /\ Owned(k, p, asked)
      BY <1>6, HandleShape
    <2>2. PICK phase \in NextPhases(sequence, Effective(p), k) :
             sequence' = Advance(sequence, Effective(p), k, phase)
      BY <2>1, AcceptMoves DEF Handled
    <2>3. sequence'.phase = phase /\ pc = "recv" /\ pc' \in {"send", "done"}
      BY <2>1, <2>2, AdvanceFields, AcceptMoves DEF Handled
    <2>4. log'.advertised = log.advertised /\ (pc' = "send" => out'.kind = k)
      BY <2>1 DEF Handled
    <2>5. CASE k = "SupportedAppProtocol"
      BY <2>2, <2>3, <2>4, <2>5, SetupComesFirst
    <2>6. CASE k = "SessionSetup"
      <3>1. din_advertised' = "none"
        BY <2>1, <2>6 DEF Owned, SessionSetup
      <3>. QED
        BY <2>3, <2>4, <2>6, <3>1
    <2>7. CASE k \notin {"SupportedAppProtocol", "SessionSetup"}
      <3>1. SetUp /\ p \in Protocols /\ Effective(p) = p
        BY <2>1, <2>2, <2>7, SetupComesFirst DEF Owned, Effective, Protocols
      <3>2. sequence.protocol = p /\ sequence'.protocol = p
        <4>1. sequence.protocol \in {"UNKNOWN", p} /\ sequence.protocol # "UNKNOWN"
          BY <2>2, <3>1, ProtocolStays DEF SequencerInv
        <4>. QED
          BY <2>2, <3>1, <4>1 DEF Advance
      <3>3. din_advertised # "none" => p = "DIN" /\ din_advertised = log.advertised
        BY <2>3, <3>1, <3>2
      <3>4. CASE k = "SessionStop"
        BY <2>1, <2>3, <2>4, <3>4 DEF Owned
      <3>5. CASE k = "ServiceDiscovery"
        <4>1. ServiceDiscovery(p, asked)
          BY <2>1, <3>5 DEF Owned
        <4>2. CASE p = "ISO2"
          <5>1. din_advertised' = "none"
            BY <3>3, <4>1, <4>2 DEF ServiceDiscovery
          <5>. QED
            BY <2>3, <2>4, <3>5, <5>1
        <4>3. CASE p = "DIN"
          <5>1. (pc' = "send" /\ din_advertised' # "none") => out'.mode = din_advertised'
            BY <4>1, <4>3 DEF ServiceDiscovery, Encoded, Unencoded, Exit, Response
          <5>. QED
            BY <2>3, <2>4, <3>2, <3>5, <4>3, <5>1
        <4>. QED
          BY <3>1, <4>2, <4>3 DEF Protocols
      <3>6. CASE k = "ChargeParameterDiscovery"
        <4>1. din_advertised' = din_advertised
          BY <2>1, <3>6 DEF Owned
        <4>2. ASSUME pc' = "send", "ChargeParameterDiscovery" \notin Overridden,
                     out'.protocol = "DIN", out'.code = "OK"
              PROVE  out'.mode = log'.advertised /\ out'.mode # "none"
          <5>1. PICK mode \in Modes : ChargeParameterDiscovery(p, asked, mode)
            BY <2>1, <3>6, <4>2 DEF Owned
          <5>2. out'.mode = mode /\ out'.code =
                  IF Agreed(p, mode) THEN "OK" ELSE "FAILED_WrongEnergyTransfer"
            BY <4>2, <5>1, AnswerShape DEF ChargeParameterDiscovery, Response
          <5>3. p = "DIN"
            BY <2>1, <3>1, <4>2 DEF Handled
          <5>4. mode = din_advertised
            BY <4>2, <5>2, <5>3 DEF Agreed
          <5>5. mode # "none"
            BY DEF Modes, DcModes
          <5>. QED
            BY <2>4, <3>3, <5>2, <5>4, <5>5
        <4>. QED
          BY <2>3, <2>4, <3>2, <3>3, <3>6, <4>1, <4>2
      <3>7. CASE k \notin {"SessionStop", "ServiceDiscovery", "ChargeParameterDiscovery"}
        <4>1. din_advertised' = din_advertised
          BY <2>1, <2>7, <3>7 DEF Owned
        <4>. QED
          BY <2>3, <2>4, <2>7, <3>2, <3>3, <3>7, <4>1
      <3>. QED
        BY <3>4, <3>5, <3>6, <3>7
    <2>. QED
      BY <2>5, <2>6, <2>7
  <1>. QED
    BY <1>1, <1>2, <1>3, <1>4, <1>5, <1>6, StepCases

\* The library's DIN handler agrees to the one mode it offered on this connection.
THEOREM DinAgreed == Spec => []DinAgreesToItsOffer
  <1>1. Init => OfferInv
    BY DEF Init, OfferInv, DinAgreesToItsOffer
  <1>2. TypeOK /\ SequencerInv /\ OfferInv /\ [Next]_vars => OfferInv'
    BY OfferStep
  <1>3. OfferInv => DinAgreesToItsOffer
    BY DEF OfferInv
  <1>. QED
    BY <1>1, <1>2, <1>3, SequencerHolds, TypeCorrect, PTL DEF Spec

-------------------------------------------------------------------------------

(* ISO's deferred authorization.  The statics that remember the Ongoing answer
   outlive the connection, and a rejoined session has the SessionID they
   remember; SessionSetup starts them anew. *)

\* The statics say that the live session was told to wait.
Pending == sequence.protocol = "ISO2" /\ auth_pending_sent /\ last_auth_sid = session_id

AuthorizationInv ==
  /\ (pc = "recv" /\ SetUp /\ Pending) => log.ongoing
  /\ (pc = "send" /\ SetUp /\ Pending /\ out.kind # "SessionStop") =>
        /\ out.kind # "SessionSetup"
        /\ log.ongoing \/ out.code = "Ongoing"
  /\ IsoAuthorizationIsDeferred

\* Every step keeps the pending authorization and what the vehicle was told of it
\* together.
LEMMA AuthorizationStep ==
  ASSUME TypeOK, SequencerInv, AuthorizationInv, [Next]_vars, "Authorization" \notin Overridden
  PROVE  AuthorizationInv'
  <1>. USE DEF AuthorizationInv, IsoAuthorizationIsDeferred, SetUp, Pending
  <1>1. CASE Quiet \/ Ended
    BY <1>1 DEF Quiet, Ended, seccVars, authVars, history
  <1>2. CASE Connect \/ Teardown
    BY <1>2 DEF Connect, Teardown, SequencerInv, InitSequence
  <1>3. CASE SendThenTerminate \/ SendSessionStopRes
    BY <1>3 DEF SendThenTerminate, SendSessionStopRes, Exit
  <1>4. CASE SendSessionSetupRes
    <2>1. sequence'.phase = sequence.phase /\ sequence'.protocol = sequence.protocol
      BY <1>4 DEF SendSessionSetupRes, TypeOK, Sequences
    <2>2. /\ pc = "send" /\ pc' = "recv" /\ out.kind = "SessionSetup"
          /\ session_id' = session_id /\ authVars' = authVars
      BY <1>4 DEF SendSessionSetupRes, Delivered
    <2>. QED
      BY <2>1, <2>2 DEF authVars
  <1>5. CASE SendOtherRes
    <2>1. log'.ongoing <=> (log.ongoing \/ out.code = "Ongoing")
      BY <1>5 DEF SendOtherRes, TypeOK, Logs
    <2>2. /\ pc = "send" /\ pc' = "recv" /\ out.kind # "SessionStop"
          /\ session_id' = session_id /\ authVars' = authVars /\ sequence' = sequence
      BY <1>5 DEF SendOtherRes, Delivered
    <2>. QED
      BY <2>1, <2>2 DEF authVars
  <1>6. CASE Handle
    <2>1. PICK k \in Kinds, p \in Protocols \cup {"UNKNOWN"}, asked \in AskedSids :
             Handled(k, p, asked) /\ Owned(k, p, asked)
      BY <1>6, HandleShape
    <2>2. PICK phase \in NextPhases(sequence, Effective(p), k) :
             sequence' = Advance(sequence, Effective(p), k, phase)
      BY <2>1, AcceptMoves DEF Handled
    <2>3. sequence'.phase = phase /\ pc = "recv" /\ pc' \in {"send", "done"}
      BY <2>1, <2>2, AdvanceFields, AcceptMoves DEF Handled
    <2>4. log'.ongoing = log.ongoing /\ (pc' = "send" => out'.kind = k)
      BY <2>1 DEF Handled
    <2>5. CASE k = "SupportedAppProtocol"
      BY <2>2, <2>3, <2>4, <2>5, SetupComesFirst
    <2>6. CASE k = "SessionSetup"
      <3>1. sequence'.protocol = p
        BY <2>1, <2>2, <2>6 DEF Advance, Owned, Effective, Protocols
      <3>2. p = "ISO2" => ~auth_pending_sent'
        BY <2>1, <2>6 DEF Owned, SessionSetup, RestartAuthorization
      <3>. QED
        BY <2>3, <2>4, <2>6, <3>1, <3>2
    <2>7. CASE k = "SessionStop"
      BY <2>3, <2>4, <2>7
    <2>8. CASE k \notin {"SupportedAppProtocol", "SessionSetup", "SessionStop"}
      <3>1. SetUp /\ p \in Protocols /\ Effective(p) = p /\ session_id' = session_id
        BY <2>1, <2>2, <2>8, SetupComesFirst DEF Handled, Owned, Effective, Protocols
      <3>2. sequence.protocol = p /\ sequence'.protocol = p
        <4>1. sequence.protocol \in {"UNKNOWN", p} /\ sequence.protocol # "UNKNOWN"
          BY <2>2, <3>1, ProtocolStays DEF SequencerInv
        <4>. QED
          BY <2>2, <3>1, <4>1 DEF Advance
      <3>3. Pending => log.ongoing
        BY <2>3, <3>1
      <3>4. CASE k = "Authorization"
        <4>1. PICK ok \in BOOLEAN : Authorization(p, asked, ok)
          BY <2>1, <3>4 DEF Owned
        <4>. DEFINE pending == auth_pending_sent /\ last_auth_sid = session_id
                    code    == IF p = "ISO2" /\ ok /\ ~pending THEN "Ongoing"
                               ELSE IF ok THEN "OK" ELSE "FAILED"
        <4>2. Answer(Response("Authorization", p, code, asked))
          BY <4>1 DEF Authorization
        <4>3. pc' = "send" => out'.code = code
          BY <4>2, AnswerShape DEF Response
        <4>4. p = "ISO2" => (auth_pending_sent' <=> pending \/ ok)
          BY <4>1 DEF Authorization
        <4>5. pc' = "send" => out'.protocol = p
          BY <2>1, <3>1 DEF Handled
        <4>6. (p = "ISO2" /\ pending) => log.ongoing
          BY <3>2, <3>3
        <4>. QED
          BY <2>3, <2>4, <3>2, <3>4, <4>3, <4>4, <4>5, <4>6
      <3>5. CASE k # "Authorization"
        <4>1. authVars' = authVars
          BY <2>1, <2>8, <3>5 DEF Owned
        <4>. QED
          BY <2>3, <2>4, <2>8, <3>1, <3>2, <3>3, <3>5, <4>1 DEF authVars
      <3>. QED
        BY <3>4, <3>5
    <2>. QED
      BY <2>5, <2>6, <2>7, <2>8
  <1>. QED
    BY <1>1, <1>2, <1>3, <1>4, <1>5, <1>6, StepCases

\* The library's AuthorizationRes grants an ISO session only after it told this
\* very connection to wait.
THEOREM IsoAuthorizationDeferred == Spec => []IsoAuthorizationIsDeferred
  <1>1. Init => AuthorizationInv
    BY DEF Init, AuthorizationInv, IsoAuthorizationIsDeferred
  <1>2. CASE "Authorization" \in Overridden
    <2>1. IsoAuthorizationIsDeferred
      BY <1>2 DEF IsoAuthorizationIsDeferred
    <2>. QED
      BY <2>1, PTL
  <1>3. CASE "Authorization" \notin Overridden
    <2>1. TypeOK /\ SequencerInv /\ AuthorizationInv /\ [Next]_vars => AuthorizationInv'
      BY <1>3, AuthorizationStep
    <2>2. AuthorizationInv => IsoAuthorizationIsDeferred
      BY DEF AuthorizationInv
    <2>. QED
      BY <1>1, <2>1, <2>2, SequencerHolds, TypeCorrect, PTL DEF Spec
  <1>. QED
    BY <1>2, <1>3

-------------------------------------------------------------------------------

(* What breaks the statement about resumed modes: one thing.  Without it the
   statement holds, whatever else happens. *)

\* The memory of a lone pause: what the loop notes of its mode is what the paused
\* session had settled on, and so is what a grant to rejoin carries over.  Before
\* SessionSetup a sequencer has no mode, and none other than the granted one
\* before ServiceDiscovery.
ResumedInv ==
  /\ last_session_id = NoSid => ~last_session_was_dc
  /\ last_session_was_dc => paused.dc
  /\ (pc = "send" /\ out.kind = "SessionStop" /\ last_session_id # NoSid) =>
        paused.dc = (sequence.mode_known /\ sequence.dc_mode)
  /\ (pc = "send" /\ out.kind = "SessionSetup") => SetUp
  /\ (pc = "send" /\ out.kind = "SessionSetup" /\ resume_dc_pending) => log.joined_dc
  /\ pc = "idle" => sequence = InitSequence
  /\ pc \in {"recv", "send"} => (~SetUp => ~sequence.dc_mode)
  /\ ( /\ pc \in {"recv", "send"}
       /\ sequence.phase = "SERVICE_DISCOVERY"
       /\ sequence.dc_mode ) => log.joined_dc

\* No session stops while another one's pause is remembered.
LonePauses == [][Stop => last_session_id = NoSid]_vars

\* A handled request keeps the memory true, as long as pauses come one at a time.
LEMMA ResumedHandle ==
  ASSUME TypeOK, PauseIsRemembered, ResumedInv, Handle, Stop => last_session_id = NoSid
  PROVE  ResumedInv'
  <1>. USE DEF ResumedInv
  <1>1. PICK k \in Kinds, p \in Protocols \cup {"UNKNOWN"}, asked \in AskedSids :
           Handled(k, p, asked) /\ Owned(k, p, asked)
    BY HandleShape
  <1>2. PICK phase \in NextPhases(sequence, Effective(p), k) :
           sequence' = Advance(sequence, Effective(p), k, phase)
    BY <1>1, AcceptMoves DEF Handled
  <1>3. /\ pc = "recv" /\ pc' \in {"send", "done"}
        /\ sequence'.phase = phase
        /\ sequence'.dc_mode => sequence.dc_mode \/ k = "CableCheck"
        /\ pc' = "send" => out'.kind = k
    BY <1>1, <1>2, AcceptMoves, AdvanceFields DEF Handled
  <1>4. /\ ~SetUp' => k = "SupportedAppProtocol" /\ ~SetUp
        /\ phase = "SERVICE_DISCOVERY" => k = "SessionSetup" /\ ~SetUp
    BY <1>2, <1>3, SetupComesFirst, PhaseMoves DEF SetUp
  <1>5. /\ ~SetUp' => ~sequence'.dc_mode
        /\ phase = "SERVICE_DISCOVERY" => ~sequence'.dc_mode
        /\ k = "SessionSetup" => SetUp'
    BY <1>3, <1>4
  <1>6. CASE k = "SessionSetup"
    <2>1. SessionSetup(p, asked)
      BY <1>1, <1>6 DEF Owned
    <2>2. CASE JoinOldSession(asked)
      <3>1. log'.joined_dc = paused.dc
        BY <2>2 DEF JoinOldSession, TypeOK, Logs
      <3>2. /\ last_session_id' = NoSid
            /\ last_session_was_dc' = FALSE
            /\ resume_dc_pending' = last_session_was_dc
        BY <2>2 DEF JoinOldSession
      <3>. QED
        BY <1>3, <1>5, <1>6, <3>1, <3>2
    <2>3. CASE EstablishNewSession
      BY <1>3, <1>5, <1>6, <2>3 DEF EstablishNewSession, pauseVars, history
    <2>. QED
      BY <2>1, <2>2, <2>3 DEF SessionSetup
  <1>7. CASE k = "SessionStop"
    <2>1. PICK pause \in BOOLEAN : SessionStop(p, asked, pause)
      BY <1>1, <1>7 DEF Owned
    <2>2. p \in Protocols
      BY <1>1, <1>7 DEF Owned
    <2>3. last_session_id = NoSid /\ ~last_session_was_dc
      <3>1. Stop
        BY <1>1, <2>1, <2>2 DEF Stop
      <3>. QED
        BY <3>1
    <2>4. /\ sequence'.dc_mode = sequence.dc_mode
          /\ sequence'.mode_known = sequence.mode_known
      BY <1>2, <1>7 DEF Advance, TypeOK, Sequences
    <2>5. last_session_was_dc' = last_session_was_dc
      BY <1>1, <1>7 DEF Owned
    <2>6. last_session_id' # NoSid =>
             paused'.dc = (sequence.mode_known /\ sequence.dc_mode)
      BY <2>1, <2>3 DEF SessionStop
    <2>. QED
      BY <1>3, <1>5, <1>7, <2>3, <2>4, <2>5, <2>6
  <1>8. CASE k \notin {"SessionSetup", "SessionStop"}
    <2>1. /\ last_session_id' = last_session_id
          /\ last_session_was_dc' = last_session_was_dc
          /\ paused' = paused
      BY <1>1, <1>8 DEF Owned
    <2>. QED
      BY <1>3, <1>5, <1>8, <2>1
  <1>. QED
    BY <1>6, <1>7, <1>8

\* So does every other step.
LEMMA ResumedStep ==
  ASSUME TypeOK, PauseIsRemembered, ResumedInv, [Next]_vars,
         [Stop => last_session_id = NoSid]_vars
  PROVE  ResumedInv'
  <1>. USE DEF ResumedInv, SetUp
  <1>1. CASE UNCHANGED vars
    BY <1>1 DEF vars, seccVars, pauseVars, frameVars, history
  <1>2. CASE Quiet \/ Ended
    BY <1>2 DEF Quiet, Ended, seccVars, pauseVars, history
  <1>3. CASE Connect \/ SendThenTerminate
    BY <1>3 DEF Connect, SendThenTerminate, Exit, InitSequence, pauseVars, history
  <1>4. CASE Teardown
    BY <1>4 DEF Teardown, pauseVars
  <1>5. CASE SendSessionSetupRes
    <2>1. log'.joined_dc = log.joined_dc
      BY <1>5 DEF SendSessionSetupRes, TypeOK, Logs
    <2>2. /\ sequence'.dc_mode => resume_dc_pending \/ sequence.dc_mode
          /\ sequence'.phase = sequence.phase
      BY <1>5 DEF SendSessionSetupRes, TypeOK, Sequences
    <2>3. /\ pc = "send" /\ out.kind = "SessionSetup" /\ pc' = "recv"
          /\ last_session_id' = last_session_id
          /\ last_session_was_dc' = last_session_was_dc
          /\ paused' = paused
      BY <1>5 DEF SendSessionSetupRes, Delivered
    <2>. QED
      BY <2>1, <2>2, <2>3
  <1>6. CASE SendSessionStopRes
    BY <1>6 DEF SendSessionStopRes, Delivered
  <1>7. CASE SendOtherRes
    <2>1. log'.joined_dc = log.joined_dc
      BY <1>7 DEF SendOtherRes, TypeOK, Logs
    <2>. QED
      BY <1>7, <2>1 DEF SendOtherRes, Delivered
  <1>8. CASE Handle /\ (Stop => last_session_id = NoSid)
    BY <1>8, ResumedHandle
  <1>. QED
    BY <1>1, <1>2, <1>3, <1>4, <1>5, <1>6, <1>7, <1>8, StepCases

\* As long as no session is stopped while another one's pause is remembered, a
\* session comes back in DC mode only if it had settled on DC when it paused.
THEOREM LonePauseResumesItsMode ==
  Spec /\ LonePauses => []ResumedModeIsPausedMode
  <1>1. Init => ResumedInv
    BY DEF Init, ResumedInv, NoPause, InitSequence, SetUp
  <1>2. /\ TypeOK /\ PauseIsRemembered /\ ResumedInv
        /\ [Next]_vars /\ [Stop => last_session_id = NoSid]_vars
        => ResumedInv'
    BY ResumedStep
  <1>3. ResumedInv => ResumedModeIsPausedMode
    BY DEF ResumedInv, ResumedModeIsPausedMode
  <1>. QED
    BY <1>1, <1>2, <1>3, PauseRemembered, TypeCorrect, PTL DEF Spec, LonePauses

-------------------------------------------------------------------------------

(* A vehicle that sends nothing decodable is let go.  That the worker gets
   there needs the fairness of its steps, which stays with TLC; the steps
   themselves contribute what is left of the SECC's patience, which every
   receive and send uses up unless it accepts a request. *)

\* The receives and sends until the connection is over, if nothing is accepted.
Patience ==
  CASE pc \in {"idle", "done"} -> 0
    [] pc = "recv"             -> (UndecodableLimit + 1) - undecodable
    [] pc = "send"             -> UndecodableLimit + 2

\* The one step that restores patience: a request is decoded and handled.
Accepts == pc = "recv" /\ pc' = "send"

\* Patience is within the limit, and a connection without it is over.
PatienceIsBounded ==
  /\ Patience \in 0..(UndecodableLimit + 2)
  /\ Patience = 0 <=> pc \in {"idle", "done"}

\* A receive or send that accepts nothing costs patience, and nothing else does.
Tires ==
  (pc \in {"recv", "send"} /\ ~Accepts) =>
    /\ (Receive \/ Send) => Patience' < Patience
    /\ ~(Receive \/ Send) => Patience' = Patience

PatienceRunsOut == [][Tires]_vars

\* Patience by where the connection stands.
LEMMA PatienceType ==
  ASSUME TypeOK
  PROVE  /\ PatienceIsBounded
         /\ pc = "recv" => Patience = (UndecodableLimit + 1) - undecodable /\ Patience > 0
         /\ pc = "send" => Patience = UndecodableLimit + 2
  <1>1. /\ UndecodableLimit \in Nat /\ undecodable \in 0..UndecodableLimit
        /\ pc \in {"idle", "recv", "send", "done"}
    BY LimitAssumption DEF TypeOK
  <1>2. pc \in {"idle", "done"} => Patience = 0
    BY DEF Patience
  <1>3. pc = "recv" => Patience = (UndecodableLimit + 1) - undecodable
    BY DEF Patience
  <1>4. pc = "send" => Patience = UndecodableLimit + 2
    BY DEF Patience
  <1>. QED
    BY <1>1, <1>2, <1>3, <1>4 DEF PatienceIsBounded

\* A receive that accepts nothing ends the connection or is one frame more.
LEMMA ReceiveTires ==
  ASSUME TypeOK, Receive, pc' # "send"
  PROVE  Patience' < Patience
  <1>1. pc = "recv" => Patience > 0 /\ Patience = (UndecodableLimit + 1) - undecodable
    BY PatienceType
  <1>2. UndecodableLimit \in Nat /\ undecodable \in 0..UndecodableLimit
    BY LimitAssumption DEF TypeOK
  <1>3. ASSUME pc' = "done", pc = "recv"
        PROVE  Patience' < Patience
    <2>1. Patience' = 0
      BY <1>3 DEF Patience
    <2>. QED
      BY <1>1, <1>3, <2>1
  <1>4. CASE RecvTimeout \/ RecvFails \/ RejectUndecodable
    BY <1>3, <1>4 DEF RecvTimeout, RecvFails, RejectUndecodable, Exit
  <1>5. CASE Refuse
    <2>1. pc = "recv" /\ pc' = "done"
      BY <1>5 DEF Refuse, RejectSequence, RejectSession, Reject, Exit
    <2>. QED
      BY <1>3, <2>1
  <1>6. CASE Handle
    <2>1. pc = "recv" /\ pc' = "done"
      BY <1>6, HandleShape DEF Handled, Accept
    <2>. QED
      BY <1>3, <2>1
  <1>7. CASE IgnoreUndecodable
    <2>1. pc = "recv" /\ pc' = "recv" /\ undecodable' = undecodable + 1
      BY <1>7 DEF IgnoreUndecodable
    <2>2. Patience' = (UndecodableLimit + 1) - undecodable'
      BY <2>1 DEF Patience
    <2>. QED
      BY <1>1, <1>2, <2>1, <2>2
  <1>. QED
    BY <1>4, <1>5, <1>6, <1>7 DEF Receive

\* A send ends the connection or has it wait for the next frame.
LEMMA SendTires ==
  ASSUME TypeOK, Send
  PROVE  Patience' < Patience
  <1>1. pc = "send" /\ pc' \in {"recv", "done"}
    BY DEF Send, SendFails, SendThenTerminate, SendSessionSetupRes, SendSessionStopRes,
      SendOtherRes, Delivered, Exit
  <1>2. Patience = UndecodableLimit + 2
    BY <1>1, PatienceType
  <1>3. /\ UndecodableLimit \in Nat /\ undecodable \in 0..UndecodableLimit
        /\ undecodable' = undecodable
    BY LimitAssumption DEF TypeOK, Send, SendFails, SendThenTerminate, SendSessionSetupRes,
      SendSessionStopRes, SendOtherRes, Delivered
  <1>4. CASE pc' = "done"
    <2>1. Patience' = 0
      BY <1>4 DEF Patience
    <2>. QED
      BY <1>2, <1>3, <2>1
  <1>5. CASE pc' = "recv"
    <2>1. Patience' = (UndecodableLimit + 1) - undecodable'
      BY <1>5 DEF Patience
    <2>. QED
      BY <1>2, <1>3, <2>1
  <1>. QED
    BY <1>1, <1>4, <1>5

\* Between two requests that are accepted the loop takes UndecodableLimit + 2
\* steps at most, however often the vehicle's frames restart the idle deadline,
\* and nothing but an accepted request gives it more (jpv2g_secc_handle_stream_obs).
THEOREM PatienceEnds == Spec => []PatienceIsBounded /\ PatienceRunsOut
  <1>1. TypeOK => PatienceIsBounded
    BY PatienceType
  <1>2. TypeOK /\ [Next]_vars => [Tires]_vars
    <2>. SUFFICES ASSUME TypeOK, Next, pc \in {"recv", "send"}, ~Accepts
                  PROVE  /\ (Receive \/ Send) => Patience' < Patience
                         /\ ~(Receive \/ Send) => Patience' = Patience
      BY DEF Tires
    <2>1. CASE Receive
      <3>1. pc = "recv"
        BY <2>1, HandleShape DEF Receive, RecvTimeout, RecvFails, IgnoreUndecodable,
          RejectUndecodable, Refuse, RejectSequence, RejectSession, Handled, Accept
      <3>. QED
        BY <2>1, <3>1, ReceiveTires DEF Accepts
    <2>2. CASE Send
      BY <2>2, SendTires
    <2>3. CASE ~(Receive \/ Send)
      <3>1. Tick
        BY <2>3 DEF Next, Connect, TeardownRetired, TeardownKept, Teardown
      <3>2. UNCHANGED <<pc, undecodable>>
        BY <3>1 DEF Tick, frameVars
      <3>. QED
        BY <2>3, <3>2 DEF Patience
    <2>. QED
      BY <2>1, <2>2, <2>3
  <1>. QED
    BY <1>1, <1>2, TypeCorrect, PTL DEF Spec, PatienceRunsOut

===============================================================================
