--------------------------- MODULE SeccStreamProofs ---------------------------
(***************************************************************************)
(* The stream loop keeps its types and its memory for every set of         *)
(* SessionIDs, every clock, window and tolerance, every configuration.     *)
(***************************************************************************)
EXTENDS SeccStream, SeccSequenceProofs

USE DEF Protocols

-------------------------------------------------------------------------------

(* What the parts an action is built from yield. *)

\* The protocol of the stream after a request is a protocol.
LEMMA EffectiveType ==
  ASSUME NEW p \in Protocols \cup {"UNKNOWN"}, protocol \in Protocols \cup {"UNKNOWN"}
  PROVE  Effective(p) \in Protocols \cup {"UNKNOWN"}
  BY DEF Effective

\* The absence of a response is recorded as one.
LEMMA NoResponseType == NoResponse \in Responses
  BY DEF NoResponse, Responses, Codes

\* What Response builds is a response.
LEMMA ResponseType ==
  ASSUME NEW k \in Kinds, NEW p \in Protocols \cup {"UNKNOWN"}, NEW code \in Codes,
         NEW asked \in Sids \cup {NoSid}, TypeOK
  PROVE  Response(k, p, code, asked) \in Responses
  <1>1. Effective(p) \in Protocols \cup {"UNKNOWN"}
    BY EffectiveType DEF TypeOK
  <1>. QED
    BY <1>1 DEF Response, Responses, TypeOK

\* Accepting a request keeps the types of what it assigns.
LEMMA AcceptType ==
  ASSUME NEW k \in Kinds, NEW p \in Protocols \cup {"UNKNOWN"}, NEW asked, TypeOK,
         Accept(k, p, asked)
  PROVE  /\ sequence' \in Sequences
         /\ protocol' \in Protocols \cup {"UNKNOWN"}
         /\ undecodable' \in 0..UndecodableLimit
         /\ handled_any' \in BOOLEAN
         /\ saw_session_stop' \in BOOLEAN
         /\ now' \in Times
  <1>1. Effective(p) \in Protocols \cup {"UNKNOWN"}
    BY EffectiveType DEF TypeOK
  <1>2. PICK phase \in NextPhases(sequence, Effective(p), k) :
           sequence' = Advance(sequence, Effective(p), k, phase)
    BY DEF Accept
  <1>3. phase \in Phases
    BY NextPhasesType
  <1>4. sequence' \in Sequences
    BY <1>1, <1>2, <1>3, AdvanceType DEF TypeOK
  <1>. QED
    BY <1>1, <1>4, LimitAssumption DEF Accept, TypeOK

\* Leaving the loop keeps the types of what it assigns.
LEMMA ExitType ==
  ASSUME NEW code \in ReturnCodes, NEW response \in Responses, Exit(code, response)
  PROVE  /\ pc' \in {"idle", "recv", "send", "done"}
         /\ out' \in Responses
         /\ rc' \in ReturnCodes
  BY DEF Exit

\* Answering a request keeps the types of what it assigns.
LEMMA AnswerType ==
  ASSUME NEW response \in Responses, TypeOK, Answer(response)
  PROVE  /\ pc' \in {"idle", "recv", "send", "done"}
         /\ out' \in Responses
         /\ rc' \in ReturnCodes
  <1>1. CASE Encoded(response)
    BY <1>1 DEF Encoded, TypeOK
  <1>2. CASE Unencoded
    BY <1>2, ExitType, NoResponseType DEF Unencoded, ReturnCodes
  <1>. QED
    BY <1>1, <1>2 DEF Answer

\* A generated SessionID is a SessionID, or the buffer left as it was.
LEMMA GeneratedType ==
  ASSUME TypeOK
  PROVE  Generated \subseteq Sids \cup {NoSid}
  BY DEF Generated, TypeOK

-------------------------------------------------------------------------------

(* Type correctness. *)

\* A fresh stack frame is well typed.
LEMMA FreshFrameType ==
  /\ InitSequence \in Sequences
  /\ EmptyLog \in Logs
  /\ NoPause \in Pauses
  <1>1. InitSequence \in Sequences
    BY DEF InitSequence, Sequences, Phases
  <1>2. EmptyLog \in Logs
    BY DEF EmptyLog, Logs
  <1>3. NoPause \in Pauses
    BY ClockAssumption DEF NoPause, Pauses
  <1>. QED
    BY <1>1, <1>2, <1>3

\* The initial states are well typed.
LEMMA TypeInit == Init => TypeOK
  <1>1. "OK" \in ReturnCodes /\ 0 \in 0..UndecodableLimit
    BY LimitAssumption DEF ReturnCodes
  <1>. QED
    BY <1>1, FreshFrameType, NoResponseType, ClockAssumption DEF Init, TypeOK

\* The steps around a connection, and those of the clock, keep the types.
LEMMA ConnectionType ==
  ASSUME TypeOK, Connect \/ TeardownRetired \/ TeardownKept \/ Tick
  PROVE  TypeOK'
  <1>1. CASE Connect
    BY <1>1 DEF Connect, TypeOK, pauseVars, authVars, history
  <1>2. CASE TeardownRetired \/ TeardownKept
    <2>1. "OK" \in ReturnCodes /\ 0 \in 0..UndecodableLimit
      BY LimitAssumption DEF ReturnCodes
    <2>. QED
      BY <1>2, <2>1, FreshFrameType, NoResponseType
         DEF TeardownRetired, TeardownKept, Teardown, TypeOK, pauseVars, authVars
  <1>3. CASE Tick
    BY <1>3 DEF Tick, TypeOK, seccVars, pauseVars, authVars, frameVars, history
  <1>. QED
    BY <1>1, <1>2, <1>3

\* A request refused at one of the gates keeps the types.
LEMMA RefuseType ==
  ASSUME TypeOK, Refuse
  PROVE  TypeOK'
  <1>1. PICK k \in Kinds, p \in Protocols \cup {"UNKNOWN"},
             code \in {"EPROTO", "EACCES"},
             refusal \in {"FAILED_SequenceError", "FAILED_UnknownSession"} :
               Reject(k, p, code, refusal)
    BY DEF Refuse, RejectSequence, RejectSession
  <1>2. PICK response \in MinFailed(k, p, refusal) : Exit(code, response)
    BY <1>1 DEF Reject
  <1>3. refusal \in Codes
    BY DEF Codes, Refusals
  <1>4. response \in Responses
    BY <1>3, NoResponseType, ResponseType DEF MinFailed
  <1>5. protocol' \in Protocols \cup {"UNKNOWN"}
    BY <1>1, EffectiveType DEF Reject, TypeOK
  <1>6. code \in ReturnCodes
    BY DEF ReturnCodes
  <1>7. /\ pc' \in {"idle", "recv", "send", "done"}
        /\ out' \in Responses
        /\ rc' \in ReturnCodes
    BY <1>2, <1>4, <1>6, ExitType
  <1>. QED
    BY <1>1, <1>5, <1>7, LimitAssumption
       DEF Reject, TypeOK, seccVars, pauseVars, authVars, history

\* A receive that yields no request keeps the types.
LEMMA NoRequestType ==
  ASSUME TypeOK, RecvTimeout \/ RecvFails \/ IgnoreUndecodable \/ RejectUndecodable
  PROVE  TypeOK'
  <1>1. CASE RecvTimeout \/ RecvFails \/ RejectUndecodable
    BY <1>1 DEF RecvTimeout, RecvFails, RejectUndecodable, Exit, TypeOK, ReturnCodes,
                RecvErrors, SendErrors, seccVars, pauseVars, authVars, history
  <1>2. CASE IgnoreUndecodable
    BY <1>2, LimitAssumption
       DEF IgnoreUndecodable, Tolerated, TypeOK, seccVars, pauseVars, authVars, history
  <1>. QED
    BY <1>1, <1>2

\* Sending a response keeps the types.
LEMMA SendType ==
  ASSUME TypeOK, Send
  PROVE  TypeOK'
  <1>1. CASE SendFails
    BY <1>1, NoResponseType
       DEF SendFails, Exit, TypeOK, ReturnCodes, seccVars, pauseVars, authVars, history
  <1>2. CASE SendThenTerminate
    BY <1>2 DEF SendThenTerminate, Exit, TypeOK, ReturnCodes, pauseVars, authVars, history
  <1>3. CASE SendSessionSetupRes
    <2>1. sequence' \in Sequences
      BY <1>3 DEF SendSessionSetupRes, TypeOK, Sequences
    <2>2. log' \in Logs
      BY <1>3 DEF SendSessionSetupRes, TypeOK, Logs, Responses
    <2>. QED
      BY <1>3, <2>1, <2>2 DEF SendSessionSetupRes, Delivered, TypeOK, authVars
  <1>4. CASE SendSessionStopRes
    <2>1. last_session_was_dc' \in BOOLEAN
      BY <1>4 DEF SendSessionStopRes, TypeOK, Sequences
    <2>. QED
      BY <1>4, <2>1 DEF SendSessionStopRes, Delivered, TypeOK, authVars, ReturnCodes
  <1>5. CASE SendOtherRes
    <2>1. log' \in Logs
      BY <1>5 DEF SendOtherRes, TypeOK, Logs, Responses
    <2>. QED
      BY <1>5, <2>1 DEF SendOtherRes, Delivered, TypeOK, authVars
  <1>. QED
    BY <1>1, <1>2, <1>3, <1>4, <1>5 DEF Send

\* The kinds a request can have, and the codes an answer can have.
LEMMA KindsAndCodes ==
  /\ {"SupportedAppProtocol", "SessionSetup", "ServiceDiscovery", "ServiceDetail",
      "PaymentServiceSelection", "PaymentDetails", "Authorization",
      "ChargeParameterDiscovery", "CableCheck", "SessionStop"} \subseteq Kinds
  /\ StatelessKinds \subseteq Kinds
  /\ Overridden \subseteq Kinds
  /\ {"OK", "Ongoing", "FAILED", "FAILED_NoNegotiation", "OK_OldSessionJoined",
      "OK_NewSessionEstablished", "FAILED_PaymentSelectionInvalid",
      "FAILED_WrongEnergyTransfer"} \subseteq Codes
  <1>1. Overridden \subseteq Kinds
    BY ConfigAssumption DEF Overridable
  <1>2. StatelessKinds \subseteq Kinds
    BY DEF StatelessKinds, Kinds
  <1>. QED
    BY <1>1, <1>2 DEF Kinds, Codes, Refusals

\* The handshake and SessionSetup keep the types.
LEMMA EstablishType ==
  ASSUME TypeOK, Establish
  PROVE  TypeOK'
  <1>1. ASSUME NEW p \in Protocols \cup {"UNKNOWN"}, SupportedAppProtocol(p)
        PROVE  TypeOK'
    <2>1. PICK code \in {"FAILED_NoNegotiation", "OK"} :
             Answer(Response("SupportedAppProtocol", p, code, NoSid))
      BY <1>1 DEF SupportedAppProtocol
    <2>2. Response("SupportedAppProtocol", p, code, NoSid) \in Responses
      BY ResponseType, KindsAndCodes
    <2>3. /\ pc' \in {"idle", "recv", "send", "done"}
          /\ out' \in Responses
          /\ rc' \in ReturnCodes
      BY <2>1, <2>2, AnswerType
    <2>4. session_id' \in Sids \cup {NoSid}
      BY <1>1, GeneratedType DEF SupportedAppProtocol, TypeOK
    <2>5. Accept("SupportedAppProtocol", p, NoSid)
      BY <1>1 DEF SupportedAppProtocol
    <2>. QED
      BY <1>1, <2>3, <2>4, <2>5, AcceptType, KindsAndCodes
         DEF SupportedAppProtocol, TypeOK, pauseVars, authVars, history
  <1>2. ASSUME NEW p \in Protocols, NEW asked \in AskedSids, SessionSetup(p, asked)
        PROVE  TypeOK'
    <2>1. asked \in Sids \cup {NoSid}
      BY DEF AskedSids
    <2>2. /\ session_id' \in Sids \cup {NoSid}
          /\ last_session_id' \in Sids \cup {NoSid}
          /\ last_session_end' \in Times
          /\ last_session_was_dc' \in BOOLEAN
          /\ resume_dc_pending' \in BOOLEAN
          /\ log' \in Logs
          /\ paused' \in Pauses
      <3>1. CASE Resumable(asked)
        <4>1. JoinOldSession(asked)
          BY <1>2, <3>1 DEF SessionSetup
        <4>2. log' \in Logs
          BY <4>1 DEF JoinOldSession, TypeOK, Logs, Pauses
        <4>. QED
          BY <2>1, <4>1, <4>2, FreshFrameType, ClockAssumption DEF JoinOldSession, TypeOK
      <3>2. CASE ~Resumable(asked)
        <4>1. EstablishNewSession
          BY <1>2, <3>2 DEF SessionSetup
        <4>. QED
          BY <4>1, GeneratedType DEF EstablishNewSession, TypeOK, pauseVars, history
      <3>. QED
        BY <3>1, <3>2
    <2>3. PICK code \in {"OK_OldSessionJoined", "OK_NewSessionEstablished"} :
             Answer([Response("SessionSetup", p, code, asked) EXCEPT !.sid = session_id'])
      BY <1>2 DEF SessionSetup
    <2>4. Response("SessionSetup", p, code, asked) \in Responses
      BY <2>1, ResponseType, KindsAndCodes
    <2>5. [Response("SessionSetup", p, code, asked) EXCEPT !.sid = session_id'] \in Responses
      BY <2>2, <2>4 DEF Responses
    <2>6. /\ pc' \in {"idle", "recv", "send", "done"}
          /\ out' \in Responses
          /\ rc' \in ReturnCodes
      BY <2>3, <2>5, AnswerType
    <2>7. last_auth_sid' \in Sids \cup {NoSid} /\ auth_pending_sent' \in BOOLEAN
      BY <1>2, <2>2 DEF SessionSetup, RestartAuthorization, TypeOK, authVars
    <2>8. Accept("SessionSetup", p, asked)
      BY <1>2 DEF SessionSetup
    <2>. QED
      BY <1>2, <2>2, <2>6, <2>7, <2>8, AcceptType, KindsAndCodes DEF SessionSetup, TypeOK
  <1>. QED
    BY <1>1, <1>2, ConfigAssumption DEF Establish

\* The stack frame after a request that was accepted and answered.
FrameTypeOK ==
  /\ pc \in {"idle", "recv", "send", "done"}
  /\ protocol \in Protocols \cup {"UNKNOWN"}
  /\ sequence \in Sequences
  /\ handled_any \in BOOLEAN
  /\ saw_session_stop \in BOOLEAN
  /\ undecodable \in 0..UndecodableLimit
  /\ out \in Responses
  /\ rc \in ReturnCodes
  /\ now \in Times

\* Accepting and answering a request keeps the types of the frame.
LEMMA AnsweredType ==
  ASSUME TypeOK, NEW k \in Kinds, NEW p \in Protocols, NEW asked \in AskedSids,
         NEW code \in Codes, Accept(k, p, asked), Answer(Response(k, p, code, asked))
  PROVE  FrameTypeOK'
  <1>1. Response(k, p, code, asked) \in Responses
    BY ResponseType DEF AskedSids
  <1>. QED
    BY <1>1, AcceptType, AnswerType DEF FrameTypeOK

\* The same for an answer about an energy mode.
LEMMA AnsweredModeType ==
  ASSUME TypeOK, NEW k \in Kinds, NEW p \in Protocols, NEW asked \in AskedSids,
         NEW code \in Codes, NEW mode \in Modes, Accept(k, p, asked),
         Answer([Response(k, p, code, asked) EXCEPT !.mode = mode])
  PROVE  FrameTypeOK'
  <1>1. Response(k, p, code, asked) \in Responses
    BY ResponseType DEF AskedSids
  <1>2. [Response(k, p, code, asked) EXCEPT !.mode = mode] \in Responses
    BY <1>1 DEF Responses
  <1>. QED
    BY <1>2, AcceptType, AnswerType DEF FrameTypeOK

\* The handlers from ServiceDiscovery to ChargeParameterDiscovery keep the types.
LEMMA NegotiateType ==
  ASSUME TypeOK, Negotiate
  PROVE  TypeOK'
  <1>. SUFFICES ASSUME NEW p \in Protocols, NEW asked \in AskedSids,
                       \/ ServiceDiscovery(p, asked)
                       \/ \E external \in BOOLEAN :
                             PaymentServiceSelection(p, asked, external)
                       \/ \E ok \in BOOLEAN : PaymentDetails(p, asked, ok)
                       \/ \E ok \in BOOLEAN : Authorization(p, asked, ok)
                       \/ \E mode \in Modes : ChargeParameterDiscovery(p, asked, mode)
                PROVE  TypeOK'
    BY DEF Negotiate
  <1>. USE KindsAndCodes
  <1>1. CASE ServiceDiscovery(p, asked)
    <2>1. Accept("ServiceDiscovery", p, asked)
      BY <1>1 DEF ServiceDiscovery
    <2>2. FrameTypeOK' /\ din_advertised' \in DcModes \cup {"none"}
      <3>1. CASE p = "ISO2"
        BY <1>1, <2>1, <3>1, AnsweredType DEF ServiceDiscovery, TypeOK
      <3>2. ASSUME p = "DIN", NEW mode \in DinOffer,
                   Encoded([Response("ServiceDiscovery", p, "OK", asked)
                            EXCEPT !.mode = mode]), din_advertised' = mode
            PROVE  FrameTypeOK' /\ din_advertised' \in DcModes \cup {"none"}
        <4>1. mode \in DcModes /\ mode \in Modes
          BY ConfigAssumption DEF DinOffer, DcModes, Modes
        <4>. QED
          BY <2>1, <3>2, <4>1, AnsweredModeType DEF Answer
      <3>3. CASE p = "DIN" /\ din_advertised' = "none" /\
                 ( Encoded(Response("ServiceDiscovery", p, "FAILED", asked)) \/ Unencoded )
        BY <2>1, <3>3, AnsweredType DEF Answer
      <3>. QED
        BY <1>1, <3>1, <3>2, <3>3 DEF ServiceDiscovery
    <2>. QED
      BY <1>1, <2>2 DEF ServiceDiscovery, FrameTypeOK, TypeOK, pauseVars, authVars, history
  <1>2. ASSUME NEW external \in BOOLEAN, PaymentServiceSelection(p, asked, external)
        PROVE  TypeOK'
    <2>1. FrameTypeOK'
      BY <1>2, AnsweredType DEF PaymentServiceSelection
    <2>. QED
      BY <1>2, <2>1
         DEF PaymentServiceSelection, FrameTypeOK, TypeOK, pauseVars, authVars, history
  <1>3. ASSUME NEW ok \in BOOLEAN, PaymentDetails(p, asked, ok)
        PROVE  TypeOK'
    <2>1. FrameTypeOK'
      BY <1>3, AnsweredType DEF PaymentDetails
    <2>. QED
      BY <1>3, <2>1
         DEF PaymentDetails, FrameTypeOK, TypeOK, seccVars, pauseVars, authVars, history
  <1>4. ASSUME NEW ok \in BOOLEAN, Authorization(p, asked, ok)
        PROVE  TypeOK'
    <2>1. FrameTypeOK'
      BY <1>4, AnsweredType DEF Authorization
    <2>2. last_auth_sid' \in Sids \cup {NoSid} /\ auth_pending_sent' \in BOOLEAN
      BY <1>4 DEF Authorization, TypeOK, authVars
    <2>. QED
      BY <1>4, <2>1, <2>2 DEF Authorization, FrameTypeOK, TypeOK, pauseVars, history
  <1>5. ASSUME NEW mode \in Modes, ChargeParameterDiscovery(p, asked, mode)
        PROVE  TypeOK'
    <2>1. FrameTypeOK'
      BY <1>5, AnsweredModeType DEF ChargeParameterDiscovery
    <2>. QED
      BY <1>5, <2>1
         DEF ChargeParameterDiscovery, FrameTypeOK, TypeOK, pauseVars, authVars, history
  <1>. QED
    BY <1>1, <1>2, <1>3, <1>4, <1>5

\* The handlers of the charge loop keep the types.
LEMMA ChargeType ==
  ASSUME TypeOK, Charge
  PROVE  TypeOK'
  <1>. SUFFICES ASSUME NEW p \in Protocols, NEW asked \in AskedSids,
                       \/ CableCheck(p, asked)
                       \/ \E k \in StatelessKinds : Stateless(k, p, asked)
                       \/ \E k \in Overridden : Firmware(k, p, asked)
                PROVE  TypeOK'
    BY DEF Charge
  <1>. USE KindsAndCodes
  <1>1. CASE CableCheck(p, asked)
    <2>1. FrameTypeOK'
      BY <1>1, AnsweredType DEF CableCheck
    <2>2. log' \in Logs
      BY <1>1 DEF CableCheck, TypeOK, Logs
    <2>. QED
      BY <1>1, <2>1, <2>2 DEF CableCheck, FrameTypeOK, TypeOK, pauseVars, authVars
  <1>2. ASSUME NEW k \in StatelessKinds, Stateless(k, p, asked)
        PROVE  TypeOK'
    <2>1. FrameTypeOK'
      <3>1. CASE Answer(Response(k, p, "OK", asked))
        BY <1>2, <3>1, AnsweredType DEF Stateless
      <3>2. CASE Exit("EPROTO", NoResponse)
        BY <1>2, <3>2, AcceptType, NoResponseType, ExitType
           DEF Stateless, FrameTypeOK, ReturnCodes
      <3>. QED
        BY <1>2, <3>1, <3>2 DEF Stateless
    <2>2. log' \in Logs
      BY <1>2 DEF Stateless, TypeOK, Logs
    <2>. QED
      BY <1>2, <2>1, <2>2
         DEF Stateless, FrameTypeOK, TypeOK, seccVars, pauseVars, authVars
  <1>3. ASSUME NEW k \in Overridden, Firmware(k, p, asked)
        PROVE  TypeOK'
    <2>1. PICK code \in {"OK", "FAILED"} :
             /\ Answer(Response(k, p, code, asked))
             /\ \/ UNCHANGED terminate_after_response
                \/ terminate_after_response' = TRUE
      BY <1>3 DEF Firmware
    <2>2. FrameTypeOK'
      BY <1>3, <2>1, AnsweredType DEF Firmware
    <2>3. log' \in Logs
      BY <1>3 DEF Firmware, TypeOK, Logs
    <2>. QED
      BY <1>3, <2>1, <2>2, <2>3 DEF Firmware, FrameTypeOK, TypeOK, pauseVars, authVars
  <1>. QED
    BY <1>1, <1>2, <1>3

\* The handler of SessionStop keeps the types.
LEMMA StopType ==
  ASSUME TypeOK, Stop
  PROVE  TypeOK'
  <1>1. PICK p \in Protocols, asked \in AskedSids, pause \in BOOLEAN :
           SessionStop(p, asked, pause)
    BY DEF Stop
  <1>2. FrameTypeOK'
    BY <1>1, AnsweredType, KindsAndCodes DEF SessionStop
  <1>3. /\ last_session_id' \in Sids \cup {NoSid}
        /\ last_session_end' \in Times
        /\ paused' \in Pauses
    BY <1>1 DEF SessionStop, TypeOK, Pauses, Sequences
  <1>. QED
    BY <1>1, <1>2, <1>3 DEF SessionStop, FrameTypeOK, TypeOK, authVars

\* Every variable keeps its type.
THEOREM TypeCorrect == Spec => []TypeOK
  <1>1. Init => TypeOK
    BY TypeInit
  <1>2. TypeOK /\ [Next]_vars => TypeOK'
    <2>. SUFFICES ASSUME TypeOK, [Next]_vars
                  PROVE  TypeOK'
      OBVIOUS
    <2>1. CASE Connect \/ TeardownRetired \/ TeardownKept \/ Tick
      BY <2>1, ConnectionType
    <2>2. CASE RecvTimeout \/ RecvFails \/ IgnoreUndecodable \/ RejectUndecodable
      BY <2>2, NoRequestType
    <2>3. CASE Refuse
      BY <2>3, RefuseType
    <2>4. CASE Handle
      BY <2>4, EstablishType, NegotiateType, ChargeType, StopType DEF Handle
    <2>5. CASE Send
      BY <2>5, SendType
    <2>6. CASE UNCHANGED vars
      BY <2>6 DEF vars, seccVars, pauseVars, authVars, frameVars, history, TypeOK
    <2>. QED
      BY <2>1, <2>2, <2>3, <2>4, <2>5, <2>6 DEF Next, Receive
  <1>. QED
    BY <1>1, <1>2, PTL DEF Spec

===============================================================================
