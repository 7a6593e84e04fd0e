---------------------------- MODULE SeccIso20Proofs ----------------------------
(***************************************************************************)
(* The ISO 15118-20 session, for every value of its timeouts: energy only  *)
(* on the grounds of this session, an orderly end with open contactors, no *)
(* request served after a failure, a sequence timer that runs, a deadline  *)
(* for the authorization, and the promises of EnergySession.               *)
(***************************************************************************)
EXTENDS SeccIso20, TLAPS

-------------------------------------------------------------------------------

(* What a request can be accepted in, and how it is answered. *)

\* A SessionStop with OK is the one answer that ends a session in order.
Stopping(kind, code) == kind = "SessionStop" /\ code = "OK"

\* The states in which a request passes the gate.
LEMMA AcceptedIn ==
  ASSUME NEW s \in States
  PROVE  /\ Accepts(s, "SessionSetup") => s = "SESSION_SETUP"
         /\ Accepts(s, "AuthorizationSetup") => s = "AUTH_SETUP"
         /\ Accepts(s, "Authorization") => s = "AUTHORIZATION"
         /\ Accepts(s, "ServiceDiscovery") => s = "SERVICE_DISCOVERY"
         /\ Accepts(s, "ServiceDetail") => s = "SERVICE_DETAIL"
         /\ Accepts(s, "ServiceSelection") => s = "SERVICE_DETAIL"
         /\ Accepts(s, "DC_ChargeParameterDiscovery") => s = "DC_CPD"
         /\ Accepts(s, "ScheduleExchange") => s = "SCHEDULE_EXCHANGE"
         /\ Accepts(s, "DC_CableCheck") => s = "CABLE_CHECK"
         /\ Accepts(s, "DC_PreCharge") => s \in {"PRE_CHARGE", "POWER_DELIVERY"}
         /\ Accepts(s, "PowerDelivery") => s \in {"POWER_DELIVERY", "CHARGE_LOOP"}
         /\ Accepts(s, "DC_ChargeLoop") => s = "CHARGE_LOOP"
         /\ Accepts(s, "DC_WeldingDetection") => s = "WELDING"
         /\ Accepts(s, "SessionStop") => s \notin {"SESSION_SETUP", "CHARGE_LOOP", "ENDED"}
  BY DEF Accepts, Expected, Stoppable, States

\* A frame is answered as handle_frame does it: the session keeps its state or
\* moves to one that is not the end, and an end is asked for exactly with a
\* SessionStopRes.
FrameAnswered ==
  \E kind \in Kinds, code \in Codes, next \in States \ {"ENDED"},
     asked \in {"CONTINUE", "STOPPED", "PAUSED"} :
    /\ Answer(kind, code, next, asked)
    /\ InTime
    /\ asked = "CONTINUE" <=> ~Stopping(kind, code)

\* An answer that asks for no end, of any kind but a SessionStopRes with OK.
LEMMA Continued ==
  ASSUME NEW kind \in Kinds, NEW code \in Codes, NEW next \in States \ {"ENDED"},
         Continue(kind, code, next), InTime, ~Stopping(kind, code)
  PROVE  FrameAnswered
  BY DEF Continue, FrameAnswered

\* Every answer of the engine is one of handle_frame.
LEMMA Answered ==
  ASSUME TypeOK, state # "ENDED", Refuse \/ Identify \/ Configure \/ Charge
  PROVE  FrameAnswered
  <1>1. state \in States \ {"ENDED"}
    BY DEF TypeOK
  <1>2. CASE Refuse
    BY Continued, <1>1, <1>2 DEF Refuse, RefuseSession, RefuseSequence, Stopping, Codes, Failures
  <1>3. ASSUME NEW kind \in Kinds \ {"SessionStop"}, NEW next \in States \ {"ENDED"},
               NEW refusals \in SUBSET Failures, Simple(kind, next, refusals)
        PROVE  FrameAnswered
    BY Continued, <1>1, <1>3 DEF Simple, Accepted, Stopping, Codes
  <1>4. CASE Identify
    <2>1. CASE SessionSetup
      BY Continued, <2>1 DEF SessionSetup, Accepted, Stopping, Codes, Kinds, States
    <2>2. CASE AuthorizationSetup
      BY <1>3, <2>2 DEF AuthorizationSetup, Kinds, States
    <2>3. CASE Authorization
      BY Continued, <1>1, <2>3 DEF Authorization, Accepted, Stopping, Codes, Warnings, Failures,
                              Kinds, States
    <2>. QED
      BY <1>4, <2>1, <2>2, <2>3 DEF Identify
  <1>5. CASE Configure
    <2>1. CASE ServiceDiscovery
      BY <1>3, <2>1 DEF ServiceDiscovery, Kinds, States
    <2>2. CASE ServiceDetail
      BY <1>1, <1>3, <2>2 DEF ServiceDetail, Kinds, Failures
    <2>3. CASE ServiceSelection
      BY <1>3, <2>3 DEF ServiceSelection, Kinds, States, Failures
    <2>4. CASE ChargeParameterDiscovery
      BY <1>3, <2>4 DEF ChargeParameterDiscovery, Kinds, States, Failures
    <2>5. CASE ScheduleExchange
      BY Continued, <1>1, <2>5 DEF ScheduleExchange, Accepted, Stopping, Codes, Failures, Kinds, States
    <2>. QED
      BY <1>5, <2>1, <2>2, <2>3, <2>4, <2>5 DEF Configure
  <1>6. CASE Charge
    <2>1. CASE CableCheck
      BY Continued, <1>1, <2>1 DEF CableCheck, Accepted, Stopping, Codes, Failures, Kinds, States
    <2>2. CASE PreCharge
      BY Continued, <2>2 DEF PreCharge, Accepted, Stopping, Codes, Kinds, States
    <2>3. CASE Start
      BY Continued, <1>1, <2>3 DEF Start, Accepted, Stopping, Codes, Failures, Kinds, States
    <2>4. CASE PowerStop
      BY Continued, <2>4 DEF PowerStop, Accepted, Stopping, Codes, Kinds, States
    <2>5. CASE OtherPowerDelivery
      BY Continued, <1>1, <2>5 DEF OtherPowerDelivery, Accepted, Stopping, Codes, Warnings, Failures,
                              Kinds
    <2>6. CASE ChargeLoop
      BY Continued, <1>1, <2>6 DEF ChargeLoop, Accepted, Stopping, Codes, Failures, Kinds
    <2>7. CASE WeldingDetection
      BY Continued, <1>1, <2>7 DEF WeldingDetection, Accepted, Stopping, Codes, Kinds, States
    <2>8. CASE SessionStop
      <3>1. ASSUME NEW asked \in {"STOPPED", "PAUSED"}, Answer("SessionStop", "OK", state, asked)
            PROVE  FrameAnswered
        BY <1>1, <2>8, <3>1 DEF FrameAnswered, SessionStop, Accepted, Stopping, Codes, Kinds
      <3>2. CASE Continue("SessionStop", "FAILED_NoServiceRenegotiationSupported", state)
        BY Continued, <1>1, <2>8, <3>2 DEF SessionStop, Accepted, Stopping, Codes, Failures, Kinds
      <3>. QED
        BY <2>8, <3>1, <3>2 DEF SessionStop
    <2>. QED
      BY <1>6, <2>1, <2>2, <2>3, <2>4, <2>5, <2>6, <2>7, <2>8 DEF Charge
  <1>. QED
    BY <1>2, <1>4, <1>5, <1>6

-------------------------------------------------------------------------------

(* Type correctness, with the flow of a session through the stream loop. *)

Served == out.code \in Failures \/ Stopping(out.kind, out.code)

\* The session goes on as long as its answers allow.
Flow ==
  /\ pc = "recv" => state # "ENDED" /\ disposition = "CONTINUE" /\ ~Served
  /\ pc = "send" /\ disposition = "CONTINUE" => state # "ENDED" /\ ~Served
  /\ pc \in {"send", "hold"} /\ disposition # "CONTINUE" => state = "ENDED" /\ Served
  /\ pc = "send" /\ out.kind = "SupportedAppProtocol" => disposition = "CONTINUE"
  /\ pc = "hold" => state = "ENDED"
  /\ saw_session_stop => pc \in {"done", "idle"} /\ disposition \in {"STOPPED", "PAUSED"}

\* The engine's part of the types.
EngineType ==
  /\ {session_established, contactor_closed, cable_check_started, charge_loop_started}
       \subseteq BOOLEAN
  /\ se_deadline \in Deadlines(SeTimeout)
  /\ eim_deadline \in Deadlines(EimTimeout)
  /\ contactor \in {"open", "closed"}
  /\ log \in [grounds : SUBSET Grounds, asking : {Off} \cup 0..(EimTimeout + 1), blind : BOOLEAN]

\* The stream loop's part of the types.
FrameType ==
  /\ state \in States
  /\ sequence_deadline \in Deadlines(SequenceTimeout)
  /\ hold \in Deadlines(HoldTime)
  /\ pc \in {"idle", "recv", "send", "hold", "done"}
  /\ undecodable \in 0..UndecodableLimit
  /\ disposition \in Dispositions
  /\ out \in Responses
  /\ saw_session_stop \in BOOLEAN
  /\ rc \in ReturnCodes

\* The two parts are the whole.
LEMMA TypeParts == TypeOK <=> EngineType /\ FrameType
  BY DEF TypeOK, EngineType, FrameType

\* An answer is well typed and lets the session flow.
LEMMA AnswerFlows ==
  ASSUME FrameType, Flow, FrameAnswered
  PROVE  FrameType' /\ Flow' /\ pc = "recv" /\ pc' = "send"
         /\ out'.kind # "SupportedAppProtocol" /\ undecodable' = 0
         /\ (disposition' = "CONTINUE" => sequence_deadline' = SequenceTimeout)
  <1>1. PICK kind \in Kinds, code \in Codes, next \in States \ {"ENDED"},
             asked \in {"CONTINUE", "STOPPED", "PAUSED"} :
               /\ Answer(kind, code, next, asked)
               /\ InTime
               /\ asked = "CONTINUE" <=> ~Stopping(kind, code)
    BY DEF FrameAnswered
  <1>2. /\ out' = [kind |-> kind, code |-> code]
        /\ disposition' = Disposition(code, asked)
        /\ state' = IF disposition' = "CONTINUE" THEN next ELSE "ENDED"
        /\ sequence_deadline' = ArmedAfter(disposition')
        /\ pc' = "send" /\ undecodable' = 0
        /\ UNCHANGED <<hold, saw_session_stop, rc>>
    BY <1>1 DEF Answer, exitVars
  <1>3. pc = "recv"
    BY <1>1 DEF InTime
  <1>4. out' \in Responses /\ out'.kind # "SupportedAppProtocol"
    BY <1>2 DEF Responses, Kinds
  <1>5. disposition' \in Dispositions
    BY <1>2 DEF Disposition, Dispositions
  <1>6. sequence_deadline' \in Deadlines(SequenceTimeout)
        /\ (disposition' = "CONTINUE" => sequence_deadline' = SequenceTimeout)
    BY <1>2, TimeoutAssumption DEF ArmedAfter, Deadlines
  <1>7. state' \in States
    BY <1>2 DEF States
  <1>8. FrameType'
    BY <1>2, <1>4, <1>5, <1>6, <1>7, LimitAssumption DEF FrameType
  <1>9. disposition' = "CONTINUE" <=> code \notin Failures /\ ~Stopping(kind, code)
    BY <1>1, <1>2 DEF Disposition
  <1>10. Served' <=> code \in Failures \/ Stopping(kind, code)
    BY <1>2 DEF Served, Stopping
  <1>11. ~saw_session_stop
    BY <1>3 DEF Flow
  <1>12. Flow'
    BY <1>2, <1>4, <1>9, <1>10, <1>11 DEF Flow
  <1>. QED
    BY <1>2, <1>3, <1>4, <1>6, <1>8, <1>12

\* What the stream loop does between requests.
Loop == \/ RecvTimeout \/ RecvFails \/ LegacyFrame \/ RepeatHandshake \/ Babble
        \/ SequenceTimedOut \/ Send \/ HoldExpires \/ HoldPeerClose
        \/ Connect \/ Disconnect \/ ControllerOpens \/ Tick

\* A deadline keeps its type while it elapses, and stays armed.
LEMMA Elapsed ==
  ASSUME NEW timeout \in Nat, NEW deadline \in Deadlines(timeout)
  PROVE  /\ Elapse(deadline) \in Deadlines(timeout)
         /\ deadline # Off => Elapse(deadline) # Off
  BY DEF Elapse, Deadlines, Late, Off

\* The stream loop's own steps are well typed and let the session flow.
LEMMA LoopFlows ==
  ASSUME FrameType, Flow, Loop
  PROVE  FrameType' /\ Flow'
  <1>. USE DEF FrameType, Flow
  <1>1. CASE RecvTimeout \/ RecvFails \/ LegacyFrame
    BY <1>1, LimitAssumption DEF RecvTimeout, RecvFails, LegacyFrame, Exit, engineVars, ReturnCodes,
      RecvErrors
  <1>2. CASE RepeatHandshake
    <2>1. out' \in Responses /\ ~Served'
      BY <1>2 DEF RepeatHandshake, Responses, Served, Stopping, Failures
    <2>. QED
      BY <1>2, <2>1, LimitAssumption DEF RepeatHandshake, engineVars, exitVars
  <1>3. CASE Babble
    <2>1. CASE Ignore
      <3>1. undecodable' \in 0..UndecodableLimit
        BY <2>1, LimitAssumption DEF Ignore, Tolerated
      <3>2. state' = state /\ sequence_deadline' \in {sequence_deadline, Off}
        BY <1>3, <2>1 DEF Babble, IgnoreUndecodable, IgnoreUndecodableLegacy, RejectUndecodable,
          Ignore, Exit, engineVars
      <3>. QED
        BY <2>1, <3>1, <3>2 DEF Ignore, exitVars, Served, Deadlines
    <2>2. CASE RejectUndecodable
      BY <2>2 DEF RejectUndecodable, Exit, engineVars, ReturnCodes, RecvErrors
    <2>. QED
      BY <1>3, <2>1, <2>2 DEF Babble, IgnoreUndecodable, IgnoreUndecodableLegacy
  <1>4. CASE SequenceTimedOut
    BY <1>4, TimeoutAssumption DEF SequenceTimedOut, HoldFor, Deadlines, States
  <1>5. CASE SendFails
    BY <1>5 DEF SendFails, Exit, engineVars, ReturnCodes, SendErrors
  <1>6. CASE SendHandshakeRes
    BY <1>6, TimeoutAssumption DEF SendHandshakeRes, Reset, exitVars, Served, Deadlines, States
  <1>7. CASE SendRes
    BY <1>7, TimeoutAssumption DEF SendRes, engineVars, Served, HoldFor, Deadlines
  <1>8. CASE HoldExpires \/ HoldPeerClose
    <2>1. saw_session_stop' = (disposition \in {"STOPPED", "PAUSED"})
      BY <1>8 DEF HoldExpires, HoldPeerClose, HoldOver
    <2>2. saw_session_stop' \in BOOLEAN
      BY <2>1
    <2>3. rc' \in ReturnCodes
      BY <1>8 DEF HoldExpires, HoldPeerClose, HoldOver, HoldResult, ReturnCodes, SendErrors
    <2>. QED
      BY <1>8, <2>1, <2>2, <2>3 DEF HoldExpires, HoldPeerClose, HoldOver, engineVars
  <1>9. CASE Connect
    <2>1. out' \in Responses /\ ~Served'
      BY <1>9 DEF Connect, NoResponse, Responses, Served, Stopping, Failures
    <2>2. state' = "SESSION_SETUP" /\ sequence_deadline' = SequenceTimeout
      BY <1>9 DEF Connect, Reset
    <2>3. sequence_deadline' \in Deadlines(SequenceTimeout) /\ hold' \in Deadlines(HoldTime)
      BY <1>9, <2>2, TimeoutAssumption DEF Connect, Deadlines
    <2>4. undecodable' \in 0..UndecodableLimit
      BY <1>9, LimitAssumption DEF Connect
    <2>5. /\ pc' = "recv" /\ disposition' = "CONTINUE" /\ saw_session_stop' = FALSE /\ rc' = "OK"
      BY <1>9 DEF Connect
    <2>. QED
      BY <2>1, <2>2, <2>3, <2>4, <2>5 DEF States, Dispositions, ReturnCodes
  <1>10. CASE Disconnect \/ ControllerOpens
    BY <1>10 DEF Disconnect, ControllerOpens, engineVars, frameVars, exitVars, Served
  <1>11. CASE Tick
    <2>1. sequence_deadline' \in Deadlines(SequenceTimeout) /\ hold' \in Deadlines(HoldTime)
      BY <1>11, Elapsed, TimeoutAssumption DEF Tick
    <2>. QED
      BY <1>11, <2>1 DEF Tick, Served
  <1>. QED
    BY <1>1, <1>2, <1>3, <1>4, <1>5, <1>6, <1>7, <1>8, <1>9, <1>10, <1>11 DEF Loop, Send

\* The handlers of requests keep the engine's types.
LEMMA RequestType ==
  ASSUME EngineType, Refuse \/ Identify \/ Configure \/ Charge
  PROVE  EngineType'
  <1>. USE DEF EngineType
  <1>1. CASE UNCHANGED <<progressVars, ongoingVars, contactor, log>>
    BY <1>1 DEF progressVars, ongoingVars
  <1>2. CASE Refuse
    BY <1>1, <1>2 DEF Refuse, RefuseSession, RefuseSequence
  <1>3. CASE SessionSetup
    BY <1>3 DEF SessionSetup, ongoingVars
  <1>4. CASE Authorization
    <2> DEFINE deadline == Armed(eim_deadline, EimTimeout)
               asking == IF log.asking = Off THEN 0 ELSE log.asking
    <2>1. deadline \in Deadlines(EimTimeout) /\ Off \in Deadlines(EimTimeout)
      BY TimeoutAssumption DEF Armed, Deadlines
    <2>2. asking \in {Off} \cup 0..(EimTimeout + 1)
      BY TimeoutAssumption
    <2>3. eim_deadline' \in {deadline, Off}
      BY <1>4 DEF Authorization
    <2>4. \/ log' = [log EXCEPT !.asking = asking]
          \/ log' = [log EXCEPT !.asking = asking, !.grounds = @ \cup {"authorized"}]
      BY <1>4 DEF Authorization
    <2>. HIDE DEF deadline, asking
    <2>5. eim_deadline' \in Deadlines(EimTimeout)
      BY <2>1, <2>3
    <2>6. log' \in [grounds : SUBSET Grounds, asking : {Off} \cup 0..(EimTimeout + 1),
                    blind : BOOLEAN]
      BY <2>2, <2>4 DEF Grounds
    <2>. QED
      BY <1>4, <2>5, <2>6 DEF Authorization, progressVars
  <1>5. CASE ScheduleExchange
    <2>1. se_deadline' \in Deadlines(SeTimeout)
      BY <1>5, TimeoutAssumption DEF ScheduleExchange, Armed, Deadlines
    <2>. QED
      BY <1>5, <2>1 DEF ScheduleExchange, progressVars
  <1>6. CASE CableCheck
    BY <1>6 DEF CableCheck, ongoingVars, Grounds
  <1>7. CASE PreCharge
    BY <1>7 DEF PreCharge, progressVars, ongoingVars, Grounds
  <1>8. CASE Start
    BY <1>8 DEF Start, ongoingVars
  <1>9. CASE PowerStop
    <2>1. (log.blind \/ contactor = "closed") \in BOOLEAN
      OBVIOUS
    <2>2. log' \in [grounds : SUBSET Grounds, asking : {Off} \cup 0..(EimTimeout + 1),
                    blind : BOOLEAN]
      BY <1>9, <2>1 DEF PowerStop, OpenContactor
    <2>. QED
      BY <1>9, <2>2 DEF PowerStop, OpenContactor, ongoingVars
  <1>10. CASE ChargeLoop
    BY <1>10 DEF ChargeLoop, ongoingVars
  <1>11. CASE AuthorizationSetup \/ ServiceDiscovery \/ ServiceDetail \/ ServiceSelection
                \/ ChargeParameterDiscovery
    BY <1>1, <1>11 DEF AuthorizationSetup, ServiceDiscovery, ServiceDetail, ServiceSelection,
      ChargeParameterDiscovery, Simple
  <1>12. CASE OtherPowerDelivery \/ WeldingDetection \/ SessionStop
    BY <1>1, <1>12 DEF OtherPowerDelivery, WeldingDetection, SessionStop
  <1>. QED
    BY <1>2, <1>3, <1>4, <1>5, <1>6, <1>7, <1>8, <1>9, <1>10, <1>11, <1>12
    DEF Identify, Configure, Charge

\* So does the stream loop, which resets the engine with a handshake.
LEMMA LoopType ==
  ASSUME EngineType, Loop
  PROVE  EngineType'
  <1>. USE DEF EngineType
  <1>1. CASE UNCHANGED <<progressVars, ongoingVars, contactor, log>>
    BY <1>1 DEF progressVars, ongoingVars
  <1>2. CASE Reset /\ UNCHANGED contactor
    <2>1. (contactor = "closed") \in BOOLEAN
      OBVIOUS
    <2>2. log' \in [grounds : SUBSET Grounds, asking : {Off} \cup 0..(EimTimeout + 1),
                    blind : BOOLEAN]
      BY <1>2, <2>1 DEF Reset, NewLog
    <2>. QED
      BY <1>2, <2>2 DEF Reset, Deadlines
  <1>3. CASE Tick
    <2>1. se_deadline' \in Deadlines(SeTimeout) /\ eim_deadline' \in Deadlines(EimTimeout)
      BY <1>3, Elapsed, TimeoutAssumption DEF Tick
    <2>2. (IF log.asking \in 0..EimTimeout THEN log.asking + 1 ELSE log.asking)
            \in {Off} \cup 0..(EimTimeout + 1)
      BY TimeoutAssumption
    <2>3. log' = [log EXCEPT !.asking = IF log.asking \in 0..EimTimeout
                                        THEN log.asking + 1 ELSE log.asking]
      BY <1>3 DEF Tick
    <2>4. log' \in [grounds : SUBSET Grounds, asking : {Off} \cup 0..(EimTimeout + 1),
                    blind : BOOLEAN]
      BY <2>2, <2>3
    <2>. QED
      BY <1>3, <2>1, <2>4 DEF Tick, progressVars
  <1>4. CASE Disconnect \/ ControllerOpens
    BY <1>4 DEF Disconnect, ControllerOpens, engineVars, progressVars, ongoingVars
  <1>5. CASE RecvTimeout \/ RecvFails \/ LegacyFrame \/ RepeatHandshake \/ SequenceTimedOut
    BY <1>1, <1>5 DEF RecvTimeout, RecvFails, LegacyFrame, RepeatHandshake, SequenceTimedOut,
      Exit, engineVars
  <1>6. CASE Babble
    BY <1>1, <1>6 DEF Babble, IgnoreUndecodable, IgnoreUndecodableLegacy, RejectUndecodable,
      Ignore, Exit, engineVars
  <1>7. CASE Send
    BY <1>1, <1>2, <1>7 DEF Send, SendFails, SendHandshakeRes, SendRes, Exit, engineVars
  <1>8. CASE HoldExpires \/ HoldPeerClose
    BY <1>1, <1>8 DEF HoldExpires, HoldPeerClose, HoldOver, engineVars
  <1>9. CASE Connect
    BY <1>2, <1>9 DEF Connect
  <1>. QED
    BY <1>3, <1>4, <1>5, <1>6, <1>7, <1>8, <1>9 DEF Loop

FlowInv == TypeOK /\ Flow

\* The session's first state.
LEMMA FlowInit == Init => FlowInv
  <1>. SUFFICES ASSUME Init
                PROVE  EngineType /\ FrameType /\ Flow
    BY TypeParts DEF FlowInv
  <1>1. EngineType
    BY DEF Init, EngineType, NewLog, Deadlines
  <1>2. out \in Responses /\ undecodable \in 0..UndecodableLimit
    BY LimitAssumption DEF Init, NoResponse, Responses
  <1>3. FrameType
    BY <1>2 DEF Init, FrameType, Deadlines, States, Dispositions, ReturnCodes
  <1>4. Flow
    BY DEF Init, Flow
  <1>. QED
    BY <1>1, <1>3, <1>4

\* Every step is one of the stream loop or answers a request.
LEMMA Steps ==
  ASSUME FlowInv, Next
  PROVE  \/ Loop
         \/ (Refuse \/ Identify \/ Configure \/ Charge) /\ FrameAnswered
  <1>1. Loop \/ Refuse \/ Identify \/ Configure \/ Charge
    BY DEF Next, Loop, Receive
  <1>2. ASSUME Refuse \/ Identify \/ Configure \/ Charge
        PROVE  pc = "recv"
    BY <1>2 DEF Refuse, RefuseSession, RefuseSequence, Identify, Configure, Charge, SessionSetup,
      AuthorizationSetup, Authorization, ServiceDiscovery, ServiceDetail, ServiceSelection,
      ChargeParameterDiscovery, ScheduleExchange, CableCheck, PreCharge, Start, PowerStop,
      OtherPowerDelivery, ChargeLoop, WeldingDetection, SessionStop, Simple, Accepted, InTime
  <1>. QED
    BY <1>1, <1>2, Answered DEF FlowInv, Flow

\* Every step keeps the types and the flow.
LEMMA FlowStep == FlowInv /\ [Next]_vars => FlowInv'
  <1>1. ASSUME FlowInv, UNCHANGED vars
        PROVE  FlowInv'
    BY <1>1 DEF FlowInv, TypeOK, Flow, Served, vars, engineVars, progressVars, ongoingVars,
      frameVars, exitVars
  <1>2. ASSUME FlowInv, Next
        PROVE  FlowInv'
    <2>1. EngineType /\ FrameType /\ Flow
      BY <1>2, TypeParts DEF FlowInv
    <2>2. EngineType'
      BY <1>2, <2>1, Steps, RequestType, LoopType
    <2>3. FrameType' /\ Flow'
      BY <1>2, <2>1, Steps, AnswerFlows, LoopFlows
    <2>4. TypeOK'
      BY <2>2, <2>3 DEF TypeOK, EngineType, FrameType
    <2>. QED
      BY <2>3, <2>4 DEF FlowInv
  <1>. QED
    BY <1>1, <1>2

\* The engine, the stream loop and the history keep their types
\* (secc_iso20.c and the loop in secc.c).
THEOREM TypeCorrect == Spec => []TypeOK
  <1>1. FlowInv => TypeOK
    BY DEF FlowInv
  <1>. QED
    BY <1>1, FlowInit, FlowStep, PTL DEF Spec

\* No request is served after a FAILED answer or a SessionStopRes, and nothing
\* else ends a session by an answer (handle_frame in secc_iso20.c).
THEOREM FailureEnds == Spec => []EndsOnFailureAlone
  <1>1. FlowInv => EndsOnFailureAlone
    BY DEF FlowInv, Flow, Served, Stopping, EndsOnFailureAlone
  <1>. QED
    BY <1>1, FlowInit, FlowStep, PTL DEF Spec

-------------------------------------------------------------------------------

(* The sequence timer. *)

\* The timer runs with a request awaited, or its answer on the way.
TimerInv ==
  /\ TimerRunsWhileReceiving
  /\ pc = "send" => undecodable = 0
  /\ pc = "send" /\ disposition = "CONTINUE" /\ out.kind # "SupportedAppProtocol" =>
       sequence_deadline # Off

\* Every step keeps the timer running.
LEMMA TimerStep == FlowInv /\ TimerInv /\ [Next]_vars => TimerInv'
  <1>0. SequenceTimeout # Off
    BY TimeoutAssumption DEF Off
  <1>. SUFFICES ASSUME FlowInv, TimerInv, [Next]_vars
                PROVE  TimerInv'
    OBVIOUS
  <1>. USE DEF TimerInv, TimerRunsWhileReceiving
  <1>1. CASE UNCHANGED vars
    BY <1>1 DEF vars, engineVars, frameVars
  <1>2. CASE FrameAnswered
    BY <1>0, <1>2, AnswerFlows, TypeParts DEF FlowInv
  <1>3. CASE RecvTimeout \/ RecvFails \/ LegacyFrame \/ SequenceTimedOut
    BY <1>3 DEF RecvTimeout, RecvFails, LegacyFrame, SequenceTimedOut, Exit
  <1>4. CASE RepeatHandshake
    BY <1>4 DEF RepeatHandshake
  <1>5. CASE Babble
    <2>1. CASE Ignore
      BY <2>1, TypeParts DEF Ignore, FlowInv, FrameType
    <2>. QED
      BY <1>5, <2>1 DEF Babble, IgnoreUndecodable, IgnoreUndecodableLegacy, RejectUndecodable, Exit
  <1>6. CASE Send
    BY <1>0, <1>6 DEF Send, SendFails, SendHandshakeRes, SendRes, Exit, Reset, engineVars
  <1>7. CASE HoldExpires \/ HoldPeerClose
    BY <1>7 DEF HoldExpires, HoldPeerClose, HoldOver
  <1>8. CASE Connect
    BY <1>0, <1>8 DEF Connect, Reset
  <1>9. CASE Disconnect \/ ControllerOpens
    BY <1>9 DEF Disconnect, ControllerOpens, engineVars, frameVars
  <1>10. CASE Tick
    <2>1. sequence_deadline # Off => sequence_deadline' # Off
      BY <1>10, Elapsed, TimeoutAssumption, TypeParts DEF Tick, FlowInv, FrameType
    <2>. QED
      BY <1>10, <2>1 DEF Tick
  <1>. QED
    BY <1>1, <1>2, <1>3, <1>4, <1>5, <1>6, <1>7, <1>8, <1>9, <1>10, Steps DEF Loop

\* The sequence timer runs whenever a request is awaited, unless the last frame
\* could not be decoded (secc_iso20.c, on receipt and at the end of handle_frame).
THEOREM TimerRuns == Spec => []TimerRunsWhileReceiving
  <1>1. Init => TimerInv
    BY DEF Init, TimerInv, TimerRunsWhileReceiving
  <1>2. TimerInv => TimerRunsWhileReceiving
    BY DEF TimerInv
  <1>. QED
    BY <1>1, <1>2, FlowInit, FlowStep, TimerStep, PTL DEF Spec

-------------------------------------------------------------------------------

(* The grounds for energy, and the contactors. *)

\* What the engine's state says of the grounds, and of its contactors.
Earning ==
  /\ state \notin {"SESSION_SETUP", "AUTH_SETUP", "AUTHORIZATION", "ENDED"} =>
       "authorized" \in log.grounds
  /\ state \in {"PRE_CHARGE", "POWER_DELIVERY", "CHARGE_LOOP", "WELDING", "SESSION_STOP"} =>
       "isolated" \in log.grounds
  /\ state \in {"POWER_DELIVERY", "CHARGE_LOOP", "WELDING", "SESSION_STOP"} =>
       "precharged" \in log.grounds
  /\ state = "CHARGE_LOOP" => contactor_closed
  /\ contactor_closed => state \in {"CHARGE_LOOP", "ENDED"}
  /\ EnergyIsEarned
  /\ contactor = "closed" => contactor_closed \/ log.blind
  /\ disposition \in {"STOPPED", "PAUSED"} => ~contactor_closed

\* What is left open by an answer that asks for no end.
LEMMA ContinueDoes ==
  ASSUME NEW kind, NEW code, NEW next, Continue(kind, code, next)
  PROVE  /\ out'.kind = kind /\ out'.code = code
         /\ disposition' \in {"CONTINUE", "FAILED"}
         /\ state' \in {next, "ENDED"}
         /\ code \notin Failures => state' = next /\ disposition' = "CONTINUE"
  BY DEF Continue, Answer, Disposition

\* A request that establishes nothing and touches no contactor, and after which
\* the state is the same or one that has the same grounds behind it.
LEMMA NothingEarned ==
  ASSUME Earning, NEW kind, NEW code, NEW next, Continue(kind, code, next),
         \/ next = state
         \/ state = "SESSION_SETUP" /\ next = "AUTH_SETUP"
         \/ state = "AUTH_SETUP" /\ next = "AUTHORIZATION"
         \/ state = "SERVICE_DISCOVERY" /\ next = "SERVICE_DETAIL"
         \/ state = "SERVICE_DETAIL" /\ next = "DC_CPD"
         \/ state = "DC_CPD" /\ next = "SCHEDULE_EXCHANGE"
         \/ state = "SCHEDULE_EXCHANGE" /\ next = "CABLE_CHECK"
         \/ state = "WELDING" /\ next = "SESSION_STOP",
         log'.grounds = log.grounds, log'.blind = log.blind,
         UNCHANGED <<contactor_closed, contactor>>,
         kind = "DC_ChargeLoop" /\ code = "OK" => state = "CHARGE_LOOP"
  PROVE  Earning'
  BY ContinueDoes DEF Earning, EnergyIsEarned

\* Answers keep the grounds, the state and the contactors in step.
LEMMA RequestEarns ==
  ASSUME FlowInv, Earning, Refuse \/ Identify \/ Configure \/ Charge
  PROVE  Earning'
  <1>0. /\ state \in States /\ contactor_closed \in BOOLEAN /\ contactor \in {"open", "closed"}
        /\ log \in [grounds : SUBSET Grounds, asking : {Off} \cup 0..(EimTimeout + 1),
                    blind : BOOLEAN]
        /\ state # "CHARGE_LOOP" /\ state # "ENDED" => ~contactor_closed
    BY TypeParts DEF FlowInv, EngineType, FrameType, Earning
  <1>1. CASE Refuse
    <2>1. PICK kind \in Kinds, code \in {"FAILED_UnknownSession", "FAILED_SequenceError"} :
            Continue(kind, code, state) /\ UNCHANGED <<progressVars, contactor, log>>
      BY <1>1 DEF Refuse, RefuseSession, RefuseSequence
    <2>. QED
      BY <2>1, NothingEarned DEF progressVars
  <1>2. ASSUME NEW kind, NEW next, NEW refusals, Simple(kind, next, refusals),
               kind # "DC_ChargeLoop",
               \/ next = state
               \/ state = "AUTH_SETUP" /\ next = "AUTHORIZATION"
               \/ state = "SERVICE_DISCOVERY" /\ next = "SERVICE_DETAIL"
               \/ state = "SERVICE_DETAIL" /\ next = "DC_CPD"
               \/ state = "DC_CPD" /\ next = "SCHEDULE_EXCHANGE"
        PROVE  Earning'
    <2>1. PICK code, to : Continue(kind, code, to) /\ to \in {next, state}
      BY <1>2 DEF Simple
    <2>2. UNCHANGED <<contactor_closed, contactor, log>>
      BY <1>2 DEF Simple, progressVars
    <2>. QED
      BY <1>2, <2>1, <2>2, NothingEarned
  <1>3. CASE Identify
    <2>1. CASE SessionSetup
      <3>1. state = "SESSION_SETUP"
        BY <1>0, <2>1, AcceptedIn DEF SessionSetup, Accepted
      <3>. QED
        BY <2>1, <3>1, NothingEarned DEF SessionSetup
    <2>2. CASE AuthorizationSetup
      BY <1>0, <1>2, <2>2, AcceptedIn DEF AuthorizationSetup, Simple, Accepted
    <2>3. CASE Authorization
      <3>1. state = "AUTHORIZATION" /\ UNCHANGED <<contactor_closed, contactor>>
        BY <1>0, <2>3, AcceptedIn DEF Authorization, Accepted, progressVars
      <3>2. \/ /\ \E code \in Codes : Continue("Authorization", code, state)
               /\ log'.grounds = log.grounds /\ log'.blind = log.blind
            \/ /\ Continue("Authorization", "OK", "SERVICE_DISCOVERY")
               /\ log'.grounds = log.grounds \cup {"authorized"} /\ log'.blind = log.blind
        BY <1>0, <2>3 DEF Authorization, Codes, Warnings, Failures
      <3>3. CASE Continue("Authorization", "OK", "SERVICE_DISCOVERY")
                   /\ log'.grounds = log.grounds \cup {"authorized"} /\ log'.blind = log.blind
        <4>1. ~contactor_closed
          BY <1>0, <3>1
        <4>. QED
          BY <3>1, <3>3, <4>1, ContinueDoes DEF Earning, EnergyIsEarned, Failures
      <3>. QED
        BY <3>1, <3>2, <3>3, NothingEarned
    <2>. QED
      BY <1>3, <2>1, <2>2, <2>3 DEF Identify
  <1>4. CASE Configure
    <2>1. CASE ServiceDiscovery
      BY <1>0, <1>2, <2>1, AcceptedIn DEF ServiceDiscovery, Simple, Accepted
    <2>2. CASE ServiceDetail
      BY <1>2, <2>2 DEF ServiceDetail
    <2>3. CASE ServiceSelection
      BY <1>0, <1>2, <2>3, AcceptedIn DEF ServiceSelection, Simple, Accepted
    <2>4. CASE ChargeParameterDiscovery
      BY <1>0, <1>2, <2>4, AcceptedIn DEF ChargeParameterDiscovery, Simple, Accepted
    <2>5. CASE ScheduleExchange
      <3>1. state = "SCHEDULE_EXCHANGE" /\ UNCHANGED <<contactor_closed, contactor, log>>
        BY <1>0, <2>5, AcceptedIn DEF ScheduleExchange, Accepted, progressVars
      <3>2. PICK code, next : Continue("ScheduleExchange", code, next)
                                /\ next \in {state, "CABLE_CHECK"}
        BY <2>5 DEF ScheduleExchange
      <3>. QED
        BY <3>1, <3>2, NothingEarned
    <2>. QED
      BY <1>4, <2>1, <2>2, <2>3, <2>4, <2>5 DEF Configure
  <1>5. CASE CableCheck
    <2>1. state = "CABLE_CHECK" /\ UNCHANGED <<contactor_closed, contactor>>
      BY <1>0, <1>5, AcceptedIn DEF CableCheck, Accepted
    <2>2. CASE Continue("DC_CableCheck", "OK", "PRE_CHARGE")
                 /\ log' = [log EXCEPT !.grounds = @ \cup {"isolated"}]
      <3>1. log'.grounds = log.grounds \cup {"isolated"} /\ log'.blind = log.blind
        BY <1>0, <2>2
      <3>2. ~contactor_closed
        BY <1>0, <2>1
      <3>. QED
        BY <2>1, <2>2, <3>1, <3>2, ContinueDoes DEF Earning, EnergyIsEarned, Failures
    <2>3. ASSUME NEW code, Continue("DC_CableCheck", code, state), log' = log
          PROVE  Earning'
      BY <2>1, <2>3, NothingEarned
    <2>. QED
      BY <1>5, <2>2, <2>3 DEF CableCheck
  <1>6. CASE PreCharge
    <2>1. state \in {"PRE_CHARGE", "POWER_DELIVERY"} /\ UNCHANGED <<contactor_closed, contactor>>
      BY <1>0, <1>6, AcceptedIn DEF PreCharge, Accepted, progressVars
    <2>2. log'.grounds = log.grounds \cup {"precharged"} /\ log'.blind = log.blind
      BY <1>0, <1>6 DEF PreCharge
    <2>3. ~contactor_closed
      BY <1>0, <2>1
    <2>4. Continue("DC_PreCharge", "OK", "POWER_DELIVERY")
      BY <1>6 DEF PreCharge
    <2>. QED
      BY <2>1, <2>2, <2>3, <2>4, ContinueDoes DEF Earning, EnergyIsEarned, Failures
  <1>7. CASE Start
    <2>1. state = "POWER_DELIVERY" /\ log' = log /\ ~contactor_closed
      BY <1>0, <1>7, AcceptedIn DEF Start, Accepted
    <2>2. CASE Continue("PowerDelivery", "OK", "CHARGE_LOOP") /\ contactor_closed' = TRUE
      <3>1. log.grounds = Grounds
        BY <1>0, <2>1 DEF Earning, Grounds
      <3>. QED
        BY <2>1, <2>2, <3>1, ContinueDoes DEF Earning, EnergyIsEarned, Failures, Grounds
    <2>3. CASE Continue("PowerDelivery", "FAILED_ContactorError", state)
                 /\ UNCHANGED <<contactor_closed, contactor>>
      BY <2>1, <2>3, NothingEarned
    <2>. QED
      BY <1>7, <2>2, <2>3 DEF Start
  <1>8. CASE PowerStop
    <2>1. state \in {"POWER_DELIVERY", "CHARGE_LOOP"} /\ contactor_closed' = FALSE
      BY <1>0, <1>8, AcceptedIn DEF PowerStop, Accepted
    <2>2. log'.grounds = log.grounds /\ (contactor' = "closed" => log'.blind)
      BY <1>0, <1>8 DEF PowerStop, OpenContactor, Earning
    <2>3. Continue("PowerDelivery", "OK", "WELDING")
      BY <1>8 DEF PowerStop
    <2>. QED
      BY <2>1, <2>2, <2>3, ContinueDoes DEF Earning, EnergyIsEarned, Failures
  <1>9. CASE OtherPowerDelivery
    <2>1. PICK code : Continue("PowerDelivery", code, state)
      BY <1>9 DEF OtherPowerDelivery
    <2>. QED
      BY <1>9, <2>1, NothingEarned DEF OtherPowerDelivery, progressVars
  <1>10. CASE ChargeLoop
    <2>1. state = "CHARGE_LOOP"
      BY <1>0, <1>10, AcceptedIn DEF ChargeLoop, Accepted
    <2>2. PICK code : Continue("DC_ChargeLoop", code, state)
      BY <1>10 DEF ChargeLoop
    <2>. QED
      BY <1>10, <2>1, <2>2, NothingEarned DEF ChargeLoop
  <1>11. CASE WeldingDetection
    <2>1. state = "WELDING"
      BY <1>0, <1>11, AcceptedIn DEF WeldingDetection, Accepted
    <2>2. PICK next \in {state, "SESSION_STOP"} : Continue("DC_WeldingDetection", "OK", next)
      BY <1>11 DEF WeldingDetection
    <2>. QED
      BY <1>11, <2>1, <2>2, NothingEarned DEF WeldingDetection, progressVars
  <1>12. CASE SessionStop
    <2>1. ~contactor_closed /\ UNCHANGED <<contactor_closed, contactor, log>>
      BY <1>0, <1>12, AcceptedIn DEF SessionStop, Accepted, progressVars
    <2>2. CASE Continue("SessionStop", "FAILED_NoServiceRenegotiationSupported", state)
      BY <2>1, <2>2, NothingEarned
    <2>3. ASSUME NEW asked \in {"STOPPED", "PAUSED"}, Answer("SessionStop", "OK", state, asked)
          PROVE  Earning'
      <3>1. state' = "ENDED" /\ out'.kind = "SessionStop"
        BY <2>3 DEF Answer, Disposition
      <3>. QED
        BY <2>1, <3>1 DEF Earning, EnergyIsEarned
    <2>. QED
      BY <1>12, <2>2, <2>3 DEF SessionStop
  <1>. QED
    BY <1>1, <1>3, <1>4, <1>5, <1>6, <1>7, <1>8, <1>9, <1>10, <1>11, <1>12 DEF Charge

\* So does the stream loop: a reset forgets the grounds and the contactors at once.
LEMMA LoopEarns ==
  ASSUME FlowInv, Earning, Loop
  PROVE  Earning'
  <1>0. /\ log \in [grounds : SUBSET Grounds, asking : {Off} \cup 0..(EimTimeout + 1),
                    blind : BOOLEAN]
    BY TypeParts DEF FlowInv, EngineType
  <1>. USE DEF Earning, EnergyIsEarned
  <1>1. CASE RecvTimeout \/ RecvFails \/ LegacyFrame
    BY <1>1 DEF RecvTimeout, RecvFails, LegacyFrame, Exit, engineVars, progressVars
  <1>2. CASE RepeatHandshake
    BY <1>2 DEF RepeatHandshake, engineVars, progressVars
  <1>3. CASE Babble
    BY <1>3 DEF Babble, IgnoreUndecodable, IgnoreUndecodableLegacy, RejectUndecodable, Ignore, Exit,
      engineVars, progressVars
  <1>4. CASE SequenceTimedOut
    BY <1>4 DEF SequenceTimedOut, progressVars
  <1>5. CASE Reset /\ UNCHANGED contactor /\ pc' = "recv"
    <2>1. (contactor = "closed") => log'.blind
      BY <1>5 DEF Reset, NewLog
    <2>. QED
      BY <1>5, <2>1 DEF Reset
  <1>6. CASE SendFails \/ SendRes
    BY <1>6 DEF SendFails, SendRes, Exit, engineVars, progressVars
  <1>7. CASE SendHandshakeRes \/ Connect
    BY <1>5, <1>7 DEF SendHandshakeRes, Connect
  <1>8. CASE HoldExpires \/ HoldPeerClose
    BY <1>8 DEF HoldExpires, HoldPeerClose, HoldOver, engineVars, progressVars
  <1>9. CASE Disconnect \/ ControllerOpens
    BY <1>9 DEF Disconnect, ControllerOpens, engineVars, progressVars, frameVars
  <1>10. CASE Tick
    <2>1. log'.grounds = log.grounds /\ log'.blind = log.blind
      BY <1>0, <1>10 DEF Tick
    <2>. QED
      BY <1>10, <2>1 DEF Tick, progressVars
  <1>. QED
    BY <1>1, <1>2, <1>3, <1>4, <1>6, <1>7, <1>8, <1>9, <1>10 DEF Loop, Send

\* Every step keeps the grounds and the contactors in step.
LEMMA EarningStep == FlowInv /\ Earning /\ [Next]_vars => Earning'
  <1>1. ASSUME Earning, UNCHANGED vars
        PROVE  Earning'
    BY <1>1 DEF Earning, EnergyIsEarned, vars, engineVars, progressVars, frameVars
  <1>. QED
    BY <1>1, Steps, RequestEarns, LoopEarns

\* The first state has no grounds and no contactor closed.
LEMMA EarningInit == Init => Earning
  BY DEF Init, Earning, EnergyIsEarned, NewLog

\* Energy flows on the grounds of this session alone: authorized, isolated and
\* precharged since its own handshake (secc_iso20.c, s20_state_accepts and the
\* handlers).
THEOREM EnergyEarned == Spec => []EnergyIsEarned
  <1>1. Earning => EnergyIsEarned
    BY DEF Earning
  <1>. QED
    BY <1>1, EarningInit, EarningStep, FlowInit, FlowStep, PTL DEF Spec

\* An orderly stop leaves the contactors open, unless the controller refused to
\* open them or a handshake made the engine forget them (secc_iso20.c).
THEOREM StopOpens == Spec => []StopLeavesContactorOpen
  <1>1. FlowInv /\ Earning => StopLeavesContactorOpen
    BY TypeParts DEF FlowInv, EngineType, Flow, Earning, StopLeavesContactorOpen
  <1>. QED
    BY <1>1, EarningInit, EarningStep, FlowInit, FlowStep, PTL DEF Spec

-------------------------------------------------------------------------------

(* The cause of an orderly stop with the contactors closed.  That there is one
   is what a run finds (CleanStopWithContactorsOpen); here is that nothing else
   leads to it than a handshake repeated while they are closed. *)

\* A handshake is answered while the contactors are open only.
HandshakesComeFirst == [][SendHandshakeRes => contactor = "open"]_vars

\* A session without all its grounds has closed no contactor, and neither does
\* one begin with a contactor closed.
CleanInv ==
  /\ log.grounds # Grounds => contactor = "open"
  /\ pc = "idle" => contactor = "open"

\* A request gives up no ground, and has a contactor close on all of them only.
LEMMA RequestIsClean ==
  ASSUME FlowInv, Earning, CleanInv, Refuse \/ Identify \/ Configure \/ Charge
  PROVE  CleanInv'
  <1>0. /\ log \in [grounds : SUBSET Grounds, asking : {Off} \cup 0..(EimTimeout + 1),
                    blind : BOOLEAN]
        /\ contactor \in {"open", "closed"} /\ state \in States
    BY TypeParts DEF FlowInv, EngineType, FrameType
  <1>1. ASSUME contactor' \in {contactor, "open"}, log.grounds \subseteq log'.grounds,
               log'.grounds \subseteq Grounds, pc' = "send"
        PROVE  CleanInv'
    BY <1>0, <1>1 DEF CleanInv
  <1>2. CASE Refuse \/ Configure \/ SessionSetup \/ AuthorizationSetup
    <2>1. UNCHANGED <<contactor, log>> /\ pc' = "send"
      BY <1>2 DEF Refuse, RefuseSession, RefuseSequence, Configure, ServiceDiscovery,
        ServiceDetail, ServiceSelection, ChargeParameterDiscovery, ScheduleExchange,
        SessionSetup, AuthorizationSetup, Simple, Continue, Answer
    <2>. QED
      BY <1>0, <1>1, <2>1
  <1>3. CASE Authorization
    <2>1. contactor' = contactor /\ pc' = "send"
      BY <1>3 DEF Authorization, Continue, Answer
    <2>2. log'.grounds \in {log.grounds, log.grounds \cup {"authorized"}}
      BY <1>0, <1>3 DEF Authorization
    <2>. QED
      BY <1>0, <1>1, <2>1, <2>2 DEF Grounds
  <1>4. CASE CableCheck \/ PreCharge
    <2>1. contactor' = contactor /\ pc' = "send"
      BY <1>4 DEF CableCheck, PreCharge, Continue, Answer
    <2>2. log'.grounds \in {log.grounds, log.grounds \cup {"isolated"},
                            log.grounds \cup {"precharged"}}
      BY <1>0, <1>4 DEF CableCheck, PreCharge
    <2>. QED
      BY <1>0, <1>1, <2>1, <2>2 DEF Grounds
  <1>5. CASE Start
    <2>1. log.grounds = Grounds
      BY <1>0, <1>5, AcceptedIn DEF Start, Accepted, Earning, Grounds
    <2>2. log' = log /\ pc' = "send"
      BY <1>5 DEF Start, Continue, Answer
    <2>. QED
      BY <2>1, <2>2 DEF CleanInv
  <1>6. CASE PowerStop
    <2>1. contactor' \in {contactor, "open"} /\ log'.grounds = log.grounds /\ pc' = "send"
      BY <1>0, <1>6 DEF PowerStop, OpenContactor, Continue, Answer
    <2>. QED
      BY <1>0, <1>1, <2>1
  <1>7. CASE OtherPowerDelivery \/ ChargeLoop \/ WeldingDetection \/ SessionStop
    <2>1. UNCHANGED <<contactor, log>> /\ pc' = "send"
      BY <1>7 DEF OtherPowerDelivery, ChargeLoop, WeldingDetection, SessionStop, Continue, Answer
    <2>. QED
      BY <1>0, <1>1, <2>1
  <1>. QED
    BY <1>2, <1>3, <1>4, <1>5, <1>6, <1>7 DEF Identify, Charge

\* The stream loop forgets grounds only with a handshake's answer.
LEMMA LoopIsClean ==
  ASSUME FlowInv, CleanInv, Loop, SendHandshakeRes => contactor = "open"
  PROVE  CleanInv'
  <1>0. log \in [grounds : SUBSET Grounds, asking : {Off} \cup 0..(EimTimeout + 1),
                 blind : BOOLEAN]
    BY TypeParts DEF FlowInv, EngineType
  <1>. USE DEF CleanInv
  <1>1. CASE RecvTimeout \/ RecvFails \/ LegacyFrame \/ RepeatHandshake \/ SequenceTimedOut
    BY <1>1 DEF RecvTimeout, RecvFails, LegacyFrame, RepeatHandshake, SequenceTimedOut, Exit
  <1>2. CASE Babble
    BY <1>2 DEF Babble, IgnoreUndecodable, IgnoreUndecodableLegacy, RejectUndecodable, Ignore, Exit
  <1>3. CASE SendFails \/ SendRes \/ HoldExpires \/ HoldPeerClose
    BY <1>3 DEF SendFails, SendRes, HoldExpires, HoldPeerClose, HoldOver, Exit
  <1>4. CASE SendHandshakeRes \/ Connect
    BY <1>4 DEF SendHandshakeRes, Connect
  <1>5. CASE Disconnect \/ ControllerOpens
    BY <1>5 DEF Disconnect, ControllerOpens
  <1>6. CASE Tick
    <2>1. log'.grounds = log.grounds
      BY <1>0, <1>6 DEF Tick
    <2>. QED
      BY <1>6, <2>1 DEF Tick
  <1>. QED
    BY <1>1, <1>2, <1>3, <1>4, <1>5, <1>6 DEF Loop, Send

\* As long as no handshake is repeated while the contactors are closed, a session
\* that stops before it has earned its energy stops with the contactors open,
\* also when the controller refused to open them in an earlier one
\* (secc_iso20.c, jpv2g_secc20_reset and s20_state_accepts).
THEOREM CleanStop == Spec /\ HandshakesComeFirst => []CleanStopWithContactorsOpen
  <1>1. Init => CleanInv
    BY DEF Init, CleanInv
  <1>2. /\ FlowInv /\ Earning /\ CleanInv
        /\ [Next]_vars /\ [SendHandshakeRes => contactor = "open"]_vars
        => CleanInv'
    <2>1. ASSUME CleanInv, UNCHANGED vars
          PROVE  CleanInv'
      BY <2>1 DEF CleanInv, vars, frameVars
    <2>. QED
      BY <2>1, Steps, RequestIsClean, LoopIsClean
  <1>3. CleanInv => CleanStopWithContactorsOpen
    BY DEF CleanInv, CleanStopWithContactorsOpen
  <1>. QED
    BY <1>1, <1>2, <1>3, EarningInit, EarningStep, FlowInit, FlowStep, PTL
    DEF Spec, HandshakesComeFirst

-------------------------------------------------------------------------------

(* The hold.  That it ends needs the fairness of the clock and of the loop,
   which stays with TLC; that nothing restarts its deadline does not. *)

\* The deadline of a hold is set, and no later than it may be.
HoldHasDeadline == pc = "hold" => hold \in {Late} \cup 0..HoldTime

\* A hold is over, or goes on with the deadline it has.
Holding ==
  pc = "hold" =>
    \/ pc' = "done"
    \/ pc' = "hold" /\ hold' = IF Tick THEN Elapse(hold) ELSE hold

HoldShrinks == [][Holding]_vars

\* A hold has a deadline from its first moment, and only the clock moves it:
\* whatever the vehicle goes on sending is thrown away and buys no time
\* (secc.c, the hold of jpv2g_secc_handle_stream_obs).
THEOREM HoldRunsOut == Spec => []HoldHasDeadline /\ HoldShrinks
  <1>1. Init => HoldHasDeadline
    BY DEF Init, HoldHasDeadline
  <1>2. TypeOK /\ HoldHasDeadline /\ [Next]_vars => [Holding]_vars
    <2>. SUFFICES ASSUME Next, pc = "hold"
                  PROVE  \/ pc' = "done"
                         \/ pc' = "hold" /\ hold' = IF Tick THEN Elapse(hold) ELSE hold
      BY DEF Holding
    <2>1. CASE Tick
      BY <2>1 DEF Tick
    <2>2. CASE ControllerOpens
      <3>1. UNCHANGED <<pc, hold>>
        BY <2>2 DEF ControllerOpens, frameVars, exitVars
      <3>2. Tick => hold' = Elapse(hold)
        BY DEF Tick
      <3>. QED
        BY <3>1, <3>2
    <2>3. CASE HoldExpires \/ HoldPeerClose
      BY <2>3 DEF HoldExpires, HoldPeerClose, HoldOver
    <2>4. ~(Connect \/ Disconnect \/ Send)
      BY DEF Connect, Disconnect, Send, SendFails, SendHandshakeRes, SendRes
    <2>5. ~Receive
      BY DEF Receive, RecvTimeout, RecvFails, LegacyFrame, RepeatHandshake, SequenceTimedOut,
        Babble, IgnoreUndecodable, IgnoreUndecodableLegacy, Ignore, RejectUndecodable,
        Refuse, RefuseSession, RefuseSequence, Identify, SessionSetup, AuthorizationSetup,
        Authorization, Configure, ServiceDiscovery, ServiceDetail, ServiceSelection,
        ChargeParameterDiscovery, ScheduleExchange, Simple, Charge, CableCheck, PreCharge,
        Start, PowerStop, OtherPowerDelivery, ChargeLoop, WeldingDetection, SessionStop,
        Accepted, InTime
    <2>. QED
      BY <2>1, <2>2, <2>3, <2>4, <2>5 DEF Next
  <1>3. FlowInv /\ HoldHasDeadline /\ [Next]_vars => HoldHasDeadline'
    <2>. SUFFICES ASSUME FlowInv, HoldHasDeadline, [Next]_vars, pc' = "hold"
                  PROVE  hold' \in {Late} \cup 0..HoldTime
      BY DEF HoldHasDeadline
    <2>1. CASE pc = "hold"
      <3>1. hold \in {Late} \cup 0..HoldTime
        BY <2>1 DEF HoldHasDeadline
      <3>2. Holding \/ UNCHANGED <<pc, hold>>
        BY <1>2, <2>1 DEF FlowInv, vars, frameVars, exitVars
      <3>3. hold' = hold \/ hold' = Elapse(hold)
        BY <2>1, <3>2 DEF Holding
      <3>. QED
        BY <3>1, <3>3, TimeoutAssumption DEF Elapse, Late
    <2>2. CASE pc # "hold"
      <3>1. SequenceTimedOut \/ SendRes
        <4>1. Loop
          <5>1. ~FrameAnswered
            BY DEF FrameAnswered, Answer
          <5>2. Next
            BY <2>2 DEF vars, frameVars
          <5>. QED
            BY <5>1, <5>2, Steps
        <4>. QED
          BY <2>2, <4>1 DEF Loop, RecvTimeout, RecvFails, LegacyFrame, RepeatHandshake,
            Babble, IgnoreUndecodable, IgnoreUndecodableLegacy, Ignore, RejectUndecodable,
            Send, SendFails, SendHandshakeRes, HoldExpires, HoldPeerClose, HoldOver, Connect,
            Disconnect, ControllerOpens, Tick, Exit, frameVars
      <3>2. hold' = HoldFor
        BY <2>2, <3>1 DEF SequenceTimedOut, SendRes
      <3>. QED
        BY <3>2, TimeoutAssumption DEF HoldFor
    <2>. QED
      BY <2>1, <2>2
  <1>. QED
    BY <1>1, <1>2, <1>3, TypeCorrect, FlowInit, FlowStep, PTL DEF Spec, HoldShrinks

-------------------------------------------------------------------------------

(* The deadline of the authorization. *)

\* The time since a session first asked, and what is left of its deadline.
Asking ==
  /\ state \in {"SESSION_SETUP", "AUTH_SETUP"} => eim_deadline = Off /\ log.asking = Off
  /\ state = "AUTHORIZATION" =>
       \/ eim_deadline = Off /\ log.asking = Off
       \/ /\ eim_deadline \in 0..EimTimeout /\ log.asking \in 0..EimTimeout
          /\ log.asking + eim_deadline = EimTimeout
       \/ eim_deadline = Late

\* A request outside AUTHORIZATION leaves the deadline alone, and its answer is no
\* AuthorizationRes but a refusal.
LEMMA OthersLeaveDeadline ==
  ASSUME FlowInv, Refuse \/ Identify \/ Configure \/ Charge, ~Authorization
  PROVE  /\ eim_deadline' = eim_deadline /\ log'.asking = log.asking
         /\ state' \notin {"SESSION_SETUP", "AUTH_SETUP", "AUTHORIZATION"} \/ state' = state
              \/ state \in {"SESSION_SETUP", "AUTH_SETUP"}
         /\ out'.kind = "Authorization" =>
              out'.code \in {"FAILED_UnknownSession", "FAILED_SequenceError"}
  <1>0. log \in [grounds : SUBSET Grounds, asking : {Off} \cup 0..(EimTimeout + 1),
                 blind : BOOLEAN]
    BY TypeParts DEF FlowInv, EngineType
  <1>1. CASE Refuse
    BY <1>1, ContinueDoes DEF Refuse, RefuseSession, RefuseSequence, ongoingVars
  <1>2. ASSUME NEW kind, NEW next, NEW refusals, Simple(kind, next, refusals),
               kind # "Authorization",
               \/ next \notin {"SESSION_SETUP", "AUTH_SETUP", "AUTHORIZATION"}
               \/ next = state
               \/ state = "AUTH_SETUP"
        PROVE  /\ eim_deadline' = eim_deadline /\ log'.asking = log.asking
               /\ state' \notin {"SESSION_SETUP", "AUTH_SETUP", "AUTHORIZATION"}
                    \/ state' = state \/ state \in {"SESSION_SETUP", "AUTH_SETUP"}
               /\ out'.kind # "Authorization"
    BY <1>2, ContinueDoes DEF Simple, ongoingVars
  <1>3. CASE SessionSetup \/ AuthorizationSetup
    <2>1. state \in {"SESSION_SETUP", "AUTH_SETUP"}
      BY <1>3, AcceptedIn, TypeParts DEF SessionSetup, AuthorizationSetup, Simple, Accepted,
        FlowInv, FrameType
    <2>2. UNCHANGED <<eim_deadline, log>>
      BY <1>3 DEF SessionSetup, AuthorizationSetup, Simple, ongoingVars
    <2>3. out'.kind # "Authorization"
      BY <1>3, ContinueDoes DEF SessionSetup, AuthorizationSetup, Simple
    <2>. QED
      BY <2>1, <2>2, <2>3
  <1>4. CASE Configure
    <2>1. CASE ServiceDiscovery \/ ServiceDetail \/ ServiceSelection \/ ChargeParameterDiscovery
      BY <1>2, <2>1 DEF ServiceDiscovery, ServiceDetail, ServiceSelection, ChargeParameterDiscovery
    <2>2. CASE ScheduleExchange
      BY <2>2, ContinueDoes DEF ScheduleExchange
    <2>. QED
      BY <1>4, <2>1, <2>2 DEF Configure
  <1>5. CASE CableCheck
    BY <1>0, <1>5, ContinueDoes DEF CableCheck, ongoingVars
  <1>6. CASE PreCharge
    BY <1>0, <1>6, ContinueDoes DEF PreCharge, ongoingVars
  <1>7. CASE Start
    BY <1>7, ContinueDoes DEF Start, ongoingVars
  <1>8. CASE PowerStop
    <2>1. log'.asking = log.asking
      BY <1>0, <1>8 DEF PowerStop, OpenContactor
    <2>. QED
      BY <1>8, <2>1, ContinueDoes DEF PowerStop, ongoingVars
  <1>9. CASE OtherPowerDelivery \/ ChargeLoop \/ WeldingDetection
    BY <1>9, ContinueDoes DEF OtherPowerDelivery, ChargeLoop, WeldingDetection, ongoingVars
  <1>10. CASE SessionStop
    <2>1. CASE Continue("SessionStop", "FAILED_NoServiceRenegotiationSupported", state)
      BY <1>10, <2>1, ContinueDoes DEF SessionStop, ongoingVars
    <2>2. ASSUME NEW asked \in {"STOPPED", "PAUSED"}, Answer("SessionStop", "OK", state, asked)
          PROVE  state' = "ENDED" /\ out'.kind = "SessionStop"
      BY <2>2 DEF Answer, Disposition
    <2>. QED
      BY <1>10, <2>1, <2>2 DEF SessionStop, ongoingVars
  <1>. QED
    BY <1>1, <1>3, <1>4, <1>5, <1>6, <1>7, <1>8, <1>9, <1>10 DEF Identify, Charge

\* An AuthorizationReq arms the deadline once, and an answer that does not refuse
\* comes before it.
LEMMA AuthorizationAsks ==
  ASSUME FlowInv, Asking, Authorization
  PROVE  /\ Asking'
         /\ out'.code \in {"OK", "Ongoing", "WARNING_EIMAuthorizationFailure"} =>
              log'.asking <= EimTimeout
  <1> DEFINE deadline == Armed(eim_deadline, EimTimeout)
             asking == IF log.asking = Off THEN 0 ELSE log.asking
  <1>0. log \in [grounds : SUBSET Grounds, asking : {Off} \cup 0..(EimTimeout + 1),
                 blind : BOOLEAN]
    BY TypeParts DEF FlowInv, EngineType
  <1>1. state = "AUTHORIZATION"
    BY AcceptedIn, TypeParts DEF Authorization, Accepted, FlowInv, FrameType
  <1>2. \/ deadline = Late
        \/ /\ deadline \in 0..EimTimeout /\ asking \in 0..EimTimeout
           /\ asking + deadline = EimTimeout
    BY <1>1, TimeoutAssumption DEF Asking, Armed, Off, Late
  <1>3. \/ /\ \E code \in Codes : Continue("Authorization", code, state)
           /\ out'.code \in {"OK", "Ongoing", "WARNING_EIMAuthorizationFailure"} =>
                ~Passed(deadline)
           /\ eim_deadline' = deadline /\ log' = [log EXCEPT !.asking = asking]
        \/ /\ Continue("Authorization", "OK", "SERVICE_DISCOVERY")
           /\ ~Passed(deadline)
           /\ log' = [log EXCEPT !.asking = asking, !.grounds = @ \cup {"authorized"}]
    BY ContinueDoes DEF Authorization, Codes, Warnings, Failures
  <1>. HIDE DEF deadline, asking
  <1>4. log'.asking = asking
    BY <1>0, <1>3
  <1>5. /\ state' \notin {"SESSION_SETUP", "AUTH_SETUP"}
        /\ state' = "AUTHORIZATION" => eim_deadline' = deadline
    BY <1>1, <1>3, ContinueDoes DEF Failures
  <1>6. Asking'
    BY <1>2, <1>4, <1>5 DEF Asking
  <1>7. out'.code \in {"OK", "Ongoing", "WARNING_EIMAuthorizationFailure"} => ~Passed(deadline)
    BY <1>3
  <1>. QED
    BY <1>2, <1>4, <1>6, <1>7, TimeoutAssumption DEF Passed, Late

\* Every step keeps the time and the deadline together.
LEMMA AskingStep == FlowInv /\ Asking /\ [Next]_vars => Asking'
  <1>. SUFFICES ASSUME FlowInv, Asking, [Next]_vars
                PROVE  Asking'
    OBVIOUS
  <1>0. log \in [grounds : SUBSET Grounds, asking : {Off} \cup 0..(EimTimeout + 1),
                 blind : BOOLEAN]
    BY TypeParts DEF FlowInv, EngineType
  <1>1. CASE UNCHANGED vars
    BY <1>1 DEF Asking, vars, engineVars, ongoingVars
  <1>2. CASE Refuse \/ Identify \/ Configure \/ Charge
    <2>1. CASE Authorization
      BY <2>1, AuthorizationAsks
    <2>2. CASE ~Authorization
      BY <1>2, <2>2, OthersLeaveDeadline DEF Asking
    <2>. QED
      BY <2>1, <2>2
  <1>. USE DEF Asking
  <1>3. CASE RecvTimeout \/ RecvFails \/ LegacyFrame \/ RepeatHandshake
    BY <1>3 DEF RecvTimeout, RecvFails, LegacyFrame, RepeatHandshake, Exit, engineVars, ongoingVars
  <1>4. CASE Babble
    BY <1>4 DEF Babble, IgnoreUndecodable, IgnoreUndecodableLegacy, RejectUndecodable, Ignore, Exit,
      engineVars, ongoingVars
  <1>5. CASE SequenceTimedOut
    BY <1>5 DEF SequenceTimedOut
  <1>6. CASE SendFails \/ SendRes
    BY <1>6 DEF SendFails, SendRes, Exit, engineVars, ongoingVars
  <1>7. CASE SendHandshakeRes \/ Connect
    <2>1. Reset
      BY <1>7 DEF SendHandshakeRes, Connect
    <2>. QED
      BY <2>1 DEF Reset, NewLog
  <1>8. CASE HoldExpires \/ HoldPeerClose \/ Disconnect \/ ControllerOpens
    BY <1>8 DEF HoldExpires, HoldPeerClose, HoldOver, Disconnect, ControllerOpens, engineVars,
      ongoingVars
  <1>9. CASE Tick
    <2>1. /\ state' = state /\ eim_deadline' = Elapse(eim_deadline)
          /\ log'.asking = IF log.asking \in 0..EimTimeout THEN log.asking + 1 ELSE log.asking
      BY <1>0, <1>9 DEF Tick
    <2>2. /\ Off \notin 0..EimTimeout /\ Elapse(Off) = Off /\ Elapse(Late) = Late
          /\ \A d \in 0..EimTimeout : Elapse(d) = d - 1
      BY DEF Elapse, Off, Late
    <2>3. CASE eim_deadline = Off /\ log.asking = Off
      BY <2>1, <2>2, <2>3
    <2>4. CASE eim_deadline = Late
      BY <2>1, <2>2, <2>4 DEF Off, Late
    <2>5. CASE /\ eim_deadline \in 0..EimTimeout /\ log.asking \in 0..EimTimeout
               /\ log.asking + eim_deadline = EimTimeout
      BY <2>1, <2>2, <2>5, TimeoutAssumption DEF Off, Late
    <2>. QED
      BY <2>1, <2>3, <2>4, <2>5
  <1>. QED
    BY <1>1, <1>2, <1>3, <1>4, <1>5, <1>6, <1>7, <1>8, <1>9 DEF Next, Receive, Send

\* Once EimTimeout has passed since a session first asked, it is neither granted
\* nor told to ask on (secc_iso20.c, the authorization handler).
THEOREM AuthorizationInTime == Spec => AuthorizationHasDeadline
  <1>1. Init => Asking
    BY DEF Init, Asking, NewLog
  <1> DEFINE InDeadline ==
               ( /\ pc = "recv" /\ pc' = "send"
                 /\ out'.kind = "Authorization"
                 /\ out'.code \in {"OK", "Ongoing", "WARNING_EIMAuthorizationFailure"} )
               => log'.asking <= EimTimeout
  <1>2. FlowInv /\ Asking /\ [Next]_vars => [InDeadline]_vars
    <2>. SUFFICES ASSUME FlowInv, Asking, Next, pc = "recv", pc' = "send",
                         out'.kind = "Authorization",
                         out'.code \in {"OK", "Ongoing", "WARNING_EIMAuthorizationFailure"}
                  PROVE  log'.asking <= EimTimeout
      OBVIOUS
    <2>1. CASE Authorization
      BY <2>1, AuthorizationAsks
    <2>2. CASE Refuse \/ Identify \/ Configure \/ Charge
      BY <2>1, <2>2, OthersLeaveDeadline
    <2>3. CASE Loop
      BY <2>3 DEF Loop, RecvTimeout, RecvFails, LegacyFrame, RepeatHandshake, Babble,
        IgnoreUndecodable, IgnoreUndecodableLegacy, RejectUndecodable, Ignore, SequenceTimedOut,
        Send, SendFails, SendHandshakeRes, SendRes, HoldExpires, HoldPeerClose, HoldOver, Connect,
        Disconnect, ControllerOpens, Tick, Exit, frameVars
    <2>. QED
      BY <2>2, <2>3, Steps
  <1>. HIDE DEF InDeadline
  <1>3. [][InDeadline]_vars => AuthorizationHasDeadline
    BY DEF InDeadline, AuthorizationHasDeadline
  <1>. QED
    BY <1>1, <1>2, <1>3, AskingStep, FlowInit, FlowStep, PTL DEF Spec

-------------------------------------------------------------------------------

(* The session keeps the promises of EnergySession. *)

\* The grounds a state has behind it.
Behind(s) == {g \in Grounds : s \in Established(g)}

\* What the power path sees, as a function of what it is seen in.
StageOf(p, d, s, closed) ==
  IF p = "idle" THEN "none"
  ELSE IF d \in {"STOPPED", "PAUSED"} THEN "stopped"
  ELSE IF p = "done" \/ s = "ENDED" THEN "broken"
  ELSE IF closed THEN "energised"
  ELSE IF s \in {"WELDING", "SESSION_STOP"} THEN "relieved"
  ELSE "preparing"

ObtainedOf(p, d, s, closed) ==
  IF StageOf(p, d, s, closed) \in {"preparing", "energised", "relieved"} THEN Behind(s) ELSE {}

\* Both before and after a step.
LEMMA SeenAs ==
  /\ Stage = StageOf(pc, disposition, state, contactor_closed)
  /\ Stage' = StageOf(pc', disposition', state', contactor_closed')
  /\ Obtained = ObtainedOf(pc, disposition, state, contactor_closed)
  /\ Obtained' = ObtainedOf(pc', disposition', state', contactor_closed')
  <1>1. /\ Stage = StageOf(pc, disposition, state, contactor_closed)
        /\ Stage' = StageOf(pc', disposition', state', contactor_closed')
    BY DEF Stage, StageOf
  <1>. QED
    BY <1>1 DEF Obtained, ObtainedOf, Behind

\* A session that is going on.
LEMMA LiveStage ==
  ASSUME NEW p \in {"recv", "send", "hold"}, NEW d \in {"CONTINUE", "FAILED"},
         NEW s \in States \ {"ENDED"}, NEW closed \in BOOLEAN
  PROVE  /\ StageOf(p, d, s, closed) =
              IF closed THEN "energised"
              ELSE IF s \in {"WELDING", "SESSION_STOP"} THEN "relieved" ELSE "preparing"
         /\ ObtainedOf(p, d, s, closed) = Behind(s)
  BY DEF StageOf, ObtainedOf

\* A session that has ended, with its answer still to be sent or not.
LEMMA DeadStage ==
  ASSUME NEW p, p # "idle", NEW s, NEW closed
  PROVE  /\ \A d \in {"STOPPED", "PAUSED"} :
              StageOf(p, d, s, closed) = "stopped" /\ ObtainedOf(p, d, s, closed) = {}
         /\ p = "done" \/ s = "ENDED" =>
              \A d \in {"CONTINUE", "FAILED"} :
                StageOf(p, d, s, closed) = "broken" /\ ObtainedOf(p, d, s, closed) = {}
  BY DEF StageOf, ObtainedOf

\* No session.
LEMMA NoStage ==
  ASSUME NEW d, NEW s, NEW closed
  PROVE  StageOf("idle", d, s, closed) = "none" /\ ObtainedOf("idle", d, s, closed) = {}
  BY DEF StageOf, ObtainedOf

\* The grounds in the order of the states.
LEMMA BehindIs ==
  /\ \A s \in {"SESSION_SETUP", "AUTH_SETUP", "AUTHORIZATION"} : Behind(s) = {}
  /\ \A s \in {"SERVICE_DISCOVERY", "SERVICE_DETAIL", "DC_CPD", "SCHEDULE_EXCHANGE",
               "CABLE_CHECK"} : Behind(s) = {"authorized"}
  /\ Behind("PRE_CHARGE") = {"authorized", "isolated"}
  /\ \A s \in {"POWER_DELIVERY", "CHARGE_LOOP", "WELDING", "SESSION_STOP"} : Behind(s) = Grounds
  BY DEF Behind, Established, Grounds, States

\* An abstract step, seen between two states.
LEMMA AbstractStep ==
  ASSUME \/ Stage' = Stage /\ Obtained' = Obtained
         \/ Stage' = "preparing" /\ Obtained' = {}
         \/ Stage \in {"preparing", "energised", "relieved"} /\ Stage' = "broken" /\ Obtained' = {}
         \/ Stage \in {"preparing", "relieved"} /\ Stage' = "stopped" /\ Obtained' = {}
         \/ Stage \in {"stopped", "broken"} /\ Stage' = "none" /\ Obtained' = Obtained
         \/ /\ Stage = "preparing" /\ Stage' = "energised"
            /\ Obtained = Grounds /\ Obtained' = Grounds
         \/ /\ Stage \in {"preparing", "energised"} /\ Stage' = "relieved"
            /\ Obtained = Grounds /\ Obtained' = Grounds
         \/ /\ Stage = "preparing" /\ Stage' = "preparing"
            /\ \E g \in Grounds : Before[g] \subseteq Obtained /\ Obtained' = Obtained \cup {g}
  PROVE  [Energy!Next]_(Energy!vars)
  BY DEF Energy!Next, Energy!vars, Energy!Begin, Energy!Break, Energy!Stop, Energy!Leave,
         Energy!Energise, Energy!Relieve, Energy!Establish

\* What is seen of a request before its answer.
LEMMA SeenBefore ==
  ASSUME FlowInv, pc = "recv"
  PROVE  /\ state \in States \ {"ENDED"}
         /\ Stage = IF contactor_closed THEN "energised"
                    ELSE IF state \in {"WELDING", "SESSION_STOP"} THEN "relieved" ELSE "preparing"
         /\ Obtained = Behind(state)
  <1>1. /\ state \in States \ {"ENDED"} /\ disposition = "CONTINUE" /\ contactor_closed \in BOOLEAN
    BY TypeParts DEF FlowInv, Flow, FrameType, EngineType
  <1>. QED
    BY <1>1, SeenAs, LiveStage

\* And after it: the session breaks off with a failure, and stands in the state
\* the answer leads to otherwise.
LEMMA SeenAfter ==
  ASSUME NEW kind, NEW code, NEW next \in States \ {"ENDED"}, Continue(kind, code, next),
         contactor_closed' \in BOOLEAN
  PROVE  \/ Stage' = "broken" /\ Obtained' = {} /\ code \in Failures
         \/ /\ Stage' = IF contactor_closed' THEN "energised"
                        ELSE IF next \in {"WELDING", "SESSION_STOP"} THEN "relieved"
                        ELSE "preparing"
            /\ Obtained' = Behind(next)
            /\ code \notin Failures
  <1>1. pc' = "send"
    BY DEF Continue, Answer
  <1>2. CASE code \in Failures
    <2>1. disposition' = "FAILED" /\ state' = "ENDED"
      BY <1>2 DEF Continue, Answer, Disposition
    <2>. QED
      BY <1>1, <1>2, <2>1, SeenAs, DeadStage
  <1>3. CASE code \notin Failures
    <2>1. disposition' = "CONTINUE" /\ state' = next
      BY <1>3, ContinueDoes DEF Continue, Answer, Disposition
    <2>. QED
      BY <1>1, <1>3, <2>1, SeenAs, LiveStage
  <1>. QED
    BY <1>2, <1>3

\* An answer that breaks the session off, or leaves what is seen of it.
LEMMA SameSeen ==
  ASSUME FlowInv, pc = "recv", NEW kind, NEW code, NEW next, Continue(kind, code, next),
         contactor_closed' = contactor_closed,
         \/ next = state
         \/ state = "SESSION_SETUP" /\ next = "AUTH_SETUP"
         \/ state = "AUTH_SETUP" /\ next = "AUTHORIZATION"
         \/ state = "SERVICE_DISCOVERY" /\ next = "SERVICE_DETAIL"
         \/ state = "SERVICE_DETAIL" /\ next = "DC_CPD"
         \/ state = "DC_CPD" /\ next = "SCHEDULE_EXCHANGE"
         \/ state = "SCHEDULE_EXCHANGE" /\ next = "CABLE_CHECK"
         \/ state = "PRE_CHARGE" /\ next = "PRE_CHARGE"
         \/ state = "WELDING" /\ next = "SESSION_STOP"
  PROVE  [Energy!Next]_(Energy!vars)
  <1>1. next \in States \ {"ENDED"} /\ contactor_closed' \in BOOLEAN
    BY SeenBefore, TypeParts DEF FlowInv, EngineType, States
  <1>2. CASE Stage' = "broken" /\ Obtained' = {}
    <2>1. Stage \in {"preparing", "energised", "relieved"}
      BY SeenBefore
    <2>. QED
      BY <1>2, <2>1, AbstractStep
  <1>3. CASE /\ Stage' = IF contactor_closed' THEN "energised"
                         ELSE IF next \in {"WELDING", "SESSION_STOP"} THEN "relieved"
                         ELSE "preparing"
             /\ Obtained' = Behind(next)
    <2>1. Behind(next) = Behind(state)
      BY BehindIs
    <2>2. Stage' = Stage /\ Obtained' = Obtained
      BY <1>3, <2>1, SeenBefore
    <2>. QED
      BY <2>2, AbstractStep
  <1>. QED
    BY <1>1, <1>2, <1>3, SeenAfter

\* Every answer is a step of the abstract session, or none.
LEMMA RequestRefines ==
  ASSUME FlowInv, Earning, Refuse \/ Identify \/ Configure \/ Charge, pc = "recv"
  PROVE  [Energy!Next]_(Energy!vars)
  <1>0. /\ state \in States /\ state # "ENDED" /\ contactor_closed \in BOOLEAN
        /\ state # "CHARGE_LOOP" => ~contactor_closed
    BY SeenBefore, TypeParts DEF FlowInv, EngineType, Earning
  <1>1. CASE Refuse
    <2>1. PICK kind, code : Continue(kind, code, state) /\ UNCHANGED progressVars
      BY <1>1 DEF Refuse, RefuseSession, RefuseSequence
    <2>. QED
      BY <2>1, SameSeen DEF progressVars
  <1>2. ASSUME NEW kind, NEW next, NEW refusals, Simple(kind, next, refusals),
               \/ next = state
               \/ state = "AUTH_SETUP" /\ next = "AUTHORIZATION"
               \/ state = "SERVICE_DISCOVERY" /\ next = "SERVICE_DETAIL"
               \/ state = "SERVICE_DETAIL" /\ next = "DC_CPD"
               \/ state = "DC_CPD" /\ next = "SCHEDULE_EXCHANGE"
        PROVE  [Energy!Next]_(Energy!vars)
    <2>1. PICK code, to : Continue(kind, code, to) /\ to \in {next, state}
      BY <1>2 DEF Simple
    <2>2. contactor_closed' = contactor_closed
      BY <1>2 DEF Simple, progressVars
    <2>. QED
      BY <1>2, <2>1, <2>2, SameSeen
  <1>3. CASE SessionSetup
    <2>1. state = "SESSION_SETUP"
      BY <1>0, <1>3, AcceptedIn DEF SessionSetup, Accepted
    <2>. QED
      BY <1>3, <2>1, SameSeen DEF SessionSetup
  <1>4. CASE AuthorizationSetup \/ ServiceDiscovery \/ ServiceSelection \/ ChargeParameterDiscovery
    BY <1>0, <1>2, <1>4, AcceptedIn DEF AuthorizationSetup, ServiceDiscovery, ServiceSelection,
      ChargeParameterDiscovery, Simple, Accepted
  <1>5. CASE ServiceDetail
    BY <1>2, <1>5 DEF ServiceDetail
  <1>6. CASE Authorization
    <2>1. state = "AUTHORIZATION" /\ contactor_closed' = contactor_closed
      BY <1>0, <1>6, AcceptedIn DEF Authorization, Accepted, progressVars
    <2>2. CASE Continue("Authorization", "OK", "SERVICE_DISCOVERY")
      <3>1. Stage' = "preparing" /\ Obtained' = Behind("SERVICE_DISCOVERY")
        BY <1>0, <2>1, <2>2, SeenAfter DEF Failures, States
      <3>2. Stage = "preparing" /\ Obtained = Behind("AUTHORIZATION")
        BY <1>0, <2>1, SeenBefore
      <3>3. /\ Before["authorized"] \subseteq Obtained
            /\ Obtained' = Obtained \cup {"authorized"} /\ "authorized" \in Grounds
        BY <3>1, <3>2, BehindIs DEF Before, Grounds
      <3>. QED
        BY <3>1, <3>2, <3>3, AbstractStep
    <2>3. ASSUME NEW code, Continue("Authorization", code, state)
          PROVE  [Energy!Next]_(Energy!vars)
      BY <2>1, <2>3, SameSeen
    <2>. QED
      BY <1>6, <2>2, <2>3 DEF Authorization
  <1>7. CASE ScheduleExchange
    <2>1. state = "SCHEDULE_EXCHANGE" /\ contactor_closed' = contactor_closed
      BY <1>0, <1>7, AcceptedIn DEF ScheduleExchange, Accepted, progressVars
    <2>2. PICK code, next : Continue("ScheduleExchange", code, next)
                              /\ next \in {state, "CABLE_CHECK"}
      BY <1>7 DEF ScheduleExchange
    <2>. QED
      BY <2>1, <2>2, SameSeen
  <1>8. CASE CableCheck
    <2>1. state = "CABLE_CHECK" /\ contactor_closed' = contactor_closed
      BY <1>0, <1>8, AcceptedIn DEF CableCheck, Accepted
    <2>2. CASE Continue("DC_CableCheck", "OK", "PRE_CHARGE")
      <3>1. Stage' = "preparing" /\ Obtained' = Behind("PRE_CHARGE")
        BY <1>0, <2>1, <2>2, SeenAfter DEF Failures, States
      <3>2. Stage = "preparing" /\ Obtained = Behind("CABLE_CHECK")
        BY <1>0, <2>1, SeenBefore
      <3>3. /\ Before["isolated"] \subseteq Obtained
            /\ Obtained' = Obtained \cup {"isolated"} /\ "isolated" \in Grounds
        BY <3>1, <3>2, BehindIs DEF Before, Grounds
      <3>. QED
        BY <3>1, <3>2, <3>3, AbstractStep
    <2>3. ASSUME NEW code, Continue("DC_CableCheck", code, state)
          PROVE  [Energy!Next]_(Energy!vars)
      BY <2>1, <2>3, SameSeen
    <2>. QED
      BY <1>8, <2>2, <2>3 DEF CableCheck
  <1>9. CASE PreCharge
    <2>1. state \in {"PRE_CHARGE", "POWER_DELIVERY"} /\ contactor_closed' = contactor_closed
      BY <1>0, <1>9, AcceptedIn DEF PreCharge, Accepted, progressVars
    <2>2. Continue("DC_PreCharge", "OK", "POWER_DELIVERY")
      BY <1>9 DEF PreCharge
    <2>3. Stage' = "preparing" /\ Obtained' = Grounds
      BY <1>0, <2>1, <2>2, SeenAfter, BehindIs DEF Failures, States
    <2>4. Stage = "preparing" /\ Obtained = Behind(state)
      BY <1>0, <2>1, SeenBefore
    <2>5. CASE state = "PRE_CHARGE"
      <3>1. /\ Before["precharged"] \subseteq Obtained
            /\ Obtained' = Obtained \cup {"precharged"} /\ "precharged" \in Grounds
        BY <2>3, <2>4, <2>5, BehindIs DEF Before, Grounds
      <3>. QED
        BY <2>3, <2>4, <3>1, AbstractStep
    <2>6. CASE state = "POWER_DELIVERY"
      BY <2>3, <2>4, <2>6, BehindIs, AbstractStep
    <2>. QED
      BY <2>1, <2>5, <2>6
  <1>10. CASE Start
    <2>1. state = "POWER_DELIVERY"
      BY <1>0, <1>10, AcceptedIn DEF Start, Accepted
    <2>2. CASE Continue("PowerDelivery", "OK", "CHARGE_LOOP") /\ contactor_closed' = TRUE
      <3>1. Stage' = "energised" /\ Obtained' = Grounds
        BY <2>2, SeenAfter, BehindIs DEF Failures, States
      <3>2. Stage = "preparing" /\ Obtained = Grounds
        BY <1>0, <2>1, SeenBefore, BehindIs
      <3>. QED
        BY <3>1, <3>2, AbstractStep
    <2>3. CASE Continue("PowerDelivery", "FAILED_ContactorError", state)
                 /\ UNCHANGED contactor_closed
      BY <2>3, SameSeen
    <2>. QED
      BY <1>10, <2>2, <2>3 DEF Start
  <1>11. CASE PowerStop
    <2>1. state \in {"POWER_DELIVERY", "CHARGE_LOOP"} /\ contactor_closed' = FALSE
      BY <1>0, <1>11, AcceptedIn DEF PowerStop, Accepted
    <2>2. Continue("PowerDelivery", "OK", "WELDING")
      BY <1>11 DEF PowerStop
    <2>3. Stage' = "relieved" /\ Obtained' = Grounds
      BY <2>1, <2>2, SeenAfter, BehindIs DEF Failures, States
    <2>4. Stage \in {"preparing", "energised"} /\ Obtained = Grounds
      BY <2>1, SeenBefore, BehindIs
    <2>. QED
      BY <2>3, <2>4, AbstractStep
  <1>12. CASE OtherPowerDelivery
    <2>1. PICK code : Continue("PowerDelivery", code, state)
      BY <1>12 DEF OtherPowerDelivery
    <2>. QED
      BY <1>12, <2>1, SameSeen DEF OtherPowerDelivery, progressVars
  <1>13. CASE ChargeLoop
    <2>1. PICK code : Continue("DC_ChargeLoop", code, state)
      BY <1>13 DEF ChargeLoop
    <2>. QED
      BY <1>13, <2>1, SameSeen DEF ChargeLoop
  <1>14. CASE WeldingDetection
    <2>1. state = "WELDING"
      BY <1>0, <1>14, AcceptedIn DEF WeldingDetection, Accepted
    <2>2. PICK next \in {state, "SESSION_STOP"} : Continue("DC_WeldingDetection", "OK", next)
      BY <1>14 DEF WeldingDetection
    <2>. QED
      BY <1>14, <2>1, <2>2, SameSeen DEF WeldingDetection, progressVars
  <1>15. CASE SessionStop
    <2>1. ~contactor_closed /\ contactor_closed' = contactor_closed
      BY <1>0, <1>15, AcceptedIn DEF SessionStop, Accepted, progressVars
    <2>2. CASE Continue("SessionStop", "FAILED_NoServiceRenegotiationSupported", state)
      BY <2>1, <2>2, SameSeen
    <2>3. ASSUME NEW asked \in {"STOPPED", "PAUSED"}, Answer("SessionStop", "OK", state, asked)
          PROVE  [Energy!Next]_(Energy!vars)
      <3>1. disposition' = asked /\ pc' = "send"
        BY <2>3 DEF Answer, Disposition
      <3>2. Stage' = "stopped" /\ Obtained' = {}
        BY <3>1, SeenAs, DeadStage
      <3>3. Stage \in {"preparing", "relieved"}
        BY <2>1, SeenBefore
      <3>. QED
        BY <3>2, <3>3, AbstractStep
    <2>. QED
      BY <1>15, <2>2, <2>3 DEF SessionStop
  <1>. QED
    BY <1>1, <1>3, <1>4, <1>5, <1>6, <1>7, <1>8, <1>9, <1>10, <1>11, <1>12, <1>13, <1>14, <1>15
    DEF Identify, Configure, Charge

\* So is every step of the stream loop: it breaks the session off, begins one anew,
\* leaves one that is over, or is not seen.
LEMMA LoopRefines ==
  ASSUME FlowInv, Loop
  PROVE  [Energy!Next]_(Energy!vars)
  <1>0. /\ contactor_closed \in BOOLEAN /\ state \in States
        /\ disposition \in {"CONTINUE", "FAILED", "STOPPED", "PAUSED"}
    BY TypeParts DEF FlowInv, EngineType, FrameType, Dispositions
  <1>1. ASSUME UNCHANGED <<state, contactor_closed, disposition>>,
               \/ pc' = pc
               \/ pc' \notin {"idle", "done"} /\ pc \notin {"idle", "done"}
               \/ pc' # "idle" /\ pc # "idle" /\ state = "ENDED"
        PROVE  [Energy!Next]_(Energy!vars)
    <2>1. Stage' = Stage /\ Obtained' = Obtained
      BY <1>1, SeenAs DEF StageOf, ObtainedOf
    <2>. QED
      BY <2>1, AbstractStep
  <1>2. ASSUME pc \in {"recv", "send"}, disposition = "CONTINUE", state # "ENDED",
               disposition' = disposition, pc' # "idle", pc' = "done" \/ state' = "ENDED"
        PROVE  [Energy!Next]_(Energy!vars)
    <2>1. Stage \in {"preparing", "energised", "relieved"}
      BY <1>0, <1>2, SeenAs, LiveStage
    <2>2. Stage' = "broken" /\ Obtained' = {}
      BY <1>2, SeenAs, DeadStage
    <2>. QED
      BY <2>1, <2>2, AbstractStep
  <1>3. ASSUME Reset, pc' = "recv", disposition' = "CONTINUE"
        PROVE  [Energy!Next]_(Energy!vars)
    <2>1. state' = "SESSION_SETUP" /\ contactor_closed' = FALSE
      BY <1>3 DEF Reset
    <2>2. Stage' = "preparing" /\ Obtained' = {}
      <3>1. /\ Stage' = StageOf("recv", "CONTINUE", "SESSION_SETUP", FALSE)
            /\ Obtained' = ObtainedOf("recv", "CONTINUE", "SESSION_SETUP", FALSE)
        BY <1>3, <2>1, SeenAs
      <3>2. /\ StageOf("recv", "CONTINUE", "SESSION_SETUP", FALSE) = "preparing"
            /\ ObtainedOf("recv", "CONTINUE", "SESSION_SETUP", FALSE) = Behind("SESSION_SETUP")
        BY DEF StageOf, ObtainedOf
      <3>. QED
        BY <3>1, <3>2, BehindIs
    <2>. QED
      BY <2>2, AbstractStep
  <1>4. CASE RecvTimeout \/ RecvFails \/ LegacyFrame
    BY <1>2, <1>4 DEF RecvTimeout, RecvFails, LegacyFrame, Exit, FlowInv, Flow
  <1>5. CASE RepeatHandshake
    BY <1>1, <1>5 DEF RepeatHandshake, engineVars, progressVars
  <1>6. CASE Babble
    <2>1. CASE Ignore
      BY <1>1, <1>6, <2>1 DEF Ignore, Babble, IgnoreUndecodable, IgnoreUndecodableLegacy,
        RejectUndecodable, Exit, engineVars, progressVars
    <2>2. CASE RejectUndecodable
      BY <1>2, <2>2 DEF RejectUndecodable, Exit, FlowInv, Flow
    <2>. QED
      BY <1>6, <2>1, <2>2 DEF Babble, IgnoreUndecodable, IgnoreUndecodableLegacy
  <1>7. CASE SequenceTimedOut
    BY <1>2, <1>7 DEF SequenceTimedOut, FlowInv, Flow
  <1>8. CASE SendFails
    <2>1. /\ pc = "send" /\ pc' = "done"
          /\ UNCHANGED <<state, contactor_closed, disposition>>
      BY <1>8 DEF SendFails, Exit, engineVars, progressVars
    <2>2. CASE disposition = "CONTINUE"
      BY <1>2, <2>1, <2>2 DEF FlowInv, Flow
    <2>3. CASE disposition # "CONTINUE"
      BY <1>1, <2>1, <2>3 DEF FlowInv, Flow
    <2>. QED
      BY <2>2, <2>3
  <1>9. CASE SendHandshakeRes
    BY <1>3, <1>9 DEF SendHandshakeRes, FlowInv, Flow
  <1>10. CASE SendRes
    BY <1>1, <1>10 DEF SendRes, engineVars, progressVars
  <1>11. CASE HoldExpires \/ HoldPeerClose
    BY <1>1, <1>11 DEF HoldExpires, HoldPeerClose, HoldOver, engineVars, progressVars, FlowInv, Flow
  <1>12. CASE Connect
    BY <1>3, <1>12 DEF Connect
  <1>13. CASE Disconnect
    <2>1. Stage' = "none" /\ Obtained' = {}
      BY <1>13, SeenAs, NoStage DEF Disconnect
    <2>2. Stage \in {"stopped", "broken"} /\ Obtained = {}
      BY <1>0, <1>13, SeenAs, DeadStage DEF Disconnect
    <2>. QED
      BY <2>1, <2>2, AbstractStep
  <1>14. CASE ControllerOpens
    BY <1>1, <1>14 DEF ControllerOpens, engineVars, progressVars, frameVars
  <1>15. CASE Tick
    BY <1>1, <1>15 DEF Tick, progressVars
  <1>. QED
    BY <1>4, <1>5, <1>6, <1>7, <1>8, <1>9, <1>10, <1>11, <1>12, <1>13, <1>14, <1>15 DEF Loop, Send

\* The engine, with the contactors it takes for closed, implements the session that
\* the power path is promised: grounds in their order, no energy without them or
\* after a stop, no orderly end while it flows (secc_iso20.c and secc.c).
THEOREM Refinement == Spec => ImplementsEnergySession
  <1>1. Init => Energy!Init
    <2>. SUFFICES ASSUME Init
                  PROVE  Stage = "none" /\ Obtained = {}
      BY DEF Energy!Init
    <2>. QED
      BY SeenAs, NoStage DEF Init
  <1>2. FlowInv /\ Earning /\ [Next]_vars => [Energy!Next]_(Energy!vars)
    <2>1. ASSUME UNCHANGED vars
          PROVE  [Energy!Next]_(Energy!vars)
      <3>1. UNCHANGED <<pc, disposition, state, contactor_closed>>
        BY <2>1 DEF vars, engineVars, progressVars, frameVars
      <3>2. Stage' = Stage /\ Obtained' = Obtained
        BY <3>1, SeenAs
      <3>. QED
        BY <3>2, AbstractStep
    <2>2. ASSUME FlowInv, Earning, Next
          PROVE  [Energy!Next]_(Energy!vars)
      <3>1. FrameAnswered => pc = "recv"
        BY DEF FrameAnswered, InTime
      <3>. QED
        BY <2>2, <3>1, Steps, RequestRefines, LoopRefines
    <2>. QED
      BY <2>1, <2>2
  <1>. QED
    BY <1>1, <1>2, EarningInit, EarningStep, FlowInit, FlowStep, PTL
    DEF Spec, ImplementsEnergySession, Energy!Spec

\* Every session that keeps to EnergySession keeps its promise.
LEMMA EnergyPromised ==
  Energy!EnergyPromise /\ [Energy!Next]_(Energy!vars) => Energy!EnergyPromise'
  <1>. SUFFICES ASSUME Energy!EnergyPromise, [Energy!Next]_(Energy!vars)
                PROVE  Energy!EnergyPromise'
    OBVIOUS
  <1>. USE DEF Energy!EnergyPromise
  <1>1. CASE UNCHANGED Energy!vars
    BY <1>1 DEF Energy!vars
  <1>2. CASE Energy!Begin \/ Energy!Stop \/ Energy!Break
    BY <1>2 DEF Energy!Begin, Energy!Stop, Energy!Break
  <1>3. CASE Energy!Energise \/ Energy!Relieve \/ Energy!Leave
    BY <1>3 DEF Energy!Energise, Energy!Relieve, Energy!Leave
  <1>4. ASSUME NEW g \in Grounds, Energy!Establish(g)
        PROVE  Energy!EnergyPromise'
    BY <1>4 DEF Energy!Establish
  <1>. QED
    BY <1>1, <1>2, <1>3, <1>4 DEF Energy!Next

\* What EnergySession promises holds of the engine, by the refinement: energy
\* on every ground, each after those it rests on (secc_iso20.c).
THEOREM EnergyPromiseKept == Spec => []Energy!EnergyPromise
  <1>1. Energy!Init => Energy!EnergyPromise
    BY DEF Energy!Init, Energy!EnergyPromise
  <1>. QED
    BY <1>1, EnergyPromised, Refinement, PTL DEF ImplementsEnergySession, Energy!Spec

=============================================================================
