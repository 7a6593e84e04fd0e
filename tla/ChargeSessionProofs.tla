-------------------------- MODULE ChargeSessionProofs --------------------------
(***************************************************************************)
(* The stream loop keeps the promises of ChargeSession, for every value of *)
(* the constants.  The state is seen through four functions of it, so that *)
(* a leaf handles the phases before and after a step and not the loop; the *)
(* steps come from StepCases and HandleShape.  What the refinement needs   *)
(* beyond the sequencer's invariant is that no live session bears the      *)
(* SessionID of the paused one.                                            *)
(***************************************************************************)
EXTENDS SeccSafetyProofs

OnPhases      == {"POWER_DELIVERY", "CHARGING"}
StoppedPhases == {"POWER_DELIVERY_STOP", "WELDING"}

-------------------------------------------------------------------------------

(* The live session is not the paused one. *)

SessionApart == session_id = NoSid \/ session_id # last_session_id

\* Every step keeps the two apart: a pause ends the live session, a return ends the
\* pause, and a new SessionID is neither the paused one nor new to the one before.
LEMMA ApartStep ==
  ASSUME TypeOK, SessionApart, [Next]_vars
  PROVE  SessionApart'
  <1>. USE DEF SessionApart, pauseVars
  <1>1. CASE Quiet \/ Ended
    BY <1>1 DEF Quiet, Ended, seccVars
  <1>2. CASE Connect \/ SendThenTerminate
    BY <1>2 DEF Connect, SendThenTerminate
  <1>3. CASE Teardown /\ session_id' \in {session_id, NoSid}
    BY <1>3 DEF Teardown
  <1>4. CASE SendSessionSetupRes \/ SendSessionStopRes \/ SendOtherRes
    BY <1>4 DEF SendSessionSetupRes, SendSessionStopRes, SendOtherRes, Delivered
  <1>5. CASE Handle
    <2>1. PICK k \in Kinds, p \in Protocols \cup {"UNKNOWN"}, asked \in AskedSids :
             Handled(k, p, asked) /\ Owned(k, p, asked)
      BY <1>5, HandleShape
    <2>2. CASE k = "SessionSetup"
      BY <2>1, <2>2 DEF Owned, SessionSetup, JoinOldSession, EstablishNewSession, Generated
    <2>3. CASE k = "SessionStop"
      BY <2>1, <2>3 DEF Handled
    <2>4. CASE k = "SupportedAppProtocol"
      BY <2>1, <2>4 DEF Owned, SupportedAppProtocol, Generated
    <2>5. CASE k \notin {"SupportedAppProtocol", "SessionSetup", "SessionStop"}
      BY <2>1, <2>5 DEF Handled, Owned
    <2>. QED
      BY <2>2, <2>3, <2>4, <2>5
  <1>. QED
    BY <1>1, <1>2, <1>3, <1>4, <1>5, StepCases

-------------------------------------------------------------------------------

(* The state as ChargeSession sees it. *)

StageOf(c, phase) ==
  IF c = "idle" THEN "none"
  ELSE IF c = "done" \/ phase = "COMPLETE" THEN "over"
  ELSE IF phase \in {"APP_PROTOCOL", "SESSION_SETUP"} THEN "open"
  ELSE "serving"

ServedOf(c, phase, sid) == IF StageOf(c, phase) = "serving" THEN sid ELSE NoSid

PowerOf(c, phase) ==
  IF StageOf(c, phase) # "serving" THEN "off"
  ELSE IF phase \in OnPhases THEN "on"
  ELSE IF phase \in StoppedPhases THEN "stopped"
  ELSE "off"

\* The view before and after a step.
LEMMA SeenAs ==
  /\ Stage = StageOf(pc, sequence.phase)
  /\ Stage' = StageOf(pc', sequence'.phase)
  /\ Served = ServedOf(pc, sequence.phase, session_id)
  /\ Served' = ServedOf(pc', sequence'.phase, session_id')
  /\ Power = PowerOf(pc, sequence.phase)
  /\ Power' = PowerOf(pc', sequence'.phase)
  BY DEF Stage, Served, Power, StageOf, ServedOf, PowerOf, OnPhases, StoppedPhases

\* A connection that is not serving has neither session nor energy.
LEMMA NotServing ==
  ASSUME NEW c, NEW phase, NEW sid, StageOf(c, phase) # "serving"
  PROVE  ServedOf(c, phase, sid) = NoSid /\ PowerOf(c, phase) = "off"
  BY DEF ServedOf, PowerOf

\* The steps ChargeSession allows.
LEMMA AbstractStep ==
  ASSUME \/ UNCHANGED <<Stage, Served, last_session_id, Power>>
         \/ /\ <<Stage, Stage'>> \in {<<"none", "open">>, <<"over", "none">>}
            /\ UNCHANGED <<Served, last_session_id, Power>>
         \/ /\ Stage \in {"open", "serving"} /\ Stage' = "over"
            /\ Served' = NoSid /\ Power' = "off"
            /\ \/ last_session_id' = last_session_id
               \/ Stage = "open" /\ Served = NoSid /\ Power = "off" /\ last_session_id' = NoSid
               \/ Stage = "serving" /\ Served # NoSid /\ last_session_id' = Served
         \/ /\ Stage = "open" /\ Stage' = "serving" /\ Power' = Power
            /\ \/ /\ Served' \in Sids \cup {NoSid}
                  /\ Served' = NoSid \/ Served' # last_session_id
                  /\ last_session_id' = last_session_id
               \/ /\ last_session_id # NoSid /\ Served' = last_session_id
                  /\ last_session_id' = NoSid
         \/ /\ Stage = "serving" /\ Served # NoSid
            /\ UNCHANGED <<Stage, Served, last_session_id>>
            /\ <<Power, Power'>> \in {<<"off", "on">>, <<"on", "off">>,
                                      <<"off", "stopped">>, <<"on", "stopped">>}
  PROVE  [Session!Next]_(Session!vars)
  BY DEF Session!Next, Session!vars, Session!Open, Session!Announce, Session!Rejoin,
         Session!LoseRejoin, Session!Switch, Session!Energise, Session!Renegotiate,
         Session!Relieve, Session!Finish, Session!Suspend, Session!End, Session!Leave

-------------------------------------------------------------------------------

(* The steps. *)

\* A request answered in a session that is served: its phases decide what becomes of
\* the energy, and its end, orderly or not, is the end of the session.
LEMMA ServedRefines ==
  ASSUME TypeOK, NEW k \in Kinds, NEW p \in Protocols \cup {"UNKNOWN"}, NEW asked,
         Handled(k, p, asked), Owned(k, p, asked),
         k \notin {"SupportedAppProtocol", "SessionSetup"}
  PROVE  [Session!Next]_(Session!vars)
  <1>1. PICK phase \in NextPhases(sequence, Effective(p), k) :
           sequence' = Advance(sequence, Effective(p), k, phase)
    BY AcceptMoves DEF Handled
  <1>2. sequence'.phase = phase
    BY <1>1, AdvanceFields
  <1>3. /\ sequence.phase \notin {"APP_PROTOCOL", "SESSION_SETUP", "COMPLETE"}
        /\ phase \notin {"APP_PROTOCOL", "SESSION_SETUP"}
        /\ phase = "COMPLETE" <=> k = "SessionStop"
    BY <1>1, SetupComesFirst, PhaseMoves
  <1>4. pc = "recv" /\ pc' \in {"send", "done"} /\ session_id # NoSid
    BY AcceptMoves DEF Handled, SessionAccepted
  <1>5. Stage = "serving" /\ Served = session_id
    BY <1>3, <1>4, SeenAs DEF StageOf, ServedOf
  <1>6. CASE pc' = "done" \/ phase = "COMPLETE"
    <2>1. Stage' = "over"
      BY <1>2, <1>4, <1>6, SeenAs DEF StageOf
    <2>2. Served' = NoSid /\ Power' = "off"
      BY <2>1, SeenAs, NotServing
    <2>3. last_session_id' \in {last_session_id, session_id}
      BY DEF Owned
    <2>. QED
      BY <1>4, <1>5, <2>1, <2>2, <2>3, AbstractStep
  <1>7. CASE pc' = "send" /\ phase # "COMPLETE"
    <2>1. Stage' = "serving"
      BY <1>2, <1>3, <1>7, SeenAs DEF StageOf
    <2>2. session_id' = session_id /\ last_session_id' = last_session_id
      BY <1>3, <1>7 DEF Handled, Owned
    <2>3. Served' = Served
      BY <1>5, <2>1, <2>2, SeenAs DEF ServedOf
    <2>4. sequence.phase \in StoppedPhases => phase \in StoppedPhases
      BY <1>1, <1>7, StopLeadsOut DEF StoppedPhases
    <2>5. /\ Power = IF sequence.phase \in OnPhases THEN "on"
                     ELSE IF sequence.phase \in StoppedPhases THEN "stopped" ELSE "off"
          /\ Power' = IF phase \in OnPhases THEN "on"
                      ELSE IF phase \in StoppedPhases THEN "stopped" ELSE "off"
      BY <1>2, <1>5, <2>1, SeenAs DEF PowerOf
    <2>6. \/ Power' = Power
          \/ <<Power, Power'>> \in {<<"off", "on">>, <<"on", "off">>,
                                    <<"off", "stopped">>, <<"on", "stopped">>}
      BY <2>4, <2>5 DEF OnPhases, StoppedPhases
    <2>. QED
      BY <1>4, <1>5, <2>1, <2>2, <2>3, <2>6, AbstractStep
  <1>. QED
    BY <1>4, <1>6, <1>7

\* A request answered before a session is served opens nothing but a session: a new
\* one, apart from the paused one, or the paused one itself.
LEMMA SetupRefines ==
  ASSUME TypeOK, TypeOK', SessionApart, NEW k, NEW p, NEW asked,
         Handled(k, p, asked), Owned(k, p, asked),
         k \in {"SupportedAppProtocol", "SessionSetup"}
  PROVE  [Session!Next]_(Session!vars)
  <1>1. PICK phase \in NextPhases(sequence, Effective(p), k) :
           sequence' = Advance(sequence, Effective(p), k, phase)
    BY AcceptMoves DEF Handled
  <1>2. sequence'.phase = phase
    BY <1>1, AdvanceFields
  <1>3. /\ sequence.phase \in {"APP_PROTOCOL", "SESSION_SETUP"}
        /\ k = "SupportedAppProtocol" => phase = "SESSION_SETUP"
        /\ k = "SessionSetup" => phase = "SERVICE_DISCOVERY"
    BY <1>1, SetupComesFirst, PhaseMoves
  <1>4. pc = "recv" /\ pc' \in {"send", "done"}
    BY AcceptMoves DEF Handled
  <1>5. Stage = "open"
    BY <1>3, <1>4, SeenAs DEF StageOf
  <1>6. Served = NoSid /\ Power = "off"
    BY <1>5, SeenAs, NotServing
  <1>7. \/ last_session_id' = last_session_id /\ (k = "SessionSetup" => SessionApart')
        \/ /\ k = "SessionSetup"
           /\ last_session_id # NoSid
           /\ session_id' = last_session_id
           /\ last_session_id' = NoSid
    <2>1. CASE k = "SupportedAppProtocol"
      BY <2>1 DEF Owned
    <2>2. CASE k = "SessionSetup" /\ Resumable(asked)
      BY <2>2 DEF Owned, SessionSetup, JoinOldSession, Resumable
    <2>3. CASE k = "SessionSetup" /\ ~Resumable(asked)
      BY <2>3 DEF Owned, SessionSetup, EstablishNewSession, Generated, SessionApart, pauseVars
    <2>. QED
      BY <2>1, <2>2, <2>3
  <1>8. CASE pc' = "done"
    <2>1. Stage' = "over"
      BY <1>8, SeenAs DEF StageOf
    <2>2. Served' = NoSid /\ Power' = "off"
      BY <2>1, SeenAs, NotServing
    <2>. QED
      BY <1>5, <1>6, <1>7, <2>1, <2>2, AbstractStep
  <1>9. CASE pc' = "send" /\ k = "SupportedAppProtocol"
    <2>1. Stage' = "open"
      BY <1>2, <1>3, <1>9, SeenAs DEF StageOf
    <2>2. Served' = NoSid /\ Power' = "off"
      BY <2>1, SeenAs, NotServing
    <2>. QED
      BY <1>5, <1>6, <1>7, <1>9, <2>1, <2>2, AbstractStep
  <1>10. CASE pc' = "send" /\ k = "SessionSetup"
    <2>1. Stage' = "serving"
      BY <1>2, <1>3, <1>10, SeenAs DEF StageOf
    <2>2. Served' = session_id' /\ Power' = "off"
      BY <1>2, <1>3, <1>10, <2>1, SeenAs DEF ServedOf, PowerOf, OnPhases, StoppedPhases
    <2>3. session_id' \in Sids \cup {NoSid}
      BY DEF TypeOK
    <2>. QED
      BY <1>5, <1>6, <1>7, <1>10, <2>1, <2>2, <2>3, AbstractStep DEF SessionApart
  <1>. QED
    BY <1>4, <1>8, <1>9, <1>10

\* Every step of the loop is a step of ChargeSession, or none.
LEMMA StepRefines ==
  ASSUME TypeOK, TypeOK', SequencerInv, SessionApart, [Next]_vars
  PROVE  [Session!Next]_(Session!vars)
  <1>1. CASE Quiet
    <2>1. UNCHANGED <<pc, sequence, session_id, last_session_id>>
      BY <1>1 DEF Quiet, seccVars, pauseVars
    <2>2. UNCHANGED <<Stage, Served, last_session_id, Power>>
      BY <2>1, SeenAs
    <2>. QED
      BY <2>2, AbstractStep
  <1>2. CASE Ended \/ SendThenTerminate \/ SendSessionStopRes
    <2>1. pc \in {"recv", "send"} /\ pc' = "done" /\ last_session_id' = last_session_id
      BY <1>2 DEF Ended, SendThenTerminate, SendSessionStopRes, Delivered, Exit, seccVars,
                  pauseVars
    <2>2. Stage' = "over" /\ Stage \in {"open", "serving", "over"}
      BY <2>1, SeenAs DEF StageOf
    <2>3. Served' = NoSid /\ Power' = "off"
      BY <2>2, SeenAs, NotServing
    <2>4. Stage = "over" => Served = NoSid /\ Power = "off"
      BY SeenAs, NotServing
    <2>. QED
      BY <2>1, <2>2, <2>3, <2>4, AbstractStep
  <1>3. CASE Connect
    <2>1. /\ pc = "idle" /\ pc' = "recv"
          /\ UNCHANGED <<sequence, last_session_id>>
      BY <1>3 DEF Connect, pauseVars
    <2>2. sequence'.phase = "APP_PROTOCOL"
      BY <2>1 DEF SequencerInv, InitSequence
    <2>3. Stage = "none" /\ Stage' = "open"
      BY <2>1, <2>2, SeenAs DEF StageOf
    <2>4. UNCHANGED <<Served, Power>>
      BY <2>3, SeenAs, NotServing
    <2>. QED
      BY <2>1, <2>3, <2>4, AbstractStep
  <1>4. CASE Teardown
    <2>1. pc = "done" /\ pc' = "idle" /\ last_session_id' = last_session_id
      BY <1>4 DEF Teardown, pauseVars
    <2>2. Stage = "over" /\ Stage' = "none"
      BY <2>1, SeenAs DEF StageOf
    <2>3. UNCHANGED <<Served, Power>>
      BY <2>2, SeenAs, NotServing
    <2>. QED
      BY <2>1, <2>2, <2>3, AbstractStep
  <1>5. CASE SendSessionSetupRes \/ SendOtherRes
    <2>1. /\ pc = "send" /\ pc' = "recv"
          /\ UNCHANGED <<session_id, last_session_id>>
      BY <1>5 DEF SendSessionSetupRes, SendOtherRes, Delivered
    <2>2. sequence'.phase = sequence.phase
      BY <1>5 DEF SendSessionSetupRes, SendOtherRes, TypeOK, Sequences
    <2>3. Stage' = Stage
      BY <2>1, <2>2, SeenAs DEF StageOf
    <2>4. UNCHANGED <<Served, Power>>
      BY <2>1, <2>2, <2>3, SeenAs DEF ServedOf, PowerOf
    <2>. QED
      BY <2>1, <2>3, <2>4, AbstractStep
  <1>6. CASE Handle
    <2>1. PICK k \in Kinds, p \in Protocols \cup {"UNKNOWN"}, asked \in AskedSids :
             Handled(k, p, asked) /\ Owned(k, p, asked)
      BY <1>6, HandleShape
    <2>. QED
      BY <2>1, ServedRefines, SetupRefines
  <1>. QED
    BY <1>1, <1>2, <1>3, <1>4, <1>5, <1>6, StepCases

\* The loop, its sequencer and its handlers (secc.c, state_secc.c) implement the
\* session a vehicle is promised: one per connection, a paused one kept for one
\* return and apart from every other, and no energy after a stop.
THEOREM Refinement == Spec => ImplementsChargeSession
  <1>1. Init => SessionApart
    BY DEF Init, SessionApart
  <1>2. Init => Session!Init
    <2>. SUFFICES ASSUME Init
                  PROVE  Stage = "none" /\ Served = NoSid /\ last_session_id = NoSid
                           /\ Power = "off"
      BY DEF Session!Init
    <2>1. Stage = "none" /\ last_session_id = NoSid
      BY DEF Init, Stage
    <2>. QED
      BY <2>1, SeenAs, NotServing
  <1>3. TypeOK /\ SessionApart /\ [Next]_vars => SessionApart'
    BY ApartStep
  <1>4. TypeOK /\ TypeOK' /\ SequencerInv /\ SessionApart /\ [Next]_vars
          => [Session!Next]_(Session!vars)
    BY StepRefines
  <1>. QED
    BY <1>1, <1>2, <1>3, <1>4, TypeCorrect, SequencerHolds, PTL
    DEF Spec, ImplementsChargeSession, Session!Spec

\* Every session that keeps to ChargeSession keeps its promise.
LEMMA SessionPromised ==
  Session!SessionPromise /\ [Session!Next]_(Session!vars) => Session!SessionPromise'
  <1>. SUFFICES ASSUME Session!SessionPromise, [Session!Next]_(Session!vars)
                PROVE  Session!SessionPromise'
    OBVIOUS
  <1>. USE DEF Session!SessionPromise
  <1>1. CASE UNCHANGED Session!vars
    BY <1>1 DEF Session!vars
  <1>2. CASE Session!Open \/ Session!Leave \/ Session!LoseRejoin \/ Session!Rejoin
    BY <1>2 DEF Session!Open, Session!Leave, Session!LoseRejoin, Session!Rejoin
  <1>3. ASSUME NEW from, NEW to, Session!Switch(from, to)
        PROVE  Session!SessionPromise'
    BY <1>3 DEF Session!Switch
  <1>4. CASE Session!Suspend \/ Session!End
    BY <1>4 DEF Session!Suspend, Session!End, Session!Finish
  <1>5. ASSUME NEW id, Session!Announce(id)
        PROVE  Session!SessionPromise'
    BY <1>5 DEF Session!Announce
  <1>. QED
    BY <1>1, <1>2, <1>3, <1>4, <1>5
    DEF Session!Next, Session!Energise, Session!Renegotiate, Session!Relieve

\* What ChargeSession promises holds of the loop, by the refinement: nobody is
\* served under the SessionID of a paused session, and no energy is granted under
\* no SessionID (secc.c, state_secc.c).
THEOREM SessionPromiseKept == Spec => []Session!SessionPromise
  <1>1. Session!Init => Session!SessionPromise
    BY DEF Session!Init, Session!SessionPromise
  <1>. QED
    BY <1>1, SessionPromised, Refinement, PTL DEF ImplementsChargeSession, Session!Spec

===============================================================================
