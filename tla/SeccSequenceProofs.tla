-------------------------- MODULE SeccSequenceProofs --------------------------
(***************************************************************************)
(* Facts about the sequencer's table that the proofs about the stream loop *)
(* cite: what a transition leads to, and where it can have come from.      *)
(***************************************************************************)
EXTENDS SeccSequence, TLAPS

USE DEF Protocols, Phases

\* A transition leads to a phase.
LEMMA NextPhasesType ==
  ASSUME NEW s, NEW p, NEW k, NEW phase \in NextPhases(s, p, k)
  PROVE  phase \in Phases
  BY DEF NextPhases, Applicable, CommonRows, PowerDeliveryRows, DinRows,
         Iso2Rows, DcRows, AcRows, Rows, Repeat, Established

\* An accepted request yields a sequence again.
LEMMA AdvanceType ==
  ASSUME NEW s \in Sequences, NEW p \in Protocols \cup {"UNKNOWN"}, NEW k \in Kinds,
         NEW phase \in Phases
  PROVE  Advance(s, p, k, phase) \in Sequences
  BY DEF Advance, Sequences

\* The table is a function, as the switch it stands for is: whatever the phase,
\* protocol and mode, a request leads to at most one phase.
THEOREM OnePhaseFollows ==
  \A s \in Sequences, p \in Protocols \cup {"UNKNOWN"}, k \in Kinds :
     \A phase, other \in NextPhases(s, p, k) : phase = other
  BY DEF NextPhases, Applicable, CommonRows, PowerDeliveryRows, DinRows,
         Iso2Rows, DcRows, AcRows, Rows, Repeat, Established

\* What an accepted request makes of each part of the sequence.
LEMMA AdvanceFields ==
  ASSUME NEW s, NEW p, NEW k, NEW phase, NEW t, t = Advance(s, p, k, phase)
  PROVE  /\ t.phase = phase
         /\ t.protocol = (IF p = "UNKNOWN" THEN s.protocol ELSE p)
         /\ t.dc_mode => s.dc_mode \/ k = "CableCheck"
         /\ t.dc_mode => t.mode_known \/ s.dc_mode
         /\ k = "CableCheck" /\ s.phase = "CHARGE_PARAMETERS" => t.dc_mode
         /\ s.dc_mode /\ (s.mode_known \/ s.phase # "CHARGE_PARAMETERS") => t.dc_mode
         /\ s.mode_known => t.mode_known
  BY DEF Advance

\* The handshake leads to SessionSetup and SessionSetup to ServiceDiscovery; any
\* other request comes after both.
LEMMA SetupComesFirst ==
  ASSUME NEW s, NEW p, NEW k, NEW phase \in NextPhases(s, p, k)
  PROVE  /\ k = "SupportedAppProtocol" => phase = "SESSION_SETUP"
         /\ k = "SessionSetup" => phase = "SERVICE_DISCOVERY"
         /\ k \notin {"SupportedAppProtocol", "SessionSetup"} =>
              /\ s.phase \notin {"APP_PROTOCOL", "SESSION_SETUP"}
              /\ phase \notin {"APP_PROTOCOL", "SESSION_SETUP"}
         /\ k = "SessionStop" => phase = "COMPLETE"
  BY DEF NextPhases, Applicable, CommonRows, PowerDeliveryRows, DinRows,
         Iso2Rows, DcRows, AcRows, Rows, Repeat, Established

\* Where a request can come from: those that set the session up from before it is,
\* SessionStop into the end and nothing else, and none from there.
LEMMA PhaseMoves ==
  ASSUME NEW s, NEW p, NEW k, NEW phase \in NextPhases(s, p, k)
  PROVE  /\ k \in {"SupportedAppProtocol", "SessionSetup"} =>
              s.phase \in {"APP_PROTOCOL", "SESSION_SETUP"}
         /\ phase = "COMPLETE" <=> k = "SessionStop"
         /\ phase = "SERVICE_DISCOVERY" => k = "SessionSetup"
         /\ s.phase # "COMPLETE"
  BY DEF NextPhases, Applicable, CommonRows, PowerDeliveryRows, DinRows,
         Iso2Rows, DcRows, AcRows, Rows, Repeat, Established

\* Beyond SessionSetup the sequence has a protocol, and keeps it.
LEMMA ProtocolStays ==
  ASSUME NEW s, NEW p, NEW k, NEW phase \in NextPhases(s, p, k)
  PROVE  /\ k # "SupportedAppProtocol" => p # "UNKNOWN" \/ s.phase = "APP_PROTOCOL"
         /\ s.phase # "APP_PROTOCOL" => p # "UNKNOWN" /\ s.protocol \in {"UNKNOWN", p}
  BY DEF NextPhases, ProtocolAllowed

\* The phases that follow a CableCheck.
DcPhases == {"CABLE_CHECK", "PRE_CHARGE", "POWER_DELIVERY", "CHARGING",
             "POWER_DELIVERY_STOP"}

\* DIN reaches the phases of power delivery only through CableCheck.
LEMMA DinThroughCableCheck ==
  ASSUME NEW s, NEW k, NEW phase \in NextPhases(s, "DIN", k), phase \in DcPhases
  PROVE  \/ s.phase = "CHARGE_PARAMETERS" /\ k = "CableCheck"
         \/ s.phase \in DcPhases /\ k # "CableCheck"
         \/ s.phase = "CABLE_CHECK" /\ k = "CableCheck"
  BY DEF NextPhases, Applicable, CommonRows, PowerDeliveryRows, DinRows,
         Iso2Rows, DcRows, AcRows, Rows, Repeat, Established, DcPhases

\* From the CableCheck a session goes on with PreCharge or ends.
LEMMA CableCheckLeadsToPreCharge ==
  ASSUME NEW s, NEW p, NEW k, NEW phase \in NextPhases(s, p, k)
  PROVE  /\ s.phase # "COMPLETE"
         /\ k = "CableCheck" => phase = "CABLE_CHECK"
         /\ s.phase = "CABLE_CHECK" => k \in {"CableCheck", "PreCharge"} \/ phase = "COMPLETE"
  BY DEF NextPhases, Applicable, CommonRows, PowerDeliveryRows, DinRows,
         Iso2Rows, DcRows, AcRows, Rows, Repeat, Established

\* Nothing leads from a stopped power delivery back into charging.
LEMMA StopLeadsOut ==
  ASSUME NEW s, NEW p, NEW k, NEW phase \in NextPhases(s, p, k),
         s.phase \in {"POWER_DELIVERY_STOP", "WELDING"}
  PROVE  phase \in {"POWER_DELIVERY_STOP", "WELDING", "COMPLETE"}
  BY DEF NextPhases, Applicable, CommonRows, PowerDeliveryRows, DinRows,
         Iso2Rows, DcRows, AcRows, Rows, Repeat, Established

===============================================================================
