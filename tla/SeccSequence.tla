----------------------------- MODULE SeccSequence -----------------------------
(***************************************************************************)
(* The connection-level request sequencer of the SECC                      *)
(* (src/src/state_secc.c): which request is accepted in which phase of a   *)
(* V2G session, and what the phase, the pinned protocol and the AC/DC mode *)
(* become.  The sequencer is a value, not a process: the stream loop owns  *)
(* one per connection and asks it about every decoded request.  The        *)
(* operators below are therefore functions of a sequence record, and the   *)
(* switch over phases is written as a table of guarded transitions.        *)
(*                                                                         *)
(* A PowerDeliveryReq is three requests here, as the stream loop hands its *)
(* ChargeProgress (ReadyToChargeState for DIN) to entry points of its own. *)
(* A refused request ends the stream, so what the refusal leaves behind in *)
(* the sequence (a protocol pinned just before the phase is found wrong)   *)
(* is never observed and is left out.                                      *)
(***************************************************************************)

Protocols == {"ISO2", "DIN"}

Phases == {"APP_PROTOCOL", "SESSION_SETUP", "SERVICE_DISCOVERY",
           "SERVICE_SELECTION", "AUTHORIZATION", "CHARGE_PARAMETERS",
           "CABLE_CHECK", "PRE_CHARGE", "POWER_DELIVERY", "CHARGING",
           "POWER_DELIVERY_STOP", "WELDING", "COMPLETE"}

\* The phases of an established session, from which SessionStop is always
\* accepted: the EV's graceful way out.
Established == Phases \ {"APP_PROTOCOL", "SESSION_SETUP", "COMPLETE"}

PowerDeliveryKinds == {"PowerDeliveryStart", "PowerDeliveryStop",
                       "PowerDeliveryRenegotiate"}

Kinds == {"SupportedAppProtocol", "SessionSetup", "ServiceDiscovery",
          "ServiceDetail", "PaymentServiceSelection", "PaymentDetails",
          "Authorization", "ChargeParameterDiscovery", "CableCheck",
          "PreCharge", "ChargingStatus", "CurrentDemand", "MeteringReceipt",
          "WeldingDetection", "SessionStop"} \cup PowerDeliveryKinds

Sequences == [phase      : Phases,
              protocol   : Protocols \cup {"UNKNOWN"},
              dc_mode    : BOOLEAN,
              mode_known : BOOLEAN]

InitSequence == [phase      |-> "APP_PROTOCOL",
                 protocol   |-> "UNKNOWN",
                 dc_mode    |-> FALSE,
                 mode_known |-> FALSE]

-------------------------------------------------------------------------------

(* Rows of the table: a request of one of the kinds `on', received in one of
   the phases `from', leads to the phase `to'.  Repeat is a request that may
   be sent again without leaving the phase. *)

Rows(from, on, to) == [from : from, on : on, to : {to}]

Repeat(phase, on) == Rows({phase}, on, phase)

\* Transitions of every protocol and mode.
CommonRows ==
  UNION { Rows({"APP_PROTOCOL"}, {"SupportedAppProtocol"}, "SESSION_SETUP"),
          Repeat("SESSION_SETUP", {"SupportedAppProtocol"}),
          Rows({"SESSION_SETUP"}, {"SessionSetup"}, "SERVICE_DISCOVERY"),
          Rows({"SERVICE_DISCOVERY"}, {"ServiceDiscovery"}, "SERVICE_SELECTION"),
          Repeat("SERVICE_SELECTION", {"ServiceDiscovery", "ServiceDetail"}),
          Rows({"SERVICE_SELECTION"}, {"PaymentServiceSelection"}, "AUTHORIZATION"),
          Repeat("AUTHORIZATION",
                 {"PaymentServiceSelection", "PaymentDetails", "Authorization"}),
          Rows({"AUTHORIZATION"}, {"ChargeParameterDiscovery"}, "CHARGE_PARAMETERS"),
          Repeat("CHARGE_PARAMETERS", {"ChargeParameterDiscovery"}),
          Rows({"CHARGE_PARAMETERS"}, {"CableCheck"}, "CABLE_CHECK"),
          Repeat("CABLE_CHECK", {"CableCheck"}),
          Rows({"CABLE_CHECK"}, {"PreCharge"}, "PRE_CHARGE"),
          Repeat("PRE_CHARGE", {"PreCharge"}),
          Repeat("CHARGING", {"MeteringReceipt"}),
          Repeat("WELDING", {"WeldingDetection"}),
          Rows(Established, {"SessionStop"}, "COMPLETE") }

\* Mutation: the two guards on Start are lost.
UnguardedPowerDeliveryRows ==
  Rows({"CHARGE_PARAMETERS", "PRE_CHARGE", "POWER_DELIVERY", "CHARGING",
        "POWER_DELIVERY_STOP"}, {"PowerDeliveryStart"}, "POWER_DELIVERY")
  \cup Rows({"PRE_CHARGE", "POWER_DELIVERY", "CHARGING", "POWER_DELIVERY_STOP"},
            {"PowerDeliveryStop"}, "POWER_DELIVERY_STOP")

\* Mutation: PowerDelivery may follow the CableCheck at once.
UnpreparedPowerDeliveryRows ==
  Rows({"CABLE_CHECK", "PRE_CHARGE", "POWER_DELIVERY", "CHARGING"},
       {"PowerDeliveryStart"}, "POWER_DELIVERY")
  \cup Rows({"PRE_CHARGE", "POWER_DELIVERY", "CHARGING", "POWER_DELIVERY_STOP"},
            {"PowerDeliveryStop"}, "POWER_DELIVERY_STOP")

\* The semantic PowerDelivery transitions common to both protocols.
PowerDeliveryRows ==
  UNION { Rows({"PRE_CHARGE", "POWER_DELIVERY", "CHARGING"},
               {"PowerDeliveryStart"}, "POWER_DELIVERY"),
          Rows({"PRE_CHARGE", "POWER_DELIVERY", "CHARGING", "POWER_DELIVERY_STOP"},
               {"PowerDeliveryStop"}, "POWER_DELIVERY_STOP") }

\* A DIN vehicle may skip the application handshake; it has no AC charging,
\* so it cannot go from ChargeParameterDiscovery straight to PowerDelivery.
DinRows == Rows({"APP_PROTOCOL"}, {"SessionSetup"}, "SERVICE_DISCOVERY")

\* ISO 15118-2 has renegotiation, and AC charging without CableCheck and
\* PreCharge.
Iso2Rows ==
  UNION { Rows({"CHARGE_PARAMETERS"}, {"PowerDeliveryStart"}, "POWER_DELIVERY"),
          Rows({"POWER_DELIVERY", "CHARGING"},
               {"PowerDeliveryRenegotiate"}, "CHARGE_PARAMETERS") }

DcRows ==
  UNION { Rows({"POWER_DELIVERY", "CHARGING"}, {"CurrentDemand"}, "CHARGING"),
          Rows({"POWER_DELIVERY", "CHARGING", "POWER_DELIVERY_STOP"},
               {"WeldingDetection"}, "WELDING") }

AcRows == Rows({"POWER_DELIVERY", "CHARGING"}, {"ChargingStatus"}, "CHARGING")

\* The rows that apply to a request of protocol p in sequence s.
Applicable(s, p) ==
  CommonRows \cup PowerDeliveryRows
             \cup (IF p = "DIN" THEN DinRows ELSE {})
             \cup (IF p = "ISO2" THEN Iso2Rows ELSE {})
             \cup (IF s.dc_mode THEN DcRows ELSE AcRows)

-------------------------------------------------------------------------------

\* Mutation: the pinned protocol is not compared with.
AnyProtocolAllowed(s, p) == p # "UNKNOWN"

\* secc_sequence_require_protocol: the first V2G request pins the protocol of
\* the stream, every later one must be of that protocol.
ProtocolAllowed(s, p) == p # "UNKNOWN" /\ s.protocol \in {"UNKNOWN", p}

\* The phases a request of protocol p and kind k leads to: one, or none when
\* the request is refused with -EPROTO.  The protocol is not yet required in
\* the first phase, where SupportedAppProtocol settles it.
NextPhases(s, p, k) ==
  IF s.phase = "APP_PROTOCOL" \/ ProtocolAllowed(s, p)
  THEN { row.to : row \in {row \in Applicable(s, p) :
                              row.from = s.phase /\ row.on = k} }
  ELSE {}

\* Mutation: a PowerDelivery after ChargeParameterDiscovery always means AC.
AdvanceForgettingMode(s, p, k, phase) ==
  LET cable  == s.phase = "CHARGE_PARAMETERS" /\ k = "CableCheck"
      direct == s.phase = "CHARGE_PARAMETERS" /\ k = "PowerDeliveryStart"
  IN [phase      |-> phase,
      protocol   |-> IF p = "UNKNOWN" THEN s.protocol ELSE p,
      dc_mode    |-> cable \/ (s.dc_mode /\ ~direct),
      mode_known |-> cable \/ direct \/ s.mode_known]

\* The sequence after an accepted request.  CableCheck settles the mode as DC;
\* a PowerDelivery straight after ChargeParameterDiscovery means AC, unless a
\* mode was negotiated before (renegotiation, resumed session).
Advance(s, p, k, phase) ==
  LET cable  == s.phase = "CHARGE_PARAMETERS" /\ k = "CableCheck"
      direct == s.phase = "CHARGE_PARAMETERS" /\ k = "PowerDeliveryStart"
  IN [phase      |-> phase,
      protocol   |-> IF p = "UNKNOWN" THEN s.protocol ELSE p,
      dc_mode    |-> cable \/ (s.dc_mode /\ (direct => s.mode_known)),
      mode_known |-> cable \/ direct \/ s.mode_known]

===============================================================================
