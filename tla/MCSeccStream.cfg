\* Two vehicles' worth of sessions, connection after connection.
CONSTANTS
  s1 = s1
  s2 = s2
  s3 = s3
  Sids = {s1, s2, s3}
  NoSid = NoSid
  Times = {0, 1, 2}
  Window = 1
  UndecodableLimit = 1
  Negotiable = {"ISO2", "DIN"}
  SupportedModes = {"DC_core", "DC_extended"}
  Overridden = {"CableCheck"}
  RngMayFail = TRUE
SYMMETRY Symmetry
SPECIFICATION Spec
INVARIANTS
  TypeOK
  AnsweredUnderAnnouncedSession
  DcModeIsEarned
  DcEnergyIsPrepared
  DinChargesInDc
  DinAgreesToItsOffer
  IsoAuthorizationIsDeferred
  PauseIsRemembered
  RefusedPaymentEndsStream
  RejectionWasDelivered
  StopIsReportedWhenOver
PROPERTIES
  JoinedIffPaused
  ProtocolIsPinned
  DcModeIsKept
  StopIsFinal
  ImplementsChargeSession
