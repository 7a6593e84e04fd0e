\* One vehicle whose handshake finds no common protocol.
CONSTANTS
  s1 = s1
  s2 = s2
  s3 = s3
  Sids = {s1, s2}
  NoSid = NoSid
  Times = {0}
  Window = 1
  UndecodableLimit = 1
  Negotiable = {"ISO2", "DIN"}
  SupportedModes = {"DC_core"}
  Overridden = {}
  RngMayFail = FALSE
SPECIFICATION Spec
PROPERTY NoRequestAfterFailedNegotiation
