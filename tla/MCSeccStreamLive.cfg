\* A charger without any DC mode in its configuration, and every vehicle.
CONSTANTS
  s1 = s1
  s2 = s2
  s3 = s3
  Sids = {s1, s2}
  NoSid = NoSid
  Times = {0}
  Window = 1
  UndecodableLimit = 2
  Negotiable = {"ISO2", "DIN"}
  SupportedModes = {}
  Overridden = {}
  RngMayFail = FALSE
SPECIFICATION FairSpec
PROPERTY BabblingPeerIsReleased
