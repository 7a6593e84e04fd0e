\* A handshake repeated in the charge loop.
CONSTANTS
  SequenceTimeout = 1
  SeTimeout = 0
  EimTimeout = 2
  HoldTime = 0
  UndecodableLimit = 1
SPECIFICATION Spec
INVARIANT CleanStopWithContactorsOpen
