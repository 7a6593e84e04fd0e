CONSTANTS
  Clients = {c1, c2, c3, c4}
  MaxFd = 5
  QueueDepth = 2
SPECIFICATION Spec
INVARIANTS CloseIsOfOwnSocket
