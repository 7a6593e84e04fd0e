CONSTANTS
  Kinds = {setup, discovery}
  Timeout = 2
  SetupTimeout = 1
  MaxRetries = 3
  MaxExchanges = 3
  MaxConnections = 2
  HeaderLen = 2
  PayloadLen = 1
SPECIFICATION FairSpec
INVARIANTS TypeOK LagIsBoundedByFailures FrameIsBounded
PROPERTIES EveryCallReturns
