SPECIFICATION FairSpec
CONSTANTS
  c1 = c1
  c2 = c2
  c3 = c3
  NoCall = NoCall
  p1 = p1
  p2 = p2
  Calls = {c1, c2, c3}
  Peers = {p1, p2}
  PeerOf <- TwoPeers
  ServiceOf <- TwoServices
  Ids = 2
  Retries = 1
  Timeout = 1
  Rtos = {2}
  TimeoutCeiling = 2
INVARIANTS
  IdsHaveOneOwner
  CrossedOnlyAfterCycle
PROPERTIES
  EveryCallEnds
CHECK_DEADLOCK FALSE
