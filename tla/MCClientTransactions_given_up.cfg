SPECIFICATION Spec
CONSTANTS
  c1 = c1
  c2 = c2
  c3 = c3
  NoCall = NoCall
  p1 = p1
  p2 = p2
  Calls = {c1, c2}
  Peers = {p1}
  PeerOf <- OnePeer
  ServiceOf <- OneService
  Ids = 1
  Retries = 0
  Timeout = 1
  Rtos = {1}
  TimeoutCeiling = 1
INVARIANT GivenUpNeverAnswersAnother
CHECK_DEADLOCK FALSE
