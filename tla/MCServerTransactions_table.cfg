SPECIFICATION Spec
CONSTANTS
  r1 = r1
  r2 = r2
  r3 = r3
  p1 = p1
  p2 = p2
  Requests = {r1, r2, r3}
  Peers = {p1, p2}
  To <- ToOnePeer
  IdCount = 2
  MaxSenders = 1
  Timeouts = {1}
  RetryLimits = {1}
  SendCanFail = TRUE
  ResendCanFail = TRUE
SYMMETRY RequestSymmetry
INVARIANTS
  EachEndsOnce
  RetriesBeforeGivingUp
PROPERTIES
  CrossedOnlyAfterCycle
