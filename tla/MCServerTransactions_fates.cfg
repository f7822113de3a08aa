SPECIFICATION FairSpec
CONSTANTS
  r1 = r1
  r2 = r2
  r3 = r3
  p1 = p1
  p2 = p2
  Requests = {r1, r2}
  Peers = {p1, p2}
  To <- ToTwoPeers
  IdCount = 4
  MaxSenders = 2
  Timeouts = {1}
  RetryLimits = {0, 1}
  SendCanFail = TRUE
  ResendCanFail = TRUE
PROPERTIES
  ImplementsFates
  EventuallyEnded
