SPECIFICATION Spec
CONSTANTS
  RequestSegments = 3
  MaxResponse = 5
  MaxSegments = 3
  Numbers = 4
  Windows = {0, 2}
  Ahead = 1
  Retries = 1
INVARIANTS
  ReceivedInOrder
  ReachesTheDevice
CHECK_DEADLOCK FALSE
