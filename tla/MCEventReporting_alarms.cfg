SPECIFICATION Spec
CONSTANTS
  Values = {0, 2, 3}
  Limits <- EachKind
  Delays <- TwoDelays
  Enables <- AllOrNone
  AckRequireds <- All
  Recipients <- AllOrNone
  Steps = {1}
  MaxClock = 4
INVARIANTS
  AlarmsAreSeen
  AcknowledgedOnce
PROPERTIES
  CommitsWhenHeld
