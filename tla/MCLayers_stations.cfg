SPECIFICATION LayersSpec
CONSTANTS
  None = None
  d1 = d1
  d2 = d2
  phone = phone
  bbmd = bbmd
  far = far
  Networks = {1, 2}
  Macs = {1}
  Devices = {d1, d2}
  Site = "site"
  LocalNetwork = 7
  Requests <- MCRequests
  Broadcasts <- MCBroadcasts
  Station = phone
  MaxFrames = 2
  MaxEdits = 2
INVARIANTS
  RouterIsTruthful
  PathsAreShortest
  ReassembledWhole
  AnswersBelong
  StaysRegistered
  ListenersHear
  NeverClaimsMore
  TimesAreKept
  EntriesNameTheirDays
  AnsweredIsComplete
PROPERTY EventuallyServed
CHECK_DEADLOCK FALSE
