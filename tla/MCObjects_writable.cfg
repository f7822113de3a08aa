CONSTANTS
  None = None
  t1 = t1
  t2 = t2
  phone = phone
  panel = panel
  calendar = calendar
  lamp = lamp
  foreign = foreign
  Slots = 2
  U8Max = 3
  U32Max = 4
  Threads = {t1, t2}
  Ids <- MCIds
  DeviceId = "device"
  Sources = {phone, panel}
  Sites <- MCSites
  Writes <- MCWrites
  Reads <- MCReads
  Readings <- MCReadings
  MaxAsked <- MCMaxAsked
  Times = {1, 2}
  DateLists = {{}, {1}}
  Priorities = {1, 2}
  Values = {0, 1}
  MaxCalls = 5
SPECIFICATION StoriesSpec
INVARIANT ListsArriveWhole
CHECK_DEADLOCK FALSE
