SPECIFICATION StoriesSpec
CONSTANTS
  o1 = o1
  kBoth = kBoth
  kOther = kOther
  t1 = t1
  t2 = t2
  Objects = {o1}
  Keys = {kBoth, kOther}
  ObjectOf <- OneObject
  Watches <- Both
  Threads = {t1, t2}
  Values <- OneInto
  Flags = {0, 1}
  Increments = {2}
  Lifetimes = {0, 1}
  Limits <- TwoLimits
  Deletable = {o1}
  MaxClock = 1
INVARIANTS
  WithinLimits
PROPERTIES
  MeasuredFromWhatWasTold
  FirstEvaluationReportsIfClean
  EventuallyCurrent
