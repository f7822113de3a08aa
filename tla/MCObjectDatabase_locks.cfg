SPECIFICATION Spec
CONSTANTS
  d = d
  a = a
  n1 = n1
  n2 = n2
  t1 = t1
  t2 = t2
  Objects = {d, a}
  Device = d
  Names = {n1, n2}
  Threads = {t1, t2}
  NoObject = NoObject
  NoName = NoName
  MaxRevision = 3
SYMMETRY Symmetry
INVARIANTS
  IndexesAgree
  RevisionTells
  NoDeadlock
