SPECIFICATION Spec
CONSTANTS
  s1 = s1
  s2 = s2
  s3 = s3
  Savers = {s1, s2, s3}
  n1 = n1
  n2 = n2
  Names = {n1, n2}
  Kind <- MCKind
  Absent = Absent
  Empty = Empty
  Foreign = Foreign
  MaxFaults = 2
INVARIANTS
  VisibleIsWhole
  SavedStays
  SomebodyWins
PROPERTY ImplementsStore
CHECK_DEADLOCK FALSE
