SPECIFICATION Spec
CONSTANTS
  Savers = {s1, s2, s3}
  Absent = Absent
  MaxFaults = 2
SYMMETRY Interchangeable
INVARIANTS
  LoadsAreOfOneMoment
  SavedIsLoadable
PROPERTY OnlyOthersRefuse
CHECK_DEADLOCK FALSE
