SPECIFICATION Spec
CONSTANTS
  Assemblies <- MCAssemblies
  Batches = 4
  MaxSteps = 2
  Interval = 2
  Absent = Absent
  MaxFaults = 3
INVARIANTS
  WholeLifecycle
  ReplayIsExact
  LoopFollowsLifecycle
  FailuresAreTheCallers
  KeysAreFresh
PROPERTY TrainsInLockStep
