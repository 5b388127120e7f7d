SPECIFICATION Spec
CONSTANTS
  Contracts = {c1, c2}
  Scopes = {x1, x2}
  Shapes = {p1, p2}
  MaxEntries = 2
  MaxCalls = 6
  NoKernel = NoKernel
  Uncompiled = Uncompiled
SYMMETRY Interchangeable
INVARIANTS
  RightExecution
  CacheHonest
  CacheIsWorkingSet
  CompiledOnce
CHECK_DEADLOCK FALSE
