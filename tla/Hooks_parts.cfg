SPECIFICATION HooksSpec
CONSTANTS
  m = m
  a = a
  x = x
  Threads = {m, a, x}
  main = m
  NoThread = none
  Objects = {1}
  Excluded = {x}
  Foreign = {}
  Cores = 1
  Ops <- Roles
  IoThreads = {t1, t2}
  Points = {p1}
  NoPoint = NoPoint
  NoSlot = NoSlot
  Configurations <- ThePredictors
  MaxParallel <- TheTables
  BufferSize = 3
  Threshold = 2
  Durations = {2, 5}
  MaxCalls = 4
  MaxRuns = 2
SYMMETRY Symmetry
INVARIANTS
  RegistriesAreAccurate
  WakeUpsAreUnderstood
  
PROPERTIES
  JoinedThreadHasEnded
CHECK_DEADLOCK FALSE
