CONSTANTS
  a = a
  i = i
  m = m
  ProfiledThreads = {t1, t2}
  Late = {t2}
  Throwing = {t1}
  Methods = {a, i, m}
  IoMethods = {i}
  ModelMethods = {m}
  Registered = {a, i}
  Scaling <- MCScaling
  Configurations <- MCConfigurations
  SamplesLimit = 1
  MinimumTime = 1
  Percentage = 50
  MaxDepth = 3
  MaxInvocations = 3
  MaxRealTime = 2
SPECIFICATION ProfilingSpec
INVARIANTS
  CallLogIsConsistent
  MeasuredTimesAreTheTimesSpent
PROPERTIES
  ReportedTimeIsTheTimeSpent
CHECK_DEADLOCK FALSE
