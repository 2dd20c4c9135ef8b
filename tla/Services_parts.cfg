SPECIFICATION ServicesSpec
CONSTANTS
  Threads = {t1, t2, t3}
  Locks = {l1, l2}
  NoThread = NoThread
  reentrantLocking = FALSE
  MaxEntries = 2
  HeapThreads = {ha, hb}
  Scalable = {ha, hb}
  CoreIds = {c1, c2}
  None = None
  MaxErt = 2
  IoCallers = {ia, ib}
  IoOutcomes <- TheOutcomes
  Measured = {0, 1}
  MaxIoCalls = 1
  PassiveThreads = {pa, pb}
  Timeout = 2
  MaxPassiveCpu = 2
  MaxPassiveErt = 1
  Background = Background
  SampledThreads = {sa}
  Advances = {0, 2}
  MaxSamples = 2
  CountedThreads = {ta, tb}
  StateCodes = {"REGISTERING", "RUNNING"}
  MaxTransitions = 2
  MaxStateTime = 1
  Documents <- TheDocuments
  NoTable = NoTable
  Missing = Missing
  Whole = 3
  m1 = m1
  m2 = m2
  m3 = m3
  m4 = m4
  Measures = {m1, m2, m3, m4}
  Top = Top
  Times = {0, 1, 2}
  Thresholds = {0, 50}
  Trees <- TheTrees
  CountedBy = {da, db}
  MaxUse = 2
SYMMETRY Symmetry
INVARIANTS
  MonitorsAreExclusive
  
  
  PassiveTimeIsChargedAtMostTwice
  
  
  
  ReportIsTheProfile
  RecordsAreAccurate
CHECK_DEADLOCK FALSE
