SPECIFICATION SupportSpec
CONSTANTS
  ta = ta
  tb = tb
  TimedThreads = {ta, tb}
  Scaling <- TheScaling
  MaxCpu = 2
  SleepTime = 1
  GcTime = 1
  MaxGc = 1
  CoreScheduler = CoreScheduler
  Collector = Collector
  Nobody = Nobody
  MaxOptions = 3
  MaxTokens = 4
  HostCores = 1
  la = la
  lb = lb
  LoopThreads = {la, lb}
  Rescalers = {la}
  Cores = 2
INVARIANTS
  TimeIsAccounted
  
  LoopIsSound
PROPERTIES
  EndReturns
CHECK_DEADLOCK FALSE
