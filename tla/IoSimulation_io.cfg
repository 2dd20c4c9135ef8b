CONSTANTS
  Threads = {t1, t2}
  NoThread = NoThread
  Scheduler = Scheduler
  Protocols = {"none", "serial", "lax", "normal"}
  Predictions <- MCPredictions
  Threshold <- MCThreshold
  Excluding = {"lax"}
  Work = {0, 2}
  Slot = 2
  MinSlot = 1
  MaxCalls = 1
  MaxTime = 3
  MaxReal = 2
SPECIFICATION Spec
INVARIANTS
  
  IoThreadsAreScheduled
PROPERTIES
  EveryCallReturns
