SPECIFICATION Spec
CONSTANTS
  Threads = {a, b}
  NoThread = none
  Scheduler = sched
  Nodes <- TheNodes
  Kind <- TheKinds
  Links <- TheLinks
  Servers <- TheServers
  Demands = {0, 2}
  Slot = 2
  MaxCalls = 1
  MaxTime = 3

  
  
PROPERTIES
  EveryCallReturns
