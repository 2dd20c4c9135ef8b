SPECIFICATION Spec
CONSTANTS
  Customers = {1, 2, 3}
  NULL = NULL
  src = src
  queueing = queueing
  preemptive = preemptive
  sharer = sharer
  plain = plain
  delay = delay
  snk = snk
  nil = nil
  Nodes <- TheNodes
  Kind <- TheKinds
  Links <- TheLinks
  Servers <- TheServers
  Capacity <- TheCapacities
  LossNode <- TheLossNodes
  Rank <- TheRanks
  Demands = {2, 4}
  Gaps = {2}
  Batches = {2}
  Disciplines = {"random", "priority"}
  MaxVisits = 4
INVARIANTS
  NetworkIsConsistent
  DemandsAreServed
PROPERTIES
  DiaryIsACalendar
  EveryCustomerLeaves
CHECK_DEADLOCK FALSE
