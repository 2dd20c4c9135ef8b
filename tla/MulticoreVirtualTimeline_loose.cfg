SPECIFICATION Spec
CONSTANTS
  processors = 2
  Threads = {t1, t2}
  NoThread = NoThread
  strict = FALSE
  schedulerTimeslot = 1
  Durations = {1}
  MaxTime = 2
SYMMETRY Symmetry
INVARIANTS
  TimelineIsConsistent
PROPERTIES
  ClocksAdvance
CHECK_DEADLOCK FALSE
