SPECIFICATION Spec
CONSTANTS
  processors = 2
  Threads = {t1, t2}
  NoThread = NoThread
  strict = TRUE
  schedulerTimeslot = 0
  Durations = {1}
  MaxTime = 1
SYMMETRY Symmetry
INVARIANTS
  TimelineIsConsistent
CHECK_DEADLOCK FALSE
