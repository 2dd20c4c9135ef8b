SPECIFICATION Spec
CONSTANTS
  Threads = {t1, t2}
  NoThread = NoThread
  Scheduler = Scheduler
  Ops = {"point", "sleep", "notify"}
  NotifyTimed = TRUE
  KeyTimeouts = FALSE
SYMMETRY Symmetry
INVARIANTS
  NoThreadIsLost
CHECK_DEADLOCK FALSE
