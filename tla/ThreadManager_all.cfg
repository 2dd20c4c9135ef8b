SPECIFICATION FairSpec
CONSTANTS
  Threads = {t1, t2}
  NoThread = NoThread
  Scheduler = Scheduler
  Ops = {"point", "sleep", "wait", "wrapped", "notify", "end"}
  NotifyTimed = FALSE
  KeyTimeouts = FALSE
INVARIANTS
  OneRunningThread
  ThreadsCanGoOn
PROPERTIES
  HandshakesEnd
CHECK_DEADLOCK FALSE
