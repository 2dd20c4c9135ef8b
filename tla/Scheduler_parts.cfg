SPECIFICATION SchedulerSpec
CONSTANTS
  Threads = {t1, t2}
  NoThread = NoThread
  Scheduler = Scheduler
  Ops = {"point", "yield", "wait", "notify"}
  NotifyTimed = FALSE
  KeyTimeouts = TRUE
  fa = fa
  fb = fb
  fc = fc
  LeapThreads = {fa, fb, fc}
  Newborn = {fc}
  Natives = {fb, fc}
  MaxTime = 1
  Natwait = "counters"
  Apart = 1
INVARIANTS
  SignalIsAnswered
  AwakenedThreadIsResuming
  
PROPERTIES
  SleeperWakes
CHECK_DEADLOCK FALSE
