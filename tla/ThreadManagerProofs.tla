------------------------- MODULE ThreadManagerProofs -------------------------
(***************************************************************************)
(* What the runs of ThreadManager check on two threads and some of the     *)
(* operations, for every set of threads and operations: one running thread *)
(* per core; a signalled thread answers, whatever the threads do; and      *)
(* without key timeouts, interrupts and notified timed waits, no thread is *)
(* lost and no assertion of the code fails. And a scheduler that looks at  *)
(* the threads one by one, without their locks, leaps over nobody who was  *)
(* active, or could have been, all the while.                              *)
(***************************************************************************)
EXTENDS ThreadManager, ForwardLeaps, TLAPS

\* Where the scheduler holds the key of the thread it handles.
SKeyHeldAt == {"reply", "pop", "isSuspended", "isTimedWaiting", "resume"}

SchedulerHasThread == spc \notin {"wait", "top"} => sarg \in Threads

SchedulerHoldsKey == spc \in SKeyHeldAt => key[sarg] = Scheduler

ThreadHoldsKey == \A t \in Threads : pc[t] \in KeyHeldAt => key[t] = t

NotifierHasTarget ==
  \A t \in Threads : pc[t] \in {"notify", "notified"} => target[t] \in Threads

\* The sharedAccessKey keeps a thread inside VEX and the scheduler apart.
KeysAreKept ==
  /\ SchedulerHasThread
  /\ SchedulerHoldsKey
  /\ ThreadHoldsKey
  /\ NotifierHasTarget

\* A signal, or the reply to it, is pending only while the scheduler waits
\* for it: no reply is left over from an earlier signal.
SignalsArePending ==
  \A t \in Threads :
    /\ t \in hup => spc = "reply" /\ sarg = t /\ flag[t] = "CLEAR"
    /\ flag[t] # "CLEAR" => spc = "reply" /\ sarg = t

\* While the scheduler waits for the reply, the signalled thread stays the
\* running thread; one that asked to be disregarded does not run again.
RepliesAreFresh ==
  spc = "reply" =>
    /\ runningThread = sarg
    /\ flag[sarg] = "TO_BE_DISREGARDED" =>
         pc[sarg] = "becomeNative" \/ state[sarg] # "RUNNING"

\* What protects the slot of the running thread.
SlotIsKept ==
  /\ SignalsArePending
  /\ RepliesAreFresh
  /\ OneRunningThread

IndInv ==
  /\ TypeOK
  /\ KeysAreKept
  /\ SlotIsKept
-----------------------------------------------------------------------------
\* What push does to the queue and to the record of failed assertions.
LEMMA PushTypes ==
  ASSUME TypeOK, NEW t \in Threads, push(t)
  PROVE  queue' \subseteq Threads /\ failed' \in BOOLEAN
  <1>1. queue' \subseteq Threads
    BY DEF push, TypeOK
  <1>2. failed' \in BOOLEAN
    BY Zenon DEF push
  <1> QED BY <1>1, <1>2

\* What suspending oneself does.
LEMMA SuspendTypes ==
  ASSUME TypeOK, NEW t \in Threads, setSuspendedAndPushToRunnables(t)
  PROVE  /\ state' \in [Threads -> States] /\ awaken' \in [Threads -> BOOLEAN]
         /\ timedOut' \in [Threads -> BOOLEAN] /\ timeout' \in [Threads -> -2 .. 1]
         /\ runningThread' \in Threads \cup {NoThread}
         /\ queue' \subseteq Threads /\ failed' \in BOOLEAN
  <1>1. queue' \subseteq Threads /\ failed' \in BOOLEAN
    BY PushTypes DEF setSuspendedAndPushToRunnables
  <1> QED BY <1>1 DEF setSuspendedAndPushToRunnables, setSuspended, setAwaken, Unset, Set,
                      States, TypeOK

\* Every step keeps the types; the scheduler and a notifier always have a
\* thread to act upon.
LEMMA StepKeepsTypes ==
  ASSUME IndInv, Next
  PROVE  TypeOK'
  <1> USE DistinctAssumption, OpsAssumption
          DEF IndInv, TypeOK, KeysAreKept, SchedulerHasThread, NotifierHasTarget, Labels,
              KeyHeldAt, States, Intentions, Set, threadVars, stateVars, schedVars
  <1>1. ASSUME doControllerWait PROVE TypeOK'
    BY <1>1 DEF doControllerWait
  <1>2. ASSUME suspendThread PROVE TypeOK'
    BY <1>2 DEF suspendThread, SGoto, StillRunning
  <1>3. ASSUME suspendThreadTimesOut PROVE TypeOK'
    BY <1>3 DEF suspendThreadTimesOut, SGoto, Unset
  <1>4. ASSUME suspendRunning PROVE TypeOK'
    BY <1>4 DEF suspendRunning, GetsIntention, SGoto, setSuspended, setAwaken, push,
         Unset
  <1>5. ASSUME onIntentionToBeDisregarded PROVE TypeOK'
    BY <1>5 DEF onIntentionToBeDisregarded, GetsIntention, SGoto, Unset
  <1>6. ASSUME onIntentionToKeepOnRunning PROVE TypeOK'
    BY <1>6 DEF onIntentionToKeepOnRunning, GetsIntention, SWait
  <1>7. ASSUME top PROVE TypeOK'
    BY <1>7 DEF top, SWait
  <1>8. ASSUME lockTop PROVE TypeOK'
    BY <1>8 DEF lockTop, SGoto
  <1>9. ASSUME popTop PROVE TypeOK'
    BY <1>9 DEF popTop, SWait, SGoto, pop
  <1>10. ASSUME handleSuspended PROVE TypeOK'
    <2>1. CASE pushBack
      <3>1. sarg \in Threads /\ queue' \subseteq Threads /\ failed' \in BOOLEAN
        BY <1>10, <2>1, PushTypes DEF handleSuspended, pushBack
      <3> QED BY <1>10, <2>1, <3>1 DEF handleSuspended, SGoto, SWait, pushBack
    <2>2. CASE ~pushBack
      BY <1>10, <2>2 DEF handleSuspended, SGoto, SWait
    <2> QED BY <2>1, <2>2
  <1>11. ASSUME handleTimedWaiting PROVE TypeOK'
    <2>1. CASE pushBack
      <3>1. sarg \in Threads /\ queue' \subseteq Threads /\ failed' \in BOOLEAN
        BY <1>11, <2>1, PushTypes DEF handleTimedWaiting, pushBack
      <3> QED BY <1>11, <2>1, <3>1 DEF handleTimedWaiting, SGoto, SWait, pushBack,
               setSuspended, setAwaken
    <2>2. CASE ~pushBack
      <3>1. /\ sarg \in Threads
            /\ state' = Set(state, sarg, "SUSPENDED") \/ state' = state
            /\ awaken' = Set(awaken, sarg, FALSE) \/ awaken' = awaken
            /\ timedOut' = Set(timedOut, sarg, TRUE) \/ timedOut' = timedOut
            /\ key' = Set(key, sarg, NoThread) \/ key' = key
            /\ UNCHANGED <<queue, failed>>
        BY <1>11, <2>2 DEF handleTimedWaiting, setSuspended, setAwaken
      <3>2. spc' \in {"resume", "wait"} /\ sarg' \in Threads \cup {NoThread}
        BY <1>11, <2>2, <3>1 DEF handleTimedWaiting, SGoto, SWait
      <3>3. /\ state' \in [Threads -> States]
            /\ key' \in [Threads -> Threads \cup {NoThread, Scheduler}]
        BY <3>1
      <3>4. awaken' \in [Threads -> BOOLEAN]
        <4>1. CASE awaken' = Set(awaken, sarg, FALSE)
          BY <4>1, <3>1
        <4>2. CASE awaken' = awaken
          BY <4>2
        <4> QED BY <3>1, <4>1, <4>2
      <3>5. timedOut' \in [Threads -> BOOLEAN]
        <4>1. CASE timedOut' = Set(timedOut, sarg, TRUE)
          BY <4>1, <3>1
        <4>2. CASE timedOut' = timedOut
          BY <4>2
        <4> QED BY <3>1, <4>1, <4>2
      <3> QED BY <1>11, <3>1, <3>2, <3>3, <3>4, <3>5 DEF handleTimedWaiting
    <2> QED BY <2>1, <2>2
  <1>12. ASSUME resumeThread PROVE TypeOK'
    BY <1>12 DEF resumeThread, SWait, setAwaken
  <1>13. ASSUME NEW t \in Threads, onThreadSpawn(t) PROVE TypeOK'
    BY <1>13 DEF onThreadSpawn, ThreadStep, Goto
  <1>14. ASSUME NEW t \in Threads, NEW o \in Ops, onVexEntry(t, o) PROVE TypeOK'
    BY <1>14 DEF onVexEntry, ThreadStep, Goto
  <1>15. ASSUME NEW t \in Threads, onWrappedWaitingEnd(t) PROVE TypeOK'
    BY <1>15 DEF onWrappedWaitingEnd, ThreadStep, Goto
  <1>16. ASSUME NEW t \in Threads, lockShareResourceAccessKey(t, "entered", "locked")
         PROVE  TypeOK'
    BY <1>16 DEF lockShareResourceAccessKey, ThreadStep, Goto
  <1>17. ASSUME NEW t \in Threads, lockShareResourceAccessKey(t, "loose", "looseLocked")
         PROVE  TypeOK'
    BY <1>17 DEF lockShareResourceAccessKey, ThreadStep, Goto
  <1>18. ASSUME NEW t \in Threads, lockShareResourceAccessKey(t, "woken", "setRunning")
         PROVE  TypeOK'
    BY <1>18 DEF lockShareResourceAccessKey, ThreadStep, Goto
  <1>19. ASSUME NEW t \in Threads, suspendLooseCurrentThread(t) PROVE TypeOK'
    <2>1. CASE setSuspendedAndPushToRunnables(t)
      BY <1>19, <2>1, SuspendTypes DEF suspendLooseCurrentThread, ThreadStep, Goto
    <2>2. CASE ~setSuspendedAndPushToRunnables(t)
      BY <1>19, <2>2 DEF suspendLooseCurrentThread, ThreadStep, Goto
    <2> QED BY <2>1, <2>2
  <1>20. ASSUME NEW t \in Threads, suspendCurrentThread(t) PROVE TypeOK'
    <2>1. CASE setSuspendedAndPushToRunnables(t)
      BY <1>20, <2>1, SuspendTypes DEF suspendCurrentThread, ThreadStep, Goto
    <2>2. CASE ~setSuspendedAndPushToRunnables(t)
      BY <1>20, <2>2 DEF suspendCurrentThread, ThreadStep, Goto
    <2> QED BY <2>1, <2>2
  <1>21. ASSUME NEW t \in Threads, unlockBeforeBlocking(t) PROVE TypeOK'
    BY <1>21 DEF unlockBeforeBlocking, ThreadStep, Goto
  <1>22. ASSUME NEW t \in Threads, blockHereUntilSignaled(t) PROVE TypeOK'
    BY <1>22 DEF blockHereUntilSignaled, ThreadStep, Goto, setAwaken
  <1>23. ASSUME NEW t \in Threads, wakeUp(t) PROVE TypeOK'
    BY <1>23 DEF wakeUp, ThreadStep, Goto
  <1>24. ASSUME NEW t \in Threads, setRunningThread(t) PROVE TypeOK'
    <2>1. /\ pc' = Set(pc, t, "isRunning") \/ pc' = Set(pc, t, "resuspend")
          /\ state' = Set(state, t, "RUNNING") \/ state' = state
          /\ runningThread' = t \/ runningThread' = runningThread
          /\ managed' = Set(managed, t, TRUE) \/ managed' = managed
          /\ awaken' = Set(awaken, t, FALSE)
      BY <1>24 DEF setRunningThread, Goto, setAwaken
    <2>2. /\ pc' \in [Threads -> Labels] /\ state' \in [Threads -> States]
          /\ runningThread' \in Threads \cup {NoThread}
      BY <2>1
    <2>3. managed' \in [Threads -> BOOLEAN]
      <3>1. CASE managed' = Set(managed, t, TRUE)
        BY <3>1
      <3>2. CASE managed' = managed
        BY <3>2
      <3> QED BY <2>1, <3>1, <3>2
    <2>4. awaken' \in [Threads -> BOOLEAN]
      BY <2>1
    <2> QED BY <1>24, <2>2, <2>3, <2>4 DEF setRunningThread, ThreadStep
  <1>25. ASSUME NEW t \in Threads, resuspend(t) PROVE TypeOK'
    <2>1. CASE setSuspendedAndPushToRunnables(t)
      BY <1>25, <2>1, SuspendTypes DEF resuspend, ThreadStep, Goto
    <2>2. CASE ~setSuspendedAndPushToRunnables(t)
      <3>1. /\ pc' = Set(pc, t, "unlock") \/ pc' = Set(pc, t, "setRunning")
            /\ state' = Set(state, t, "SUSPENDED") \/ state' = state
            /\ awaken' = Set(awaken, t, FALSE) \/ awaken' = awaken
            /\ runningThread' \in {NoThread, runningThread}
            /\ UNCHANGED <<timedOut, timeout, queue, failed>>
        BY <1>25, <2>2 DEF resuspend, Goto, setSuspended, setAwaken, Unset
      <3>2. /\ pc' \in [Threads -> Labels] /\ state' \in [Threads -> States]
            /\ runningThread' \in Threads \cup {NoThread}
        BY <3>1
      <3>3. awaken' \in [Threads -> BOOLEAN]
        <4>1. CASE awaken' = Set(awaken, t, FALSE)
          BY <4>1
        <4>2. CASE awaken' = awaken
          BY <4>2
        <4> QED BY <3>1, <4>1, <4>2
      <3> QED BY <1>25, <3>1, <3>2, <3>3 DEF resuspend, ThreadStep
    <2> QED BY <2>1, <2>2
  <1>26. ASSUME NEW t \in Threads, afterResume(t) PROVE TypeOK'
    BY <1>26 DEF afterResume, ThreadStep, Goto
  <1>27. ASSUME NEW t \in Threads, onVexExit(t) PROVE TypeOK'
    BY <1>27 DEF onVexExit, ThreadStep, Goto
  <1>28. ASSUME NEW t \in Threads, afterLooseEntry(t) PROVE TypeOK'
    BY <1>28 DEF afterLooseEntry, Calls, ThreadStep, Goto
  <1>29. ASSUME NEW t \in Threads, onReplacedTimedWaiting(t) PROVE TypeOK'
    BY <1>29 DEF onReplacedTimedWaiting, Calls, ThreadStep, Goto, setAwaken, Unset
  <1>30. ASSUME NEW t \in Threads, setTimedWaitingThread(t) PROVE TypeOK'
    BY <1>30 DEF setTimedWaitingThread, ThreadStep, Goto, push
  <1>31. ASSUME NEW t \in Threads, onReplacedWaiting(t) PROVE TypeOK'
    BY <1>31 DEF onReplacedWaiting, Calls, ThreadStep, Goto, Unset
  <1>32. ASSUME NEW t \in Threads, onWrappedWaitingStart(t) PROVE TypeOK'
    BY <1>32 DEF onWrappedWaitingStart, Calls, ThreadStep, Goto, Unset
  <1>33. ASSUME NEW t \in Threads, NEW u \in Threads, findWaiting(t, u) PROVE TypeOK'
    BY <1>33 DEF findWaiting, ThreadStep, Goto
  <1>34. ASSUME NEW t \in Threads, nobodyWaiting(t) PROVE TypeOK'
    BY <1>34 DEF nobodyWaiting, ThreadStep, Goto
  <1>35. ASSUME NEW t \in Threads, interruptThread(t) PROVE TypeOK'
    <2>1. target[t] \in Threads
      BY <1>35 DEF interruptThread, ThreadStep
    <2>2. queue' \subseteq Threads /\ failed' \in BOOLEAN
      <3>1. push(target[t]) \/ UNCHANGED <<queue, failed>>
        BY <1>35 DEF interruptThread, onAnyReplacedWaitingInterrupt
      <3> QED BY <2>1, <3>1, PushTypes
    <2>3. ResumingTimeout(timeout[target[t]]) \in -2 .. 1
      BY <2>1 DEF ResumingTimeout
    <2>4. /\ state' = Set(state, target[t], "SUSPENDED")
          /\ awaken' = Set(awaken, target[t], FALSE)
          /\ timeout' = Set(timeout, target[t], ResumingTimeout(timeout[target[t]]))
      BY <1>35 DEF interruptThread, onAnyReplacedWaitingInterrupt, setSuspended, setAwaken
    <2> QED BY <1>35, <2>1, <2>2, <2>3, <2>4 DEF interruptThread, ThreadStep, Goto
  <1>36. ASSUME NEW t \in Threads, setTimedOut(t) PROVE TypeOK'
    BY <1>36 DEF setTimedOut, ThreadStep, Goto, isNotification
  <1>37. ASSUME NEW t \in Threads, onThreadEnd(t) PROVE TypeOK'
    BY <1>37 DEF onThreadEnd, Calls, ThreadStep, Goto, Unset
  <1>38. ASSUME NEW t \in Threads, replyDisregarded(t) PROVE TypeOK'
    BY <1>38 DEF replyDisregarded, HandlerRuns, Goto, notifySchedulerForIntention
  <1>39. ASSUME NEW t \in Threads, setNativeWaiting(t) PROVE TypeOK'
    BY <1>39 DEF setNativeWaiting, ThreadStep, Goto
  <1>40. ASSUME NEW t \in Threads, replySuspended(t) PROVE TypeOK'
    BY <1>40 DEF replySuspended, HandlerRuns, Goto, setSuspended, setAwaken,
         notifySchedulerForIntention
  <1>41. ASSUME NEW t \in Threads, replyKeepOnRunning(t) PROVE TypeOK'
    BY <1>41 DEF replyKeepOnRunning, HandlerRuns, notifySchedulerForIntention
  <1> QED BY <1>1, <1>2, <1>3, <1>4, <1>5, <1>6, <1>7, <1>8, <1>9, <1>10, <1>11, <1>12,
             <1>13, <1>14, <1>15, <1>16, <1>17, <1>18, <1>19, <1>20, <1>21, <1>22,
             <1>23, <1>24, <1>25, <1>26, <1>27, <1>28, <1>29, <1>30, <1>31, <1>32,
             <1>33, <1>34, <1>35, <1>36, <1>37, <1>38, <1>39, <1>40, <1>41
          DEF Next, SchedulerStep, lockRunningThread, VexStep

\* Keys are locked only when they are free, and released by their holder.
LEMMA StepKeepsKeys ==
  ASSUME IndInv, Next
  PROVE  KeysAreKept'
  <1> USE DistinctAssumption, OpsAssumption
          DEF IndInv, TypeOK, KeysAreKept, SchedulerHasThread, SchedulerHoldsKey,
              ThreadHoldsKey, NotifierHasTarget, SKeyHeldAt, KeyHeldAt, Set,
              threadVars, stateVars, schedVars
  <1>1. ASSUME doControllerWait PROVE KeysAreKept'
    BY <1>1 DEF doControllerWait
  <1>2. ASSUME suspendThread PROVE KeysAreKept'
    BY <1>2 DEF suspendThread, SGoto, StillRunning
  <1>3. ASSUME suspendThreadTimesOut PROVE KeysAreKept'
    BY <1>3 DEF suspendThreadTimesOut, SGoto, Unset
  <1>4. ASSUME suspendRunning PROVE KeysAreKept'
    BY <1>4 DEF suspendRunning, GetsIntention, SGoto, setSuspended, setAwaken, push,
         Unset
  <1>5. ASSUME onIntentionToBeDisregarded PROVE KeysAreKept'
    BY <1>5 DEF onIntentionToBeDisregarded, GetsIntention, SGoto, Unset
  <1>6. ASSUME onIntentionToKeepOnRunning PROVE KeysAreKept'
    BY <1>6 DEF onIntentionToKeepOnRunning, GetsIntention, SWait
  <1>7. ASSUME top PROVE KeysAreKept'
    BY <1>7 DEF top, SWait
  <1>8. ASSUME lockTop PROVE KeysAreKept'
    BY <1>8 DEF lockTop, SGoto
  <1>9. ASSUME popTop PROVE KeysAreKept'
    BY <1>9 DEF popTop, SWait, SGoto, pop
  <1>10. ASSUME handleSuspended PROVE KeysAreKept'
    BY <1>10 DEF handleSuspended, SGoto, SWait, pushBack, push
  <1>11. ASSUME handleTimedWaiting PROVE KeysAreKept'
    BY <1>11 DEF handleTimedWaiting, SGoto, SWait, pushBack, push, setSuspended,
         setAwaken
  <1>12. ASSUME resumeThread PROVE KeysAreKept'
    BY <1>12 DEF resumeThread, SWait, setAwaken
  <1>13. ASSUME NEW t \in Threads, onThreadSpawn(t) PROVE KeysAreKept'
    BY <1>13 DEF onThreadSpawn, ThreadStep, Goto
  <1>14. ASSUME NEW t \in Threads, NEW o \in Ops, onVexEntry(t, o) PROVE KeysAreKept'
    BY <1>14 DEF onVexEntry, ThreadStep, Goto
  <1>15. ASSUME NEW t \in Threads, onWrappedWaitingEnd(t) PROVE KeysAreKept'
    BY <1>15 DEF onWrappedWaitingEnd, ThreadStep, Goto
  <1>16. ASSUME NEW t \in Threads, lockShareResourceAccessKey(t, "entered", "locked")
         PROVE  KeysAreKept'
    BY <1>16 DEF lockShareResourceAccessKey, ThreadStep, Goto
  <1>17. ASSUME NEW t \in Threads, lockShareResourceAccessKey(t, "loose", "looseLocked")
         PROVE  KeysAreKept'
    BY <1>17 DEF lockShareResourceAccessKey, ThreadStep, Goto
  <1>18. ASSUME NEW t \in Threads, lockShareResourceAccessKey(t, "woken", "setRunning")
         PROVE  KeysAreKept'
    BY <1>18 DEF lockShareResourceAccessKey, ThreadStep, Goto
  <1>19. ASSUME NEW t \in Threads, suspendLooseCurrentThread(t) PROVE KeysAreKept'
    BY <1>19 DEF suspendLooseCurrentThread, ThreadStep, Goto,
         setSuspendedAndPushToRunnables, setSuspended, setAwaken, push, Unset
  <1>20. ASSUME NEW t \in Threads, suspendCurrentThread(t) PROVE KeysAreKept'
    BY <1>20 DEF suspendCurrentThread, ThreadStep, Goto, setSuspendedAndPushToRunnables,
         setSuspended, setAwaken, push, Unset
  <1>21. ASSUME NEW t \in Threads, unlockBeforeBlocking(t) PROVE KeysAreKept'
    BY <1>21 DEF unlockBeforeBlocking, ThreadStep, Goto
  <1>22. ASSUME NEW t \in Threads, blockHereUntilSignaled(t) PROVE KeysAreKept'
    BY <1>22 DEF blockHereUntilSignaled, ThreadStep, Goto, setAwaken
  <1>23. ASSUME NEW t \in Threads, wakeUp(t) PROVE KeysAreKept'
    BY <1>23 DEF wakeUp, ThreadStep, Goto
  <1>24. ASSUME NEW t \in Threads, setRunningThread(t) PROVE KeysAreKept'
    BY <1>24 DEF setRunningThread, ThreadStep, Goto, setAwaken,
         anotherThreadAlreadySetRunning
  <1>25. ASSUME NEW t \in Threads, resuspend(t) PROVE KeysAreKept'
    BY <1>25 DEF resuspend, ThreadStep, Goto, setSuspendedAndPushToRunnables,
         setSuspended, setAwaken, push, Unset
  <1>26. ASSUME NEW t \in Threads, afterResume(t) PROVE KeysAreKept'
    BY <1>26 DEF afterResume, ThreadStep, Goto
  <1>27. ASSUME NEW t \in Threads, onVexExit(t) PROVE KeysAreKept'
    BY <1>27 DEF onVexExit, ThreadStep, Goto
  <1>28. ASSUME NEW t \in Threads, afterLooseEntry(t) PROVE KeysAreKept'
    BY <1>28 DEF afterLooseEntry, Calls, ThreadStep, Goto
  <1>29. ASSUME NEW t \in Threads, onReplacedTimedWaiting(t) PROVE KeysAreKept'
    BY <1>29 DEF onReplacedTimedWaiting, Calls, ThreadStep, Goto, setAwaken, Unset
  <1>30. ASSUME NEW t \in Threads, setTimedWaitingThread(t) PROVE KeysAreKept'
    BY <1>30 DEF setTimedWaitingThread, ThreadStep, Goto, push
  <1>31. ASSUME NEW t \in Threads, onReplacedWaiting(t) PROVE KeysAreKept'
    BY <1>31 DEF onReplacedWaiting, Calls, ThreadStep, Goto, Unset
  <1>32. ASSUME NEW t \in Threads, onWrappedWaitingStart(t) PROVE KeysAreKept'
    BY <1>32 DEF onWrappedWaitingStart, Calls, ThreadStep, Goto, Unset
  <1>33. ASSUME NEW t \in Threads, NEW u \in Threads, findWaiting(t, u)
         PROVE  KeysAreKept'
    BY <1>33 DEF findWaiting, ThreadStep, Goto
  <1>34. ASSUME NEW t \in Threads, nobodyWaiting(t) PROVE KeysAreKept'
    BY <1>34 DEF nobodyWaiting, ThreadStep, Goto
  <1>35. ASSUME NEW t \in Threads, interruptThread(t) PROVE KeysAreKept'
    BY <1>35 DEF interruptThread, ThreadStep, Goto, onAnyReplacedWaitingInterrupt,
         setSuspended, setAwaken, push, ResumingTimeout
  <1>36. ASSUME NEW t \in Threads, setTimedOut(t) PROVE KeysAreKept'
    BY <1>36 DEF setTimedOut, ThreadStep, Goto, isNotification
  <1>37. ASSUME NEW t \in Threads, onThreadEnd(t) PROVE KeysAreKept'
    BY <1>37 DEF onThreadEnd, Calls, ThreadStep, Goto, Unset
  <1>38. ASSUME NEW t \in Threads, replyDisregarded(t) PROVE KeysAreKept'
    BY <1>38 DEF replyDisregarded, HandlerRuns, Goto, notifySchedulerForIntention
  <1>39. ASSUME NEW t \in Threads, setNativeWaiting(t) PROVE KeysAreKept'
    BY <1>39 DEF setNativeWaiting, ThreadStep, Goto
  <1>40. ASSUME NEW t \in Threads, replySuspended(t) PROVE KeysAreKept'
    BY <1>40 DEF replySuspended, HandlerRuns, Goto, setSuspended, setAwaken,
         notifySchedulerForIntention
  <1>41. ASSUME NEW t \in Threads, replyKeepOnRunning(t) PROVE KeysAreKept'
    BY <1>41 DEF replyKeepOnRunning, HandlerRuns, notifySchedulerForIntention
  <1> QED BY <1>1, <1>2, <1>3, <1>4, <1>5, <1>6, <1>7, <1>8, <1>9, <1>10, <1>11, <1>12,
             <1>13, <1>14, <1>15, <1>16, <1>17, <1>18, <1>19, <1>20, <1>21, <1>22,
             <1>23, <1>24, <1>25, <1>26, <1>27, <1>28, <1>29, <1>30, <1>31, <1>32,
             <1>33, <1>34, <1>35, <1>36, <1>37, <1>38, <1>39, <1>40, <1>41
          DEF Next, SchedulerStep, lockRunningThread, VexStep

\* Becoming the running thread, giving the slot up and the scheduler's
\* handshake never leave a second thread RUNNING.
LEMMA StepKeepsSlot ==
  ASSUME IndInv, Next
  PROVE  SlotIsKept'
  <1> USE DistinctAssumption, OpsAssumption
          DEF IndInv, TypeOK, KeysAreKept, SchedulerHasThread, SchedulerHoldsKey,
              ThreadHoldsKey, NotifierHasTarget, SKeyHeldAt, KeyHeldAt, Set, SlotIsKept,
              SignalsArePending, RepliesAreFresh, OneRunningThread,
              threadVars, stateVars, schedVars
  <1>1. ASSUME doControllerWait PROVE SlotIsKept'
    BY <1>1 DEF doControllerWait
  <1>2. ASSUME suspendThread PROVE SlotIsKept'
    BY <1>2 DEF suspendThread, SGoto, StillRunning
  <1>3. ASSUME suspendThreadTimesOut PROVE SlotIsKept'
    BY <1>3 DEF suspendThreadTimesOut, SGoto, Unset
  <1>4. ASSUME suspendRunning PROVE SlotIsKept'
    BY <1>4 DEF suspendRunning, GetsIntention, SGoto, setSuspended, setAwaken, push,
         Unset
  <1>5. ASSUME onIntentionToBeDisregarded PROVE SlotIsKept'
    BY <1>5 DEF onIntentionToBeDisregarded, GetsIntention, SGoto, Unset
  <1>6. ASSUME onIntentionToKeepOnRunning PROVE SlotIsKept'
    BY <1>6 DEF onIntentionToKeepOnRunning, GetsIntention, SWait
  <1>7. ASSUME top PROVE SlotIsKept'
    BY <1>7 DEF top, SWait
  <1>8. ASSUME lockTop PROVE SlotIsKept'
    BY <1>8 DEF lockTop, SGoto
  <1>9. ASSUME popTop PROVE SlotIsKept'
    BY <1>9 DEF popTop, SWait, SGoto, pop
  <1>10. ASSUME handleSuspended PROVE SlotIsKept'
    BY <1>10 DEF handleSuspended, SGoto, SWait, pushBack, push
  <1>11. ASSUME handleTimedWaiting PROVE SlotIsKept'
    BY <1>11 DEF handleTimedWaiting, SGoto, SWait, pushBack, push, setSuspended,
         setAwaken
  <1>12. ASSUME resumeThread PROVE SlotIsKept'
    BY <1>12 DEF resumeThread, SWait, setAwaken
  <1>13. ASSUME NEW t \in Threads, onThreadSpawn(t) PROVE SlotIsKept'
    BY <1>13 DEF onThreadSpawn, ThreadStep, Goto
  <1>14. ASSUME NEW t \in Threads, NEW o \in Ops, onVexEntry(t, o) PROVE SlotIsKept'
    BY <1>14 DEF onVexEntry, ThreadStep, Goto
  <1>15. ASSUME NEW t \in Threads, onWrappedWaitingEnd(t) PROVE SlotIsKept'
    BY <1>15 DEF onWrappedWaitingEnd, ThreadStep, Goto
  <1>16. ASSUME NEW t \in Threads, lockShareResourceAccessKey(t, "entered", "locked")
         PROVE  SlotIsKept'
    BY <1>16 DEF lockShareResourceAccessKey, ThreadStep, Goto
  <1>17. ASSUME NEW t \in Threads, lockShareResourceAccessKey(t, "loose", "looseLocked")
         PROVE  SlotIsKept'
    BY <1>17 DEF lockShareResourceAccessKey, ThreadStep, Goto
  <1>18. ASSUME NEW t \in Threads, lockShareResourceAccessKey(t, "woken", "setRunning")
         PROVE  SlotIsKept'
    BY <1>18 DEF lockShareResourceAccessKey, ThreadStep, Goto
  <1>19. ASSUME NEW t \in Threads, suspendLooseCurrentThread(t) PROVE SlotIsKept'
    BY <1>19 DEF suspendLooseCurrentThread, ThreadStep, Goto,
         setSuspendedAndPushToRunnables, setSuspended, setAwaken, push, Unset
  <1>20. ASSUME NEW t \in Threads, suspendCurrentThread(t) PROVE SlotIsKept'
    BY <1>20 DEF suspendCurrentThread, ThreadStep, Goto, setSuspendedAndPushToRunnables,
         setSuspended, setAwaken, push, Unset
  <1>21. ASSUME NEW t \in Threads, unlockBeforeBlocking(t) PROVE SlotIsKept'
    BY <1>21 DEF unlockBeforeBlocking, ThreadStep, Goto
  <1>22. ASSUME NEW t \in Threads, blockHereUntilSignaled(t) PROVE SlotIsKept'
    BY <1>22 DEF blockHereUntilSignaled, ThreadStep, Goto, setAwaken
  <1>23. ASSUME NEW t \in Threads, wakeUp(t) PROVE SlotIsKept'
    BY <1>23 DEF wakeUp, ThreadStep, Goto
  <1>24. ASSUME NEW t \in Threads, setRunningThread(t) PROVE SlotIsKept'
    BY <1>24 DEF setRunningThread, ThreadStep, Goto, setAwaken,
         anotherThreadAlreadySetRunning
  <1>25. ASSUME NEW t \in Threads, resuspend(t) PROVE SlotIsKept'
    BY <1>25 DEF resuspend, ThreadStep, Goto, setSuspendedAndPushToRunnables,
         setSuspended, setAwaken, push, Unset
  <1>26. ASSUME NEW t \in Threads, afterResume(t) PROVE SlotIsKept'
    BY <1>26 DEF afterResume, ThreadStep, Goto
  <1>27. ASSUME NEW t \in Threads, onVexExit(t) PROVE SlotIsKept'
    BY <1>27 DEF onVexExit, ThreadStep, Goto
  <1>28. ASSUME NEW t \in Threads, afterLooseEntry(t) PROVE SlotIsKept'
    BY <1>28 DEF afterLooseEntry, Calls, ThreadStep, Goto
  <1>29. ASSUME NEW t \in Threads, onReplacedTimedWaiting(t) PROVE SlotIsKept'
    BY <1>29 DEF onReplacedTimedWaiting, Calls, ThreadStep, Goto, setAwaken, Unset
  <1>30. ASSUME NEW t \in Threads, setTimedWaitingThread(t) PROVE SlotIsKept'
    BY <1>30 DEF setTimedWaitingThread, ThreadStep, Goto, push
  <1>31. ASSUME NEW t \in Threads, onReplacedWaiting(t) PROVE SlotIsKept'
    BY <1>31 DEF onReplacedWaiting, Calls, ThreadStep, Goto, Unset
  <1>32. ASSUME NEW t \in Threads, onWrappedWaitingStart(t) PROVE SlotIsKept'
    BY <1>32 DEF onWrappedWaitingStart, Calls, ThreadStep, Goto, Unset
  <1>33. ASSUME NEW t \in Threads, NEW u \in Threads, findWaiting(t, u)
         PROVE  SlotIsKept'
    BY <1>33 DEF findWaiting, ThreadStep, Goto
  <1>34. ASSUME NEW t \in Threads, nobodyWaiting(t) PROVE SlotIsKept'
    BY <1>34 DEF nobodyWaiting, ThreadStep, Goto
  <1>35. ASSUME NEW t \in Threads, interruptThread(t) PROVE SlotIsKept'
    BY <1>35 DEF interruptThread, ThreadStep, Goto, onAnyReplacedWaitingInterrupt,
         setSuspended, setAwaken, push, ResumingTimeout
  <1>36. ASSUME NEW t \in Threads, setTimedOut(t) PROVE SlotIsKept'
    BY <1>36 DEF setTimedOut, ThreadStep, Goto, isNotification
  <1>37. ASSUME NEW t \in Threads, onThreadEnd(t) PROVE SlotIsKept'
    BY <1>37 DEF onThreadEnd, Calls, ThreadStep, Goto, Unset
  <1>38. ASSUME NEW t \in Threads, replyDisregarded(t) PROVE SlotIsKept'
    BY <1>38 DEF replyDisregarded, HandlerRuns, Goto, notifySchedulerForIntention
  <1>39. ASSUME NEW t \in Threads, setNativeWaiting(t) PROVE SlotIsKept'
    BY <1>39 DEF setNativeWaiting, ThreadStep, Goto
  <1>40. ASSUME NEW t \in Threads, replySuspended(t) PROVE SlotIsKept'
    BY <1>40 DEF replySuspended, HandlerRuns, Goto, setSuspended, setAwaken,
         notifySchedulerForIntention
  <1>41. ASSUME NEW t \in Threads, replyKeepOnRunning(t) PROVE SlotIsKept'
    BY <1>41 DEF replyKeepOnRunning, HandlerRuns, notifySchedulerForIntention
  <1> QED BY <1>1, <1>2, <1>3, <1>4, <1>5, <1>6, <1>7, <1>8, <1>9, <1>10, <1>11, <1>12,
             <1>13, <1>14, <1>15, <1>16, <1>17, <1>18, <1>19, <1>20, <1>21, <1>22,
             <1>23, <1>24, <1>25, <1>26, <1>27, <1>28, <1>29, <1>30, <1>31, <1>32,
             <1>33, <1>34, <1>35, <1>36, <1>37, <1>38, <1>39, <1>40, <1>41
          DEF Next, SchedulerStep, lockRunningThread, VexStep

\* No thread is born, and the scheduler waits.
LEMMA InitEstablishes == Init => IndInv
  <1> SUFFICES ASSUME Init PROVE IndInv
    OBVIOUS
  <1>1. pc \in [Threads -> Labels] /\ state \in [Threads -> States]
    BY DEF Init, Labels, KeyHeldAt, States
  <1>2. TypeOK
    <2>1. /\ awaken \in [Threads -> BOOLEAN] /\ managed \in [Threads -> BOOLEAN]
          /\ timedOut \in [Threads -> BOOLEAN] /\ failed \in BOOLEAN
      BY DEF Init
    <2>2. timeout \in [Threads -> -2 .. 1]
      BY DEF Init
    <2>3. /\ saved \in [Threads -> {"none", "user", "entered", "loose"}]
          /\ op \in [Threads -> Ops \cup {"spawn", "none", "exit"}]
          /\ target \in [Threads -> Threads \cup {NoThread}]
          /\ key \in [Threads -> Threads \cup {NoThread, Scheduler}]
          /\ flag \in [Threads -> Intentions \cup {"CLEAR"}]
      BY DEF Init
    <2>4. /\ hup \subseteq Threads /\ queue \subseteq Threads
          /\ runningThread \in Threads \cup {NoThread} /\ sarg \in Threads \cup {NoThread}
          /\ spc = "wait"
      BY DEF Init
    <2> QED BY <1>1, <2>1, <2>2, <2>3, <2>4 DEF TypeOK
  <1>3. KeysAreKept
    BY DEF Init, KeysAreKept, SchedulerHasThread, SchedulerHoldsKey, ThreadHoldsKey,
           NotifierHasTarget, SKeyHeldAt, KeyHeldAt
  <1>4. SlotIsKept
    BY DEF Init, SlotIsKept, SignalsArePending, RepliesAreFresh, OneRunningThread
  <1> QED BY <1>2, <1>3, <1>4 DEF IndInv

\* A step of the scheduler, of a thread or of a signal handler keeps the
\* inductive invariant.
LEMMA StepKeepsInvariant ==
  ASSUME IndInv, [Next]_vars
  PROVE  IndInv'
  <1>1. CASE Next
    BY <1>1, StepKeepsTypes, StepKeepsKeys, StepKeepsSlot DEF IndInv
  <1>2. CASE UNCHANGED vars
    BY <1>2 DEF vars, IndInv, TypeOK, KeysAreKept, SchedulerHasThread, SchedulerHoldsKey,
                ThreadHoldsKey, NotifierHasTarget, SlotIsKept, SignalsArePending,
                RepliesAreFresh, OneRunningThread
  <1> QED BY <1>1, <1>2
-----------------------------------------------------------------------------
\* Whatever threads call, are notified of and are signalled about, and even if
\* the scheduler gives up on a key, no two threads are RUNNING on one core, and
\* a RUNNING thread is the one the scheduler knows (setRunningThread,
\* suspendThread, ThreadManager.cpp).
THEOREM OneThreadRuns == Spec => [](TypeOK /\ OneRunningThread)
  <1>1. Init => IndInv
    BY InitEstablishes
  <1>2. IndInv /\ [Next]_vars => IndInv'
    BY StepKeepsInvariant
  <1>3. IndInv => TypeOK /\ OneRunningThread
    BY DEF IndInv, SlotIsKept
  <1> QED BY <1>1, <1>2, <1>3, PTL DEF Spec
-----------------------------------------------------------------------------
\* Where the running thread may be.
RunsAt == {"user", "entered", "loose", "locked", "looseLocked", "setRunning", "isRunning",
           "exit", "notify", "notified"}

\* The thread the scheduler is about to signal is not being resumed.
CandidateIsNotAwaken == spc = "lockRunning" => ~awaken[sarg]

\* The running thread, unless it has told the scheduler that it stops, is
\* under its control and not on its way out of the core.
RunningThreadRuns ==
  \A t \in Threads :
    runningThread = t /\ flag[t] \in {"CLEAR", "TO_KEEP_ON_RUNNING"} =>
      managed[t] /\ state[t] # "NATIVE_WAITING" /\ pc[t] \in RunsAt /\ ~awaken[t]

\* The signal is pending until the thread replies.
SignalIsPending == spc = "reply" /\ flag[sarg] = "CLEAR" => sarg \in hup

HandshakeInv ==
  /\ AwakenedThreadIsResuming
  /\ CandidateIsNotAwaken
  /\ RunningThreadRuns
  /\ SignalIsPending
-----------------------------------------------------------------------------
\* Where a thread sleeps in VEX, or is about to.
Blocked(t) == pc[t] \in {"unlock", "block", "asleep"}

\* continueThread finds thread t suspended, or waiting until a time.
AwaitsTurn(t) ==
  \/ state[t] = "SUSPENDED"
  \/ state[t] = "WAITING" /\ op[t] = "sleep" /\ timeout[t] = 1

\* What a thread knows of its own state where it is.
StateFitsPoint ==
  \A t \in Threads :
    /\ pc[t] \in {"entered", "locked", "isRunning", "exit", "notify", "notified",
                  "becomeNative"} => state[t] = "RUNNING"
    /\ pc[t] = "user" => state[t] \in {"RUNNING", "NATIVE_WAITING"}
    /\ pc[t] \in {"loose", "looseLocked"} => state[t] = "NATIVE_WAITING"
    /\ pc[t] = "pushWaiting" => op[t] = "sleep" /\ timeout[t] = 1
    /\ saved[t] # "loose"
    /\ state[t] = "RUNNING" => managed[t]

\* A thread in an untimed wait is blocked and left alone by the scheduler.
WaiterIsLeftAlone ==
  \A t \in Threads : state[t] = "WAITING" /\ op[t] = "wait" =>
    Blocked(t) /\ timeout[t] = -2 /\ t \notin queue /\ ~InHand(t) /\ ~awaken[t]

\* What a notifier has found stays true until it changes the waiting thread.
NotifierFindsWaiter ==
  \A t \in Threads :
    /\ pc[t] = "notify" => state[target[t]] = "WAITING" /\ op[target[t]] = "wait"
    /\ pc[t] \in {"notify", "notified"} => op[t] = "notify"

\* What the scheduler finds in the queue, and what it has taken from it.
QueuedAwaitTurn == \A t \in queue : Blocked(t) /\ ~awaken[t] /\ AwaitsTurn(t)

HandledAwaitTurn ==
  \A t \in Threads : InHand(t) =>
    /\ Blocked(t) /\ ~awaken[t] /\ t \notin queue /\ AwaitsTurn(t)
    /\ spc = "isTimedWaiting" => state[t] = "WAITING"
    /\ spc = "resume" => state[t] = "SUSPENDED"

AwakenedIsSuspended == \A t \in Threads : awaken[t] => state[t] = "SUSPENDED"

\* NoThreadIsLost, from the moment a thread has decided to block.
BlockedIsKnown ==
  \A t \in Threads : Blocked(t) /\ ~awaken[t] =>
    t \in queue \/ InHand(t) \/ (state[t] = "WAITING" /\ timeout[t] = -2)

\* A thread without a cause to go on is about to be given one.
CauseIsSet ==
  \A t \in Threads :
    \/ timedOut[t] \/ timeout[t] # 0
    \/ \E u \in Threads : pc[u] = "notified" /\ target[u] = t

WaitsInv ==
  /\ StateFitsPoint
  /\ WaiterIsLeftAlone
  /\ NotifierFindsWaiter

TurnsInv ==
  /\ AssertionsHold
  /\ QueuedAwaitTurn
  /\ HandledAwaitTurn
  /\ AwakenedIsSuspended
  /\ BlockedIsKnown

GoOnInv ==
  /\ IndInv
  /\ HandshakeInv
  /\ WaitsInv
  /\ TurnsInv
  /\ CauseIsSet
-----------------------------------------------------------------------------
\* Only the scheduler sets awaken, for a sleeping thread, and only the thread
\* that was signalled replies.
LEMMA StepKeepsHandshakes ==
  ASSUME IndInv, HandshakeInv, Next
  PROVE  HandshakeInv'
  <1> USE DistinctAssumption, OpsAssumption
          DEF IndInv, TypeOK, KeysAreKept, SchedulerHasThread, SchedulerHoldsKey,
              ThreadHoldsKey, NotifierHasTarget, SKeyHeldAt, KeyHeldAt, Set, SlotIsKept,
              SignalsArePending, RepliesAreFresh, OneRunningThread, threadVars,
              stateVars, schedVars, HandshakeInv, AwakenedThreadIsResuming,
              CandidateIsNotAwaken, RunningThreadRuns, SignalIsPending, RunsAt
  <1>1. ASSUME doControllerWait PROVE HandshakeInv'
    BY <1>1 DEF doControllerWait
  <1>2. ASSUME suspendThread PROVE HandshakeInv'
    BY <1>2 DEF suspendThread, SGoto, StillRunning
  <1>3. ASSUME suspendThreadTimesOut PROVE HandshakeInv'
    BY <1>3 DEF suspendThreadTimesOut, SGoto, Unset
  <1>4. ASSUME suspendRunning PROVE HandshakeInv'
    BY <1>4 DEF suspendRunning, GetsIntention, SGoto, setSuspended, setAwaken, push,
         Unset
  <1>5. ASSUME onIntentionToBeDisregarded PROVE HandshakeInv'
    BY <1>5 DEF onIntentionToBeDisregarded, GetsIntention, SGoto, Unset
  <1>6. ASSUME onIntentionToKeepOnRunning PROVE HandshakeInv'
    BY <1>6 DEF onIntentionToKeepOnRunning, GetsIntention, SWait
  <1>7. ASSUME top PROVE HandshakeInv'
    BY <1>7 DEF top, SWait
  <1>8. ASSUME lockTop PROVE HandshakeInv'
    BY <1>8 DEF lockTop, SGoto
  <1>9. ASSUME popTop PROVE HandshakeInv'
    BY <1>9 DEF popTop, SWait, SGoto, pop
  <1>10. ASSUME handleSuspended PROVE HandshakeInv'
    BY <1>10 DEF handleSuspended, SGoto, SWait, pushBack, push
  <1>11. ASSUME handleTimedWaiting PROVE HandshakeInv'
    BY <1>11 DEF handleTimedWaiting, SGoto, SWait, pushBack, push, setSuspended,
         setAwaken
  <1>12. ASSUME resumeThread PROVE HandshakeInv'
    BY <1>12 DEF resumeThread, SWait, setAwaken, waitForThreadToBlock
  <1>13. ASSUME NEW t \in Threads, onThreadSpawn(t) PROVE HandshakeInv'
    BY <1>13 DEF onThreadSpawn, ThreadStep, Goto
  <1>14. ASSUME NEW t \in Threads, NEW o \in Ops, onVexEntry(t, o) PROVE HandshakeInv'
    BY <1>14 DEF onVexEntry, ThreadStep, Goto
  <1>15. ASSUME NEW t \in Threads, onWrappedWaitingEnd(t) PROVE HandshakeInv'
    BY <1>15 DEF onWrappedWaitingEnd, ThreadStep, Goto
  <1>16. ASSUME NEW t \in Threads, lockShareResourceAccessKey(t, "entered", "locked")
         PROVE  HandshakeInv'
    BY <1>16 DEF lockShareResourceAccessKey, ThreadStep, Goto
  <1>17. ASSUME NEW t \in Threads, lockShareResourceAccessKey(t, "loose", "looseLocked")
         PROVE  HandshakeInv'
    BY <1>17 DEF lockShareResourceAccessKey, ThreadStep, Goto
  <1>18. ASSUME NEW t \in Threads, lockShareResourceAccessKey(t, "woken", "setRunning")
         PROVE  HandshakeInv'
    BY <1>18 DEF lockShareResourceAccessKey, ThreadStep, Goto
  <1>19. ASSUME NEW t \in Threads, suspendLooseCurrentThread(t) PROVE HandshakeInv'
    BY <1>19 DEF suspendLooseCurrentThread, ThreadStep, Goto,
         setSuspendedAndPushToRunnables, setSuspended, setAwaken, push, Unset,
         MustSuspend, MaySuspend, anotherThreadAlreadySetRunning
  <1>20. ASSUME NEW t \in Threads, suspendCurrentThread(t) PROVE HandshakeInv'
    BY <1>20 DEF suspendCurrentThread, ThreadStep, Goto, setSuspendedAndPushToRunnables,
         setSuspended, setAwaken, push, Unset, MustSuspend, MaySuspend,
         anotherThreadAlreadySetRunning
  <1>21. ASSUME NEW t \in Threads, unlockBeforeBlocking(t) PROVE HandshakeInv'
    BY <1>21 DEF unlockBeforeBlocking, ThreadStep, Goto
  <1>22. ASSUME NEW t \in Threads, blockHereUntilSignaled(t) PROVE HandshakeInv'
    BY <1>22 DEF blockHereUntilSignaled, ThreadStep, Goto, setAwaken
  <1>23. ASSUME NEW t \in Threads, wakeUp(t) PROVE HandshakeInv'
    BY <1>23 DEF wakeUp, ThreadStep, Goto
  <1>24. ASSUME NEW t \in Threads, setRunningThread(t) PROVE HandshakeInv'
    BY <1>24 DEF setRunningThread, ThreadStep, Goto, setAwaken,
         anotherThreadAlreadySetRunning
  <1>25. ASSUME NEW t \in Threads, resuspend(t) PROVE HandshakeInv'
    BY <1>25 DEF resuspend, ThreadStep, Goto, setSuspendedAndPushToRunnables,
         setSuspended, setAwaken, push, Unset, MustSuspend, MaySuspend,
         anotherThreadAlreadySetRunning
  <1>26. ASSUME NEW t \in Threads, afterResume(t) PROVE HandshakeInv'
    BY <1>26 DEF afterResume, ThreadStep, Goto
  <1>27. ASSUME NEW t \in Threads, onVexExit(t) PROVE HandshakeInv'
    BY <1>27 DEF onVexExit, ThreadStep, Goto
  <1>28. ASSUME NEW t \in Threads, afterLooseEntry(t) PROVE HandshakeInv'
    BY <1>28 DEF afterLooseEntry, Calls, ThreadStep, Goto
  <1>29. ASSUME NEW t \in Threads, onReplacedTimedWaiting(t) PROVE HandshakeInv'
    BY <1>29 DEF onReplacedTimedWaiting, Calls, ThreadStep, Goto, setAwaken, Unset
  <1>30. ASSUME NEW t \in Threads, setTimedWaitingThread(t) PROVE HandshakeInv'
    BY <1>30 DEF setTimedWaitingThread, ThreadStep, Goto, push
  <1>31. ASSUME NEW t \in Threads, onReplacedWaiting(t) PROVE HandshakeInv'
    BY <1>31 DEF onReplacedWaiting, Calls, ThreadStep, Goto, Unset
  <1>32. ASSUME NEW t \in Threads, onWrappedWaitingStart(t) PROVE HandshakeInv'
    BY <1>32 DEF onWrappedWaitingStart, Calls, ThreadStep, Goto, Unset
  <1>33. ASSUME NEW t \in Threads, NEW u \in Threads, findWaiting(t, u)
         PROVE  HandshakeInv'
    BY <1>33 DEF findWaiting, ThreadStep, Goto, Notifiable
  <1>34. ASSUME NEW t \in Threads, nobodyWaiting(t) PROVE HandshakeInv'
    BY <1>34 DEF nobodyWaiting, ThreadStep, Goto
  <1>35. ASSUME NEW t \in Threads, interruptThread(t) PROVE HandshakeInv'
    BY <1>35 DEF interruptThread, ThreadStep, Goto, onAnyReplacedWaitingInterrupt,
         setSuspended, setAwaken, push, ResumingTimeout
  <1>36. ASSUME NEW t \in Threads, setTimedOut(t) PROVE HandshakeInv'
    BY <1>36 DEF setTimedOut, ThreadStep, Goto, isNotification
  <1>37. ASSUME NEW t \in Threads, onThreadEnd(t) PROVE HandshakeInv'
    BY <1>37 DEF onThreadEnd, Calls, ThreadStep, Goto, Unset
  <1>38. ASSUME NEW t \in Threads, replyDisregarded(t) PROVE HandshakeInv'
    BY <1>38 DEF replyDisregarded, HandlerRuns, Goto, notifySchedulerForIntention
  <1>39. ASSUME NEW t \in Threads, setNativeWaiting(t) PROVE HandshakeInv'
    BY <1>39 DEF setNativeWaiting, ThreadStep, Goto
  <1>40. ASSUME NEW t \in Threads, replySuspended(t) PROVE HandshakeInv'
    BY <1>40 DEF replySuspended, HandlerRuns, Goto, setSuspended, setAwaken,
         notifySchedulerForIntention, MustSuspend, MaySuspend,
         anotherThreadAlreadySetRunning
  <1>41. ASSUME NEW t \in Threads, replyKeepOnRunning(t) PROVE HandshakeInv'
    BY <1>41 DEF replyKeepOnRunning, HandlerRuns, notifySchedulerForIntention,
         MustSuspend, MaySuspend, anotherThreadAlreadySetRunning
  <1> HIDE DEF IndInv, HandshakeInv
  <1> QED BY <1>1, <1>2, <1>3, <1>4, <1>5, <1>6, <1>7, <1>8, <1>9, <1>10, <1>11, <1>12,
             <1>13, <1>14, <1>15, <1>16, <1>17, <1>18, <1>19, <1>20, <1>21, <1>22,
             <1>23, <1>24, <1>25, <1>26, <1>27, <1>28, <1>29, <1>30, <1>31, <1>32,
             <1>33, <1>34, <1>35, <1>36, <1>37, <1>38, <1>39, <1>40, <1>41
          DEF Next, SchedulerStep, lockRunningThread, VexStep

\* A waiting thread is changed by its one notifier only.
LEMMA StepKeepsWaits ==
  ASSUME ~KeyTimeouts, ~NotifyTimed, "interrupt" \notin Ops, GoOnInv, Next
  PROVE  WaitsInv'
  <1> USE DistinctAssumption, OpsAssumption
          DEF GoOnInv, IndInv, TypeOK, KeysAreKept, SchedulerHasThread,
              SchedulerHoldsKey, ThreadHoldsKey, NotifierHasTarget, SKeyHeldAt,
              KeyHeldAt, Set, SlotIsKept, SignalsArePending, RepliesAreFresh,
              OneRunningThread, threadVars, stateVars, schedVars, HandshakeInv,
              AwakenedThreadIsResuming, CandidateIsNotAwaken, RunningThreadRuns,
              SignalIsPending, RunsAt, WaitsInv, StateFitsPoint, WaiterIsLeftAlone,
              NotifierFindsWaiter, TurnsInv, AssertionsHold, QueuedAwaitTurn,
              HandledAwaitTurn, AwakenedIsSuspended, BlockedIsKnown, Blocked,
              AwaitsTurn, InHand
  <1>1. ASSUME doControllerWait PROVE WaitsInv'
    BY <1>1 DEF doControllerWait
  <1>2. ASSUME suspendThread PROVE WaitsInv'
    BY <1>2 DEF suspendThread, SGoto, StillRunning
  <1>3. ASSUME suspendThreadTimesOut PROVE WaitsInv'
    BY <1>3 DEF suspendThreadTimesOut, SGoto, Unset
  <1>4. ASSUME suspendRunning PROVE WaitsInv'
    BY <1>4 DEF suspendRunning, GetsIntention, SGoto, setSuspended, setAwaken, push,
         Unset
  <1>5. ASSUME onIntentionToBeDisregarded PROVE WaitsInv'
    BY <1>5 DEF onIntentionToBeDisregarded, GetsIntention, SGoto, Unset
  <1>6. ASSUME onIntentionToKeepOnRunning PROVE WaitsInv'
    BY <1>6 DEF onIntentionToKeepOnRunning, GetsIntention, SWait
  <1>7. ASSUME top PROVE WaitsInv'
    BY <1>7 DEF top, SWait
  <1>8. ASSUME lockTop PROVE WaitsInv'
    BY <1>8 DEF lockTop, SGoto
  <1>9. ASSUME popTop PROVE WaitsInv'
    BY <1>9 DEF popTop, SWait, SGoto, pop
  <1>10. ASSUME handleSuspended PROVE WaitsInv'
    BY <1>10 DEF handleSuspended, SGoto, SWait, pushBack, push
  <1>11. ASSUME handleTimedWaiting PROVE WaitsInv'
    BY <1>11 DEF handleTimedWaiting, SGoto, SWait, pushBack, push, setSuspended,
         setAwaken
  <1>12. ASSUME resumeThread PROVE WaitsInv'
    BY <1>12 DEF resumeThread, SWait, setAwaken, waitForThreadToBlock
  <1>13. ASSUME NEW t \in Threads, onThreadSpawn(t) PROVE WaitsInv'
    BY <1>13 DEF onThreadSpawn, ThreadStep, Goto
  <1>14. ASSUME NEW t \in Threads, NEW o \in Ops, onVexEntry(t, o) PROVE WaitsInv'
    BY <1>14 DEF onVexEntry, ThreadStep, Goto
  <1>15. ASSUME NEW t \in Threads, onWrappedWaitingEnd(t) PROVE WaitsInv'
    BY <1>15 DEF onWrappedWaitingEnd, ThreadStep, Goto
  <1>16. ASSUME NEW t \in Threads, lockShareResourceAccessKey(t, "entered", "locked")
         PROVE  WaitsInv'
    BY <1>16 DEF lockShareResourceAccessKey, ThreadStep, Goto
  <1>17. ASSUME NEW t \in Threads, lockShareResourceAccessKey(t, "loose", "looseLocked")
         PROVE  WaitsInv'
    BY <1>17 DEF lockShareResourceAccessKey, ThreadStep, Goto
  <1>18. ASSUME NEW t \in Threads, lockShareResourceAccessKey(t, "woken", "setRunning")
         PROVE  WaitsInv'
    BY <1>18 DEF lockShareResourceAccessKey, ThreadStep, Goto
  <1>19. ASSUME NEW t \in Threads, suspendLooseCurrentThread(t) PROVE WaitsInv'
    BY <1>19 DEF suspendLooseCurrentThread, ThreadStep, Goto,
         setSuspendedAndPushToRunnables, setSuspended, setAwaken, push, Unset,
         MustSuspend, MaySuspend, anotherThreadAlreadySetRunning
  <1>20. ASSUME NEW t \in Threads, suspendCurrentThread(t) PROVE WaitsInv'
    BY <1>20 DEF suspendCurrentThread, ThreadStep, Goto, setSuspendedAndPushToRunnables,
         setSuspended, setAwaken, push, Unset, MustSuspend, MaySuspend,
         anotherThreadAlreadySetRunning
  <1>21. ASSUME NEW t \in Threads, unlockBeforeBlocking(t) PROVE WaitsInv'
    BY <1>21 DEF unlockBeforeBlocking, ThreadStep, Goto
  <1>22. ASSUME NEW t \in Threads, blockHereUntilSignaled(t) PROVE WaitsInv'
    BY <1>22 DEF blockHereUntilSignaled, ThreadStep, Goto, setAwaken
  <1>23. ASSUME NEW t \in Threads, wakeUp(t) PROVE WaitsInv'
    BY <1>23 DEF wakeUp, ThreadStep, Goto
  <1>24. ASSUME NEW t \in Threads, setRunningThread(t) PROVE WaitsInv'
    BY <1>24 DEF setRunningThread, ThreadStep, Goto, setAwaken,
         anotherThreadAlreadySetRunning
  <1>25. ASSUME NEW t \in Threads, resuspend(t) PROVE WaitsInv'
    BY <1>25 DEF resuspend, ThreadStep, Goto, setSuspendedAndPushToRunnables,
         setSuspended, setAwaken, push, Unset, MustSuspend, MaySuspend,
         anotherThreadAlreadySetRunning
  <1>26. ASSUME NEW t \in Threads, afterResume(t) PROVE WaitsInv'
    BY <1>26 DEF afterResume, ThreadStep, Goto
  <1>27. ASSUME NEW t \in Threads, onVexExit(t) PROVE WaitsInv'
    BY <1>27 DEF onVexExit, ThreadStep, Goto
  <1>28. ASSUME NEW t \in Threads, afterLooseEntry(t) PROVE WaitsInv'
    BY <1>28 DEF afterLooseEntry, Calls, ThreadStep, Goto
  <1>29. ASSUME NEW t \in Threads, onReplacedTimedWaiting(t) PROVE WaitsInv'
    BY <1>29 DEF onReplacedTimedWaiting, Calls, ThreadStep, Goto, setAwaken, Unset
  <1>30. ASSUME NEW t \in Threads, setTimedWaitingThread(t) PROVE WaitsInv'
    BY <1>30 DEF setTimedWaitingThread, ThreadStep, Goto, push
  <1>31. ASSUME NEW t \in Threads, onReplacedWaiting(t) PROVE WaitsInv'
    BY <1>31 DEF onReplacedWaiting, Calls, ThreadStep, Goto, Unset
  <1>32. ASSUME NEW t \in Threads, onWrappedWaitingStart(t) PROVE WaitsInv'
    BY <1>32 DEF onWrappedWaitingStart, Calls, ThreadStep, Goto, Unset
  <1>33. ASSUME NEW t \in Threads, NEW u \in Threads, findWaiting(t, u) PROVE WaitsInv'
    BY <1>33 DEF findWaiting, ThreadStep, Goto, Notifiable
  <1>34. ASSUME NEW t \in Threads, nobodyWaiting(t) PROVE WaitsInv'
    BY <1>34 DEF nobodyWaiting, ThreadStep, Goto
  <1>35. ASSUME NEW t \in Threads, interruptThread(t) PROVE WaitsInv'
    BY <1>35 DEF interruptThread, ThreadStep, Goto, onAnyReplacedWaitingInterrupt,
         setSuspended, setAwaken, push, ResumingTimeout
  <1>36. ASSUME NEW t \in Threads, setTimedOut(t) PROVE WaitsInv'
    BY <1>36 DEF setTimedOut, ThreadStep, Goto, isNotification
  <1>37. ASSUME NEW t \in Threads, onThreadEnd(t) PROVE WaitsInv'
    BY <1>37 DEF onThreadEnd, Calls, ThreadStep, Goto, Unset
  <1>38. ASSUME NEW t \in Threads, replyDisregarded(t) PROVE WaitsInv'
    BY <1>38 DEF replyDisregarded, HandlerRuns, Goto, notifySchedulerForIntention
  <1>39. ASSUME NEW t \in Threads, setNativeWaiting(t) PROVE WaitsInv'
    BY <1>39 DEF setNativeWaiting, ThreadStep, Goto
  <1>40. ASSUME NEW t \in Threads, replySuspended(t) PROVE WaitsInv'
    BY <1>40 DEF replySuspended, HandlerRuns, Goto, setSuspended, setAwaken,
         notifySchedulerForIntention, MustSuspend, MaySuspend,
         anotherThreadAlreadySetRunning
  <1>41. ASSUME NEW t \in Threads, replyKeepOnRunning(t) PROVE WaitsInv'
    BY <1>41 DEF replyKeepOnRunning, HandlerRuns, notifySchedulerForIntention,
         MustSuspend, MaySuspend, anotherThreadAlreadySetRunning
  <1> HIDE DEF GoOnInv, WaitsInv
  <1> QED BY <1>1, <1>2, <1>3, <1>4, <1>5, <1>6, <1>7, <1>8, <1>9, <1>10, <1>11, <1>12,
             <1>13, <1>14, <1>15, <1>16, <1>17, <1>18, <1>19, <1>20, <1>21, <1>22,
             <1>23, <1>24, <1>25, <1>26, <1>27, <1>28, <1>29, <1>30, <1>31, <1>32,
             <1>33, <1>34, <1>35, <1>36, <1>37, <1>38, <1>39, <1>40, <1>41
          DEF Next, SchedulerStep, lockRunningThread, VexStep

\* A thread that blocks is in one place: the queue, the scheduler's hands, or an
\* untimed wait.
LEMMA StepKeepsTurns ==
  ASSUME ~KeyTimeouts, ~NotifyTimed, "interrupt" \notin Ops, GoOnInv, Next
  PROVE  TurnsInv'
  <1> USE DistinctAssumption, OpsAssumption
          DEF GoOnInv, IndInv, TypeOK, KeysAreKept, SchedulerHasThread,
              SchedulerHoldsKey, ThreadHoldsKey, NotifierHasTarget, SKeyHeldAt,
              KeyHeldAt, Set, SlotIsKept, SignalsArePending, RepliesAreFresh,
              OneRunningThread, threadVars, stateVars, schedVars, HandshakeInv,
              AwakenedThreadIsResuming, CandidateIsNotAwaken, RunningThreadRuns,
              SignalIsPending, RunsAt, WaitsInv, StateFitsPoint, WaiterIsLeftAlone,
              NotifierFindsWaiter, TurnsInv, AssertionsHold, QueuedAwaitTurn,
              HandledAwaitTurn, AwakenedIsSuspended, BlockedIsKnown, Blocked,
              AwaitsTurn, InHand
  <1>1. ASSUME doControllerWait PROVE TurnsInv'
    BY <1>1 DEF doControllerWait
  <1>2. ASSUME suspendThread PROVE TurnsInv'
    BY <1>2 DEF suspendThread, SGoto, StillRunning
  <1>3. ASSUME suspendThreadTimesOut PROVE TurnsInv'
    BY <1>3 DEF suspendThreadTimesOut, SGoto, Unset
  <1>4. ASSUME suspendRunning PROVE TurnsInv'
    BY <1>4 DEF suspendRunning, GetsIntention, SGoto, setSuspended, setAwaken, push,
         Unset
  <1>5. ASSUME onIntentionToBeDisregarded PROVE TurnsInv'
    BY <1>5 DEF onIntentionToBeDisregarded, GetsIntention, SGoto, Unset
  <1>6. ASSUME onIntentionToKeepOnRunning PROVE TurnsInv'
    BY <1>6 DEF onIntentionToKeepOnRunning, GetsIntention, SWait
  <1>7. ASSUME top PROVE TurnsInv'
    BY <1>7 DEF top, SWait
  <1>8. ASSUME lockTop PROVE TurnsInv'
    BY <1>8 DEF lockTop, SGoto
  <1>9. ASSUME popTop PROVE TurnsInv'
    BY <1>9 DEF popTop, SWait, SGoto, pop
  <1>10. ASSUME handleSuspended PROVE TurnsInv'
    BY <1>10 DEF handleSuspended, SGoto, SWait, pushBack, push
  <1>11. ASSUME handleTimedWaiting PROVE TurnsInv'
    BY <1>11 DEF handleTimedWaiting, SGoto, SWait, pushBack, push, setSuspended,
         setAwaken
  <1>12. ASSUME resumeThread PROVE TurnsInv'
    BY <1>12 DEF resumeThread, SWait, setAwaken, waitForThreadToBlock
  <1>13. ASSUME NEW t \in Threads, onThreadSpawn(t) PROVE TurnsInv'
    BY <1>13 DEF onThreadSpawn, ThreadStep, Goto
  <1>14. ASSUME NEW t \in Threads, NEW o \in Ops, onVexEntry(t, o) PROVE TurnsInv'
    BY <1>14 DEF onVexEntry, ThreadStep, Goto
  <1>15. ASSUME NEW t \in Threads, onWrappedWaitingEnd(t) PROVE TurnsInv'
    BY <1>15 DEF onWrappedWaitingEnd, ThreadStep, Goto
  <1>16. ASSUME NEW t \in Threads, lockShareResourceAccessKey(t, "entered", "locked")
         PROVE  TurnsInv'
    BY <1>16 DEF lockShareResourceAccessKey, ThreadStep, Goto
  <1>17. ASSUME NEW t \in Threads, lockShareResourceAccessKey(t, "loose", "looseLocked")
         PROVE  TurnsInv'
    BY <1>17 DEF lockShareResourceAccessKey, ThreadStep, Goto
  <1>18. ASSUME NEW t \in Threads, lockShareResourceAccessKey(t, "woken", "setRunning")
         PROVE  TurnsInv'
    BY <1>18 DEF lockShareResourceAccessKey, ThreadStep, Goto
  <1>19. ASSUME NEW t \in Threads, suspendLooseCurrentThread(t) PROVE TurnsInv'
    BY <1>19 DEF suspendLooseCurrentThread, ThreadStep, Goto,
         setSuspendedAndPushToRunnables, setSuspended, setAwaken, push, Unset,
         MustSuspend, MaySuspend, anotherThreadAlreadySetRunning
  <1>20. ASSUME NEW t \in Threads, suspendCurrentThread(t) PROVE TurnsInv'
    BY <1>20 DEF suspendCurrentThread, ThreadStep, Goto, setSuspendedAndPushToRunnables,
         setSuspended, setAwaken, push, Unset, MustSuspend, MaySuspend,
         anotherThreadAlreadySetRunning
  <1>21. ASSUME NEW t \in Threads, unlockBeforeBlocking(t) PROVE TurnsInv'
    BY <1>21 DEF unlockBeforeBlocking, ThreadStep, Goto
  <1>22. ASSUME NEW t \in Threads, blockHereUntilSignaled(t) PROVE TurnsInv'
    BY <1>22 DEF blockHereUntilSignaled, ThreadStep, Goto, setAwaken
  <1>23. ASSUME NEW t \in Threads, wakeUp(t) PROVE TurnsInv'
    BY <1>23 DEF wakeUp, ThreadStep, Goto
  <1>24. ASSUME NEW t \in Threads, setRunningThread(t) PROVE TurnsInv'
    BY <1>24 DEF setRunningThread, ThreadStep, Goto, setAwaken,
         anotherThreadAlreadySetRunning
  <1>25. ASSUME NEW t \in Threads, resuspend(t) PROVE TurnsInv'
    BY <1>25 DEF resuspend, ThreadStep, Goto, setSuspendedAndPushToRunnables,
         setSuspended, setAwaken, push, Unset, MustSuspend, MaySuspend,
         anotherThreadAlreadySetRunning
  <1>26. ASSUME NEW t \in Threads, afterResume(t) PROVE TurnsInv'
    BY <1>26 DEF afterResume, ThreadStep, Goto
  <1>27. ASSUME NEW t \in Threads, onVexExit(t) PROVE TurnsInv'
    BY <1>27 DEF onVexExit, ThreadStep, Goto
  <1>28. ASSUME NEW t \in Threads, afterLooseEntry(t) PROVE TurnsInv'
    BY <1>28 DEF afterLooseEntry, Calls, ThreadStep, Goto
  <1>29. ASSUME NEW t \in Threads, onReplacedTimedWaiting(t) PROVE TurnsInv'
    BY <1>29 DEF onReplacedTimedWaiting, Calls, ThreadStep, Goto, setAwaken, Unset
  <1>30. ASSUME NEW t \in Threads, setTimedWaitingThread(t) PROVE TurnsInv'
    BY <1>30 DEF setTimedWaitingThread, ThreadStep, Goto, push
  <1>31. ASSUME NEW t \in Threads, onReplacedWaiting(t) PROVE TurnsInv'
    BY <1>31 DEF onReplacedWaiting, Calls, ThreadStep, Goto, Unset
  <1>32. ASSUME NEW t \in Threads, onWrappedWaitingStart(t) PROVE TurnsInv'
    BY <1>32 DEF onWrappedWaitingStart, Calls, ThreadStep, Goto, Unset
  <1>33. ASSUME NEW t \in Threads, NEW u \in Threads, findWaiting(t, u) PROVE TurnsInv'
    BY <1>33 DEF findWaiting, ThreadStep, Goto, Notifiable
  <1>34. ASSUME NEW t \in Threads, nobodyWaiting(t) PROVE TurnsInv'
    BY <1>34 DEF nobodyWaiting, ThreadStep, Goto
  <1>35. ASSUME NEW t \in Threads, interruptThread(t) PROVE TurnsInv'
    BY <1>35 DEF interruptThread, ThreadStep, Goto, onAnyReplacedWaitingInterrupt,
         setSuspended, setAwaken, push, ResumingTimeout
  <1>36. ASSUME NEW t \in Threads, setTimedOut(t) PROVE TurnsInv'
    BY <1>36 DEF setTimedOut, ThreadStep, Goto, isNotification
  <1>37. ASSUME NEW t \in Threads, onThreadEnd(t) PROVE TurnsInv'
    BY <1>37 DEF onThreadEnd, Calls, ThreadStep, Goto, Unset
  <1>38. ASSUME NEW t \in Threads, replyDisregarded(t) PROVE TurnsInv'
    BY <1>38 DEF replyDisregarded, HandlerRuns, Goto, notifySchedulerForIntention
  <1>39. ASSUME NEW t \in Threads, setNativeWaiting(t) PROVE TurnsInv'
    BY <1>39 DEF setNativeWaiting, ThreadStep, Goto
  <1>40. ASSUME NEW t \in Threads, replySuspended(t) PROVE TurnsInv'
    BY <1>40 DEF replySuspended, HandlerRuns, Goto, setSuspended, setAwaken,
         notifySchedulerForIntention, MustSuspend, MaySuspend,
         anotherThreadAlreadySetRunning
  <1>41. ASSUME NEW t \in Threads, replyKeepOnRunning(t) PROVE TurnsInv'
    BY <1>41 DEF replyKeepOnRunning, HandlerRuns, notifySchedulerForIntention,
         MustSuspend, MaySuspend, anotherThreadAlreadySetRunning
  <1> HIDE DEF GoOnInv, TurnsInv
  <1> QED BY <1>1, <1>2, <1>3, <1>4, <1>5, <1>6, <1>7, <1>8, <1>9, <1>10, <1>11, <1>12,
             <1>13, <1>14, <1>15, <1>16, <1>17, <1>18, <1>19, <1>20, <1>21, <1>22,
             <1>23, <1>24, <1>25, <1>26, <1>27, <1>28, <1>29, <1>30, <1>31, <1>32,
             <1>33, <1>34, <1>35, <1>36, <1>37, <1>38, <1>39, <1>40, <1>41
          DEF Next, SchedulerStep, lockRunningThread, VexStep

\* Only a notification clears timedOut, and it sets it again.
LEMMA StepKeepsCauses ==
  ASSUME ~KeyTimeouts, ~NotifyTimed, "interrupt" \notin Ops, GoOnInv, Next
  PROVE  CauseIsSet'
  <1> USE DistinctAssumption, OpsAssumption
          DEF GoOnInv, IndInv, TypeOK, KeysAreKept, SchedulerHasThread,
              SchedulerHoldsKey, ThreadHoldsKey, NotifierHasTarget, SKeyHeldAt,
              KeyHeldAt, Set, SlotIsKept, SignalsArePending, RepliesAreFresh,
              OneRunningThread, threadVars, stateVars, schedVars, WaitsInv,
              StateFitsPoint, WaiterIsLeftAlone, NotifierFindsWaiter, CauseIsSet, Labels
  <1>1. ASSUME doControllerWait PROVE CauseIsSet'
    BY <1>1 DEF doControllerWait
  <1>2. ASSUME suspendThread PROVE CauseIsSet'
    BY <1>2 DEF suspendThread, SGoto, StillRunning
  <1>3. ASSUME suspendThreadTimesOut PROVE CauseIsSet'
    BY <1>3 DEF suspendThreadTimesOut, SGoto, Unset
  <1>4. ASSUME suspendRunning PROVE CauseIsSet'
    BY <1>4 DEF suspendRunning, GetsIntention, SGoto, setSuspended, setAwaken, push,
         Unset
  <1>5. ASSUME onIntentionToBeDisregarded PROVE CauseIsSet'
    BY <1>5 DEF onIntentionToBeDisregarded, GetsIntention, SGoto, Unset
  <1>6. ASSUME onIntentionToKeepOnRunning PROVE CauseIsSet'
    BY <1>6 DEF onIntentionToKeepOnRunning, GetsIntention, SWait
  <1>7. ASSUME top PROVE CauseIsSet'
    BY <1>7 DEF top, SWait
  <1>8. ASSUME lockTop PROVE CauseIsSet'
    BY <1>8 DEF lockTop, SGoto
  <1>9. ASSUME popTop PROVE CauseIsSet'
    BY <1>9 DEF popTop, SWait, SGoto, pop
  <1>10. ASSUME handleSuspended PROVE CauseIsSet'
    BY <1>10 DEF handleSuspended, SGoto, SWait, pushBack, push
  <1>11. ASSUME handleTimedWaiting PROVE CauseIsSet'
    BY <1>11 DEF handleTimedWaiting, SGoto, SWait, pushBack, push, setSuspended,
         setAwaken
  <1>12. ASSUME resumeThread PROVE CauseIsSet'
    BY <1>12 DEF resumeThread, SWait, setAwaken, waitForThreadToBlock
  <1>13. ASSUME NEW t \in Threads, onThreadSpawn(t) PROVE CauseIsSet'
    BY <1>13 DEF onThreadSpawn, ThreadStep, Goto
  <1>14. ASSUME NEW t \in Threads, NEW o \in Ops, onVexEntry(t, o) PROVE CauseIsSet'
    BY <1>14 DEF onVexEntry, ThreadStep, Goto
  <1>15. ASSUME NEW t \in Threads, onWrappedWaitingEnd(t) PROVE CauseIsSet'
    BY <1>15 DEF onWrappedWaitingEnd, ThreadStep, Goto
  <1>16. ASSUME NEW t \in Threads, lockShareResourceAccessKey(t, "entered", "locked")
         PROVE  CauseIsSet'
    BY <1>16 DEF lockShareResourceAccessKey, ThreadStep, Goto
  <1>17. ASSUME NEW t \in Threads, lockShareResourceAccessKey(t, "loose", "looseLocked")
         PROVE  CauseIsSet'
    BY <1>17 DEF lockShareResourceAccessKey, ThreadStep, Goto
  <1>18. ASSUME NEW t \in Threads, lockShareResourceAccessKey(t, "woken", "setRunning")
         PROVE  CauseIsSet'
    BY <1>18 DEF lockShareResourceAccessKey, ThreadStep, Goto
  <1>19. ASSUME NEW t \in Threads, suspendLooseCurrentThread(t) PROVE CauseIsSet'
    BY <1>19 DEF suspendLooseCurrentThread, ThreadStep, Goto,
         setSuspendedAndPushToRunnables, setSuspended, setAwaken, push, Unset,
         MustSuspend, MaySuspend, anotherThreadAlreadySetRunning
  <1>20. ASSUME NEW t \in Threads, suspendCurrentThread(t) PROVE CauseIsSet'
    BY <1>20 DEF suspendCurrentThread, ThreadStep, Goto, setSuspendedAndPushToRunnables,
         setSuspended, setAwaken, push, Unset, MustSuspend, MaySuspend,
         anotherThreadAlreadySetRunning
  <1>21. ASSUME NEW t \in Threads, unlockBeforeBlocking(t) PROVE CauseIsSet'
    BY <1>21 DEF unlockBeforeBlocking, ThreadStep, Goto
  <1>22. ASSUME NEW t \in Threads, blockHereUntilSignaled(t) PROVE CauseIsSet'
    BY <1>22 DEF blockHereUntilSignaled, ThreadStep, Goto, setAwaken
  <1>23. ASSUME NEW t \in Threads, wakeUp(t) PROVE CauseIsSet'
    BY <1>23 DEF wakeUp, ThreadStep, Goto
  <1>24. ASSUME NEW t \in Threads, setRunningThread(t) PROVE CauseIsSet'
    BY <1>24 DEF setRunningThread, ThreadStep, Goto, setAwaken,
         anotherThreadAlreadySetRunning
  <1>25. ASSUME NEW t \in Threads, resuspend(t) PROVE CauseIsSet'
    BY <1>25 DEF resuspend, ThreadStep, Goto, setSuspendedAndPushToRunnables,
         setSuspended, setAwaken, push, Unset, MustSuspend, MaySuspend,
         anotherThreadAlreadySetRunning
  <1>26. ASSUME NEW t \in Threads, afterResume(t) PROVE CauseIsSet'
    BY <1>26 DEF afterResume, ThreadStep, Goto
  <1>27. ASSUME NEW t \in Threads, onVexExit(t) PROVE CauseIsSet'
    BY <1>27 DEF onVexExit, ThreadStep, Goto
  <1>28. ASSUME NEW t \in Threads, afterLooseEntry(t) PROVE CauseIsSet'
    BY <1>28 DEF afterLooseEntry, Calls, ThreadStep, Goto
  <1>29. ASSUME NEW t \in Threads, onReplacedTimedWaiting(t) PROVE CauseIsSet'
    BY <1>29 DEF onReplacedTimedWaiting, Calls, ThreadStep, Goto, setAwaken, Unset
  <1>30. ASSUME NEW t \in Threads, setTimedWaitingThread(t) PROVE CauseIsSet'
    BY <1>30 DEF setTimedWaitingThread, ThreadStep, Goto, push
  <1>31. ASSUME NEW t \in Threads, onReplacedWaiting(t) PROVE CauseIsSet'
    BY <1>31 DEF onReplacedWaiting, Calls, ThreadStep, Goto, Unset
  <1>32. ASSUME NEW t \in Threads, onWrappedWaitingStart(t) PROVE CauseIsSet'
    BY <1>32 DEF onWrappedWaitingStart, Calls, ThreadStep, Goto, Unset
  <1>33. ASSUME NEW t \in Threads, NEW u \in Threads, findWaiting(t, u)
         PROVE  CauseIsSet'
    BY <1>33 DEF findWaiting, ThreadStep, Goto, Notifiable
  <1>34. ASSUME NEW t \in Threads, nobodyWaiting(t) PROVE CauseIsSet'
    BY <1>34 DEF nobodyWaiting, ThreadStep, Goto
  <1>35. ASSUME NEW t \in Threads, interruptThread(t) PROVE CauseIsSet'
    BY <1>35 DEF interruptThread, ThreadStep, Goto, onAnyReplacedWaitingInterrupt,
         setSuspended, setAwaken, push, ResumingTimeout
  <1>36. ASSUME NEW t \in Threads, setTimedOut(t) PROVE CauseIsSet'
    BY <1>36 DEF setTimedOut, ThreadStep, Goto, isNotification
  <1>37. ASSUME NEW t \in Threads, onThreadEnd(t) PROVE CauseIsSet'
    BY <1>37 DEF onThreadEnd, Calls, ThreadStep, Goto, Unset
  <1>38. ASSUME NEW t \in Threads, replyDisregarded(t) PROVE CauseIsSet'
    BY <1>38 DEF replyDisregarded, HandlerRuns, Goto, notifySchedulerForIntention
  <1>39. ASSUME NEW t \in Threads, setNativeWaiting(t) PROVE CauseIsSet'
    BY <1>39 DEF setNativeWaiting, ThreadStep, Goto
  <1>40. ASSUME NEW t \in Threads, replySuspended(t) PROVE CauseIsSet'
    BY <1>40 DEF replySuspended, HandlerRuns, Goto, setSuspended, setAwaken,
         notifySchedulerForIntention, MustSuspend, MaySuspend,
         anotherThreadAlreadySetRunning
  <1>41. ASSUME NEW t \in Threads, replyKeepOnRunning(t) PROVE CauseIsSet'
    BY <1>41 DEF replyKeepOnRunning, HandlerRuns, notifySchedulerForIntention,
         MustSuspend, MaySuspend, anotherThreadAlreadySetRunning
  <1> HIDE DEF GoOnInv, CauseIsSet
  <1> QED BY <1>1, <1>2, <1>3, <1>4, <1>5, <1>6, <1>7, <1>8, <1>9, <1>10, <1>11, <1>12,
             <1>13, <1>14, <1>15, <1>16, <1>17, <1>18, <1>19, <1>20, <1>21, <1>22,
             <1>23, <1>24, <1>25, <1>26, <1>27, <1>28, <1>29, <1>30, <1>31, <1>32,
             <1>33, <1>34, <1>35, <1>36, <1>37, <1>38, <1>39, <1>40, <1>41
          DEF Next, SchedulerStep, lockRunningThread, VexStep
-----------------------------------------------------------------------------
\* No thread is born, no signal is sent.
LEMMA InitEstablishesHandshakes == Init => HandshakeInv
  BY DistinctAssumption
     DEF Init, HandshakeInv, AwakenedThreadIsResuming, CandidateIsNotAwaken,
         RunningThreadRuns, SignalIsPending

LEMMA InitEstablishesTurns == Init => WaitsInv /\ TurnsInv /\ CauseIsSet
  BY DistinctAssumption
     DEF Init, WaitsInv, StateFitsPoint, WaiterIsLeftAlone, NotifierFindsWaiter,
         TurnsInv, AssertionsHold, QueuedAwaitTurn, HandledAwaitTurn,
         AwakenedIsSuspended, BlockedIsKnown, CauseIsSet, Blocked, InHand

LEMMA HandshakesStay ==
  ASSUME IndInv, HandshakeInv, [Next]_vars
  PROVE  HandshakeInv'
  <1>1. CASE Next
    BY <1>1, StepKeepsHandshakes
  <1>2. CASE UNCHANGED vars
    BY <1>2 DEF vars, HandshakeInv, AwakenedThreadIsResuming, CandidateIsNotAwaken,
                RunningThreadRuns, SignalIsPending
  <1> QED BY <1>1, <1>2

\* The signalled thread is the running thread, and the scheduler holds its key:
\* it is where the handler can run.
LEMMA PendingSignalIsAnswered ==
  ASSUME IndInv, HandshakeInv
  PROVE  SignalIsAnswered
  BY DistinctAssumption
     DEF IndInv, TypeOK, KeysAreKept, SchedulerHasThread, SchedulerHoldsKey,
         ThreadHoldsKey, SKeyHeldAt, KeyHeldAt, SlotIsKept, RepliesAreFresh,
         HandshakeInv, RunningThreadRuns, SignalIsPending, RunsAt, SignalIsAnswered

LEMMA HandshakesAreKept == Spec => [](IndInv /\ HandshakeInv)
  <1>1. Init => IndInv /\ HandshakeInv
    BY InitEstablishes, InitEstablishesHandshakes
  <1>2. IndInv /\ HandshakeInv /\ [Next]_vars => (IndInv /\ HandshakeInv)'
    BY StepKeepsInvariant, HandshakesStay
  <1> QED BY <1>1, <1>2, PTL DEF Spec

\* The scheduler never waits in vain for the reply to its signal, for any
\* threads and operations, key timeouts included (ThreadManager.cpp:1372).
THEOREM SignalsAreAnswered == Spec => []SignalIsAnswered
  BY HandshakesAreKept, PendingSignalIsAnswered, PTL

\* awaken is set only on the way from resumeThread to setRunningThread, so the
\* scheduler may wait for the thread to block when it finds awaken cleared
\* (Scheduling.h:97, ThreadManager.cpp:942): again for any threads and operations.
THEOREM AwakenedThreadsAreResuming == Spec => []AwakenedThreadIsResuming
  <1>1. HandshakeInv => AwakenedThreadIsResuming
    BY DEF HandshakeInv
  <1> QED BY <1>1, HandshakesAreKept, PTL
-----------------------------------------------------------------------------
LEMMA GoOnStays ==
  ASSUME ~KeyTimeouts, ~NotifyTimed, "interrupt" \notin Ops, GoOnInv, [Next]_vars
  PROVE  GoOnInv'
  <1>1. CASE Next
    BY <1>1, StepKeepsInvariant, HandshakesStay, StepKeepsWaits, StepKeepsTurns,
       StepKeepsCauses DEF GoOnInv
  <1>2. CASE UNCHANGED vars
    <2>1. IndInv' /\ HandshakeInv'
      BY <1>2, StepKeepsInvariant, HandshakesStay DEF GoOnInv
    <2>2. WaitsInv' /\ TurnsInv' /\ CauseIsSet'
      BY <1>2 DEF vars, GoOnInv, WaitsInv, StateFitsPoint, WaiterIsLeftAlone,
                  NotifierFindsWaiter, TurnsInv, AssertionsHold, QueuedAwaitTurn,
                  HandledAwaitTurn, AwakenedIsSuspended, BlockedIsKnown, CauseIsSet,
                  Blocked, AwaitsTurn, InHand
    <2> QED BY <2>1, <2>2 DEF GoOnInv
  <1> QED BY <1>1, <1>2

LEMMA GoOnInvSuffices ==
  ASSUME GoOnInv
  PROVE  ThreadsCanGoOn
  <1>1. TypeOK /\ AssertionsHold
    BY DEF GoOnInv, IndInv, TurnsInv
  <1>2. QueuedThreadsAreBlocked
    BY DEF GoOnInv, TurnsInv, QueuedAwaitTurn, Blocked, QueuedThreadsAreBlocked
  <1>3. NoThreadIsLost
    BY DEF GoOnInv, TurnsInv, BlockedIsKnown, Blocked, NoThreadIsLost
  <1>4. QueuedThreadIsResumable
    BY <1>1 DEF TypeOK, GoOnInv, CauseIsSet, QueuedThreadIsResumable
  <1> QED BY <1>1, <1>2, <1>3, <1>4 DEF ThreadsCanGoOn

\* With threads that sleep, wait, notify, yield, leave for native waits, are
\* signalled, resumed and end, in any number: no thread is pushed twice or comes
\* back from a wait without running, none is lost, and what is in the queue is
\* blocked and resumed at its turn (continueThread, ThreadManager.cpp:1880).  The
\* three assumptions exclude what run scheduler_lost, an interrupt and a key
\* timeout are known to break.
THEOREM NobodyIsStuck ==
  ASSUME ~KeyTimeouts, ~NotifyTimed, "interrupt" \notin Ops
  PROVE  Spec => []ThreadsCanGoOn
  <1>1. Init => GoOnInv
    BY InitEstablishes, InitEstablishesHandshakes, InitEstablishesTurns DEF GoOnInv
  <1>2. GoOnInv /\ [Next]_vars => GoOnInv'
    BY GoOnStays
  <1>3. GoOnInv => ThreadsCanGoOn
    BY GoOnInvSuffices
  <1> QED BY <1>1, <1>2, <1>3, PTL DEF Spec
------------------------------------------------------------------------------
(* Leaps to the end of a timed wait.                                        *)


Active == {"REGISTERING", "SUSPENDED", "RUNNING"}

LeapTypeOK ==
  /\ life \in [LeapThreads -> {"none", "RUNNING", "WAITING", "TIMED", "REAL", "SUSPENDED",
                               "NATIVE_WAITING", "REGISTERING"}]
  /\ clockOf \in [LeapThreads -> Nat] /\ vtime \in Nat
  /\ sysState \in [LeapThreads -> BOOLEAN]
  /\ spawned \in Nat \cup {-1}

\* The scheduler holds the key of its candidate, which waits all the while.
CandidateWaits ==
  /\ look.at \in {"idle", "scan", "maybe", "blocked?", "leap"}
  /\ look.at # "idle" => look.cand \in LeapThreads /\ life[look.cand] = "TIMED"
  /\ look.at = "scan" => look \in [at : {"scan"}, cand : LeapThreads, left : SUBSET LeapThreads]

\* What the histories say holds now.
HistoriesAreTrue ==
  /\ stayed \cup ready \subseteq LeapThreads
  /\ \A t \in stayed : life[t] \in Active
  /\ \A t \in ready : life[t] = "NATIVE_WAITING" /\ ~sysState[t]

\* Every watched thread is still to be looked at, or is not before the candidate.
LookedAtAreLater ==
  look.at = "scan" =>
    \A t \in stayed \cup ready : t \in look.left \/ clockOf[t] >= clockOf[look.cand]

LeapInv ==
  LeapTypeOK /\ CandidateWaits /\ HistoriesAreTrue /\ LookedAtAreLater /\ LeapsOvertakeNobody
-----------------------------------------------------------------------------
LEMMA LeapInitEstablishes ==
  ASSUME LeapInit
  PROVE  LeapInv
  <1>1. LeapTypeOK
    BY DEF LeapInit, LeapTypeOK
  <1>2. CandidateWaits /\ HistoriesAreTrue /\ LookedAtAreLater /\ LeapsOvertakeNobody
    BY DEF LeapInit, NoLook, CandidateWaits, HistoriesAreTrue, LookedAtAreLater,
           LeapsOvertakeNobody, ActiveThreadsAreNotOvertaken, ReadyNativeThreadsAreNotOvertaken
  <1> QED BY <1>1, <1>2 DEF LeapInv

LEMMA WatchMeans ==
  ASSUME Watch
  PROVE  /\ \A t : t \in stayed' <=>
              t \in LeapThreads /\ look'.at # "idle" /\ life'[t] \in Active
                /\ (look.at = "idle" \/ t \in stayed)
         /\ \A t : t \in ready' <=>
              t \in LeapThreads /\ look'.at # "idle" /\ life'[t] = "NATIVE_WAITING"
                /\ ~sysState'[t] /\ (look.at = "idle" \/ t \in ready)
  BY DEF Watch, Throughout, Active

\* What a step of the application may do to the threads while they are watched.
WatchedClocksStay ==
  /\ \A t \in LeapThreads : life[t] \in Active /\ life'[t] \in Active => clockOf'[t] >= clockOf[t]
  /\ \A t \in LeapThreads :
       life[t] = "NATIVE_WAITING" /\ life'[t] = "NATIVE_WAITING" => clockOf'[t] = clockOf[t]
  /\ look.at # "idle" =>
       life'[look.cand] = life[look.cand] /\ clockOf'[look.cand] = clockOf[look.cand]

LEMMA LookIsUndisturbed ==
  ASSUME LeapInv, LeapTypeOK', UNCHANGED look, WatchedClocksStay, Watch
  PROVE  LeapInv'
  <1>1. CandidateWaits'
    BY DEF LeapInv, CandidateWaits, WatchedClocksStay
  <1>2. HistoriesAreTrue'
    BY WatchMeans DEF HistoriesAreTrue
  <1>3. look.at # "idle" =>
          /\ \A t \in stayed' : t \in stayed /\ clockOf'[t] >= clockOf[t]
          /\ \A t \in ready' : t \in ready /\ clockOf'[t] = clockOf[t]
          /\ clockOf'[look.cand] = clockOf[look.cand] /\ look.cand \in LeapThreads
    BY WatchMeans DEF LeapInv, CandidateWaits, HistoriesAreTrue, WatchedClocksStay
  <1>4. LookedAtAreLater'
    BY <1>3 DEF LeapInv, LeapTypeOK, CandidateWaits, HistoriesAreTrue, LookedAtAreLater
  <1>5. LeapsOvertakeNobody'
    BY <1>3 DEF LeapInv, LeapTypeOK, CandidateWaits, HistoriesAreTrue, LeapsOvertakeNobody,
                ActiveThreadsAreNotOvertaken, ReadyNativeThreadsAreNotOvertaken
  <1> QED BY <1>1, <1>2, <1>4, <1>5 DEF LeapInv

\* A step after which the scheduler looks no more.
LEMMA LookEnds ==
  ASSUME LeapTypeOK', look' = NoLook, Watch
  PROVE  LeapInv'
  <1>1. look'.at = "idle"
    BY DEF NoLook
  <1>2. stayed' = {} /\ ready' = {}
    BY <1>1, WatchMeans
  <1> QED
    BY <1>1, <1>2 DEF LeapInv, CandidateWaits, HistoriesAreTrue, LookedAtAreLater,
       LeapsOvertakeNobody, ActiveThreadsAreNotOvertaken, ReadyNativeThreadsAreNotOvertaken
-----------------------------------------------------------------------------
\* The application goes on while the scheduler looks.
LEMMA ThreadStepKeepsInvariant ==
  ASSUME LeapInv, NEW t \in LeapThreads, LeapThreadStep(t), Watch
  PROVE  LeapInv'
  <1> USE DEF LeapTypeOK, OnlyThreads, Later, Active, CandidateWaits, LeapInv
  <1>1. CASE commitCpuTime(t)
    <2>1. LeapTypeOK' /\ UNCHANGED look /\ WatchedClocksStay
      BY <1>1 DEF commitCpuTime, WatchedClocksStay
    <2> QED BY <2>1, LookIsUndisturbed
  <1>2. CASE startWaiting(t)
    <2>1. LeapTypeOK' /\ UNCHANGED look /\ WatchedClocksStay
      BY <1>2 DEF startWaiting, WatchedClocksStay
    <2> QED BY <2>1, LookIsUndisturbed
  <1>3. CASE onWrappedTimedWaitingEnd(t)
    <2>1. LeapTypeOK' /\ UNCHANGED look /\ WatchedClocksStay
      BY <1>3 DEF onWrappedTimedWaitingEnd, WatchedClocksStay
    <2> QED BY <2>1, LookIsUndisturbed
  <1>4. CASE resumeElsewhere(t)
    <2>1. LeapTypeOK' /\ UNCHANGED look /\ WatchedClocksStay
      BY <1>4 DEF resumeElsewhere, WatchedClocksStay
    <2> QED BY <2>1, LookIsUndisturbed
  <1>5. CASE becomeNative(t)
    <2>1. LeapTypeOK' /\ UNCHANGED look /\ WatchedClocksStay
      BY <1>5 DEF becomeNative, WatchedClocksStay
    <2> QED BY <2>1, LookIsUndisturbed
  <1>6. CASE nativeCallReturns(t)
    <2>1. LeapTypeOK' /\ UNCHANGED look /\ WatchedClocksStay
      BY <1>6 DEF nativeCallReturns, WatchedClocksStay
    <2> QED BY <2>1, LookIsUndisturbed
  <1>7. CASE reenterVex(t)
    <2>1. LeapTypeOK' /\ UNCHANGED look /\ WatchedClocksStay
      BY <1>7 DEF reenterVex, WatchedClocksStay
    <2> QED BY <2>1, LookIsUndisturbed
  <1>8. CASE beforeCreatingThread(t)
    <2>1. LeapTypeOK' /\ UNCHANGED look /\ WatchedClocksStay
      BY <1>8 DEF beforeCreatingThread, WatchedClocksStay
    <2> QED BY <2>1, LookIsUndisturbed
  <1>9. CASE addThread(t)
    <2>1. LeapTypeOK' /\ UNCHANGED look /\ WatchedClocksStay
      BY <1>9 DEF addThread, WatchedClocksStay
    <2> QED BY <2>1, LookIsUndisturbed
  <1>10. CASE onThreadSpawned(t)
    <2>1. LeapTypeOK' /\ UNCHANGED look /\ WatchedClocksStay
      BY <1>10 DEF onThreadSpawned, WatchedClocksStay
    <2> QED BY <2>1, LookIsUndisturbed
  <1>11. ASSUME NEW u \in LeapThreads, notifyThread(t, u) PROVE LeapInv'
    <2>1. LeapTypeOK' /\ UNCHANGED look /\ WatchedClocksStay
      BY <1>11 DEF notifyThread, InLook, WatchedClocksStay
    <2> QED BY <2>1, LookIsUndisturbed
  <1> QED BY <1>1, <1>2, <1>3, <1>4, <1>5, <1>6, <1>7, <1>8, <1>9, <1>10, <1>11
          DEF LeapThreadStep

\* A thread that was watched and passed over is not before the candidate.
LEMMA VerdictIsRight ==
  ASSUME LeapInv, NEW u \in stayed \cup ready, look.at # "idle",
         Verdict(look.cand, u) = "go on"
  PROVE  clockOf[u] >= clockOf[look.cand]
  <1>1. clockOf[u] \in Nat /\ clockOf[look.cand] \in Nat
    BY DEF LeapInv, LeapTypeOK, CandidateWaits, HistoriesAreTrue
  <1>2. isDefinitelyActive(u) \/ life[u] = "NATIVE_WAITING"
    BY DEF LeapInv, HistoriesAreTrue, Active, isDefinitelyActive
  <1> QED BY <1>1, <1>2 DEF Verdict

\* The scheduler looks: it reads, and changes only its own record.
LEMMA SchedulerStepKeepsInvariant ==
  ASSUME LeapInv, LeapSchedulerStep, Watch
  PROVE  LeapInv'
  <1>0. ASSUME UNCHANGED <<life, clockOf, sysState, spawned, vtime>> PROVE LeapTypeOK'
    BY <1>0 DEF LeapInv, LeapTypeOK
  <1>1. CASE clearPendingNotifications
    <2>1. UNCHANGED look /\ WatchedClocksStay
      BY <1>1 DEF clearPendingNotifications, WatchedClocksStay, LeapInv, LeapTypeOK, Active
    <2> QED BY <1>0, <1>1, <2>1, LookIsUndisturbed DEF clearPendingNotifications
  <1>2. ASSUME NEW t \in LeapThreads, consider(t) PROVE LeapInv'
    <2>1. LeapTypeOK' /\ look.at = "idle"
      BY <1>0, <1>2 DEF consider, OnlyLooks
    <2>2. CASE look' = NoLook
      BY <2>1, <2>2, LookEnds
    <2>3. CASE life[t] = "TIMED" /\ look' = [at |-> "leap", cand |-> t, outcome |-> "late"]
      <3>1. CandidateWaits' /\ HistoriesAreTrue' /\ LookedAtAreLater'
        BY <1>2, <2>1, <2>3, WatchMeans
           DEF consider, OnlyLooks, CandidateWaits, HistoriesAreTrue, LookedAtAreLater
      <3>2. LeapsOvertakeNobody'
        BY <2>3 DEF LeapsOvertakeNobody, ActiveThreadsAreNotOvertaken,
                    ReadyNativeThreadsAreNotOvertaken
      <3> QED BY <2>1, <3>1, <3>2 DEF LeapInv
    <2>4. CASE life[t] = "TIMED" /\ look' = [at |-> "scan", cand |-> t, left |-> Registered]
      <3>1. CandidateWaits' /\ HistoriesAreTrue'
        BY <1>2, <2>1, <2>4, WatchMeans
           DEF consider, OnlyLooks, CandidateWaits, HistoriesAreTrue, Registered
      <3>2. LookedAtAreLater'
        BY <1>2, <2>1, <2>4, WatchMeans
           DEF consider, OnlyLooks, LookedAtAreLater, Registered, Active
      <3>3. LeapsOvertakeNobody'
        BY <2>4 DEF LeapsOvertakeNobody, ActiveThreadsAreNotOvertaken,
                    ReadyNativeThreadsAreNotOvertaken
      <3> QED BY <2>1, <3>1, <3>2, <3>3 DEF LeapInv
    <2> QED BY <1>2, <2>2, <2>3, <2>4 DEF consider, Refuse
  <1>3. ASSUME NEW u \in LeapThreads, areAnyOtherThreadsActiveInFormerTime(u) PROVE LeapInv'
    <2>1. LeapTypeOK' /\ look.at = "scan" /\ u \in look.left
      BY <1>0, <1>3 DEF areAnyOtherThreadsActiveInFormerTime, OnlyLooks
    <2>2. CASE look' = NoLook
      BY <2>1, <2>2, LookEnds
    <2>3. CASE look' = [at |-> "maybe", cand |-> look.cand]
      <3>1. CandidateWaits' /\ HistoriesAreTrue'
        BY <1>3, <2>1, <2>3, WatchMeans
           DEF areAnyOtherThreadsActiveInFormerTime, OnlyLooks, LeapInv, CandidateWaits,
               HistoriesAreTrue
      <3>2. LookedAtAreLater' /\ LeapsOvertakeNobody'
        BY <2>3 DEF LookedAtAreLater, LeapsOvertakeNobody, ActiveThreadsAreNotOvertaken,
                    ReadyNativeThreadsAreNotOvertaken
      <3> QED BY <2>1, <3>1, <3>2 DEF LeapInv
    <2>4. CASE Verdict(look.cand, u) = "go on"
      <3>1. \A t \in stayed' \cup ready' :
              /\ t \in stayed \cup ready
              /\ t # u => t \in look.left \/ clockOf[t] >= clockOf[look.cand]
              /\ t = u => clockOf[t] >= clockOf[look.cand]
        BY <2>1, <2>4, WatchMeans, VerdictIsRight DEF LeapInv, LookedAtAreLater
      <3>2. look.cand \in LeapThreads /\ life[look.cand] = "TIMED"
        BY <2>1 DEF LeapInv, CandidateWaits
      <3>3. UNCHANGED <<life, clockOf, sysState>>
        BY <1>3 DEF areAnyOtherThreadsActiveInFormerTime, OnlyLooks
      <3>4. HistoriesAreTrue'
        BY WatchMeans DEF HistoriesAreTrue
      <3>5. CASE look' = [at |-> "leap", cand |-> look.cand, outcome |-> "none"]
                   /\ look.left = {u}
        <4>1. CandidateWaits' /\ LookedAtAreLater'
          BY <3>2, <3>3, <3>5 DEF CandidateWaits, LookedAtAreLater
        <4>2. LeapsOvertakeNobody'
          BY <3>1, <3>3, <3>5 DEF LeapsOvertakeNobody, ActiveThreadsAreNotOvertaken,
                                  ReadyNativeThreadsAreNotOvertaken
        <4> QED BY <2>1, <3>4, <4>1, <4>2 DEF LeapInv
      <3>6. CASE look' = [look EXCEPT !.left = @ \ {u}]
        <4>0. look \in [at : {"scan"}, cand : LeapThreads, left : SUBSET LeapThreads]
          BY <2>1 DEF LeapInv, CandidateWaits
        <4>1. /\ look' \in [at : {"scan"}, cand : LeapThreads, left : SUBSET LeapThreads]
              /\ look'.at = "scan" /\ look'.cand = look.cand /\ look'.left = look.left \ {u}
          BY <3>6, <4>0
        <4>2. CandidateWaits'
          BY <3>2, <3>3, <4>1 DEF CandidateWaits
        <4>3. LookedAtAreLater'
          BY <3>1, <3>3, <4>1 DEF LookedAtAreLater
        <4>4. LeapsOvertakeNobody'
          BY <4>1 DEF LeapsOvertakeNobody, ActiveThreadsAreNotOvertaken,
                      ReadyNativeThreadsAreNotOvertaken
        <4> QED BY <2>1, <3>4, <4>2, <4>3, <4>4 DEF LeapInv
      <3> QED BY <1>3, <2>2, <2>3, <2>4, <3>5, <3>6
              DEF areAnyOtherThreadsActiveInFormerTime, Refuse
    <2> QED BY <1>3, <2>2, <2>3, <2>4 DEF areAnyOtherThreadsActiveInFormerTime, Refuse
  <1>4. CASE firstLook
    BY <1>0, <1>4, LookEnds DEF firstLook, Refuse, OnlyLooks
  <1>5. CASE secondLook
    <2>1. LeapTypeOK' /\ look.at = "maybe"
      BY <1>0, <1>5 DEF secondLook, OnlyLooks
    <2>2. CASE look' = NoLook
      BY <2>1, <2>2, LookEnds
    <2>3. CASE look' = [at |-> "blocked?", cand |-> look.cand]
      <3>1. CandidateWaits' /\ HistoriesAreTrue'
        BY <1>5, <2>1, <2>3, WatchMeans
           DEF secondLook, OnlyLooks, LeapInv, CandidateWaits, HistoriesAreTrue
      <3>2. LookedAtAreLater' /\ LeapsOvertakeNobody'
        BY <2>3 DEF LookedAtAreLater, LeapsOvertakeNobody, ActiveThreadsAreNotOvertaken,
                    ReadyNativeThreadsAreNotOvertaken
      <3> QED BY <2>1, <3>1, <3>2 DEF LeapInv
    <2> QED BY <1>5, <2>2, <2>3 DEF secondLook, Refuse
  <1>6. CASE thirdLook
    <2>1. LeapTypeOK' /\ look.at = "blocked?" /\ UNCHANGED <<life, clockOf, sysState>>
      BY <1>0, <1>6 DEF thirdLook, OnlyLooks
    <2>2. CASE look' = NoLook
      BY <2>1, <2>2, LookEnds
    <2>3. CASE areAllNativeWaitingThreadsBlockedAccordingToSystemState
                 /\ look' = [at |-> "leap", cand |-> look.cand, outcome |-> "maybe"]
      <3>1. CandidateWaits' /\ HistoriesAreTrue' /\ LookedAtAreLater'
        BY <2>1, <2>3, WatchMeans DEF LeapInv, CandidateWaits, HistoriesAreTrue,
                                      LookedAtAreLater
      <3>2. \A t \in ready' : /\ t \in Registered /\ life[t] = "NATIVE_WAITING" /\ ~sysState[t]
                              /\ clockOf[t] \in Nat /\ clockOf[look.cand] \in Nat
        BY <2>1, WatchMeans DEF Registered, LeapInv, LeapTypeOK, CandidateWaits
      <3>3. LeapsOvertakeNobody'
        BY <2>1, <2>3, <3>2
           DEF LeapsOvertakeNobody, ActiveThreadsAreNotOvertaken,
               ReadyNativeThreadsAreNotOvertaken,
               areAllNativeWaitingThreadsBlockedAccordingToSystemState
      <3> QED BY <2>1, <3>1, <3>3 DEF LeapInv
    <2> QED BY <1>6, <2>2, <2>3 DEF thirdLook, Refuse
  <1>7. CASE interruptTimedWaitingThread
    <2>1. LeapTypeOK'
      BY <1>7 DEF interruptTimedWaitingThread, LeapInv, LeapTypeOK, CandidateWaits, Later
    <2> QED BY <1>7, <2>1, LookEnds DEF interruptTimedWaitingThread
  <1> QED BY <1>1, <1>2, <1>3, <1>4, <1>5, <1>6, <1>7 DEF LeapSchedulerStep

\* Whatever the other threads do between two looks of the scheduler, and
\* whatever the criteria for native waiting, a leap to the end of a timed wait
\* overtakes neither a thread that was active all the while nor a native waiting
\* one that could have gone on (isValidToLeapInVirtualTimeTo,
\* areAnyOtherThreadsActiveInFormerTime).
THEOREM LeapsAreSafe == LeapSpec => []LeapsOvertakeNobody
  <1>1. LeapInit => LeapInv
    BY LeapInitEstablishes
  <1>2. LeapInv /\ [LeapNext]_leapVars => LeapInv'
    <2>1. ASSUME LeapInv, LeapSchedulerStep, Watch PROVE LeapInv'
      BY <2>1, SchedulerStepKeepsInvariant
    <2>2. ASSUME LeapInv, Tick \/ onWrappedBackgroundLoadExecution, Watch PROVE LeapInv'
      <3>1. LeapTypeOK' /\ UNCHANGED look /\ WatchedClocksStay
        BY <2>2 DEF Tick, onWrappedBackgroundLoadExecution, WatchedClocksStay, LeapInv,
                    LeapTypeOK, Active
      <3> QED BY <2>2, <3>1, LookIsUndisturbed
    <2>3. ASSUME LeapInv, NEW t \in LeapThreads, LeapThreadStep(t), Watch PROVE LeapInv'
      BY <2>3, ThreadStepKeepsInvariant
    <2>4. ASSUME LeapInv, UNCHANGED leapVars PROVE LeapInv'
      BY <2>4 DEF leapVars, LeapInv, LeapTypeOK, CandidateWaits, HistoriesAreTrue,
                  LookedAtAreLater, LeapsOvertakeNobody, ActiveThreadsAreNotOvertaken,
                  ReadyNativeThreadsAreNotOvertaken
    <2> QED BY <2>1, <2>2, <2>3, <2>4 DEF LeapNext
  <1>3. LeapInv => LeapsOvertakeNobody
    BY DEF LeapInv
  <1> QED BY <1>1, <1>2, <1>3, PTL DEF LeapSpec
=============================================================================
