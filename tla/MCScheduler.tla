---------------------------- MODULE MCScheduler ----------------------------
(* The scheduler where its estimates may be wrong: the key of a thread is    *)
(* not free within the timeout, and a leap forward may overtake a thread.    *)
(* In these models the two share no state; `part` says which of them moves,  *)
(* the other stays where it begins.                                          *)
EXTENDS ThreadManager, ForwardLeaps, TLC

CONSTANTS fa, fb, fc

VARIABLE part

schedulerVars == <<part, vars, leapVars>>

SchedulerInit == part \in {"hand over", "leaps"} /\ Init /\ LeapInit

Leaping(A) == part = "leaps" /\ A /\ UNCHANGED <<part, vars>>

SchedulerNext ==
  \/ part = "hand over" /\ Next /\ UNCHANGED <<part, leapVars>>
  \/ Leaping(LeapNext)

\* The fairness of FairLeapSpec, where its part moves.
SchedulerSpec ==
  /\ SchedulerInit /\ [][SchedulerNext]_schedulerVars
  /\ WF_schedulerVars(Leaping(LeapSchedulerStep /\ Watch))
  /\ WF_schedulerVars(Leaping(Tick /\ Watch))
=============================================================================
