----------------------------- MODULE MCSupport -----------------------------
(* The components around the scheduler that share no state with one another  *)
(* in these models, checked in one run: `part` says which of them moves, the  *)
(* others stay where they begin.                                             *)
EXTENDS TimeAccounting, SimulatorSetup, SchedulerLoop, TLC

CONSTANTS ta, tb, la, lb

VARIABLE part

TheScaling == ta :> 1 @@ tb :> 2

supportVars == <<part, taVars, suVars, loopVars>>

SupportInit ==
  /\ part \in {"time", "set-up", "loop"}
  /\ TaInit /\ SuInit /\ LoopInit
  /\ part # "set-up" => given = <<>>

InLoop(A) == part = "loop" /\ A /\ UNCHANGED <<part, taVars, suVars>>

SupportNext ==
  \/ part = "time" /\ TaNext /\ UNCHANGED <<part, suVars, loopVars>>
  \/ part = "set-up" /\ SuNext /\ UNCHANGED <<part, taVars, loopVars>>
  \/ InLoop(LoopNext)

\* LoopFairness of SchedulerLoop, for the behaviours in which its part moves.
SupportSpec ==
  /\ SupportInit /\ [][SupportNext]_supportVars
  /\ \A m \in Ids : WF_supportVars(InLoop(SchedulerStep(m)))
  /\ WF_supportVars(InLoop(ShutdownStep))
=============================================================================
