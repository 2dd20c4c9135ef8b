---------------------------- MODULE EventCalendar ----------------------------
(***************************************************************************)
(* What a discrete-event simulation promises of its diary: events are      *)
(* planned for the present or the future, may be called off, and are taken *)
(* in the order of their times.  Cinqs is shown to implement it.           *)
(***************************************************************************)
EXTENDS Integers

CONSTANT Events

VARIABLES
  now,      \* the current time
  pending   \* the events to come, a set of <<event, time>>

vars == <<now, pending>>

Init == now = 0 /\ pending \in SUBSET (Events \X Nat)

\* The clock moves to an event none is earlier than.
Take ==
  \E e \in pending :
    /\ pending' = pending \ {e}
    /\ \A f \in pending : e[2] <= f[2]
    /\ now <= e[2] /\ now' = e[2]

\* Events are planned or called off.
Plan == UNCHANGED now /\ \A e \in pending' \ pending : now <= e[2]

Next == Take \/ Plan

Spec == Init /\ [][Next]_vars
=============================================================================
