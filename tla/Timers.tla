-------------------------------- MODULE Timers --------------------------------
(***************************************************************************)
(* What the event loop's delay queue promises to those who schedule tasks: *)
(* a set of timers, each with a moment at which it is due.  Time passes in *)
(* any amounts; a task is handled once, not before it is due, and never    *)
(* before another one that was due earlier.                                *)
(***************************************************************************)
EXTENDS Integers

CONSTANTS
  Tasks,       \* the delayed tasks of the program
  NoTask

VARIABLES
  time,        \* the time that is known to have passed
  due,         \* when each scheduled task is due
  handled      \* the task whose handler the last step called

vars == <<time, due, handled>>

pending == DOMAIN due

Without(t) == [u \in pending \ {t} |-> due[u]]

Init ==
  /\ time = 0
  /\ due = [t \in {} |-> 0]
  /\ handled = NoTask

Pass ==
  /\ time' \in Nat
  /\ time' >= time
  /\ handled' = NoTask
  /\ UNCHANGED due

\* The delay counts from a moment that need not be known to have passed yet.
Schedule(t) ==
  /\ t \notin pending
  /\ DOMAIN due' = pending \cup {t}
  /\ due'[t] \in Nat
  /\ due'[t] >= time
  /\ Without(t) = [u \in pending |-> due'[u]]
  /\ handled' = NoTask
  /\ UNCHANGED time

Cancel(t) ==
  /\ t \in pending
  /\ due' = Without(t)
  /\ handled' = NoTask
  /\ UNCHANGED time

Handle(t) ==
  /\ t \in pending
  /\ due[t] <= time
  /\ \A u \in pending : due[t] <= due[u]
  /\ due' = Without(t)
  /\ handled' = t
  /\ UNCHANGED time

Next ==
  \/ Pass
  \/ \E t \in Tasks : Schedule(t) \/ Cancel(t) \/ Handle(t)

Spec == Init /\ [][Next]_vars

=============================================================================
