----------------------------- MODULE SharedTimer -----------------------------
(***************************************************************************)
(* The one timer of the scheduler and of the passivation manager, armed    *)
(* for the earliest deadline.  The heap they keep (DeadlineHeap) is here   *)
(* what it stands for: the deadline of each entry in it, as a function.    *)
(* Times are relative to now: the clock takes one from each of them.       *)
(***************************************************************************)
EXTENDS Integers, FiniteSetsExt

CONSTANTS TimeoutMax   \* the longest delay a Node timer can hold

ASSUME SharedTimerAssumption == TimeoutMax \in Nat \ {0}

Nothing == [e \in {} |-> 0]
Push(due, e, d) == [f \in DOMAIN due \cup {e} |-> IF f = e THEN d ELSE due[f]]
Remove(due, es) == [f \in DOMAIN due \ es |-> due[f]]
Earliest(due) == Min({due[e] : e \in DOMAIN due})

\* A timer: the deadline it is meant for, and when Node runs it.
NoTimer == [on |-> FALSE, deadline |-> 0, wake |-> 0]

\* setTimeout(): a delay out of range is a delay of 1.
Delay(d) == IF d < 1 \/ d > TimeoutMax THEN 1 ELSE d

\* Mutant: a running timer is never moved forward.
Arm_Once(timer, due) ==
  CASE due = Nothing -> NoTimer
    [] due # Nothing /\ timer.on -> timer
    [] OTHER -> [on |-> TRUE, deadline |-> Earliest(due), wake |-> Delay(Earliest(due))]

\* arm(): no timer when nothing is due ever; a timer that fires no later
\* than the earliest deadline stays.
Arm(timer, due) ==
  CASE due = Nothing -> NoTimer
    [] due # Nothing /\ timer.on /\ Earliest(due) >= timer.deadline -> timer
    [] OTHER -> [on |-> TRUE, deadline |-> Earliest(due), wake |-> Delay(Earliest(due))]

\* One unit of time.
Later(timer) == IF timer.on THEN [timer EXCEPT !.deadline = @ - 1, !.wake = @ - 1] ELSE timer
Closer(due) == [e \in DOMAIN due |-> due[e] - 1]

\* Whether the event loop is less late than this.
LessLate(timer, due, late) ==
  (\A e \in DOMAIN due : due[e] > -late) /\ (timer.on => timer.wake > -late)

-----------------------------------------------------------------------------
\* A timer runs exactly when something is scheduled, and is meant for a
\* deadline no later than the earliest one.
Covers(timer, due) ==
  /\ timer.on <=> due # Nothing
  /\ timer.on => timer.deadline <= Earliest(due)
=============================================================================
