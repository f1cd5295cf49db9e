------------------------------ MODULE Scheduler ------------------------------
(***************************************************************************)
(* class Scheduler (src/src/scheduler.ts): delayed and repeating messages. *)
(* What an entry is about is fixed with the entry; an entry that nothing   *)
(* refers to any more may be registered again, as a new one.               *)
(***************************************************************************)
EXTENDS SharedTimer

CONSTANTS
  Actors, Entries, Refs,
  Nil,                    \* no owner, no reference
  owner, receiver, reference, interval, repeats,   \* of each entry
  MaxLate                 \* bound: how late the event loop runs a timer

ASSUME SchedulerAssumption ==
  /\ owner \in [Entries -> Actors \cup {Nil}] /\ receiver \in [Entries -> Actors]
  /\ reference \in [Entries -> Refs \cup {Nil}] /\ interval \in [Entries -> Nat \ {0}]
  /\ repeats \in [Entries -> BOOLEAN] /\ Nil \notin Actors \cup Refs /\ MaxLate \in Nat

VARIABLES
  due,          \* the deadline of each entry in the heap
  timer,
  references,   \* the entry held under each reference
  owned,        \* entries in the set of their owner
  paused, remaining,
  status,       \* of each actor
  elapsed       \* history: how long an entry has run, up to its interval

vars == <<due, timer, references, owned, paused, remaining, status, elapsed>>

Init ==
  /\ due = Nothing /\ timer = NoTimer
  /\ references = [r \in Refs |-> Nil] /\ owned = {}
  /\ paused = [e \in Entries |-> FALSE] /\ remaining = [e \in Entries |-> 0]
  /\ status = [a \in Actors |-> "running"] /\ elapsed = [e \in Entries |-> 0]

Holding(e) == reference[e] # Nil /\ references[reference[e]] = e
Garbage(e) == e \notin DOMAIN due /\ ~Holding(e) /\ e \notin owned

\* What is scheduled, and the timer armed for it.
Set(d) == due' = d /\ timer' = Arm(timer, d)

\* register(): the receiver runs and the reference is free.  The owner is not
\* asked: one that has stopped (a context kept after the stop) runs no listener
\* any more, so nothing drops what it registers then.
Register(e) ==
  /\ Garbage(e)
  /\ reference[e] # Nil => references[reference[e]] = Nil
  /\ status[receiver[e]] = "running"
  /\ references' = [r \in Refs |-> IF r = reference[e] THEN e ELSE references[r]]
  /\ owned' = IF owner[e] # Nil THEN owned \cup {e} ELSE owned
  /\ paused' = [paused EXCEPT ![e] = FALSE] /\ remaining' = [remaining EXCEPT ![e] = 0]
  /\ elapsed' = [elapsed EXCEPT ![e] = 0]
  /\ Set(Push(due, e, interval[e]))
  /\ UNCHANGED status

\* Mutant: the reference is kept.
Unreferenced_Kept(es) == references

\* The references without those of the given entries, deleted by name.
Unreferenced(es) ==
  [r \in Refs |-> IF \E e \in es : reference[e] = r THEN Nil ELSE references[r]]

Cancel(e) ==
  /\ Holding(e)
  /\ Set(Remove(due, {e}))
  /\ references' = Unreferenced({e}) /\ owned' = owned \ {e}
  /\ UNCHANGED <<paused, remaining, status, elapsed>>

Pause(e) ==
  /\ Holding(e) /\ ~paused[e]
  /\ paused' = [paused EXCEPT ![e] = TRUE]
  /\ remaining' = IF repeats[e] THEN remaining
                  ELSE [remaining EXCEPT ![e] = IF due[e] > 0 THEN due[e] ELSE 0]
  /\ Set(Remove(due, {e}))
  /\ UNCHANGED <<references, owned, status, elapsed>>

\* Mutant: a repeating schedule resumes with what it had left.
Resumed_Left(e) == remaining[e]

\* The delay of a resumed entry.
Resumed(e) == IF repeats[e] THEN interval[e] ELSE remaining[e]

Resume(e) ==
  /\ Holding(e) /\ paused[e]
  /\ paused' = [paused EXCEPT ![e] = FALSE]
  /\ Set(Push(due, e, Resumed(e)))
  /\ elapsed' = IF repeats[e] THEN [elapsed EXCEPT ![e] = 0] ELSE elapsed
  /\ UNCHANGED <<references, owned, remaining, status>>

\* An entry whose tick is its last: a one-shot, or one whose receiver is
\* neither running nor suspended.
LastTick(e) == ~repeats[e] \/ status[receiver[e]] \notin {"running", "suspended"}

\* onTimer(): every due entry is popped and sent, and then discarded or
\* pushed again an interval later, which is not due.
Due == {e \in DOMAIN due : due[e] <= 0}
Last == {e \in Due : LastTick(e)}
Fired == [e \in DOMAIN due \ Last |-> IF e \in Due THEN interval[e] ELSE due[e]]

\* Mutant: the timer is not armed again.
OnTimer_Unarmed ==
  /\ timer.on /\ timer.wake <= 0
  /\ due' = Fired /\ timer' = NoTimer
  /\ references' = Unreferenced(Last)
  /\ owned' = owned \ Last
  /\ elapsed' = [e \in Entries |-> IF e \in Due THEN 0 ELSE elapsed[e]]
  /\ UNCHANGED <<paused, remaining, status>>

OnTimer ==
  /\ timer.on /\ timer.wake <= 0
  /\ due' = Fired /\ timer' = Arm(NoTimer, Fired)
  /\ references' = Unreferenced(Last)
  /\ owned' = owned \ Last
  /\ elapsed' = [e \in Entries |-> IF e \in Due THEN 0 ELSE elapsed[e]]
  /\ UNCHANGED <<paused, remaining, status>>

\* stop(): nothing refers to the entries any more.
Stop ==
  /\ due' = Nothing /\ timer' = NoTimer
  /\ references' = [r \in Refs |-> Nil] /\ owned' = {}
  /\ UNCHANGED <<paused, remaining, status, elapsed>>

\* Mutant: only the entries that are in the heap go.
Dropped_Running(a) == {e \in owned : owner[e] = a /\ e \in DOMAIN due}

\* dropOwner(): what goes with an actor, paused or not.
Dropped(a) == {e \in owned : owner[e] = a}

\* What the actors do.  A restart suspends for a while.  An actor that is
\* shut down while suspended still reports so, unless it is reinstated.
Suspend(a) ==
  /\ status[a] = "running" /\ status' = [status EXCEPT ![a] = "suspended"]
  /\ UNCHANGED <<due, timer, references, owned, paused, remaining, elapsed>>
Reinstate(a) ==
  /\ status[a] = "suspended" /\ status' = [status EXCEPT ![a] = "running"]
  /\ UNCHANGED <<due, timer, references, owned, paused, remaining, elapsed>>
Stopping(a) ==
  /\ status[a] \in {"running", "suspended"} /\ status' = [status EXCEPT ![a] = "stopping"]
  /\ UNCHANGED <<due, timer, references, owned, paused, remaining, elapsed>>
Stopped(a) ==
  /\ status[a] \in {"stopping", "suspended"} /\ status' = [status EXCEPT ![a] = "stopped"]
  /\ references' = Unreferenced(Dropped(a)) /\ owned' = owned \ Dropped(a)
  /\ Set(Remove(due, Dropped(a)))
  /\ UNCHANGED <<paused, remaining, elapsed>>

\* The clock; an entry outside the heap is not running.
Tick ==
  /\ LessLate(timer, due, MaxLate)
  /\ due' = Closer(due) /\ timer' = Later(timer)
  /\ elapsed' = [e \in Entries |-> IF e \in DOMAIN due /\ elapsed[e] < interval[e]
                                   THEN elapsed[e] + 1 ELSE elapsed[e]]
  /\ UNCHANGED <<references, owned, paused, remaining, status>>

Next ==
  \/ OnTimer \/ Tick \/ Stop
  \/ \E e \in Entries : Register(e) \/ Cancel(e) \/ Pause(e) \/ Resume(e)
  \/ \E a \in Actors : Suspend(a) \/ Reinstate(a) \/ Stopping(a) \/ Stopped(a)

Spec == Init /\ [][Next]_vars

\* Time passes and Node runs its timers.
FairSpec == Spec /\ WF_vars(Tick) /\ WF_vars(OnTimer)

-----------------------------------------------------------------------------
\* The shared timer is armed for the earliest deadline after any calls.
TimerCovers == Covers(timer, due)

\* The three structures that track an entry agree: one that will fire is
\* held under its reference and by its owner, so that it can be cancelled,
\* and one that is held will fire, or is paused.
TrackersAgree ==
  \A e \in Entries :
    /\ e \in DOMAIN due => /\ reference[e] # Nil => Holding(e)
                           /\ owner[e] # Nil => e \in owned
                           /\ ~paused[e]
    /\ Holding(e) \/ e \in owned => e \in DOMAIN due \/ (paused[e] /\ Holding(e))

\* The step in which an actor stops takes everything it scheduled with it,
\* paused or not, and its references are free again.
OwnerTakesAll ==
  [][\A e \in Entries : owner[e] # Nil /\ status[owner[e]] # "stopped"
                          /\ status'[owner[e]] = "stopped" => Garbage(e)']_vars

\* actor.system.ts, scheduleFrom(): a schedule an actor owns is cancelled when
\* the actor fully stops.  It fails: register() takes one from a stopped owner.
EndsWithOwner ==
  \A e \in Entries : owner[e] # Nil /\ status[owner[e]] = "stopped" => Garbage(e)

\* However often it was paused, a one-shot runs its full delay, and a
\* repeating schedule a full interval from its last tick or resumption.
RunsItsDelay ==
  \A e \in Entries : e \in DOMAIN due =>
    elapsed[e] >= interval[e] \/ elapsed[e] + due[e] >= interval[e]

\* What is due is sent, or paused or cancelled first.
DueFires == \A e \in Entries : e \in Due ~> e \notin Due
=============================================================================
