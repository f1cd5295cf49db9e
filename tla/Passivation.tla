----------------------------- MODULE Passivation -----------------------------
(***************************************************************************)
(* class PassivationManager (src/src/passivation.manager.ts) and what the  *)
(* PID does for it (src/src/pid.ts): actors with a time-based strategy are *)
(* stopped when idle for their timeout.  A handler may be asynchronous,    *)
(* and what an actor stashed or awaits keeps it from being idle.           *)
(***************************************************************************)
EXTENDS SharedTimer

CONSTANTS
  Pids,
  timeout,     \* of each actor's strategy
  MaxLate      \* bound: how late the event loop runs a timer

VARIABLES
  due,          \* the deadline of each entry in the heap
  timer,
  status,
  enrolled,    \* actors register() was called for
  processing,  \* the receive loop runs
  pending,     \* something is stashed, or a request awaits its reply
  activity,    \* time since _latestActivity, up to the timeout
  down,        \* the manager was stopped with its system
  quiet        \* history: time since it last started or finished working

vars == <<due, timer, status, enrolled, processing, pending, activity, down, quiet>>

Init ==
  /\ due = Nothing /\ timer = NoTimer /\ status = [p \in Pids |-> "new"]
  /\ enrolled = {} /\ down = FALSE
  /\ processing = [p \in Pids |-> FALSE] /\ pending = [p \in Pids |-> FALSE]
  /\ activity = [p \in Pids |-> 0] /\ quiet = [p \in Pids |-> 0]

Set(d) == due' = d /\ timer' = Arm(timer, d)

\* start(): PostStart is enqueued.  register() follows in a later turn,
\* whatever became of the actor.
Start(p) ==
  /\ status[p] = "new" /\ status' = [status EXCEPT ![p] = "running"]
  /\ processing' = [processing EXCEPT ![p] = TRUE]
  /\ activity' = [activity EXCEPT ![p] = 0] /\ quiet' = [quiet EXCEPT ![p] = 0]
  /\ UNCHANGED <<due, timer, enrolled, pending, down>>
Register(p) ==
  /\ status[p] # "new" /\ p \notin enrolled /\ enrolled' = enrolled \cup {p}
  /\ Set(Push(due, p, timeout[p]))
  /\ UNCHANGED <<status, processing, pending, activity, down, quiet>>

\* A message is accepted; the loop may stash it, or send a request.
Receive(p) ==
  /\ status[p] = "running" /\ ~processing[p]
  /\ processing' = [processing EXCEPT ![p] = TRUE]
  /\ UNCHANGED <<due, timer, status, enrolled, pending, activity, down, quiet>>

\* The drain is complete, or a suspension ends it: only a scheduled or a
\* suspended actor reads the clock.
Drained(p) == IF p \in DOMAIN due \/ status[p] = "suspended" THEN [activity EXCEPT ![p] = 0] ELSE activity

DrainDone(p) ==
  /\ processing[p] /\ processing' = [processing EXCEPT ![p] = FALSE]
  /\ \E b \in BOOLEAN : pending' = [pending EXCEPT ![p] = b]
  /\ activity' = Drained(p) /\ quiet' = [quiet EXCEPT ![p] = 0]
  /\ UNCHANGED <<due, timer, status, enrolled, down>>

\* A failure or a restart suspends, possibly with a handler in flight; both
\* ways back read the clock, and may find a backlog.
Suspend(p) ==
  /\ status[p] = "running" /\ status' = [status EXCEPT ![p] = "suspended"]
  /\ UNCHANGED <<due, timer, enrolled, processing, pending, activity, down, quiet>>
Resume(p) ==
  /\ status[p] = "suspended" /\ status' = [status EXCEPT ![p] = "running"]
  /\ activity' = [activity EXCEPT ![p] = 0] /\ quiet' = [quiet EXCEPT ![p] = 0]
  /\ \E b \in BOOLEAN : processing' = [processing EXCEPT ![p] = @ \/ b]
  /\ UNCHANGED <<due, timer, enrolled, pending, down>>

\* Another reason to stop; nothing unregisters the actor.  "stopped" is all the
\* manager sees of one that neither runs nor is suspended: a running actor from
\* shutdown() on, a suspended one, which reports so until then, from reset() on.
Shutdown(p) ==
  /\ status[p] \in {"running", "suspended"} /\ status' = [status EXCEPT ![p] = "stopped"]
  /\ processing' = [processing EXCEPT ![p] = FALSE]
  /\ UNCHANGED <<due, timer, enrolled, pending, activity, down, quiet>>

\* Mutant: an actor with work stashed or awaited counts as idle.
IsIdle_Loop(p) == ~processing[p]

IsIdle(p) == ~processing[p] /\ ~pending[p]

\* What onTimer() does with a due actor: the delay to its next deadline, 0
\* to passivate it and -1 to forget it.
\* Mutant: a suspended actor is forgotten.
Verdict_Forgets(p) ==
  CASE status[p] # "running" -> -1
    [] status[p] = "running" /\ activity[p] < timeout[p] -> timeout[p] - activity[p]
    [] status[p] = "running" /\ activity[p] >= timeout[p] /\ ~IsIdle(p) -> timeout[p]
    [] OTHER -> 0

Verdict(p) ==
  CASE status[p] = "suspended" -> timeout[p]
    [] status[p] \notin {"running", "suspended"} -> -1
    [] status[p] = "running" /\ activity[p] < timeout[p] -> timeout[p] - activity[p]
    [] status[p] = "running" /\ activity[p] >= timeout[p] /\ ~IsIdle(p) -> timeout[p]
    [] OTHER -> 0

Due == {p \in DOMAIN due : due[p] <= 0}
Passivated == {p \in Due : Verdict(p) = 0}
Fired ==
  [p \in {q \in DOMAIN due : q \in Due => Verdict(q) > 0} |->
     IF p \in Due THEN Verdict(p) ELSE due[p]]

OnTimer ==
  /\ timer.on /\ timer.wake <= 0
  /\ due' = Fired /\ timer' = Arm(NoTimer, Fired)
  /\ status' = [p \in Pids |-> IF p \in Passivated THEN "passivated" ELSE status[p]]
  /\ UNCHANGED <<enrolled, processing, pending, activity, down, quiet>>

\* A registration takes no time.
Tick ==
  /\ \A p \in Pids : status[p] # "new" => p \in enrolled
  /\ LessLate(timer, due, MaxLate)
  /\ due' = Closer(due) /\ timer' = Later(timer)
  /\ activity' = [p \in Pids |-> IF activity[p] < timeout[p] THEN activity[p] + 1 ELSE activity[p]]
  /\ quiet' = [p \in Pids |-> IF quiet[p] < timeout[p] THEN quiet[p] + 1 ELSE quiet[p]]
  /\ UNCHANGED <<status, enrolled, processing, pending, down>>

Stop ==
  /\ due' = Nothing /\ timer' = NoTimer /\ down' = TRUE
  /\ UNCHANGED <<status, enrolled, processing, pending, activity, quiet>>

Next ==
  \/ OnTimer \/ Tick \/ Stop
  \/ \E p \in Pids : \/ Start(p) \/ Register(p) \/ Receive(p) \/ DrainDone(p)
                     \/ Suspend(p) \/ Resume(p) \/ Shutdown(p)

Spec == Init /\ [][Next]_vars

\* Time passes, Node runs its timers, and a spawn registers its actor.
FairSpec == Spec /\ WF_vars(Tick) /\ WF_vars(OnTimer) /\ \A p \in Pids : WF_vars(Register(p))

-----------------------------------------------------------------------------
\* The timer is armed for the earliest deadline, and every running or suspended actor
\* is scheduled: none is forgotten while it can still become idle.
Scheduled ==
  /\ Covers(timer, due)
  /\ down \/ \A p \in enrolled : status[p] \in {"running", "suspended"} => p \in DOMAIN due

\* The manager stops an actor only if it did nothing for its whole timeout,
\* and has nothing to do, stashed or awaited.
OnlyIdle ==
  [][\A p \in Pids : status[p] # "passivated" /\ status'[p] = "passivated" =>
                     quiet[p] >= timeout[p] /\ ~processing[p] /\ ~pending[p]]_vars

\* An actor that stays idle is stopped.
IdleEnds ==
  \A p \in Pids : []<>(down \/ status[p] # "running" \/ ~IsIdle(p) \/ quiet[p] < timeout[p])
=============================================================================
