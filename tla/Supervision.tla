----------------------------- MODULE Supervision -----------------------------
(***************************************************************************)
(* Supervision: a parent and children that share one supervisor            *)
(* (src/src/supervisor.ts, src/src/pid.ts).  A fault of a child travels to *)
(* the parent's mailbox as a Panicking; the parent stops, restarts or      *)
(* escalates.  Restarts run as tasks of their own, with backoff and retry. *)
(***************************************************************************)
EXTENDS Integers, Sequences, FiniteSets

CONSTANTS
  Siblings,      \* the children of the parent
  Strategy,      \* "oneForOne" or "oneForAll"
  Directives,    \* what the supervisor answers to the errors that happen
  maxRetries, timeout, InitialDelay, MaxDelay, BackoffResetAfter,  \* SupervisorOptions
  Prompt,        \* whether no time passes while work is due
  HealthyOnly,   \* whether only time in which all children run counts as calm
  ParentStays,   \* whether the parent is never suspended or stopped
  MaxFaults      \* bound: faults that happen

VARIABLES
  life,        \* of each child
  restarting,  \* PID._restarting of each child
  plife,       \* of the parent
  mailbox,     \* the parent's Panicking and PanicSignal messages
  consecutive, \* faultHistory().consecutive
  age,         \* ticks since faultHistory().lastAt; -1: lastAt is 0
  tasks,       \* running restartChild() calls
  nfaults,
  streak,      \* restarts of the group since it last was calm for a window
  calm,        \* ticks without a fault
  exhausted    \* children left suspended for good by a spent budget

children == <<life, restarting>>
history == <<consecutive, age>>
ghosts == <<streak, calm, exhausted>>
vars == <<children, plife, mailbox, history, tasks, nfaults, ghosts>>

-----------------------------------------------------------------------------
(* The supervisor                                                          *)

MaxOf(a, b) == IF a > b THEN a ELSE b
MinOf(a, b) == IF a < b THEN a ELSE b

\* The constructor: backoff needs a positive initialDelay; maxDelay is at
\* least that, and is the reset period unless another one is given.
initialDelay == MaxOf(InitialDelay, 0)
maxDelay == IF initialDelay = 0 THEN 0 ELSE MaxOf(MaxDelay, initialDelay)
backoffResetAfter ==
  IF initialDelay = 0 THEN 0
  ELSE IF BackoffResetAfter > 0 THEN BackoffResetAfter ELSE maxDelay

backoffDelay(faults) ==
  IF initialDelay = 0 \/ faults < 1 THEN 0 ELSE MinOf(initialDelay * 2^(faults - 1), maxDelay)

\* The reset window of handleRestartDirective().
window == IF backoffResetAfter > 0 THEN backoffResetAfter ELSE timeout

\* restartChild(): how often a failing restart is tried, and at what pace.
attempts == IF maxRetries > 0 /\ timeout > 0 THEN maxRetries ELSE 1
pace == IF initialDelay > 0 THEN initialDelay ELSE MaxOf(timeout, 0)

\* Ticks beyond the longest period of interest look the same.
Horizon == MaxOf(MaxOf(window, maxDelay), 0) + 1

Init ==
  /\ life = [c \in Siblings |-> "running"] /\ restarting = [c \in Siblings |-> FALSE]
  /\ plife = "running" /\ mailbox = <<>> /\ tasks = {}
  /\ consecutive = [c \in Siblings |-> 0] /\ age = [c \in Siblings |-> -1]
  /\ nfaults = 0 /\ streak = 0 /\ calm = 0 /\ exhausted = {}

-----------------------------------------------------------------------------
(* A fault                                                                 *)

\* handleFault(): resume, or suspend and hand the decision to the parent,
\* whose doReceive() refuses it unless it is running.  A child that stops may
\* fail while it drains; it goes on stopping.
Fault(c, d) ==
  /\ nfaults < MaxFaults
  /\ life[c] \in {"running", "stopping"}
  /\ nfaults' = nfaults + 1
  /\ life' = IF d # "resume" /\ life[c] = "running"
             THEN [life EXCEPT ![c] = "suspended"] ELSE life
  /\ mailbox' = IF d \notin {"resume", "none"} /\ plife = "running"
                THEN Append(mailbox, [cid |-> c, directive |-> d, fault |-> nfaults'])
                ELSE mailbox
  /\ calm' = IF calm > window THEN calm ELSE 0
  /\ UNCHANGED <<restarting, plife, history, tasks, streak, exhausted>>

-----------------------------------------------------------------------------
(* The parent's decision                                                   *)

\* supervisionGroup(): a child that left the tree has no siblings.
Group(c) ==
  IF Strategy = "oneForAll" /\ life[c] # "stopped"
  THEN {m \in Siblings : life[m] # "stopped"} ELSE {c}

\* Mutant: only the child that failed is counted.
RecordFaults_One(c) ==
  /\ consecutive' = [consecutive EXCEPT ![c] =
       (IF window > 0 /\ age[c] > window THEN 0 ELSE @) + 1]
  /\ age' = [age EXCEPT ![c] = 0]

\* recordFault() of every member of the group.
RecordFaults(c) ==
  /\ consecutive' = [m \in Siblings |->
       IF m \notin Group(c) THEN consecutive[m]
       ELSE (IF window > 0 /\ age[m] > window THEN 0 ELSE consecutive[m]) + 1]
  /\ age' = [m \in Siblings |-> IF m \in Group(c) THEN 0 ELSE age[m]]

\* Mutant: a restart also takes a child that stops, stopped or restarts.
CanRestart_Any(c) == TRUE

\* restart() throws ErrDead otherwise.
CanRestart(c) == life[c] \in {"running", "suspended"} /\ ~restarting[c]

\* A call of restart() for every task of S, and what restartChild() does
\* when the call throws: the next attempt after a pause, or nothing more.
Attempt(S) ==
  LET begun == {t \in S : CanRestart(t.cid)}
      again == {t \in S \ begun : t.attempt < attempts}
  IN [begun |-> {t.cid : t \in begun},
      tasks |-> {[t EXCEPT !.at = "restart"] : t \in begun} \cup
                {[t EXCEPT !.at = "pace", !.wait = pace, !.attempt = @ + 1] : t \in again}]

\* The children of S are restarting from here on.
BeginRestart(S) ==
  /\ life' = [m \in Siblings |-> IF m \in S THEN "suspended" ELSE life[m]]
  /\ restarting' = [m \in Siblings |-> IF m \in S THEN TRUE ELSE restarting[m]]

\* The budget applies only within a positive window.
Spent(n) == maxRetries > 0 /\ window > 0 /\ n > maxRetries

\* Directive restart: a spent budget suspends the group; otherwise one
\* restartChild() per member, at once or after the backoff delay.
HandleRestart(msg) ==
  LET c == msg.cid
      new == {[fault |-> msg.fault, cid |-> m, at |-> "delay", attempt |-> 1,
               wait |-> backoffDelay(consecutive'[c])] : m \in Group(c)}
      start == Attempt(new)
  IN /\ RecordFaults(c)
     /\ IF Spent(consecutive'[c])
        THEN /\ life' = [m \in Siblings |-> IF m \in Group(c) \ {c} /\ life[m] = "running"
                                       THEN "suspended" ELSE life[m]]
             /\ exhausted' = exhausted \cup Group(c)
             /\ UNCHANGED <<restarting, tasks, streak>>
        ELSE /\ streak' = IF calm > window /\ window > 0 THEN 1 ELSE streak + 1
             /\ IF backoffDelay(consecutive'[c]) > 0
                THEN tasks' = tasks \cup new /\ UNCHANGED children
                ELSE tasks' = tasks \cup start.tasks /\ BeginRestart(start.begun)
             /\ UNCHANGED exhausted
     /\ calm' = 0
     /\ mailbox' = Tail(mailbox)

\* Directive stop: the group shuts down.
HandleStop(msg) ==
  /\ life' = [m \in Siblings |-> IF m \in Group(msg.cid) /\ life[m] # "stopped"
                             THEN "stopping" ELSE life[m]]
  /\ mailbox' = Tail(mailbox)
  /\ UNCHANGED <<restarting, history, tasks, streak, calm, exhausted>>

\* Directive escalate: a PanicSignal to the parent's own behaviour, which a
\* parent that is stopping refuses.
HandleEscalate(msg) ==
  /\ mailbox' = IF plife = "running"
                THEN Append(Tail(mailbox), [msg EXCEPT !.directive = "signal"]) ELSE Tail(mailbox)
  /\ UNCHANGED <<children, history, tasks, ghosts>>

\* The parent's behaviour answers a PanicSignal: it reinstates the child,
\* stops it, which needs a running parent, or leaves it suspended.
HandleSignal(msg) ==
  /\ mailbox' = Tail(mailbox)
  /\ \E d \in {"running", "suspended"} \cup (IF plife = "running" THEN {"stopping"} ELSE {}) :
       life' = [life EXCEPT ![msg.cid] = IF @ = "suspended" THEN d ELSE @]
  /\ UNCHANGED <<restarting, history, tasks, ghosts>>

\* handlePanicking(): a parent that stops still drains its mailbox.
HandlePanicking ==
  /\ mailbox # <<>> /\ plife \in {"running", "stopping"}
  /\ LET msg == Head(mailbox)
     IN \/ msg.directive = "stop" /\ HandleStop(msg)
        \/ msg.directive = "restart" /\ HandleRestart(msg)
        \/ msg.directive = "escalate" /\ HandleEscalate(msg)
        \/ msg.directive = "signal" /\ HandleSignal(msg)
  /\ UNCHANGED <<plife, nfaults>>

-----------------------------------------------------------------------------
(* restartChild() and restart()                                            *)

\* The backoff delay is over: nothing more if the parent is not running.
DelayOver(t) ==
  /\ t.at = "delay" /\ t.wait = 0
  /\ IF plife # "running" THEN tasks' = tasks \ {t} /\ UNCHANGED children
     ELSE LET r == Attempt({t})
          IN tasks' = (tasks \ {t}) \cup r.tasks /\ BeginRestart(r.begun)
  /\ UNCHANGED <<plife, mailbox, history, nfaults, ghosts>>

\* The pause between two attempts is over.
PaceOver(t) ==
  /\ t.at = "pace" /\ t.wait = 0
  /\ LET r == Attempt({t})
     IN tasks' = (tasks \ {t}) \cup r.tasks /\ BeginRestart(r.begun)
  /\ UNCHANGED <<plife, mailbox, history, nfaults, ghosts>>

\* restart() is through: the child runs unless it stops meanwhile.
RestartDone(t) ==
  /\ t.at = "restart"
  /\ tasks' = tasks \ {t}
  /\ restarting' = [restarting EXCEPT ![t.cid] = FALSE]
  /\ life' = [life EXCEPT ![t.cid] = IF @ = "suspended" THEN "running" ELSE @]
  /\ UNCHANGED <<plife, mailbox, history, nfaults, ghosts>>

\* Mutant: a failed restart is given up, and the mark stays.
RestartThrows_Marked(t) ==
  /\ t.at = "restart"
  /\ tasks' = (tasks \ {t}) \cup
       (IF t.attempt < attempts
        THEN {[t EXCEPT !.at = "pace", !.wait = pace, !.attempt = @ + 1]} ELSE {})
  /\ UNCHANGED <<life, restarting, plife, mailbox, history, nfaults, ghosts>>

\* Mutant: one attempt more.
RestartThrows_Again(t) ==
  /\ t.at = "restart"
  /\ restarting' = [restarting EXCEPT ![t.cid] = FALSE]
  /\ tasks' = (tasks \ {t}) \cup
       (IF t.attempt <= attempts
        THEN {[t EXCEPT !.at = "pace", !.wait = pace, !.attempt = @ + 1]} ELSE {})
  /\ UNCHANGED <<life, plife, mailbox, history, nfaults, ghosts>>

\* Mutant: failed attempts are not counted.
RestartThrows_Forever(t) ==
  /\ t.at = "restart"
  /\ restarting' = [restarting EXCEPT ![t.cid] = FALSE]
  /\ tasks' = (tasks \ {t}) \cup {[t EXCEPT !.at = "pace", !.wait = pace]}
  /\ UNCHANGED <<life, plife, mailbox, history, nfaults, ghosts>>

\* preStart() throws: the child stays suspended until the next attempt.
RestartThrows(t) ==
  /\ t.at = "restart"
  /\ restarting' = [restarting EXCEPT ![t.cid] = FALSE]
  /\ tasks' = (tasks \ {t}) \cup
       (IF t.attempt < attempts
        THEN {[t EXCEPT !.at = "pace", !.wait = pace, !.attempt = @ + 1]} ELSE {})
  /\ UNCHANGED <<life, plife, mailbox, history, nfaults, ghosts>>

-----------------------------------------------------------------------------
(* Everyone else                                                           *)

\* The child's shutdown, begun by anyone, ends.
Shutdown(c) ==
  /\ life[c] \in {"running", "suspended"} /\ ~ParentStays
  /\ life' = [life EXCEPT ![c] = "stopping"]
  /\ UNCHANGED <<restarting, plife, mailbox, history, tasks, nfaults, ghosts>>
Stopped(c) ==
  /\ life[c] = "stopping"
  /\ life' = [life EXCEPT ![c] = "stopped"]
  /\ UNCHANGED <<restarting, plife, mailbox, history, tasks, nfaults, ghosts>>

\* The parent faults and is reinstated.
ParentSuspends ==
  /\ ~ParentStays /\ plife = "running"
  /\ plife' = "suspended"
  /\ UNCHANGED <<children, mailbox, history, tasks, nfaults, ghosts>>
ParentReinstated ==
  /\ plife = "suspended"
  /\ plife' = "running"
  /\ UNCHANGED <<children, mailbox, history, tasks, nfaults, ghosts>>

\* The parent stops: it drains, stops its children and is gone after them.
\* A suspended one does not drain.
ParentStops ==
  /\ ~ParentStays /\ plife \in {"running", "suspended"}
  /\ mailbox' = IF plife = "suspended" THEN <<>> ELSE mailbox
  /\ plife' = "stopping"
  /\ UNCHANGED <<children, history, tasks, nfaults, ghosts>>
ParentDrained ==
  /\ plife = "stopping" /\ mailbox = <<>>
  /\ plife' = "awaiting"
  /\ life' = [c \in Siblings |-> IF life[c] # "stopped" THEN "stopping" ELSE "stopped"]
  /\ UNCHANGED <<restarting, mailbox, history, tasks, nfaults, ghosts>>
ParentStopped ==
  /\ plife = "awaiting" /\ \A c \in Siblings : life[c] = "stopped"
  /\ plife' = "stopped"
  /\ UNCHANGED <<children, mailbox, history, tasks, nfaults, ghosts>>

\* A millisecond passes.
Tick ==
  /\ Prompt => /\ mailbox = <<>> /\ \A t \in tasks : t.wait > 0 /\ t.at # "restart"
  /\ age' = [c \in Siblings |-> IF age[c] \in {-1, Horizon} THEN age[c] ELSE age[c] + 1]
  /\ tasks' = {[t EXCEPT !.wait = MaxOf(@ - 1, 0)] : t \in tasks}
  /\ calm' = IF HealthyOnly /\ \E c \in Siblings : life[c] # "running" THEN calm
             ELSE MinOf(calm + 1, Horizon)
  /\ UNCHANGED <<children, plife, mailbox, consecutive, nfaults, streak, exhausted>>

TaskStep == \E t \in tasks : DelayOver(t) \/ PaceOver(t) \/ RestartDone(t) \/ RestartThrows(t)

Next ==
  \/ \E c \in Siblings, d \in Directives : Fault(c, d)
  \/ HandlePanicking \/ TaskStep \/ Tick
  \/ \E c \in Siblings : Shutdown(c) \/ Stopped(c)
  \/ ParentSuspends \/ ParentReinstated \/ ParentStops \/ ParentDrained \/ ParentStopped

Spec == Init /\ [][Next]_vars

\* Time passes, loops run, hooks settle; whoever suspended the parent
\* reinstates it.
FairSpec ==
  /\ Spec
  /\ WF_vars(HandlePanicking) /\ WF_vars(TaskStep) /\ WF_vars(Tick)
  /\ WF_vars(ParentReinstated) /\ WF_vars(ParentDrained) /\ WF_vars(ParentStopped)
  /\ \A c \in Siblings : WF_vars(Stopped(c))

-----------------------------------------------------------------------------
(* Properties                                                              *)

TypeOK ==
  /\ life \in [Siblings -> {"running", "suspended", "stopping", "stopped"}]
  /\ restarting \in [Siblings -> BOOLEAN]
  /\ plife \in {"running", "suspended", "stopping", "awaiting", "stopped"}
  /\ consecutive \in [Siblings -> 0..MaxFaults] /\ age \in [Siblings -> -1..Horizon]
  /\ \A t \in tasks : /\ t.cid \in Siblings /\ t.at \in {"delay", "restart", "pace"}
                      /\ t.attempt \in 1..attempts /\ t.wait \in 0..MaxOf(maxDelay, pace)
  /\ nfaults \in 0..MaxFaults

\* restartChild(): a delay or a retry that outlives the parent resurrects no
\* child: from the moment the parent has stopped, its children stay stopped.
NoResurrection == plife = "stopped" => \A c \in Siblings : life[c] = "stopped"

\* The marks of restarts and the restarts that run correspond: a child is
\* marked exactly while one restart of it, and only one, is under way.
OneRestart ==
  \A c \in Siblings :
    LET under == {t \in tasks : t.cid = c /\ t.at = "restart"}
    IN Cardinality(under) = (IF restarting[c] THEN 1 ELSE 0)

\* The supervisor's budget: a group is restarted at most maxRetries times in
\* a row, that is, with no more calm than the reset window in between.  A
\* one-for-all group also if its members fail in turns.
BudgetHolds == maxRetries > 0 /\ window > 0 => streak <= maxRetries

\* handleRestartDirective(): when the budget is exhausted the whole group is
\* left suspended.
GroupStaysSuspended == \A c \in exhausted : life[c] # "running"

\* Whatever the parent hears of comes to an end: every directive is carried
\* out, every delay, retry and restart of a child is over at some point.
FaultsSettle == []<>(mailbox = <<>> /\ tasks = {})

\* A failure whose directive is stop stops the actor.
FailureStops == \A c \in Siblings : life[c] = "suspended" ~> life[c] = "stopped"
=============================================================================
