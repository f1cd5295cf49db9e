-------------------------------- MODULE Pipe --------------------------------
(***************************************************************************)
(* pipeTo and pipeToName (src/src/pipe.ts): a task runs off the actor's    *)
(* turn and its result is sent to a target, given as a handle or by name,  *)
(* that may stop, fail or be replaced in the meantime.  A task settles in  *)
(* one turn and its reaction runs in a later microtask; the deadline is a  *)
(* timer of the event loop, which runs when no microtask waits.            *)
(***************************************************************************)
EXTENDS Naturals

CONSTANTS
  Pipes,
  ByName,      \* those started with pipeToName
  Thunks,      \* those whose task is a function of an abort signal
  Timed,       \* those with a timeout
  MaxLives     \* bound: actors that hold the target's name, one after another

Lives == 1 .. MaxLives
Routed == MaxLives + 1   \* a handle of an actor on another isolate or node

VARIABLES
  task,      \* "none", "pending", "resolved", "rejected", "reacted"
  to,        \* the handle of each pipe, 0 when by name or not yet started
  settled,
  armed,     \* pipe.timer
  aborted,   \* pipe.controller's signal
  outcome,   \* history: what became of each pipe, in order
  status,    \* of each actor
  full,      \* its mailbox refuses
  holder     \* the actor that holds the name, 0 for none

vars == <<task, to, settled, armed, aborted, outcome, status, full, holder>>
actors == <<status, full, holder>>

Init ==
  /\ task = [p \in Pipes |-> "none"] /\ to = [p \in Pipes |-> 0]
  /\ settled = {} /\ armed = {} /\ aborted = {}
  /\ outcome = [p \in Pipes |-> {}]
  /\ status = [a \in Lives |-> IF a = 1 THEN "running" ELSE "new"] /\ full = {} /\ holder = 1

\* Dead letters and deliveries, told apart by when they happen.
Add(p, what) == outcome' = [outcome EXCEPT ![p] = @ \cup {what}]
Abandon(p, reason) == Add(p, [dead |-> reason])

\* settle(): the first settlement wins and disarms the deadline.
\* Mutant: the deadline stays armed.
Settle_Armed(p) == p \notin settled /\ settled' = settled \cup {p} /\ UNCHANGED armed

Settle(p) == p \notin settled /\ settled' = settled \cup {p} /\ armed' = armed \ {p}

\* runPipe(): a null task is a dead letter, and so is a thunk that throws.
RunPipe(p) ==
  /\ task[p] = "none"
  /\ \E a \in IF p \in ByName THEN {0} ELSE {holder, Routed} \ {0} : to' = [to EXCEPT ![p] = a]
  /\ \/ /\ task' = [task EXCEPT ![p] = "reacted"] /\ Abandon(p, "undefined task")
        /\ UNCHANGED <<settled, armed>>
     \/ /\ p \in Thunks /\ task' = [task EXCEPT ![p] = "reacted"]
        /\ Settle(p) /\ Abandon(p, "failed")
     \/ /\ task' = [task EXCEPT ![p] = "pending"]
        /\ armed' = IF p \in Timed THEN armed \cup {p} ELSE armed
        /\ UNCHANGED <<settled, outcome>>
  /\ UNCHANGED <<aborted, actors>>

\* The user's promise.
TaskEnds(p) ==
  /\ task[p] = "pending"
  /\ \E how \in {"resolved", "rejected"} : task' = [task EXCEPT ![p] = how]
  /\ UNCHANGED <<to, settled, armed, aborted, outcome, actors>>

\* deliver(): the actor is looked up, vetted and sent to in one turn.  What a
\* routed handle is sent goes through its route: no liveness is known here.
Receiver(p) == IF p \in ByName THEN holder ELSE to[p]

\* Mutant: only a stopped target is refused.
Live_Suspended(a) == status[a] \in {"running", "suspended"}

Live(a) == status[a] = "running"

\* Mutant: what the target cannot take is dropped.
Delivered_Silent(p) ==
  LET a == Receiver(p)
  IN  IF a = 0 THEN Abandon(p, "not found")
      ELSE IF a = Routed THEN Add(p, [to |-> a])
      ELSE IF ~Live(a) \/ a \in full THEN UNCHANGED outcome ELSE Add(p, [to |-> a])

Delivered(p) ==
  LET a == Receiver(p)
  IN  IF a = 0 THEN Abandon(p, "not found")
      ELSE IF a = Routed THEN Add(p, [to |-> a])
      ELSE IF ~Live(a) THEN Abandon(p, "dead")
      ELSE IF a \in full THEN Abandon(p, "full") ELSE Add(p, [to |-> a])
Deliver(p) ==
  /\ task[p] = "resolved" /\ task' = [task EXCEPT ![p] = "reacted"]
  /\ \/ Settle(p) /\ Delivered(p)
     \/ p \in settled /\ UNCHANGED <<settled, armed, outcome>>
  /\ UNCHANGED <<to, aborted, actors>>
Fail(p) ==
  /\ task[p] = "rejected" /\ task' = [task EXCEPT ![p] = "reacted"]
  /\ \/ Settle(p) /\ Abandon(p, "failed")
     \/ p \in settled /\ UNCHANGED <<settled, armed, outcome>>
  /\ UNCHANGED <<to, aborted, actors>>

\* expire(): the outcome of settle() is not looked at.
Expired(p) == armed' = armed \ {p} /\ settled' = settled \cup {p}
Expire(p) ==
  /\ p \in armed /\ \A q \in Pipes : task[q] \notin {"resolved", "rejected"}
  /\ Expired(p) /\ Abandon(p, "timeout")
  /\ aborted' = aborted \cup ({p} \cap Thunks)
  /\ UNCHANGED <<task, to, actors>>

\* The target: its mailbox fills and drains, it fails and comes back, it
\* stops, and another actor may take the name.
Mailbox ==
  /\ holder # 0 /\ full' = IF holder \in full THEN full \ {holder} ELSE full \cup {holder}
  /\ UNCHANGED <<task, to, settled, armed, aborted, outcome, status, holder>>
Fault ==
  /\ holder # 0
  /\ \/ status[holder] = "running" /\ status' = [status EXCEPT ![holder] = "suspended"]
     \/ status[holder] = "suspended" /\ status' = [status EXCEPT ![holder] = "running"]
  /\ UNCHANGED <<task, to, settled, armed, aborted, outcome, full, holder>>
Stop ==
  /\ holder # 0 /\ status[holder] \in {"running", "suspended"}
  /\ status' = [status EXCEPT ![holder] = "stopping"]
  /\ UNCHANGED <<task, to, settled, armed, aborted, outcome, full, holder>>
Stopped ==
  /\ holder # 0 /\ status[holder] = "stopping"
  /\ status' = [status EXCEPT ![holder] = "stopped"] /\ holder' = 0
  /\ UNCHANGED <<task, to, settled, armed, aborted, outcome, full>>
Spawn(a) ==
  /\ holder = 0 /\ status[a] = "new" /\ holder' = a
  /\ status' = [status EXCEPT ![a] = "running"]
  /\ UNCHANGED <<task, to, settled, armed, aborted, outcome, full>>

Next ==
  \/ \E p \in Pipes : RunPipe(p) \/ TaskEnds(p) \/ Deliver(p) \/ Fail(p) \/ Expire(p)
  \/ Mailbox \/ Fault \/ Stop \/ Stopped \/ \E a \in Lives : Spawn(a)

Spec == Init /\ [][Next]_vars

\* Microtasks run, and the timers after them; a task need not end.
FairSpec == Spec /\ \A p \in Pipes : WF_vars(Deliver(p) \/ Fail(p)) /\ WF_vars(Expire(p))

----------------------------------------------------------------------------
\* settle(): a pipe that expires and whose task then ends, or the reverse,
\* has one outcome, and its signal aborts only on a timeout.  expire() does
\* not look at what settle() answers: no settled pipe has an armed deadline.
OneOutcome ==
  /\ settled \cap armed = {}
  /\ \A p \in aborted : outcome[p] = {[dead |-> "timeout"]}
  /\ \A p \in Pipes : \A x, y \in outcome[p] : x = y

\* A result goes to an actor that runs in the turn of its delivery, the one
\* that then holds the name when the pipe is by name.
GoesToLive ==
  [][\A p \in Pipes : \A a \in Lives : [to |-> a] \in outcome'[p] \ outcome[p] =>
       status[a] = "running" /\ (p \in ByName => a = holder)]_vars

\* A task that ends, or a pipe with a deadline, comes to an outcome: a
\* delivery or a dead letter, never a silent drop.
NeverSilent ==
  []<>(\A p \in Pipes :
         task[p] \in {"resolved", "rejected", "reacted"} \/ (p \in Timed /\ task[p] = "pending") =>
           outcome[p] # {})
=============================================================================
