----------------------------- MODULE Dispatcher -----------------------------
(***************************************************************************)
(* The process-wide ready queue of src/src/pid.ts: arm(), pump() and the   *)
(* turn quota.  Actors are what the queue sees of them: a backlog, the     *)
(* processing flag, and the messages a behaviour sends.  A pump runs to    *)
(* its end without interruption; microtasks run before the event loop goes *)
(* round (setImmediate, timers, I/O).                                      *)
(***************************************************************************)
EXTENDS Integers, Sequences, FiniteSets

CONSTANTS
  Actors,
  NoActor,      \* not an actor: no loop has the stack
  MaxBacklog,   \* bound: messages queued in one mailbox
  THROUGHPUT    \* messages per event-loop turn

ASSUME DispatcherAssumption ==
  /\ NoActor \notin Actors
  /\ MaxBacklog \in Nat \ {0} /\ THROUGHPUT \in Nat \ {0}

VARIABLES
  ready,       \* the queue
  armed,       \* "no", or where the pending pump waits
  yieldTurn,
  n, i, later, \* pump()'s locals: batch size (-1: no pump), entries dispatched
  on, quota,   \* the actor whose processLoop() has the stack, and its argument
  backlog, processing,
  parked,      \* the quota with which an actor is parked on a promise, or -1
  yielded      \* history: actors that yielded since the event loop went round

queue == <<ready, armed, yieldTurn>>
pumpVars == <<n, i, later>>
stack == <<on, quota>>
actors == <<backlog, processing, parked>>
vars == <<queue, pumpVars, stack, actors, yielded>>

Pumping == n # -1

\* No pump and no loop has the stack: another turn can run.
StackFree == ~Pumping /\ on = NoActor

Init ==
  /\ ready = <<>> /\ armed = "no" /\ yieldTurn = FALSE
  /\ n = -1 /\ i = 0 /\ later = FALSE
  /\ on = NoActor /\ quota = 0
  /\ backlog = [a \in Actors |-> 0]
  /\ processing = [a \in Actors |-> FALSE]
  /\ parked = [a \in Actors |-> -1]
  /\ yielded = {}

-----------------------------------------------------------------------------
\* Mutant: a yielding actor relies on somebody else to arm the pump.
Arm_NotLater(late) ==
  /\ yieldTurn' = (yieldTurn \/ late)
  /\ armed' = IF armed = "no" /\ ~late THEN "microtask" ELSE armed

\* arm(): the first caller decides where the next pump runs.
Arm(late) ==
  /\ yieldTurn' = (yieldTurn \/ late)
  /\ armed' = CASE armed # "no" -> armed
                [] armed = "no" /\ late -> "immediate"
                [] armed = "no" /\ ~late -> "microtask"

\* Mutant: an actor that is being processed is queued again.
Schedule_Twice(a) ==
  /\ processing' = [processing EXCEPT ![a] = TRUE]
  /\ ready' = Append(ready, a)
  /\ Arm(FALSE)

\* schedule(): an idle actor joins the queue.
Schedule(a) ==
  IF processing[a]
  THEN UNCHANGED <<processing, queue>>
  ELSE /\ processing' = [processing EXCEPT ![a] = TRUE]
       /\ ready' = Append(ready, a)
       /\ Arm(FALSE)

\* A message for an actor, from another turn or from the running behaviour.
Send(a) ==
  /\ StackFree \/ on # NoActor
  /\ backlog[a] < MaxBacklog
  /\ backlog' = [backlog EXCEPT ![a] = @ + 1]
  /\ Schedule(a)
  /\ UNCHANGED <<pumpVars, stack, parked, yielded>>

-----------------------------------------------------------------------------
\* pump(): the batch is what is queued now.  An immediate means that the
\* event loop has gone round.
PumpStart ==
  /\ StackFree /\ armed # "no"
  /\ yielded' = IF armed = "immediate" THEN {} ELSE yielded
  /\ armed' = "no" /\ yieldTurn' = FALSE /\ later' = yieldTurn
  /\ n' = Len(ready) /\ i' = 0
  /\ UNCHANGED <<ready, stack, actors>>

\* Mutant: the batch is read one entry too far.
Dispatch_PastEnd ==
  /\ Pumping /\ on = NoActor /\ i < n
  /\ i' = i + 1
  /\ on' = IF i + 2 <= Len(ready) THEN ready[i + 2] ELSE "undefined"
  /\ quota' = 0
  /\ UNCHANGED <<queue, n, later, actors, yielded>>

Dispatch ==
  /\ Pumping /\ on = NoActor /\ i < n
  /\ i' = i + 1
  /\ on' = ready[i + 1] /\ quota' = 0
  /\ UNCHANGED <<queue, n, later, actors, yielded>>

\* Mutant: the queue is cleared with what joined it during the batch.
Compact_All == ready' = <<>>

\* What was dispatched leaves the queue.
Compact == ready' = SubSeq(ready, n + 1, Len(ready))

PumpEnd ==
  /\ Pumping /\ on = NoActor /\ i = n
  /\ Compact
  /\ n' = -1 /\ i' = 0 /\ later' = FALSE
  /\ IF Len(ready) > n THEN Arm(later) ELSE UNCHANGED <<armed, yieldTurn>>
  /\ UNCHANGED <<stack, actors, yielded>>

-----------------------------------------------------------------------------
\* processLoop() of the actor on the stack.
LoopIdle ==
  /\ on # NoActor /\ backlog[on] = 0
  /\ processing' = [processing EXCEPT ![on] = FALSE]
  /\ on' = NoActor /\ quota' = 0
  /\ UNCHANGED <<queue, pumpVars, backlog, parked, yielded>>

\* The behaviour returns a promise and the loop parks on it.
LoopParks ==
  /\ on # NoActor /\ backlog[on] > 0
  /\ backlog' = [backlog EXCEPT ![on] = @ - 1]
  /\ parked' = [parked EXCEPT ![on] = quota]
  /\ on' = NoActor /\ quota' = 0
  /\ UNCHANGED <<queue, pumpVars, processing, yielded>>

\* Back to the end of the queue.
Yield(a) ==
  /\ ready' = Append(ready, a)
  /\ Arm(TRUE)
  /\ yielded' = yielded \cup {a}

\* The behaviour returned: go on below the quota, else yield.
LoopHandles ==
  /\ on # NoActor /\ backlog[on] > 0
  /\ backlog' = [backlog EXCEPT ![on] = @ - 1]
  /\ IF quota + 1 >= THROUGHPUT
     THEN Yield(on) /\ on' = NoActor /\ quota' = 0
     ELSE quota' = quota + 1 /\ UNCHANGED <<queue, on, yielded>>
  /\ UNCHANGED <<pumpVars, processing, parked>>

\* resumeLoop(): the promise of a parked behaviour settles.
Resume(a) ==
  /\ StackFree /\ parked[a] >= 0
  /\ parked' = [parked EXCEPT ![a] = -1]
  /\ IF parked[a] + 1 >= THROUGHPUT
     THEN Yield(a) /\ UNCHANGED stack
     ELSE on' = a /\ quota' = parked[a] + 1 /\ UNCHANGED <<queue, yielded>>
  /\ UNCHANGED <<pumpVars, backlog, processing>>

\* The event loop goes round once no microtask is due: timers and I/O run.
EventLoopTurn ==
  /\ StackFree /\ armed # "microtask"
  /\ yielded' = {}
  /\ UNCHANGED <<queue, pumpVars, stack, actors>>

PumpStep == PumpStart \/ Dispatch \/ PumpEnd
LoopStep == LoopIdle \/ LoopParks \/ LoopHandles

Next ==
  \/ \E a \in Actors : Send(a) \/ Resume(a)
  \/ PumpStep \/ LoopStep
  \/ EventLoopTurn

Spec == Init /\ [][Next]_vars

\* The host runs the armed pump, a pump and a loop run to their end, and
\* promises settle.
Fairness ==
  /\ WF_vars(PumpStep) /\ WF_vars(LoopStep)
  /\ \A a \in Actors : WF_vars(Resume(a))

FairSpec == Spec /\ Fairness

-----------------------------------------------------------------------------
(* Properties                                                              *)

\* The entries of the queue that the running pump has not dispatched.
Waiting == IF Pumping THEN SubSeq(ready, i + 1, Len(ready)) ELSE ready

\* The shape of the state.
TypeOK ==
  /\ ready \in Seq(Actors) /\ armed \in {"no", "microtask", "immediate"}
  /\ yieldTurn \in BOOLEAN /\ later \in BOOLEAN
  /\ n \in Nat \cup {-1} /\ i \in Nat /\ quota \in Nat
  /\ on \in Actors \cup {NoActor}
  /\ backlog \in [Actors -> Nat] /\ processing \in [Actors -> BOOLEAN]
  /\ parked \in [Actors -> Int] /\ yielded \subseteq Actors

\* No batch is forgotten: between pumps a queue that is not empty has a pump
\* armed, and during one so has what joined the queue behind the batch.
QueueArmed ==
  /\ ~Pumping /\ ready # <<>> => armed # "no"
  /\ Pumping => i <= n /\ n <= Len(ready) /\ (Len(ready) > n => armed # "no")

\* The processing flag of an actor is exactly one place: one entry of the
\* queue, the stack, or a parked promise.
OnePlace ==
  \A a \in Actors :
    Cardinality({k \in DOMAIN Waiting : Waiting[k] = a})
      + (IF on = a THEN 1 ELSE 0) + (IF parked[a] >= 0 THEN 1 ELSE 0)
      = IF processing[a] THEN 1 ELSE 0

\* Every queued actor gets its turn, however busy the others are.
QueuedRuns == \A a \in Actors : (\E k \in DOMAIN Waiting : Waiting[k] = a) ~> on = a

\* "The receive loop yields with setImmediate so I/O and other actors get their
\* share of the loop; processing resumes on the next turn": an actor that has
\* used up its quota is not dispatched again before the event loop went round.
YieldReachesEventLoop == [][\A a \in yielded : on' = a => on = a]_vars
=============================================================================
