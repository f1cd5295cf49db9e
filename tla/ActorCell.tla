------------------------------ MODULE ActorCell ------------------------------
(***************************************************************************)
(* One local actor: the lifecycle, the receive loop and the in-actor       *)
(* requests of class PID (src/src/pid.ts), with everything outside the     *)
(* actor (senders, its parent, its children, its hooks and behaviours) as  *)
(* the environment.                                                        *)
(*                                                                         *)
(* JavaScript runs one turn at a time, so a step of the model is the code  *)
(* between two points at which another turn can run: an await, a parked    *)
(* behaviour, or the hand-over to the process-wide ready queue.  While the *)
(* loop has the stack (pc # "none") only user code it called can make      *)
(* calls; continuations of shutdown() and restart() wait for the stack.    *)
(***************************************************************************)
EXTENDS Integers, Sequences, FiniteSets

CONSTANTS
  Calls,        \* what the environment does: a subset of CallNames
  MaxMsgs,      \* bound: user messages the actor accepts, PostStart included
  MaxRestarts,  \* bound: calls of restart()
  MaxSuspends,  \* bound: suspensions imposed by the parent
  Handles,      \* the requests the actor may open
  MaxInFlight,  \* reentrancy.maxInFlight; 0 is unlimited
  Capacity,     \* of a bounded mailbox; 0 is an unbounded one
  MaxMessages,  \* budget of a count-based passivation strategy; 0 is none
  THROUGHPUT    \* messages per event-loop turn

CallNames == {"shutdown", "restart", "reinstate", "suspend", "fault", "async",
              "pill", "panic", "allowAll", "stashNonReentrant", "cancel", "stash"}

ASSUME ActorCellAssumption ==
  /\ Calls \subseteq CallNames
  /\ MaxMsgs \in Nat \ {0} /\ MaxRestarts \in Nat /\ MaxSuspends \in Nat
  /\ Handles \subseteq Nat
  /\ MaxInFlight \in Nat /\ Capacity \in Nat /\ MaxMessages \in Nat
  /\ THROUGHPUT \in Nat \ {0}

VARIABLES
  running, processing, stopping, suspended, restarting,   \* the PID's flags
  mailbox, stash,
  ready,       \* entries of this actor in the process-wide ready queue
  pc,          \* what the stack is doing for this actor
  cur,         \* the message being handled, when pc = "handling"
  quota,       \* processLoop's argument: messages handled this turn
  parked,      \* pending asynchronous behaviours: <<message, quota>>
  count,       \* _processedCount
  sd,          \* how far the shutdown promise has got
  rs,          \* how far the restart in progress has got
  wasSuspended,
  inFlight, paused,                    \* ReentrancyState
  open,        \* requests whose delivery link is live
  settled,     \* RequestHandle._settled
  stashMode,   \* handles admitted under stashNonReentrant
  admitted, canceled,
  nextId,      \* the next user message
  attempts, suspends,                  \* what the bounds count
  handled,     \* history: user messages whose behaviour ran, in order
  dropped,     \* history: user messages accepted and then disposed of
  ran,         \* history: requests whose continuation ran, in order
  ended        \* history: postStop runs since the last preStart

flags == <<running, processing, stopping, suspended, restarting>>
queues == <<mailbox, stash>>
loop  == <<ready, pc, cur, quota, parked, count>>
life  == <<sd, rs, wasSuspended>>
reqs  == <<inFlight, paused, open, settled, stashMode, admitted, canceled>>
bounds == <<nextId, attempts, suspends>>
history == <<handled, dropped, ran, ended>>
vars  == <<flags, queues, loop, life, reqs, bounds, history>>

Message == {"user", "pill", "reply", "panic"} \X Nat
NoMessage == <<"pill", 0>>

UserIds(q) == {q[i][2] : i \in {j \in DOMAIN q : q[j][1] = "user"}}

-----------------------------------------------------------------------------
(* Helpers shared by the operations.                                       *)

\* Mutant: a stopping actor still accepts messages.
IsRunning_Stopping == running /\ ~suspended

\* isRunning(): the actor accepts messages.
IsRunning == running /\ ~stopping /\ ~suspended

\* enqueue() of the mailbox mb, which a bounded one refuses when it is full.
HasRoom(mb) == Capacity = 0 \/ Len(mb) < Capacity

\* doReceive() accepts a message.
Accepts == IsRunning /\ HasRoom(mailbox)

\* A call on the PID comes from another turn, or from the user code that the
\* loop is running: the behaviour or a request continuation.
CanCall == pc \in {"none", "handling", "callback"}

\* Mutant: a message for a busy actor queues it again.
Schedule_Always == processing' = TRUE /\ ready' = ready + 1

\* schedule(): one entry in the ready queue per idle loop.
Schedule ==
  /\ processing' = TRUE
  /\ ready' = IF processing THEN ready ELSE ready + 1

\* Mutant: a message wakes nobody.
DoReceive_NoSchedule(m) ==
  /\ mailbox' = IF Accepts THEN Append(mailbox, m) ELSE mailbox
  /\ UNCHANGED <<processing, ready>>

\* doReceive(): a message enters the mailbox and arms the loop, or becomes a
\* dead letter, which leaves the actor as it was.
DoReceive(m) ==
  IF Accepts
  THEN mailbox' = Append(mailbox, m) /\ Schedule
  ELSE UNCHANGED <<mailbox, processing, ready>>

\* Mutants: a stop and a restart share one waiter slot, and one is forgotten.
NotifyIdle_RestartOnly ==
  /\ rs' = IF rs = "awaitIdle" THEN "woken" ELSE rs
  /\ UNCHANGED sd

NotifyIdle_ShutdownOnly ==
  /\ sd' = IF sd = "awaitIdle" THEN "woken" ELSE sd
  /\ UNCHANGED rs

\* notifyIdle(): wakes whoever is parked in awaitIdle().
NotifyIdle ==
  /\ sd' = IF sd = "awaitIdle" THEN "woken" ELSE sd
  /\ rs' = IF rs = "awaitIdle" THEN "woken" ELSE rs

-----------------------------------------------------------------------------
(* start()                                                                 *)

\* preStart is running; nobody else holds the PID yet.
Init ==
  /\ running = FALSE /\ processing = FALSE /\ stopping = FALSE
  /\ suspended = FALSE /\ restarting = FALSE
  /\ mailbox = <<>> /\ stash = <<>>
  /\ ready = 0 /\ pc = "none" /\ cur = NoMessage /\ quota = 0
  /\ parked = <<>> /\ count = 0
  /\ sd = "none" /\ rs = "starting" /\ wasSuspended = FALSE
  /\ inFlight = 0 /\ paused = 0 /\ open = {} /\ settled = {}
  /\ stashMode = {} /\ admitted = {} /\ canceled = {}
  /\ nextId = 1 /\ attempts = 0 /\ suspends = 0
  /\ handled = <<>> /\ dropped = {} /\ ran = <<>> /\ ended = 0

\* start() after preStart resolved: the actor runs and PostStart is its first
\* message.  A preStart that fails leaves the PID as it is, for ever.
Start ==
  /\ rs = "starting"
  /\ running' = TRUE
  /\ rs' = "none"
  /\ mailbox' = <<<<"user", nextId>>>>
  /\ nextId' = nextId + 1
  /\ Schedule
  /\ UNCHANGED <<stopping, suspended, restarting, stash, pc, cur, quota, parked,
                 count, sd, wasSuspended, reqs, attempts, suspends, history>>

-----------------------------------------------------------------------------
(* Messages from outside: tell, PoisonPill, a failing child.               *)

Arrive(m) ==
  /\ DoReceive(m)
  /\ UNCHANGED <<running, stopping, suspended, restarting, stash, pc, cur, quota,
                 parked, count, life>>

\* tell(): a rejected message leaves no trace in the actor.
Tell ==
  /\ CanCall /\ Accepts
  /\ nextId <= MaxMsgs
  /\ nextId' = nextId + 1
  /\ Arrive(<<"user", nextId>>)
  /\ UNCHANGED <<reqs, attempts, suspends, history>>

\* A PoisonPill, or a child's Panicking; each counts as one message sent.
TellCommand(k) ==
  /\ k \in Calls
  /\ CanCall /\ Accepts
  /\ nextId <= MaxMsgs
  /\ nextId' = nextId + 1
  /\ Arrive(<<k, 0>>)
  /\ UNCHANGED <<reqs, attempts, suspends, history>>

-----------------------------------------------------------------------------
(* shutdown() and doShutdown()                                             *)

\* From the children on: without children the watchees are released and
\* postStop starts in the same turn.
StopChildren ==
  \E kids \in BOOLEAN :
    /\ sd' = IF kids THEN "children" ELSE "postStop"
    /\ ended' = IF kids THEN ended ELSE ended + 1

\* Mutant: the stop does not wait for the receive loop.
BeginShutdown_NoWait == stopping' = TRUE /\ StopChildren

\* doShutdown() up to its first await.
BeginShutdown ==
  /\ stopping' = TRUE
  /\ IF processing
     THEN sd' = "awaitIdle" /\ UNCHANGED ended
     ELSE StopChildren

\* shutdown(): the first call on a started actor; every later one returns the
\* promise of the first.  passivate() is this call too.
Shutdown ==
  /\ "shutdown" \in Calls
  /\ CanCall
  /\ sd = "none" /\ running
  /\ BeginShutdown
  /\ UNCHANGED <<running, processing, suspended, restarting, queues, loop, rs,
                 wasSuspended, reqs, bounds, handled, dropped, ran>>

\* The loop went idle: stop the children, run postStop.
ShutdownWoken ==
  /\ pc = "none"
  /\ sd = "woken"
  /\ StopChildren
  /\ UNCHANGED <<flags, queues, loop, rs, wasSuspended, reqs, bounds, handled,
                 dropped, ran>>

\* Every child has stopped: postStop starts.
ShutdownChildrenStopped ==
  /\ pc = "none"
  /\ sd = "children"
  /\ sd' = "postStop"
  /\ ended' = ended + 1
  /\ UNCHANGED <<flags, queues, loop, rs, wasSuspended, reqs, bounds, handled,
                 dropped, ran>>

\* postStop settled: watchers are notified and reset() tears the actor down.
ShutdownReset ==
  /\ pc = "none"
  /\ sd = "postStop"
  /\ sd' = "done"
  /\ mailbox' = <<>> /\ stash' = <<>>
  /\ dropped' = dropped \cup UserIds(mailbox) \cup UserIds(stash)
  /\ running' = FALSE /\ stopping' = FALSE /\ suspended' = FALSE
  /\ UNCHANGED <<processing, restarting, loop, rs, wasSuspended, reqs, bounds,
                 handled, ran, ended>>

-----------------------------------------------------------------------------
(* restart(), reinstate() and suspend()                                    *)

\* Behaviours, stash and counters are reset and preStart starts.
Reinitialize ==
  /\ rs' = "preStart"
  /\ stash' = <<>>
  /\ dropped' = dropped \cup UserIds(stash)
  /\ count' = 0
  /\ UNCHANGED ended

\* Mutant: postStop runs again for an actor whose restart failed.
RestartTeardown_Always(skipPostStop) ==
  rs' = "postStop" /\ ended' = ended + 1 /\ UNCHANGED <<stash, dropped, count>>

\* postStop runs first unless the actor was suspended when restart() began.
RestartTeardown(skipPostStop) ==
  IF skipPostStop
  THEN Reinitialize
  ELSE rs' = "postStop" /\ ended' = ended + 1 /\ UNCHANGED <<stash, dropped, count>>

\* The children are stopped first; a stopped actor has left the tree.
RestartChildren(skipPostStop) ==
  \/ running /\ rs' = "children" /\ UNCHANGED <<stash, dropped, count, ended>>
  \/ RestartTeardown(skipPostStop)

\* Mutant: the restart does not wait for the receive loop.
BeginRestart_NoWait == RestartChildren(suspended)

\* An active receive loop is drained first.
BeginRestart ==
  IF processing
  THEN rs' = "awaitIdle" /\ UNCHANGED <<stash, dropped, count, ended>>
  ELSE RestartChildren(suspended)

\* restart() up to its first await; when the guard fails it throws ErrDead.
Restart ==
  /\ "restart" \in Calls
  /\ CanCall
  /\ ~stopping /\ running /\ ~restarting
  /\ attempts < MaxRestarts
  /\ attempts' = attempts + 1
  /\ restarting' = TRUE
  /\ wasSuspended' = suspended
  /\ suspended' = TRUE
  /\ BeginRestart
  /\ UNCHANGED <<running, processing, stopping, mailbox, ready, pc, cur, quota,
                 parked, sd, reqs, nextId, suspends, handled, ran>>

\* The loop went idle; the only place where restart() looks for a shutdown.
RestartWoken ==
  /\ pc = "none"
  /\ rs = "woken"
  /\ IF stopping
     THEN /\ rs' = "none" /\ restarting' = FALSE
          /\ UNCHANGED <<stash, dropped, count, ended>>
     ELSE RestartChildren(wasSuspended) /\ UNCHANGED restarting
  /\ UNCHANGED <<running, processing, stopping, suspended, mailbox, ready, pc, cur,
                 quota, parked, sd, wasSuspended, reqs, bounds, handled, ran>>

RestartChildrenStopped ==
  /\ pc = "none"
  /\ rs = "children"
  /\ RestartTeardown(wasSuspended)
  /\ UNCHANGED <<flags, mailbox, ready, pc, cur, quota, parked, sd, wasSuspended,
                 reqs, bounds, handled, ran>>

RestartPostStopDone ==
  /\ pc = "none"
  /\ rs = "postStop"
  /\ Reinitialize
  /\ UNCHANGED <<flags, mailbox, ready, pc, cur, quota, parked, sd, wasSuspended,
                 reqs, bounds, handled, ran>>

\* preStart failed: restart() throws and leaves the actor suspended.
RestartFails ==
  /\ pc = "none"
  /\ rs = "preStart"
  /\ rs' = "none" /\ restarting' = FALSE
  /\ UNCHANGED <<running, processing, stopping, suspended, queues, loop, sd,
                 wasSuspended, reqs, bounds, history>>

\* preStart resolved: the backlog goes to the re-initialised actor.
RestartSucceeds ==
  /\ pc = "none"
  /\ rs = "preStart"
  /\ rs' = "none" /\ restarting' = FALSE
  /\ suspended' = FALSE
  /\ ended' = 0
  /\ IF mailbox # <<>> THEN Schedule ELSE UNCHANGED <<processing, ready>>
  /\ UNCHANGED <<running, stopping, queues, pc, cur, quota, parked, count, sd,
                 wasSuspended, reqs, bounds, handled, dropped, ran>>

\* doReinstate()
Reinstate ==
  /\ "reinstate" \in Calls
  /\ CanCall
  /\ suspended
  /\ suspended' = FALSE
  /\ IF mailbox # <<>> THEN Schedule ELSE UNCHANGED <<processing, ready>>
  /\ UNCHANGED <<running, stopping, restarting, queues, pc, cur, quota, parked,
                 count, life, reqs, bounds, history>>

\* suspend() by a parent whose one-for-all restart budget is exhausted.
SuspendedByParent ==
  /\ "suspend" \in Calls
  /\ pc = "none"
  /\ IsRunning
  /\ suspends < MaxSuspends
  /\ suspends' = suspends + 1
  /\ suspended' = TRUE
  /\ UNCHANGED <<running, processing, stopping, restarting, queues, loop, life,
                 reqs, nextId, attempts, history>>
-----------------------------------------------------------------------------
(* Requests: request(), deliverRequestReply(), cancel()                    *)

\* request() to a running target, from the behaviour: openRequest() refuses at
\* the in-flight limit, admitRequest() counts.
Request(h, mode) ==
  /\ mode \in Calls
  /\ pc = "handling" \/ (pc = "none" /\ parked # <<>>)
  /\ h \notin admitted
  /\ MaxInFlight # 0 => inFlight < MaxInFlight
  /\ admitted' = admitted \cup {h}
  /\ open' = open \cup {h}
  /\ inFlight' = inFlight + 1
  /\ IF mode = "stashNonReentrant"
     THEN paused' = paused + 1 /\ stashMode' = stashMode \cup {h}
     ELSE UNCHANGED <<paused, stashMode>>
  /\ UNCHANGED <<flags, queues, loop, life, settled, canceled, bounds, history>>

\* deliverRequestReply(): the outcome joins the mailbox; when the actor does
\* not accept it the handle is abandoned, and stays counted.
DeliverRequestReply(h) ==
  /\ open' = open \ {h}
  /\ settled' = IF Accepts THEN settled ELSE settled \cup {h}
  /\ Arrive(<<"reply", h>>)

\* The target answered, refused, or the request timed out: whichever is first
\* severs the delivery link.
Reply(h) ==
  /\ pc = "none"
  /\ h \in open
  /\ DeliverRequestReply(h)
  /\ UNCHANGED <<inFlight, paused, stashMode, admitted, canceled, bounds, history>>

\* RequestHandle.cancel(), at most once per handle.
Cancel(h) ==
  /\ "cancel" \in Calls
  /\ CanCall
  /\ h \in admitted \ settled /\ h \notin canceled
  /\ canceled' = canceled \cup {h}
  /\ DeliverRequestReply(h)
  /\ UNCHANGED <<inFlight, paused, stashMode, admitted, bounds, history>>

-----------------------------------------------------------------------------
(* The receive loop: dispatch(), processLoop(), parkOn(), resumeLoop(),    *)
(* postReceive(), handleFault()                                            *)

\* Mutant: the pump dispatches an actor that is not queued.
Dispatch_Unqueued ==
  /\ pc = "none"
  /\ ready' = ready - 1
  /\ pc' = "next"
  /\ quota' = 0
  /\ UNCHANGED <<flags, queues, cur, parked, count, life, reqs, bounds, history>>

\* The pump takes the actor from the ready queue.
Dispatch ==
  /\ pc = "none"
  /\ ready > 0
  /\ ready' = ready - 1
  /\ pc' = "next"
  /\ quota' = 0
  /\ UNCHANGED <<flags, queues, cur, parked, count, life, reqs, bounds, history>>

\* The mailbox is drained: the loop ends.
LoopIdle ==
  /\ pc = "next"
  /\ mailbox = <<>>
  /\ processing' = FALSE
  /\ pc' = "none" /\ quota' = 0
  /\ NotifyIdle
  /\ UNCHANGED <<running, stopping, suspended, restarting, queues, ready, cur,
                 parked, count, wasSuspended, reqs, bounds, history>>

\* The loop takes a PoisonPill.
LoopPill ==
  /\ pc = "next"
  /\ mailbox # <<>> /\ Head(mailbox)[1] = "pill"
  /\ mailbox' = Tail(mailbox)
  /\ count' = count + 1
  /\ IF sd = "none" /\ running
     THEN BeginShutdown
     ELSE UNCHANGED <<stopping, sd, ended>>
  /\ UNCHANGED <<running, processing, suspended, restarting, stash, ready, pc, cur,
                 quota, parked, rs, wasSuspended, reqs, bounds, handled, dropped, ran>>

\* The loop takes a child's Panicking: stop and restart act on the children,
\* escalate sends this actor a PanicSignal.
LoopPanicking ==
  /\ pc = "next"
  /\ mailbox # <<>> /\ Head(mailbox)[1] = "panic"
  /\ count' = count + 1
  /\ \/ mailbox' = Tail(mailbox) /\ UNCHANGED nextId
     \/ /\ IsRunning /\ nextId <= MaxMsgs
        /\ mailbox' = Append(Tail(mailbox), <<"user", nextId>>)
        /\ nextId' = nextId + 1
  /\ UNCHANGED <<flags, stash, ready, pc, cur, quota, parked, life, reqs, attempts,
                 suspends, history>>

\* How many stashed messages doReceive() accepts in a row.
Room(mb) ==
  IF ~IsRunning \/ ~HasRoom(mb) THEN 0
  ELSE IF Capacity = 0 THEN Len(stash) ELSE Capacity - Len(mb)

\* unstashAll() onto mailbox mb: stashed messages join the tail until one is
\* refused, which becomes a dead letter; those behind it stay.
UnstashAll(mb) ==
  LET n == Room(mb)
  IN  IF Len(stash) <= n
      THEN mailbox' = mb \o stash /\ stash' = <<>> /\ UNCHANGED dropped
      ELSE /\ mailbox' = mb \o SubSeq(stash, 1, n)
           /\ stash' = SubSeq(stash, n + 2, Len(stash))
           /\ dropped' = dropped \cup {stash[n + 1][2]}

\* completeRequest() of a handle that is not settled yet.
CompleteRequest(h) ==
  /\ settled' = settled \cup {h}
  /\ inFlight' = inFlight - 1
  /\ paused' = IF h \in stashMode THEN paused - 1 ELSE paused
  /\ IF h \in stashMode /\ paused = 1
     THEN UnstashAll(Tail(mailbox))
     ELSE mailbox' = Tail(mailbox) /\ UNCHANGED <<stash, dropped>>
  /\ ran' = Append(ran, h)
  /\ pc' = "callback"

\* Mutant: a second answer completes the request again.
TakeReply_Again(h) == CompleteRequest(h)

\* The handle settles once; a later answer is ignored.
TakeReply(h) ==
  IF h \in settled
  THEN /\ mailbox' = Tail(mailbox)
       /\ UNCHANGED <<stash, settled, inFlight, paused, ran, pc, dropped>>
  ELSE CompleteRequest(h)

\* The loop takes a RequestReply; the continuation runs on this turn.
LoopReply ==
  /\ pc = "next"
  /\ mailbox # <<>> /\ Head(mailbox)[1] = "reply"
  /\ count' = count + 1
  /\ TakeReply(Head(mailbox)[2])
  /\ UNCHANGED <<flags, ready, cur, quota, parked, life, open, stashMode, admitted,
                 canceled, bounds, handled, ended>>

CallbackReturns ==
  /\ pc = "callback"
  /\ pc' = "next"
  /\ UNCHANGED <<flags, queues, ready, cur, quota, parked, count, life, reqs, bounds,
                 history>>

\* Mutant: the loop yields its turn without queueing itself again.
NextOrYield_NoRequeue(q) ==
  IF q + 1 >= THROUGHPUT
  THEN pc' = "none" /\ quota' = 0 /\ UNCHANGED ready
  ELSE pc' = "next" /\ quota' = q + 1 /\ UNCHANGED ready

\* Goes on with the next message, or yields the turn at the quota.
NextOrYield(q) ==
  IF q + 1 >= THROUGHPUT
  THEN pc' = "none" /\ ready' = ready + 1 /\ quota' = 0
  ELSE pc' = "next" /\ quota' = q + 1 /\ UNCHANGED ready

\* While a stash-mode request is in flight the loop stashes user messages.
LoopStash ==
  /\ pc = "next"
  /\ mailbox # <<>> /\ Head(mailbox)[1] = "user"
  /\ paused # 0
  /\ mailbox' = Tail(mailbox)
  /\ stash' = Append(stash, Head(mailbox))
  /\ NextOrYield(quota)
  /\ UNCHANGED <<flags, cur, parked, count, life, reqs, bounds, history>>

\* The loop hands a user message to the behaviour.
LoopReceive ==
  /\ pc = "next"
  /\ mailbox # <<>> /\ Head(mailbox)[1] = "user"
  /\ paused = 0
  /\ mailbox' = Tail(mailbox)
  /\ cur' = Head(mailbox)
  /\ handled' = Append(handled, Head(mailbox)[2])
  /\ pc' = "handling"
  /\ UNCHANGED <<flags, stash, ready, quota, parked, count, life, reqs, bounds,
                 dropped, ran, ended>>

\* postReceive() and what follows it; susp is the suspended flag by then.
PostReceive(q, susp) ==
  /\ count' = count + 1
  /\ suspended' = susp
  /\ IF susp
     THEN /\ processing' = FALSE /\ pc' = "none" /\ quota' = 0 /\ NotifyIdle
          /\ UNCHANGED <<ready, stopping, ended>>
     ELSE /\ NextOrYield(q)
          /\ IF MaxMessages # 0 /\ count' >= MaxMessages /\ sd = "none" /\ running
             THEN BeginShutdown
             ELSE UNCHANGED <<stopping, sd, ended>>
          /\ UNCHANGED <<processing, rs>>

\* A settled behaviour: it returned, or it failed and the directive is resume
\* (fail = FALSE), or it failed and handleFault() suspends the actor.
Faults == IF "fault" \in Calls THEN BOOLEAN ELSE {FALSE}

HandlerReturns(fail) ==
  /\ pc = "handling"
  /\ cur' = NoMessage
  /\ PostReceive(quota, fail \/ suspended)
  /\ UNCHANGED <<running, restarting, queues, parked, wasSuspended, reqs, bounds,
                 handled, dropped, ran>>

\* parkOn(): the behaviour returned a promise.
HandlerParks ==
  /\ "async" \in Calls
  /\ pc = "handling"
  /\ pc' = "none" /\ quota' = 0
  /\ cur' = NoMessage
  /\ parked' = Append(parked, <<cur, quota>>)
  /\ UNCHANGED <<flags, queues, ready, count, life, reqs, bounds, history>>

\* The parked promise settles: resumeLoop().
ParkedSettles(fail) ==
  /\ pc = "none"
  /\ parked # <<>>
  /\ parked' = Tail(parked)
  /\ PostReceive(Head(parked)[2], fail \/ suspended)
  /\ UNCHANGED <<running, restarting, queues, cur, wasSuspended, reqs, bounds,
                 handled, dropped, ran>>

\* The behaviour stashes the message it is handling (bound: a message is
\* stashed at most once), or takes everything back with unstashAll().
StashCurrent ==
  /\ "stash" \in Calls
  /\ pc = "handling"
  /\ cur[2] \notin UserIds(stash) \cup UserIds(mailbox)
  /\ Cardinality({i \in DOMAIN handled : handled[i] = cur[2]}) = 1
  /\ stash' = Append(stash, cur)
  /\ UNCHANGED <<flags, mailbox, loop, life, reqs, bounds, history>>

UnstashByBehavior ==
  /\ "stash" \in Calls
  /\ pc = "handling"
  /\ stash # <<>>
  /\ UnstashAll(mailbox)
  /\ UNCHANGED <<flags, loop, life, reqs, bounds, handled, ran, ended>>

-----------------------------------------------------------------------------
ShutdownStep == ShutdownWoken \/ ShutdownChildrenStopped \/ ShutdownReset

RestartStep == RestartWoken \/ RestartChildrenStopped \/ RestartPostStopDone
               \/ RestartFails \/ RestartSucceeds

LoopStep == Dispatch \/ LoopIdle \/ LoopPill \/ LoopPanicking \/ LoopReply
            \/ CallbackReturns \/ LoopStash \/ LoopReceive

Settle == \E fail \in Faults : HandlerReturns(fail) \/ ParkedSettles(fail)

Next ==
  \/ Start
  \/ Tell
  \/ \E k \in {"pill", "panic"} : TellCommand(k)
  \/ Shutdown \/ ShutdownStep
  \/ Restart \/ RestartStep
  \/ Reinstate \/ SuspendedByParent
  \/ \E h \in Handles : \/ \E mode \in {"allowAll", "stashNonReentrant"} : Request(h, mode)
                        \/ Reply(h) \/ Cancel(h)
  \/ LoopStep
  \/ HandlerParks \/ Settle
  \/ StashCurrent \/ UnstashByBehavior

Spec == Init /\ [][Next]_vars

\* The event loop runs every ready turn, hooks and behaviours settle, children
\* stop, and every request is answered or times out.
Fairness ==
  /\ WF_vars(LoopStep) /\ WF_vars(Settle)
  /\ WF_vars(ShutdownStep) /\ WF_vars(RestartStep)
  /\ \A h \in Handles : WF_vars(Reply(h))

FairSpec == Spec /\ Fairness

-----------------------------------------------------------------------------
(* Properties                                                              *)

\* The shape of the state: the PID's flags, the stages of its asynchronous
\* methods, its queues and its requests.
FlagsOK ==
  /\ running \in BOOLEAN /\ processing \in BOOLEAN /\ stopping \in BOOLEAN
  /\ suspended \in BOOLEAN /\ restarting \in BOOLEAN /\ wasSuspended \in BOOLEAN

ControlOK ==
  /\ pc \in {"none", "next", "handling", "callback"}
  /\ sd \in {"none", "awaitIdle", "woken", "children", "postStop", "done"}
  /\ rs \in {"starting", "none", "awaitIdle", "woken", "children", "postStop", "preStart"}
  /\ ready \in Nat /\ quota \in Nat /\ count \in Nat
  /\ nextId \in Nat /\ attempts \in Nat /\ suspends \in Nat /\ ended \in Nat
  /\ inFlight \in Int /\ paused \in Int

QueuesOK ==
  /\ mailbox \in Seq(Message) /\ stash \in Seq(Message) /\ cur \in Message
  /\ parked \in Seq(Message \X Nat)
  /\ handled \in Seq(Nat) /\ dropped \subseteq Nat

RequestsOK ==
  /\ admitted \subseteq Handles /\ open \subseteq Handles
  /\ stashMode \subseteq Handles /\ canceled \subseteq Handles
  /\ settled \subseteq Nat /\ ran \in Seq(Nat)

TypeOK == FlagsOK /\ ControlOK /\ QueuesOK /\ RequestsOK

\* "Processed strictly one at a time": the processing flag stands for exactly
\* one receive loop, wherever it is (queued, on the stack, or parked on an
\* asynchronous behaviour), and no second one can be started.
SingleLoop ==
  ready + Len(parked) + (IF pc = "none" THEN 0 ELSE 1) = (IF processing THEN 1 ELSE 0)

\* No lost wake-up: an actor that accepts messages and has some has a loop.
NoMissedWakeup == IsRunning /\ mailbox # <<>> => processing

\* Whoever is parked in awaitIdle() has a loop that will wake it.
WaiterHasLoop == (sd = "awaitIdle" \/ rs = "awaitIdle") => processing

\* "Messages already in the mailbox still drain": a graceful stop disposes of
\* no accepted message, stashed or queued.
StopDropsNothing == dropped = {}

\* doShutdown(): unless a fault suspends the actor, everything the mailbox had
\* accepted is taken before the children are stopped and postStop runs.
DrainedFirst == sd \in {"children", "postStop"} /\ ~suspended => mailbox = <<>>

\* A stopped actor is quiet: nothing queued, no loop, no behaviour or hook of
\* it still running.
QuietAfterStop ==
  sd = "done" => mailbox = <<>> /\ stash = <<>> /\ ~processing /\ ~restarting

\* The hooks of a live actor run alone: no receive loop is active during the
\* postStop or the preStart of a restart, nor during the postStop of a stop.
HooksAlone == rs \in {"postStop", "preStart"} \/ sd = "postStop" => ~processing

\* postStop runs at most once per preStart, whatever restarts and stops meet.
PostStopOnce == ended <= 1

\* Messages of one sender are handled in the order they were accepted.
StrictOrder == \A i \in 1 .. Len(handled) - 1 : handled[i] < handled[i + 1]

\* The in-flight and pause counters of a running actor are those of the
\* requests it still waits for, so the in-flight cap and the pause are exact.
CountersExact ==
  IsRunning => /\ inFlight = Cardinality(admitted \ settled)
               /\ paused = Cardinality(stashMode \ settled)

\* settle(), run(): a continuation runs at most once.
RunsOnce == \A i, j \in DOMAIN ran : ran[i] = ran[j] => i = j

\* completeRequest(): the counters are those of the requests whose continuation
\* has not run, abandoned ones included.
CountedUntilRun ==
  LET done == {ran[i] : i \in DOMAIN ran}
  IN  /\ inFlight = Cardinality(admitted \ done)
      /\ paused = Cardinality(stashMode \ done)

\* deliverRequestReply(), cancel(): no request is forgotten.  Until it settles its
\* target still owes the answer, or an outcome waits in the mailbox.
AnswerOwed ==
  sd # "done" =>
    \A h \in admitted \ settled : h \in open \/ \E i \in DOMAIN mailbox : mailbox[i] = <<"reply", h>>

\* A running actor is paused only while a stash-mode request can still end the
\* pause: its answer is owed, or queued in the mailbox.
PauseHasRequest == IsRunning /\ paused # 0 => stashMode \ settled # {}

\* Messages stashed for a pause are never stranded after it.
NoStrandedStash == IsRunning /\ paused = 0 => stash = <<>>

\* A suspended actor "processes nothing": the loop hands no message to the
\* behaviour of a suspended actor.
SuspendedProcessesNothing ==
  [][pc = "next" /\ pc' = "handling" => ~suspended]_vars

\* restart() throws "when a shutdown wins the race": it never completes on an
\* actor that is stopping or has stopped.
RestartBacksOff ==
  [][rs = "preStart" /\ rs' = "none" /\ ended' = 0 => running /\ ~stopping]_vars

\* A shutdown that has begun ends, whatever the loop, the hooks and a restart
\* do meanwhile.
StopCompletes == sd # "none" ~> sd = "done"

\* restart() settles: it resolves or throws.
RestartSettles == restarting ~> ~restarting

\* The pause of a stash-mode request ends, or the actor does.
PauseEnds == paused # 0 ~> (paused = 0 \/ sd = "done")

\* What a running actor has accepted is handled, unless it stops or is
\* suspended first.
Progress == IsRunning /\ mailbox # <<>> ~> (mailbox = <<>> \/ ~IsRunning)
=============================================================================
