---------------------------- MODULE MCActorCell ----------------------------
(***************************************************************************)
(* ActorCell for TLC: one actor in one of several environments, each with  *)
(* the calls that make its questions hard and with bounds of its own.      *)
(***************************************************************************)
EXTENDS ActorCell

VARIABLE env

\* Every call that can race the receive loop.
Mixed == INSTANCE ActorCell WITH
  Calls <- {"shutdown", "restart", "reinstate", "suspend", "fault", "async", "pill", "stash"},
  MaxMsgs <- 2, MaxRestarts <- 1, MaxSuspends <- 1, Handles <- {}, MaxInFlight <- 0,
  Capacity <- 0, MaxMessages <- 0, THROUGHPUT <- 1

\* Stops of each kind, with failing behaviours and a request in progress.
Stops == INSTANCE ActorCell WITH
  Calls <- {"shutdown", "fault", "async", "pill", "panic", "allowAll", "cancel"},
  MaxMsgs <- 4, MaxRestarts <- 0, MaxSuspends <- 0, Handles <- {1}, MaxInFlight <- 0,
  Capacity <- 0, MaxMessages <- 3, THROUGHPUT <- 2

\* Restarts that meet faults, suspensions and parked behaviours.
Restarts == INSTANCE ActorCell WITH
  Calls <- {"restart", "suspend", "fault", "async", "panic"},
  MaxMsgs <- 4, MaxRestarts <- 2, MaxSuspends <- 1, Handles <- {}, MaxInFlight <- 0,
  Capacity <- 0, MaxMessages <- 0, THROUGHPUT <- 2

\* Requests of both modes, answered, cancelled or cut off by a stop.
Requests == INSTANCE ActorCell WITH
  Calls <- {"async", "allowAll", "stashNonReentrant", "cancel", "shutdown"},
  MaxMsgs <- 3, MaxRestarts <- 0, MaxSuspends <- 0, Handles <- {1, 2}, MaxInFlight <- 2,
  Capacity <- 0, MaxMessages <- 0, THROUGHPUT <- 2

\* Requests whose answers meet a suspended actor or a full mailbox.
Interrupted == INSTANCE ActorCell WITH
  Calls <- {"fault", "reinstate", "allowAll", "stashNonReentrant", "cancel"},
  MaxMsgs <- 3, MaxRestarts <- 0, MaxSuspends <- 0, Handles <- {1, 2}, MaxInFlight <- 2,
  Capacity <- 1, MaxMessages <- 0, THROUGHPUT <- 2

mcvars == <<vars, env>>

MCInit == Init /\ env \in {"mixed", "stops", "restarts", "requests", "interrupted"}

MCNext ==
  /\ UNCHANGED env
  /\ \/ env = "mixed" /\ Mixed!Next
     \/ env = "stops" /\ Stops!Next
     \/ env = "restarts" /\ Restarts!Next
     \/ env = "requests" /\ Requests!Next
     \/ env = "interrupted" /\ Interrupted!Next

\* Fairness of the component, where no answer can be refused; a step of an
\* environment that does not exist there is disabled.
Fixed == UNCHANGED env
Loop ==
  Fixed /\ \/ env = "mixed" /\ Mixed!LoopStep
           \/ env = "stops" /\ Stops!LoopStep
           \/ env = "restarts" /\ Restarts!LoopStep
           \/ env = "requests" /\ Requests!LoopStep
Settled ==
  Fixed /\ \/ env = "mixed" /\ Mixed!Settle
           \/ env = "stops" /\ Stops!Settle
           \/ env = "restarts" /\ Restarts!Settle
           \/ env = "requests" /\ Requests!Settle
Stopping ==
  Fixed /\ \/ env = "mixed" /\ Mixed!ShutdownStep
           \/ env = "stops" /\ Stops!ShutdownStep
           \/ env = "requests" /\ Requests!ShutdownStep
Restarting ==
  Fixed /\ \/ env = "mixed" /\ Mixed!RestartStep
           \/ env = "restarts" /\ Restarts!RestartStep
Answer(h) ==
  Fixed /\ \/ env = "stops" /\ h = 1 /\ Stops!Reply(h)
           \/ env = "requests" /\ Requests!Reply(h)

MCSpec ==
  /\ MCInit /\ [][MCNext]_mcvars
  /\ WF_mcvars(Loop) /\ WF_mcvars(Settled)
  /\ WF_mcvars(Stopping) /\ WF_mcvars(Restarting)
  /\ WF_mcvars(Answer(1)) /\ WF_mcvars(Answer(2))

-----------------------------------------------------------------------------
\* Most disagreements with the docs happen when an actor is reinstated (see
\* README, findings); what is restricted below holds where nobody does that.
Undisturbed == env \in {"stops", "restarts", "requests"}

\* schedule(), awaitIdle(): work never waits for a loop that is gone.  An actor
\* that accepts messages and has some has a loop, and so has whoever is parked
\* in awaitIdle().
LoopOwed == NoMissedWakeup /\ WaiterHasLoop

\* doShutdown(), processLoop(): a stopped actor is quiet however the stop began.  A
\* graceful stop takes every queued message before postStop unless a behaviour
\* fails meanwhile, and without a pause for a stash-mode request messages of one
\* sender are handled in order, through stops, restarts and parked behaviours.
StopsClean ==
  /\ Undisturbed => QuietAfterStop /\ DrainedFirst
  /\ env \in {"stops", "restarts"} => StrictOrder

\* restart(), doShutdown(): hooks never overlap the receive loop, and postStop
\* runs once per preStart, whatever fails or is suspended meanwhile.
HooksInTurn == Undisturbed => HooksAlone /\ PostStopOnce

\* completeRequest(), deliverRequestReply(), cancel(): late answers, cancellations,
\* suspensions, full mailboxes and stops in any order run a continuation
\* at most once, count a request until it has run, and forget none; and the stash
\* of a pause empties with it if nothing is refused.
RequestsExact ==
  /\ RunsOnce /\ CountedUntilRun /\ AnswerOwed
  /\ env = "requests" => NoStrandedStash

\* doShutdown(), restart(), request(), processLoop(): what began ends.  A stop
\* completes, a restart settles, a pause is over, and accepted messages are
\* handled unless the actor stops or is suspended first.
AllEnds ==
  env # "interrupted" => StopCompletes /\ RestartSettles /\ PauseEnds /\ Progress
=============================================================================
