------------------------------ MODULE MCClients ------------------------------
(***************************************************************************)
(* What is built on the actor cell, for TLC: routers of each strategy, the *)
(* event stream, pipes, and supervision of two children that share a       *)
(* supervisor.  They share no state; a behaviour is about one of them,     *)
(* named by part.                                                          *)
(***************************************************************************)
EXTENDS Router

\* Two keys that meet the routees in opposite orders.
MCOrder == [k \in {1, 2} |-> [i \in 1 .. MaxRoutees |-> IF k = 1 THEN i - 1 ELSE MaxRoutees - i]]

VARIABLES part, subscribers, stack,
  task, to, settled, armed, aborted, outcome, pStatus, full, holder,
  life, restarting, plife, panics, consecutive, age, tasks, nfaults, streak, calm, exhausted

eVars == <<subscribers, stack>>
pVars == <<task, to, settled, armed, aborted, outcome, pStatus, full, holder>>
sVars == <<life, restarting, plife, panics, consecutive, age, tasks, nfaults, streak, calm, exhausted>>
mcvars == <<vars, part, eVars, pVars, sVars>>

\* A pool that is resized while its routees fail, stop and fail to spawn.
Turns == INSTANCE Router WITH
  Strategy <- "roundRobin", Outside <- {"stop", "reinstate", "nospawn"}, Sizes <- {-1, 1, 3},
  MaxMessages <- 3, MaxLosses <- 1

\* A ring that follows the members.
Hashed == INSTANCE Router WITH
  Strategy <- "consistentHash", Outside <- {"stop", "nospawn"}, Sizes <- {0, 2},
  MaxMessages <- 2, MaxLosses <- 2

\* A broadcast while the pool shrinks.
Broadcasting == INSTANCE Router WITH
  Strategy <- "fanOut", PoolSize <- 3, Outside <- {"stop", "nospawn"}, Sizes <- {2},
  MaxMessages <- 2, MaxLosses <- 2

\* A pool whose routees leave.
Leaving == INSTANCE Router WITH
  Strategy <- "random", Outside <- {"stop", "reinstate"}, Sizes <- {1}, MaxMessages <- 1,
  MaxLosses <- 2

\* Callbacks that subscribe, unsubscribe and publish.
Events == INSTANCE EventStream WITH Subscribers <- 1 .. 3, MaxDepth <- 2

\* A thunk piped to a handle and a promise piped by name, with deadlines.
Piped == INSTANCE Pipe WITH
  Pipes <- {1, 2}, ByName <- {2}, Thunks <- {1}, Timed <- {1, 2}, MaxLives <- 2,
  status <- pStatus

\* A group whose members and parent fail and stop at any time.
Troubled == INSTANCE Supervision WITH
  Siblings <- {1, 2}, Strategy <- "oneForAll", Directives <- {"restart", "stop"}, maxRetries <- 2,
  timeout <- 1, InitialDelay <- 1, MaxDelay <- 1, BackoffResetAfter <- 0, Prompt <- FALSE,
  HealthyOnly <- FALSE, ParentStays <- FALSE, MaxFaults <- 2, mailbox <- panics

\* A group that fails more often than its budget allows.
Budgeted == INSTANCE Supervision WITH
  Siblings <- {1, 2}, Strategy <- "oneForAll", Directives <- {"restart"}, maxRetries <- 2,
  timeout <- 2, InitialDelay <- 0, MaxDelay <- 0, BackoffResetAfter <- 0, Prompt <- TRUE,
  HealthyOnly <- FALSE, ParentStays <- TRUE, MaxFaults <- 5, mailbox <- panics

\* Every directive, with failing restarts and growing delays.
Directed == INSTANCE Supervision WITH
  Siblings <- {1, 2}, Strategy <- "oneForAll",
  Directives <- {"restart", "stop", "escalate", "resume", "none"}, maxRetries <- 2,
  timeout <- 1, InitialDelay <- 1, MaxDelay <- 2, BackoffResetAfter <- 0, Prompt <- FALSE,
  HealthyOnly <- FALSE, ParentStays <- TRUE, MaxFaults <- 2, mailbox <- panics

MCInit ==
  /\ \/ /\ part \in {"turns", "hashed", "leaving", "events", "pipe",
                     "troubled", "budgeted", "directed"}
        /\ Init
     \/ part = "broadcasting" /\ Broadcasting!Init
  /\ Events!Init /\ Piped!Init /\ Troubled!Init

MCNext ==
  /\ UNCHANGED part
  /\ \/ part = "turns" /\ Turns!Next /\ UNCHANGED <<eVars, pVars, sVars>>
     \/ part = "hashed" /\ Hashed!Next /\ UNCHANGED <<eVars, pVars, sVars>>
     \/ part = "broadcasting" /\ Broadcasting!Next /\ UNCHANGED <<eVars, pVars, sVars>>
     \/ part = "leaving" /\ Leaving!Next /\ UNCHANGED <<eVars, pVars, sVars>>
     \/ part = "events" /\ Events!Next /\ UNCHANGED <<vars, pVars, sVars>>
     \/ part = "pipe" /\ Piped!Next /\ UNCHANGED <<vars, eVars, sVars>>
     \/ part = "troubled" /\ Troubled!Next /\ UNCHANGED <<vars, eVars, pVars>>
     \/ part = "budgeted" /\ Budgeted!Next /\ UNCHANGED <<vars, eVars, pVars>>
     \/ part = "directed" /\ Directed!Next /\ UNCHANGED <<vars, eVars, pVars>>

\* Fairness of the components: the router, its routees, the pipes, and a
\* parent that stays.
InRouter == part = "leaving" /\ UNCHANGED <<part, eVars, pVars, sVars>>
InPipe == part = "pipe" /\ UNCHANGED <<part, vars, eVars, sVars>>
InParent == part = "directed" /\ UNCHANGED <<part, vars, eVars, pVars>>
RouterRuns == InRouter /\ Leaving!RouterStep
RouteeStops(r) == InRouter /\ Leaving!Stopped(r)
Reacts(p) == InPipe /\ (Piped!Deliver(p) \/ Piped!Fail(p))
Expires(p) == InPipe /\ Piped!Expire(p)
Heard == InParent /\ Directed!HandlePanicking
Tasks == InParent /\ Directed!TaskStep
Time == InParent /\ Directed!Tick
Gone(c) == InParent /\ Directed!Stopped(c)

MCSpec ==
  /\ MCInit /\ [][MCNext]_mcvars
  /\ WF_mcvars(RouterRuns) /\ \A r \in Routees : WF_mcvars(RouteeStops(r))
  /\ \A p \in {1, 2} : WF_mcvars(Reacts(p)) /\ WF_mcvars(Expires(p))
  /\ WF_mcvars(Heard) /\ WF_mcvars(Tasks) /\ WF_mcvars(Time)
  /\ \A c \in {1, 2} : WF_mcvars(Gone(c))

-----------------------------------------------------------------------------
\* deliver(), lookup(), broadcast(), nextMember(): a user message goes to
\* routees that run, and to nobody exactly when none does, its key extractor
\* throws or it asks a broadcast; a round-robin router serves nobody twice
\* before another one.
Routes ==
  [][/\ IF part = "broadcasting" THEN Broadcasting!ForwardStep ELSE ForwardStep
     /\ part = "turns" => TurnStep]_mcvars

\* grow(), shrink(), forget(): the pool has the size last asked for, less
\* what it lost, and every running routee is in the rotation once.
PoolSized == part = "turns" => PoolHolds

\* watch(), forget(): a routee that stops leaves the rotation, if it ran when the
\* router called watch().
RouteesLeave == part = "leaving" => WatchedLeave

\* publish(): nobody who stays subscribed hears an event twice, and unless a
\* callback unsubscribes all who were subscribed hear it.
EventsHeard == [][Events!HeardOnce' /\ Events!StableStep]_mcvars

\* settle(), deliver(), runPipe(): a pipe comes to one outcome, delivered to
\* an actor that runs then or dead-lettered, and a settled one has no deadline.
OneOutcome ==
  /\ []Piped!OneOutcome /\ Piped!GoesToLive
  /\ part = "pipe" => Piped!NeverSilent

\* restartChild(), canRestart(): no restart brings back an actor that stopped, and
\* restarts of one child, by whichever task, do not overlap.
RestartsSound == Troubled!NoResurrection /\ Troubled!OneRestart

\* recordFault(), handleRestartDirective(): without backoff a group is restarted at
\* most maxRetries times in a row, also if its members fail in turns.
BudgetKept == part = "budgeted" => Budgeted!BudgetHolds

\* handlePanicking(), restartChild(): if the parent keeps running, every directive
\* it hears of is carried out, and every delay, retry and restart ends.
DirectivesEnd == part = "directed" => Directed!FaultsSettle
=============================================================================
