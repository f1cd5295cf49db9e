------------------------------- MODULE MCTurns -------------------------------
(***************************************************************************)
(* What every message goes through, for TLC: the ready queue (Dispatcher)  *)
(* and the contexts of asks (AskPool).  The machines share no state; a run *)
(* explores one of them, named by machine.                                 *)
(***************************************************************************)
EXTENDS Dispatcher

VARIABLES machine,
  fresh, msg, reply, links, young, timer, sweeping, pool, routerBox, mailbox,
  stash, cur, ask, link, waited, answer, stashes

askVars == <<fresh, msg, reply, links, young, timer, sweeping, pool, routerBox,
             mailbox, stash, cur, ask, link, waited, answer, stashes>>
mcvars == <<vars, askVars, machine>>

\* Asks of an actor with a bounded mailbox, whose contexts are pooled.
Pooled == INSTANCE AskPool WITH
  Ctxs <- 1 .. 3, Asks <- 1 .. 3, Nil <- NoActor, ASK_POOL_LIMIT <- 2, PERIOD <- 1,
  MaxStashes <- 0, Capacity <- 2, Router <- FALSE

\* Asks through a router to behaviours that stash; nothing is pooled.
Routed == INSTANCE AskPool WITH
  Ctxs <- 1 .. 2, Asks <- 1 .. 2, Nil <- NoActor, ASK_POOL_LIMIT <- 0, PERIOD <- 2,
  MaxStashes <- 1, Capacity <- 2, Router <- TRUE

MCInit ==
  /\ Init
  /\ \/ machine \in {"queue", "pooled"} /\ Pooled!Init
     \/ machine = "routed" /\ Routed!Init

MCNext ==
  /\ UNCHANGED machine
  /\ \/ machine = "queue" /\ Next /\ UNCHANGED askVars
     \/ machine = "pooled" /\ Pooled!Next /\ UNCHANGED vars
     \/ machine = "routed" /\ Routed!Next /\ UNCHANGED vars

\* Fairness of the components.
Fixed == UNCHANGED machine
Pump == Fixed /\ machine = "queue" /\ PumpStep /\ UNCHANGED askVars
Loop == Fixed /\ machine = "queue" /\ LoopStep /\ UNCHANGED askVars
Resumed(a) == Fixed /\ machine = "queue" /\ Resume(a) /\ UNCHANGED askVars
Time ==
  Fixed /\ UNCHANGED vars /\ \/ machine = "pooled" /\ Pooled!Tick
                             \/ machine = "routed" /\ Routed!Tick
Swept ==
  Fixed /\ UNCHANGED vars /\ \/ machine = "pooled" /\ Pooled!Sweep
                             \/ machine = "routed" /\ Routed!Sweep

MCSpec ==
  /\ MCInit /\ [][MCNext]_mcvars
  /\ WF_mcvars(Pump) /\ WF_mcvars(Loop) /\ \A a \in Actors : WF_mcvars(Resumed(a))
  /\ WF_mcvars(Time) /\ WF_mcvars(Swept)

-----------------------------------------------------------------------------
\* recycle(), attach(), enlist(), unlink(), sweepAsks(): a context in the pool is
\* there once, and in no mailbox, stash or behaviour; none is re-attached to
\* another ask while it waits, so an answer comes from handling the ask's own
\* message; and the intrusive lists of the two generations hold exactly the
\* pending asks, so every ask expires after one and within two periods.
ContextsSound ==
  /\ machine = "pooled" =>
       /\ Pooled!PoolIsFree /\ Pooled!NoAlias /\ Pooled!AnswerMatches
       /\ Pooled!ListsSound /\ Pooled!PendingListed /\ Pooled!ExpiryWindow
  /\ machine = "routed" =>
       Routed!AnswerMatches /\ Routed!ListsSound /\ Routed!PendingListed /\ Routed!ExpiryWindow

AskPending(a) == a \in DOMAIN ask /\ ask[a] = "pending"

\* response(), rejectAsk(), cancelAsk(), sweepAsks(): every ask settles, and
\* what it was settled with stays.
AsksSettle ==
  /\ [][\A a \in DOMAIN ask : ask[a] \notin {"new", "pending"} => ask'[a] = ask[a]]_mcvars
  /\ \A a \in 1 .. 3 : AskPending(a) ~> ~AskPending(a)
=============================================================================
