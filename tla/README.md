# nodeakt: a TLA+ verification project

nodeakt is an actor framework for TypeScript: actors on one event loop, a pool
of worker isolates, remoting between processes, and a cluster with a replicated
key-value store. This directory models it in TLA+, checks the models with TLC
on small instances, and proves some of their invariants with TLAPS for every
value of the constants. `PROJECT.json` lists components, runs, mutants,
findings, hazards and theorems, and maps every definition to the lines of
`src/src/` it models.

## 1. The system and its parts

| part | state | operations | what makes it hard | modules |
|---|---|---|---|---|
| actor cell (`pid.ts`, `reentrancy.ts`, `stash.ts`) | lifecycle flags, mailbox, stash, receive loop, open requests | tell, process, park and resume, shutdown, restart, suspend, reinstate, request, cancel | a stop, a restart and a suspension meet the loop at any await; requests pause the actor | `ActorCell` |
| ready queue (`pid.ts`) | process-wide queue, armed pump, turn quota | arm, pump, yield, resume | who re-arms the pump, microtask or event loop | `Dispatcher` |
| asks (`receive.context.ts`) | pooled contexts, two generation lists, a timer | attach, respond, reject, cancel, sweep, recycle | a context outlives its ask in a mailbox or a stash | `AskPool` |
| hierarchy and death watch (`pid.tree.ts`, `pid.ts`, `actor.system.ts`) | tree indexes, watch registrations | spawn, stop, restart, watch, unWatch | checks before an await, used after it | `Hierarchy` |
| supervision (`supervisor.ts`, `pid.ts`) | fault history, restart tasks | fault, directive, restart with backoff and retries | concurrent faults, delays that outlive actors | `Supervision` |
| mailboxes (`*.mailbox.ts`) | rings, segments, sub-queues, heaps | enqueue, dequeue, dispose | wrap, growth, recycling, ties | `Mailbox`, `BoundedMailbox`, `UnboundedMailbox`, `SegmentedMailbox`, `FairMailbox`, `PriorityQueue`, `PriorityMailbox` |
| scheduler, passivation (`scheduler.ts`, `passivation.manager.ts`) | deadline heap, shared timer, references, owners | schedule, cancel, pause, resume, tick; register, verdict | stale deadlines, late timers, owners that stop | `BinaryHeap`, `DeadlineHeap`, `SharedTimer`, `Scheduler`, `Passivation` |
| event stream (`eventstream.ts`) | subscriber arrays | subscribe, unsubscribe, publish, close | callbacks that change or drop the array being walked | `EventStream` |
| pipes (`pipe.ts`) | a task, a deadline, an outcome | pipe, settle, expire, deliver | deadline against result, target replaced | `Pipe` |
| router (`router.ts`, `hash.ring.ts`) | routees, cursor, ring | route, grow, shrink, drop, forget | routees die while the router awaits | `Router` |
| actor system (`actor.system.ts`, guardians) | started, stopping, subsystems | start, stop, spawn | overlapping start and stop | planned |
| worker pool (`worker.pool.ts`, `control.plane.ts`, `worker.runtime.ts`) | names per worker, pending spawns | place, claim, release, worker exit | worker death with calls pending | planned |
| port transport (`port.transport.ts`, `mesh.ts`) | pending asks, watches per port | tell, ask, watch, close | replies after close | planned |
| remoting and network (`remoting.ts`, `net/`) | sessions, lanes, credit, tables, batches | dial, handshake, send, grant, redeliver | reconnects, in-flight frames, windows | planned |
| membership (`membership/`) | view, suspicions, gossip queue, probes | probe, suspect, refute, gossip, sync, leave | loss, reordering, restarts | planned |
| key-value store (`kv/`) | clocks, partitions, routing tables, moves | write, read, replicate, rebalance, promote, drain, repair | crashes and stale tables in the middle of everything | `KvEngine`, `KvReplication`; the rest planned |
| cluster (`clustering*.ts`) | name claims, companions, departures | claim, place, relocate, sweep | two coordinators, retried passes | planned |
| discovery, metrics, registries, codecs, loggers | tables, counters, byte formats | lookup, count, encode | nothing a state exploration adds to their tests | left out |

How they interact. A `tell` puts a message into a mailbox and, if no receive
loop is active, queues the actor on the ready queue (`ActorCell`, `Dispatcher`).
The loop takes messages, runs behaviours that may park on a promise, and yields
after `THROUGHPUT` messages. Asks and requests attach a pooled context to the
message (`AskPool`); the answers of in-actor requests come back as continuations
through the mailbox. A behaviour that throws suspends its actor and sends the
parent a `Panicking` message; the parent applies its supervisor's directive
(`Supervision`). Spawns and stops change the tree and tell watchers
(`Hierarchy`). Scheduler, passivation manager, pipes and routers are clients of
all this: they send to actors, stop them, or spawn and watch them.

### Time and atomicity

JavaScript runs one turn at a time, so a step of a model is the code between two
points at which other code can run: an `await`, a callback of user code, the end
of a microtask. Microtasks run before timers and I/O; the modules to which this
matters (`Dispatcher`, `Pipe`) say so in their guards. Time is relative: a timer
or deadline is a number of ticks left, `Tick` takes one from each. Nothing is
persisted: a node that crashes loses what it held, and recovery is by the copies
on other nodes (`KvReplication`).

## 2. Modules and how they correspond to the code

**`ActorCell`** is one local `PID`. The flags are the PID's fields
(`running`, `processing`, `stopping`, `suspended`, `restarting`); `pc` says what
the stack does for this actor; `sd` and `rs` say at which await `shutdown()` and
`restart()` stand; `parked` holds asynchronous behaviours; `admitted`, `open`,
`stashMode`, `settled` and the two counters are the request bookkeeping, `ran` the
continuations that ran. A bounded mailbox refuses beyond `Capacity`.
Actions: `Tell`, `Shutdown` and its continuations, `Restart` and its
continuations, `Suspend`, `Reinstate`, the loop's `Take...` steps, behaviours
that end, park, fail, stash or open requests, `Reply`, `Cancel`. Senders, parent,
children and hooks are the environment, chosen by the constant `Calls`.

**`Dispatcher`** is `arm()`, `pump()` and the quota: what the ready queue sees of
several actors. **`AskPool`** is the life of a reply-bearing context of one
timeout duration: pool, intrusive lists, sweep, mailbox, stash, router.

**`Hierarchy`** is the tree with spawns, stops, restarts and watches of several
actors at once; an actor's mailbox only decides when it is idle, which
`ActorCell` models. **`Supervision`** is a parent and children under one
supervisor; a restart is a task with its delay, attempts and pacing.

**Mailboxes.** `Mailbox` and `PriorityQueue` are the abstract specifications;
`BoundedMailbox`, `UnboundedMailbox` and `SegmentedMailbox` implement the first
and `PriorityMailbox` the second, under refinement mappings checked as the
properties `IsQueue` and `IsPriorityQueue`. `FairMailbox` takes the sub-queue of
a sender as a number, because `UnboundedMailbox` is shown to be a queue.

**Timers.** `BinaryHeap` holds the sift loops shared by the heaps.
`DeadlineHeap` is the indexed heap of scheduler and passivation manager, checked
alone (`MCDeadlineHeap` makes it a machine). `SharedTimer` is the one Node timer
armed for the earliest deadline, delays beyond 2^31-1 ms included; `Scheduler`
and `Passivation` extend it and take the heap as the function it stands for.

**`EventStream`**, **`Pipe`**, **`Router`** model one topic, any number of pipes
to one name, and one router with its routees.

**`KvEngine`** is one node's fragment of a partition. A task of the write pipeline
has no await, so `Put`, `Delete`, `Increment` and `CompareAndSet` are one step
each; `Merge` is a peer's entry, `Sweep` the janitor, `Drop` the end of a drain,
and `Read` lets the wall clock stall or step back. The 128-bit digest is the set
of contributions folded in an odd number of times: what the exclusive or keeps,
up to collisions of the hash. Counters keep their wrap, at the width of
`CounterHalf`.

**`KvReplication`** is one key of one partition on every node. What a node holds
is one number (nothing, other keys only, or the entry's timestamp), so a merge is
a maximum. `Author` evolves the owners list from the coordinator's view and the
reports, `Install` is a node adopting a table with its ring, recovering mark,
refills and drains; `Pull`, `Arrive`, `Miss` and `Drained` are the moves; `Issue`,
`Serve`, `Propose`, `Replicate` are a write and `StartRead`, `ReadAtPrimary`,
`Peek` a read with its repair. Views reach nodes one by one (`Hear`) and so do
tables. Abstracted: chunks of a fragment, the comparison of two replicas
(`Repair` is one step), the move scheduler's slots, and forks of the table.
`Async` is the asynchronous replication mode; writes and reads enter at the nodes
`Writers` and `Readers`, each with the table it happens to have. `read.floor` and
the stamps of acknowledged writes are history.

`MC*` modules make what TLC explores. Each takes components with INSTANCE, once
per environment or per component, and a variable that never changes (`env`,
`machine`, `part`, `kind`) says which of them a behaviour is about; components
that share no state keep variables of their own, so the others stutter.
`*Proofs` modules hold theorems.

## 3. Runs: what is checked, with which bounds

Passing runs (violations are in section 6). Bounds are CONSTANTS named in the
modules; they count how often the environment acts, not what the code does.

| run | environments and bounds, and why they are enough | what holds |
|---|---|---|
| `ActorCell` | `mixed`: every call that can race the loop, 2 messages, 1 restart, 1 suspension, a yield after each message. `stops`: 4 messages, faults, pill, message budget of 3, one request, so that a budget stop overlaps another and a handler fails in the drain. `restarts`: 2, so that one follows a failed one. `requests`: 2 of either mode, cap 2. `interrupted`: the same with faults, reinstatements and a mailbox of 1, so that answers are refused | one loop (`SingleLoop`), no work without one (`LoopOwed`), a quiet stop after the drain, unless a failure cut it short, and messages in order (`StopsClean`), hooks alone and `postStop` once (`HooksInTurn`), continuations run at most once, are counted until then, and every open request is owed its answer (`RequestsExact`), everything ends (`AllEnds`) |
| `Turns` | `queue`: 2 actors, backlog 2, quota 2: batches, joins behind a batch, yields. `pooled`: 3 contexts and asks give middle removals from a list, a pool of 2 overflows. `routed`: router and stash, period 2, which separates "before" and "at" the sweep | no batch without a pump (`QueueArmed`), one place per actor (`OnePlace`), queued actors run (`QueuedRuns`); contexts reused only when free, lists and expiry window (`ContextsSound`), asks settle once (`AsksSettle`) |
| `Hierarchy` | `tree`: guardian and 3 actors that share a name: grandchildren, overlapping spawns of one name, 1 restart. `watched`: guardian and 2, 2 watches. `ending`: stops under fairness | indexes agree, every live actor that no overlapping spawn cut off is in its place, children go first (`TreeKept`), `WatchesKept`, `StopsFinish` |
| `Mailboxes` | capacity 3; a ring that grows twice; segments of 2 that are linked, recycled and rewound; 3 senders; 6 arrivals: heaps of three levels | structures sound (`RingInv`, `StructuresSound`); refinement of the abstract queues (`IsQueue`, `AreQueues`); senders take turns and priorities are served in order (`ServesInOrder`) |
| `Timers` | `scheduler`: 3 schedules that share reference, owner and receiver, one beyond the timer's maximum. `firing`: 2 of them under fairness. `passivation`: 2 actors with different timeouts, late timers. `heap`: 6 entries, the smallest heap in which a removal moves one up | `TimersCover`, `SchedulesAgree`, `OwnerTakesAll`, `RootIsEarliest`, `OnlyIdle`, `DueHappens` |
| `Clients` | routers of each strategy with 2 to 3 routees, resizes, losses and failing spawns while a turn awaits; 3 subscribers, publications nested twice, a close under the outer one; a pipe by local or routed handle and one by name, target replaced once; 2 children in one supervised group: `troubled`: parent and members stop and fail with delays pending, `budgeted`: 5 faults against 2 retries without delays, `directed`: every directive, growing delays | `PoolSized`, `Routes`, `RouteesLeave`, `EventsHeard`, `OneOutcome`; a stopped child stays stopped and restarts do not overlap (`RestartsSound`), `BudgetKept`, `DirectivesEnd` |
| `Kv` | `alone`, `peers`: 2 keys, 3 writes, a wall clock of 2 readings that may go back, so that clocks tie and expiry and tombstones come due. Three nodes, the smallest number with a quorum of 2 that survives a crash: `crashing`: 2 claims and a read, 1 crash of any node, coordinator included; `losing`: a put, a read, 1 crash and 1 lost message; `joining`: a put and a claim while a third node takes a partition in use over from one that leaves the replicas; `staying`: a put and a read, from one that remains a backup. Tables overtake views and reach the nodes in any order. 4 tables are more than any of them authors | digest of what is held (`DigestInStep`), an applied write is stored or gave way to a newer entry of a peer (`AppliedIsKept`), entries only move forward (`OnlyForward`); some live node holds every acknowledged write (`AckedSurvives`), and the primary in force in the end (`AckedReachPrimary`) |

Deadlock is switched off where the environment's bounds, or a stopped actor,
let a component of the run end; the mailboxes never end and are checked for
deadlock.

Actors, asks and contexts are numbered and taken in order of creation, which
stands for symmetry and is sound with liveness properties.

Where a property is about some environments only, its comment says which.
`StopsClean` and `HooksInTurn` leave out `mixed` and `interrupted`, which contain
the disagreements of section 6: `HooksInTurn` says nothing of a `reinstate()`
during a restart, nor of a stop that meets one (`RestartBacksOff` does). `AllEnds`
leaves out `interrupted`, where an abandoned answer leaves its pause behind.
`StopsClean` does not promise that a drain completes when a handler fails in it:
the failure suspends the actor, and `reset()` disposes of the rest
(`StopDropsNothing`). `PoolSized` is about a router that stands: a grow that fails
half way fails the router, and its guardian stops it. `BudgetKept` is for
restarts without a delay (`BudgetHolds`). `Kv` claims nothing about what reads
see and how many claims succeed: both fail (section 6).

Every property of a passing run has a mutant: a definition changed as a
plausible bug would (a dropped guard, a missing reset, a swapped order) that
makes the property fail under the same configuration.

## 4. Fairness

Weak fairness only, of the components' own actions (the `MC*` modules restate it
per environment). The event loop runs a ready turn, an armed pump and a due
timer (`LoopStep`, `PumpStep`, `OnTimer`, `Sweep`, `RouterStep`): Node
guarantees it unless user code blocks the thread. Hooks and asynchronous
behaviours settle (`Settle`, `Progress`, `Stopped`): the code awaits them without
a timeout, so the liveness claims are conditional on user code that ends. A
request is answered or its timeout fires (`Reply`). Time passes (`Tick`). In
`Supervision` the parent of the run with liveness stays: with a parent suspended
for good no directive can be carried out. A pipe's task need not end, and nobody
need send. `ActorCell` assumes nothing in `interrupted`. In `KvReplication`
fairness is of `Progress` as a whole: crashes are detected, views and pushed
tables arrive (the coordinator pushes again periodically), requests are answered
or time out, and the repair timer ticks; nobody need write or read.

## 5. Proofs

TLAPS checks these for every value of the constants under the modules' named
assumptions on them (bounds are naturals, quotas and capacities are positive,
null values are not messages).

- `ActorCellProofs!Typing`: `TypeOK` is inductive as it stands. The proof is
  split by kinds of variables (`FlagsStep`, `ControlStep`, `QueuesStep`,
  `RequestsStep`), each with one step per action.
- `ActorCellProofs!ReceiveLoop`: `SingleLoop`, `NoMissedWakeup` and
  `WaiterHasLoop`, for every environment, number of messages, restarts and
  requests. `SingleLoop` counts the places a loop can be (queued, on the stack,
  parked) and equates the count with the processing flag; the other two are not
  inductive without it, since a step that ends the loop must know that no other
  one runs. Their conjunction with `TypeOK` is the inductive invariant.
- `DispatcherProofs!NoBatchForgotten`: `QueueArmed`, for any number of actors and
  any quota. The strengthening bounds the pump's locals (`i <= n <= Len(ready)`),
  without which what joined behind the batch cannot be told from the batch.
- `BoundedMailboxProofs!RingConsistent` and `!Refinement`: for every capacity, the
  ring holds messages in exactly the slots from `head` on, and the mailbox
  implements `Mailbox`. Slots of the backlog are distinct (`SlotFacts`), so an
  enqueue or a dequeue changes one end of the mapped sequence and nothing else.
- `KvEngineProofs`: `ClockRises` (timestamps rise however the wall clock moves),
  `FragmentForward` and `DigestKept` (`OnlyForward`, `DigestInStep`), and
  `AppliedStored`, for any set of keys, peers, times to live and bounds. The last
  says that what a write reports as applied is stored, or that the fragment keeps
  a newer entry of another node; it needs an invariant that is not visible in the
  code: the clock is not behind any entry this node stamped (`OwnEntriesBehind`).
  Without the second case it is false, which is the finding on `AppliedWins` in
  section 6. `UpdateRises` says that `HybridClock.update`, which nothing calls,
  would restore it.

Only model-checked: all liveness (fairness and `ENABLED` are outside the
prover), everything that follows lists or heaps through recursive functions,
and the invariants of the modules without a `Proofs` module.

## 6. Findings

Five disagreements between the code and its docs, comments or tests have a run
that TLC must find violated; `PROJECT.json` quotes the other side.

| run | property | what the code does |
|---|---|---|
| `ActorCell_restart_race` | `RestartBacksOff` | a shutdown that begins while a restart awaits children or hooks does not stop the restart |
| `AskPool_stash` | `NoAlias` | the context of a dead ask is recycled while a stash holds it |
| `Kv_reads` | `ReadsSeeAcked` | a backup that installs the table that promotes it before it hears of the primary's death does not reconcile, and answers a read without an acknowledged write |
| `Kv_claims` | `OneClaim` | a report that precedes a claim prunes the primary that accepted it; the new primary accepts a second one |
| `Kv_fragmented` | `Unfragments` | a demoted primary that stays a backup keeps its copy, and the partition two owners and no conditional writes |

The other disagreements met while modelling are properties stated in the modules;
each fails in TLC with the constants given here and is not part of a passing run
under them. Bounds not named are as in the runs above.

| property | module and constants | what the code does |
|---|---|---|
| `PauseHasRequest` | `ActorCell`, `Calls = {"fault", "reinstate", "stashNonReentrant"}`, 1 handle | an answer that arrives during a suspension leaves the actor paused for ever |
| `CountersExact` | `ActorCell`, `Calls = {"allowAll"}`, `Capacity = 1`; or `Capacity = 0`, `Calls = {"fault", "reinstate", "allowAll"}` | an answer that the full mailbox or the suspended actor refuses is abandoned, and its request counts against the cap for ever |
| `NoStrandedStash` | `ActorCell`, `Calls = {"stashNonReentrant"}`, `Capacity = 1`, `MaxMsgs = 4` | messages stashed for a pause that do not fit into the mailbox stay stashed after it, and the first is lost |
| `SuspendedProcessesNothing` | `ActorCell`, `Calls = {"suspend"}` | a loop that is queued or parked when its actor is suspended hands over another message |
| `HooksAlone` | `ActorCell`, `Calls = {"restart", "reinstate"}` | `reinstate()` during a restart runs messages during the hooks |
| `StrictOrder` | `ActorCell`, `Calls = {"async", "stashNonReentrant"}`, `MaxMsgs = 4` | a stash-mode request reorders two messages of one sender |
| `StopDropsNothing` | `ActorCell`, `Calls = {"shutdown", "stashNonReentrant"}` | a stop during a pause disposes of accepted messages |
| `StopDropsNothing` | `ActorCell`, `Calls = {"shutdown", "fault"}` | a handler that fails in the drain suspends the actor: the accepted messages behind it are disposed of |
| `YieldReachesEventLoop` | `Dispatcher`, `FairSpec` | an actor that used up its quota runs on before I/O, because a microtask was armed first |
| `PoolIsFree` | `AskPool`, `Router = TRUE` | the context of a dead ask is recycled while a routee's mailbox holds it |
| `NameIsUnique` | `Hierarchy`, 2 pids below the guardian, 1 name | the name is checked before `preStart` and used after it: two actors take one name |
| `ChildrenStopWithParent` | `Hierarchy`, 3 pids | the parent's state is checked before `preStart`: a child outlives its parent |
| `WatcherIsTold` | `Hierarchy`, 1 watch | a `Terminated` to a suspended actor is lost |
| `BudgetHolds` | `Supervision`, one child, `maxRetries = 2`, `MaxDelay = 2`, `Prompt`, `HealthyOnly` | time spent in backoff counts as calm |
| `GroupStaysSuspended` | `Supervision`, one-for-all, `maxRetries = 1`, `InitialDelay = 1` | a pending restart revives a group whose budget is exhausted |
| `FailureStops` | `Supervision`, `ParentStays = FALSE` | a `Panicking` to a suspended parent is lost |
| `IdleHoldsNoBuffer` | `UnboundedMailbox` | only the first drain releases a small ring |
| `EndsWithOwner` | `Scheduler`, as `scheduler` | a schedule registered with the context of an actor that has stopped is never dropped; `actor.system.ts:1239` says "it is cancelled when that actor fully stops" |
| `EachIsInvoked` | `EventStream` | a callback that unsubscribes itself makes the next subscriber miss the event |
| `DeadLeave` | `Router`, `FairSpec`, `Outside = {}` | a routee that fails after its spawn and before the router watches it is stopped and stays listed |
| `AppliedWins` | `KvEngine`, `Peers = {2}` | merging a peer's entry does not move the clock, and a write whose timestamp is behind is acknowledged and dropped; `hlc.ts:33` says that receiving a timestamp advances the clock |
| `ReadsSeeAcked` | `KvReplication`, as `losing` | a survivor that does not answer is skipped and the recovering mark cleared |
| `ReadsSeeAcked` | `KvReplication`, as `joining` or `staying`, a put and a read at any node | the former primary, which the new table has not reached yet, answers a read from its own copy and misses a write that the new one acknowledged |
| `OneClaim` | `KvReplication`, as `crashing` | the backup promoted before it hears of the death accepts a claim the dead primary had acknowledged |
| `OneClaim` | `KvReplication`, as `joining` with 2 claims | a forwarded claim is accepted by a node that is not the primary by its own table |
| `AckedSurvives` | `KvReplication`, as `staying`, `Async = TRUE` | a demoted primary acknowledges the write of a sender with an old table after its drain copied the fragment, and then drops its copy |
| `AckedSurvives` | `KvReplication`, as `joining`, a put and 1 crash | the same with one backup, which crashes |
| `Unfragments` | `KvReplication`, as `joining`, a put and a read | a read repair that arrives after the drain re-creates the dropped copy, which is not drained again |
| `RouterStands` | `Router`, `Outside = {"stop"}`, `MaxLosses = 2` | a routee stopped by others makes the router fail |

## 7. Plan

Order of what is left, by what can go wrong in it:

1. Key-value store, what is left: `Coordinator` (push of routing tables, answers
   that reveal a newer table, take-over by the next-oldest member, forks),
   graceful leave, `AntiEntropy` (digests, buckets and paged transfers),
   `MoveScheduler`, `Resolver` (split brain).
2. Membership: `Membership` (precedence of updates, refutation, suspicion),
   abstract specification "a live member is never reported dead for good", then
   `Probe`, `Broadcast`, `Swim` composed with it over a lossy network.
3. Network: `Credit`, `Chunks`, `Tables` as two ends of one connection, then
   `Session` and `Peer` with reconnects.
4. `PortTransport`, `WorkerPool`, `Remoting`, `ActorSystem`, `Relocation`.
5. Proofs: `OnePlace`, `TreeSound`, `TrackersAgree`, `PendingListed`, the
   refinement of `UnboundedMailbox`, `RunsOnce` and `AnswerOwed` of `ActorCell`.

## 8. What is not modelled, and why

Byte formats (`net/frame.ts`, `net/values.ts`, `kv/wire.ts`, `membership/wire.ts`,
`codec.ts`): their properties are about bytes. Loggers, metrics, registries,
paths, options and declarations: no protocol state. DNS and sockets: input and
output; what they do to messages (loss, delay, reconnects) is the environment of
the planned modules. User code (behaviours, hooks, tasks, priority functions) is
always the environment. The parts of section 7 are not modelled yet.
