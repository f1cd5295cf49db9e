------------------------------- MODULE Router -------------------------------
(***************************************************************************)
(* class Router (src/src/router.ts) with the routees it spawns, watches,   *)
(* drops and stops.  The router is an actor: it takes one message at a     *)
(* time and its turn lasts while it awaits a spawn or a stop.  Meanwhile   *)
(* routees fail and are stopped, and the router learns of it by message.   *)
(* A routee is named by its number.                                        *)
(***************************************************************************)
EXTENDS Integers, Sequences, SequencesExt, FiniteSets

CONSTANTS
  Strategy,      \* "roundRobin", "random", "fanOut" or "consistentHash"
  PoolSize,
  Keys,          \* routing keys
  Order,         \* the order in which the ring's points meet routees, per key
  Outside,       \* what else happens: routees are stopped ("stop") or
                 \* reinstated by others, a spawn fails ("nospawn")
  Sizes,         \* pool sizes asked for; a negative one is invalid
  MaxRoutees, MaxMessages, MaxLosses
                 \* bounds: routees ever spawned, messages sent to the router,
                 \* failures and stops of routees

Routees == 0 .. MaxRoutees - 1

ASSUME RouterAssumption ==
  /\ Strategy \in {"roundRobin", "random", "fanOut", "consistentHash"}
  /\ PoolSize \in 1 .. MaxRoutees /\ Sizes \subseteq -1 .. MaxRoutees
  /\ MaxMessages \in Nat /\ MaxLosses \in Nat
  /\ Order \in [Keys -> {o \in [1 .. MaxRoutees -> Routees] : \A i, j \in 1 .. MaxRoutees : o[i] = o[j] => i = j}]
  /\ Outside \subseteq {"stop", "reinstate", "nospawn"}

VARIABLES
  members, next, minted, ring,   \* the router's fields
  mailbox,     \* the router's
  turn,        \* what the router awaits
  up,          \* false: the router failed, and its guardian stops it
  status,      \* of each routee; "failing" is stopping and suspended
  watched,     \* routees that announce their end to the router
  sent, losses,  \* counted, for the bounds
  last,        \* history: whom the last user message went to
  target,      \* history: the size last asked for
  lost,        \* history: a routee was lost since
  since        \* history: <<s, r>> when r was served since s was

routees == <<status, watched>>
pool == <<members, next, minted, ring>>
vars == <<pool, mailbox, turn, up, routees, sent, losses, last, target, lost, since>>

Idle == [kind |-> "idle"]
Msg(kind, of) == [kind |-> kind, of |-> of]

\* User messages: an ask, and one whose key extractor throws, where it matters.
Users ==
  {Msg("user", "plain")} \cup
  (IF Strategy = "fanOut" THEN {Msg("user", "ask")} ELSE {}) \cup
  (IF Strategy = "consistentHash" THEN {Msg("user", "bad")} ELSE {})

Init ==
  /\ members = <<>> /\ next = 1 /\ minted = 0 /\ ring = <<>>
  /\ mailbox = <<Msg("start", 0)>> /\ turn = Idle /\ up = TRUE
  /\ status = [r \in Routees |-> "none"] /\ watched = {} /\ sent = 0 /\ losses = 0
  /\ last = {} /\ target = PoolSize /\ lost = FALSE /\ since = {}

Running == {r \in Routees : status[r] = "running"}

\* Mutant: members are not vetted.
LiveMembers_All == members

LiveMembers == SelectSeq(members, LAMBDA r : r \in Running)

-----------------------------------------------------------------------------
(* Routing                                                                 *)

\* nextMember(): the first member that runs from the cursor on, wrapping.  A
\* cursor past the end starts over.
Cursor == IF next > Len(members) THEN 1 ELSE next
Place(i) == ((Cursor - 1 + i) % Len(members)) + 1

\* Mutant: the member at the cursor is not vetted.
NextPlace_Any == Cursor

\* Mutant: the search starts at the head of the list.
NextPlace_Head == CHOOSE i \in DOMAIN members :
                     members[i] \in Running /\ \A j \in 1 .. i - 1 : members[j] \notin Running

NextPlace == Place(CHOOSE i \in 0 .. Len(members) - 1 :
                     /\ members[Place(i)] \in Running
                     /\ \A j \in 0 .. i - 1 : members[Place(j)] \notin Running)

\* HashRing.lookup(): the first owner on the walk from the key that runs.
Lookup(k) ==
  LET walk == SelectSeq(Order[k], LAMBDA r : r \in ToSet(ring) \cap Running)
  IN  IF walk = <<>> THEN {} ELSE {Head(walk)}

\* Whom a user message goes to, {} when to dead letters, and the cursor.
\* The rotation forgets what it knew of routees that do not run.
Served(to) ==
  /\ last' = to
  /\ since' = {p \in since : p[1] \in Running \ to} \cup {<<s, r>> : s \in ToSet(LiveMembers) \ to, r \in to}

RouteRoundRobin ==
  /\ Strategy = "roundRobin"
  /\ IF LiveMembers = <<>> THEN Served({}) /\ UNCHANGED next
     ELSE Served({members[NextPlace]}) /\ next' = NextPlace + 1
RouteRandom ==
  /\ Strategy = "random" /\ UNCHANGED next
  /\ \/ LiveMembers = <<>> /\ Served({})
     \/ \E r \in ToSet(LiveMembers) : Served({r})
\* The router takes a message of a kind; some handlers also post one.
Takes(kind) == up /\ turn = Idle /\ mailbox # <<>> /\ Head(mailbox).kind = kind
Taken == mailbox' = Tail(mailbox)
Of == Head(mailbox).of

\* routeHashed(): a key extractor that throws makes the message a dead letter.
RouteHashed ==
  /\ Strategy = "consistentHash" /\ UNCHANGED next
  /\ \/ Of = "bad" /\ Served({})
     \/ Of # "bad" /\ \E k \in Keys : Served(Lookup(k))

\* Mutant: an ask is handed on.
Broadcast_Asks == Strategy = "fanOut" /\ UNCHANGED next /\ Served(ToSet(LiveMembers))

\* broadcast(): an ask is rejected and goes to nobody.
Broadcast ==
  /\ Strategy = "fanOut" /\ UNCHANGED next
  /\ \/ Of = "ask" /\ Served({})
     \/ Of # "ask" /\ Served(ToSet(LiveMembers))

Route ==
  /\ Takes("user") /\ Taken
  /\ RouteRoundRobin \/ RouteRandom \/ RouteHashed \/ Broadcast
  /\ UNCHANGED <<members, minted, ring, turn, up, routees, sent, losses, target, lost>>

-----------------------------------------------------------------------------
(* The pool                                                                *)

Ring(m) == IF Strategy = "consistentHash" THEN m ELSE <<>>
Fault == up' = FALSE

\* seed(): a PostStart that a user sends changes nothing.
Seed ==
  /\ Takes("start") /\ Taken
  /\ turn' = IF minted = 0 THEN [kind |-> "grow", left |-> PoolSize] ELSE Idle
  /\ UNCHANGED <<pool, up, routees, sent, losses, last, target, lost, since>>

\* grow(): each routee is spawned, then watched and added in a later turn.
Spawn ==
  /\ up /\ turn.kind = "grow" /\ minted' = minted + 1
  /\ \/ /\ status' = [status EXCEPT ![minted] = "running"]
        /\ turn' = [turn EXCEPT !.kind = "spawned"] /\ UNCHANGED up
     \/ "nospawn" \in Outside /\ Fault /\ UNCHANGED <<status, turn>>
  /\ UNCHANGED <<members, next, ring, mailbox, watched, sent, losses, last, target, lost, since>>

\* Mutant: the ring is not rebuilt.
Grown_Stale(m) == turn' = Idle /\ UNCHANGED ring

Grown(m) == turn' = Idle /\ ring' = Ring(m)

\* watch() does nothing for a routee that does not run.
Watch ==
  /\ up /\ turn.kind = "spawned"
  /\ LET r == minted - 1 IN
       /\ watched' = watched \cup ({r} \cap Running)
       /\ members' = Append(members, r)
  /\ \/ turn.left > 1 /\ turn' = [kind |-> "grow", left |-> turn.left - 1] /\ UNCHANGED ring
     \/ turn.left = 1 /\ Grown(members')
  /\ since' = {}
  /\ UNCHANGED <<next, minted, mailbox, up, status, sent, losses, last, target, lost>>

\* shutdown() of routees: a suspended one is stopped too.
Stopping(rs) ==
  [r \in Routees |-> CASE r \in rs /\ status[r] = "running" -> "stopping"
                       [] r \in rs /\ status[r] = "suspended" -> "failing"
                       [] OTHER -> status[r]]
Await(rs) == status' = Stopping(rs) /\ turn' = [kind |-> "stop", who |-> rs]

\* Mutant: a suspended member counts.
Counted_All == members

Counted == LiveMembers

\* shrink(): the newest leave the rotation before they stop.
Shrink(excess) ==
  /\ members' = SelectSeq(members, LAMBDA r : r \notin excess) /\ next' = 1
  /\ Await(excess) /\ since' = {}

\* resize(), whose answer is sent when the turn ends; an invalid size is a dead
\* letter.
Resize ==
  /\ Takes("adjust") /\ Taken
  /\ target' = IF Of < 0 THEN target ELSE Of
  /\ lost' = IF Of < 0 THEN lost ELSE FALSE
  /\ \/ Of < 0 /\ UNCHANGED <<members, next, status, turn, since>>
     \/ /\ Of > Len(Counted) /\ Of - Len(Counted) <= MaxRoutees - minted
        /\ turn' = [kind |-> "grow", left |-> Of - Len(Counted)]
        /\ UNCHANGED <<members, next, status, since>>
     \/ 0 <= Of /\ Of < Len(Counted) /\ Shrink({Counted[i] : i \in Of + 1 .. Len(Counted)})
     \/ Of = Len(Counted) /\ UNCHANGED <<members, next, status, turn, since>>
  /\ UNCHANGED <<minted, ring, up, watched, sent, losses, last>>

\* The end of an awaited stop; after dropFailed() the ring is left to
\* forget().
Awaited ==
  /\ up /\ turn.kind = "stop" /\ \A r \in turn.who : status[r] = "stopped"
  /\ turn' = Idle /\ ring' = IF turn.who \cap ToSet(members) = {} THEN Ring(members) ELSE ring
  /\ UNCHANGED <<members, next, minted, mailbox, up, routees, sent, losses, last, target, lost, since>>

\* A failed routee's Panicking is surfaced to the router's own behavior.
Escalate ==
  /\ Takes("panicking") /\ mailbox' = Append(Tail(mailbox), Msg("panic", Of))
  /\ UNCHANGED <<pool, turn, up, routees, sent, losses, last, target, lost, since>>

\* dropFailed(): PID.stop() throws for what is neither running nor
\* suspended, and a handler that throws fails the router.
DropFailed ==
  /\ Takes("panic") /\ Taken
  /\ \/ Of \notin ToSet(members) /\ UNCHANGED <<turn, status, up, lost>>
     \/ /\ Of \in ToSet(members) /\ status[Of] \in {"running", "suspended", "failing"}
        /\ Await({Of}) /\ lost' = (lost \/ Of \in Running) /\ UNCHANGED up
     \/ /\ Of \in ToSet(members) /\ status[Of] \in {"stopping", "stopped"}
        /\ Fault /\ UNCHANGED <<turn, status, lost>>
  /\ UNCHANGED <<pool, watched, sent, losses, last, target, since>>

\* Mutant: only a ring without the routee is built, the list is kept.
Forgotten_Kept(r) == UNCHANGED members

Forgotten(r) == members' = SelectSeq(members, LAMBDA m : m # r)

\* forget()
Forget ==
  /\ Takes("terminated") /\ Taken
  /\ IF Of \in ToSet(members) \ Running
     THEN Forgotten(Of) /\ ring' = Ring(members') /\ since' = {} ELSE UNCHANGED <<members, ring, since>>
  /\ UNCHANGED <<next, minted, turn, up, routees, sent, losses, last, target, lost>>

-----------------------------------------------------------------------------
(* The routees and the users                                               *)

\* Its handler throws, while it runs or while it drains before a stop; also in
\* PostStart, before the router's watch().
Fail(r) ==
  /\ up /\ losses < MaxLosses /\ losses' = losses + 1
  /\ status[r] \in {"running", "stopping"}
  /\ status' = [status EXCEPT ![r] = IF @ = "running" THEN "suspended" ELSE "failing"]
  /\ mailbox' = Append(mailbox, Msg("panicking", r)) /\ lost' = (lost \/ r \in Running)
  /\ UNCHANGED <<pool, turn, up, watched, sent, last, target, since>>
Shutdown(r) ==
  /\ up /\ losses < MaxLosses /\ losses' = losses + 1
  /\ "stop" \in Outside /\ status[r] \in {"running", "suspended"}
  /\ status' = Stopping({r}) /\ lost' = (lost \/ r \in Running)
  /\ UNCHANGED <<pool, mailbox, turn, up, watched, sent, last, target, since>>
Reinstate(r) ==
  /\ up /\ "reinstate" \in Outside
  /\ status[r] = "suspended" /\ status' = [status EXCEPT ![r] = "running"]
  /\ UNCHANGED <<pool, mailbox, turn, up, watched, sent, losses, last, target, lost, since>>
Stopped(r) ==
  /\ up /\ status[r] \in {"stopping", "failing"} /\ status' = [status EXCEPT ![r] = "stopped"]
  /\ mailbox' = IF r \in watched THEN Append(mailbox, Msg("terminated", r)) ELSE mailbox
  /\ UNCHANGED <<pool, turn, up, watched, sent, losses, last, target, lost, since>>

Send ==
  /\ up /\ sent < MaxMessages /\ sent' = sent + 1
  /\ \E m \in Users \cup {Msg("start", 0)} \cup {Msg("adjust", n) : n \in Sizes} :
       mailbox' = Append(mailbox, m)
  /\ UNCHANGED <<pool, turn, up, routees, losses, last, target, lost, since>>

RouterStep == Route \/ Seed \/ Spawn \/ Watch \/ Resize \/ Awaited \/ Escalate \/ DropFailed \/ Forget
Next ==
  \/ RouterStep \/ Send
  \/ \E r \in Routees : Fail(r) \/ Shutdown(r) \/ Reinstate(r) \/ Stopped(r)

Spec == Init /\ [][Next]_vars

\* The router's loop is scheduled and a stop that began ends.
FairSpec == Spec /\ WF_vars(RouterStep) /\ \A r \in Routees : WF_vars(Stopped(r))

-----------------------------------------------------------------------------
ForwardStep ==
  Takes("user") /\ mailbox' = Tail(mailbox) =>
    /\ last' \subseteq Running
    /\ last' = {} <=> Running = {} \/ Of \in {"ask", "bad"}
    /\ Strategy = "fanOut" /\ last' # {} => last' = Running

\* deliver(), lookup(), broadcast(): a user message goes to routees that run in
\* the turn it is handled, and to nobody exactly when no routee of the router
\* runs at all, its key extractor throws, or it is an ask of a broadcast; a
\* broadcast goes to all who run.
Forwarded == [][ForwardStep]_vars

\* grow(), shrink(), dropFailed(), forget(): between turns no running
\* routee is out of the rotation and none is in it twice, and with no
\* failure pending the pool has the size last asked for, less what it lost.
PoolHolds ==
  up /\ turn = Idle /\ minted > 0 =>
    /\ Running \subseteq ToSet(members) /\ IsInjective(members)
    /\ (\A i \in DOMAIN mailbox : mailbox[i].kind \notin {"panicking", "panic"}) =>
         /\ Cardinality(Running) <= target
         /\ ~lost => Cardinality(Running) = target

TurnStep ==
  \A s, r \in Routees :
    <<s, r>> \in since /\ s \in Running /\ Takes("user") /\ mailbox' = Tail(mailbox)
    => last' # {r}

\* nextMember(): while the pool does not change, no routee is served twice
\* before another one that runs is served.
TakesTurns == [][TurnStep]_vars

\* watch(), forget(): a routee that stops leaves the rotation, if it ran when the
\* router called watch(); watch() does nothing for one that does not.
WatchedLeave ==
  []<>(up => \A r \in watched : status[r] = "stopped" => r \notin ToSet(members))

\* grow()'s comment: the router spawns routees, "watching each one so its
\* death leaves the rotation".
DeadLeave == \A r \in Routees : (up /\ status[r] = "stopped") ~> (~up \/ r \notin ToSet(members))

\* dropFailed()'s comment: a routee that failed is dropped and the pool
\* shrinks; the router itself does not fail for it.
RouterStands == up
=============================================================================
