------------------------------ MODULE Hierarchy ------------------------------
(***************************************************************************)
(* The actor hierarchy: spawning, stopping and watching as they meet in    *)
(* the tree (src/src/pid.tree.ts, src/src/pid.ts).  An actor is seen from  *)
(* outside: its mailbox and its behaviours only decide when it is idle,    *)
(* and module ActorCell models them.  Each step is what runs between two   *)
(* awaits of start(), doShutdown() or restart().                           *)
(***************************************************************************)
EXTENDS Integers, Sequences, FiniteSets

CONSTANTS
  Pids,          \* PIDs, numbered in the order of creation, the guardian included
  Root,          \* the guardian top-level actors are spawned under
  Names,         \* names of children
  Nil,           \* no PID
  Watchers,      \* PIDs that call watch() and unWatch()
  MaxRestarts,   \* bound: calls of restart()
  MaxWatches     \* bound: calls of watch()

ASSUME HierarchyAssumption ==
  /\ Pids \subseteq Nat /\ Root \in Pids /\ Nil \notin Pids /\ Watchers \subseteq Pids
  /\ MaxRestarts \in Nat /\ MaxWatches \in Nat

VARIABLES
  life,        \* how far each actor is
  parent,      \* PID._parent
  path,        \* PID._path, the names from the guardian down
  inTree,      \* the actors whose in-tree mark is set
  kids,        \* PidTree.childrenOf, by name
  forest,      \* PidTree.forest
  count,       \* PidTree._count
  watchersOf, watcheesOf,
  waits,       \* the children a stop awaits
  restart,     \* how far a restart is
  restartWaits,
  inbox,       \* <<w, q>>: w's mailbox accepted q's Terminated
  wanted,      \* <<w, q>>: w asked to watch q and did not take it back
  loose,       \* history: actors that stops from above no longer see
  restarts, watches

tree == <<inTree, kids, forest, count>>
watching == <<watchersOf, watcheesOf, inbox, wanted, watches>>
restarting == <<restart, restartWaits, restarts>>
vars == <<life, parent, path, tree, watching, waits, restarting, loose>>

Stopping == {"draining", "children", "postStop"}
Live == {"running", "suspended"} \cup Stopping

\* A started tree: the guardian runs and nothing is under it.
Init ==
  /\ life = [p \in Pids |-> IF p = Root THEN "running" ELSE "new"]
  /\ parent = [p \in Pids |-> Nil] /\ path = [p \in Pids |-> <<>>]
  /\ inTree = {Root} /\ forest = {Root} /\ count = 1
  /\ kids = [p \in Pids |-> [n \in Names |-> Nil]]
  /\ watchersOf = [p \in Pids |-> {}] /\ watcheesOf = [p \in Pids |-> {}]
  /\ waits = [p \in Pids |-> {}] /\ loose = {}
  /\ restart = [p \in Pids |-> "no"] /\ restartWaits = [p \in Pids |-> {}]
  /\ inbox = {} /\ wanted = {} /\ restarts = 0 /\ watches = 0

-----------------------------------------------------------------------------
(* The tree                                                                *)

Name(p) == path[p][Len(path[p])]
Kids(p) == {kids[p][n] : n \in Names} \ {Nil}
children(p) == IF p \in inTree THEN Kids(p) ELSE {}
watchers(p) == IF p \in inTree THEN watchersOf[p] ELSE {}
watchees(p) == IF p \in inTree THEN watcheesOf[p] ELSE {}

\* The actors deleteNode() and descendants() walk to from p, p included.
Subtree(p) ==
  LET below[d \in 0..Cardinality(Pids)] ==
        IF d = 0 THEN {p} ELSE below[d - 1] \cup UNION {Kids(q) : q \in below[d - 1]}
  IN below[Cardinality(Pids)]

\* dropFromParent() of every actor of S, on a forest and a children index.
DropKids(k, S) ==
  [p \in Pids |-> [n \in Names |->
     IF k[p][n] \in S /\ parent[k[p][n]] = p THEN Nil ELSE k[p][n]]]
DropRoots(f, S) ==
  {r \in f : ~(r \in S /\ (parent[r] = Nil \/ kids[parent[r]][Name(r)] # r))}

\* The actor, if any, whose place c takes.
Same(c) ==
  IF parent[c] \in inTree THEN {kids[parent[c]][Name(c)]} \ {Nil}
                          ELSE {r \in forest : path[r] = path[c]}

\* Mutant: whoever holds the place keeps its mark.
AddNode_Marked(c) ==
  LET p == parent[c]
      hosted == p \in inTree
      clean == DropKids(kids, Same(c))
  IN /\ kids' = IF hosted THEN [clean EXCEPT ![p][Name(c)] = c] ELSE clean
     /\ forest' = DropRoots(forest, Same(c)) \cup (IF hosted THEN {} ELSE {c})
     /\ inTree' = inTree \cup {c}
     /\ count' = count + 1

\* addNode(): under the parent if that is in the tree, into the forest if
\* not.  Whoever holds the place is detached without its children.
AddNode(c) ==
  LET p == parent[c]
      hosted == p \in inTree
      clean == DropKids(kids, Same(c))
  IN /\ kids' = IF hosted THEN [clean EXCEPT ![p][Name(c)] = c] ELSE clean
     /\ forest' = DropRoots(forest, Same(c)) \cup (IF hosted THEN {} ELSE {c})
     /\ inTree' = (inTree \ Same(c)) \cup {c}
     /\ count' = count - Cardinality(Same(c)) + 1

\* Mutant: only the actor itself is unlinked.
DeleteNode_Alone(p) ==
  IF p \notin inTree THEN UNCHANGED <<tree, watchersOf, watcheesOf>>
  ELSE /\ inTree' = inTree \ {p} /\ count' = count - 1
       /\ kids' = [DropKids(kids, {p}) EXCEPT ![p] = [n \in Names |-> Nil]]
       /\ forest' = DropRoots(forest, {p})
       /\ watchersOf' = [q \in Pids |-> IF q = p THEN {} ELSE watchersOf[q] \ {p}]
       /\ watcheesOf' = [q \in Pids |-> IF q = p THEN {} ELSE watcheesOf[q] \ {p}]

\* Mutant: an actor that left the tree before is counted out again.
DeleteNode_Unchecked(p) ==
  LET S == Subtree(p)
  IN /\ inTree' = inTree \ S /\ count' = count - Cardinality(S)
     /\ kids' = [q \in Pids |-> IF q \in S THEN [n \in Names |-> Nil] ELSE DropKids(kids, S)[q]]
     /\ forest' = DropRoots(forest, S)
     /\ UNCHANGED <<watchersOf, watcheesOf>>

\* deleteNode(): the whole subtree, and every watch one of it appears in.
DeleteNode(p) ==
  LET S == Subtree(p)
  IN IF p \notin inTree THEN UNCHANGED <<tree, watchersOf, watcheesOf>>
     ELSE /\ inTree' = inTree \ S /\ count' = count - Cardinality(S)
          /\ kids' = [q \in Pids |-> IF q \in S THEN [n \in Names |-> Nil]
                                     ELSE DropKids(kids, S)[q]]
          /\ forest' = DropRoots(forest, S)
          /\ watchersOf' = [q \in Pids |-> IF q \in S THEN {}
              ELSE watchersOf[q] \ {w \in S : q \in watcheesOf[w]}]
          /\ watcheesOf' = [q \in Pids |-> IF q \in S THEN {}
              ELSE watcheesOf[q] \ {w \in S : q \in watchersOf[w]}]

-----------------------------------------------------------------------------
(* Spawning                                                                *)

\* spawnChild() and the system's spawn(): a free name under a running
\* parent; the child's preStart() begins.
SpawnChild(p, n) ==
  /\ life[p] = "running"
  /\ p \notin inTree \/ kids[p][n] = Nil
  /\ \E c \in Pids :
       /\ life[c] = "new" /\ \A d \in Pids : life[d] = "new" => c <= d
       /\ life' = [life EXCEPT ![c] = "starting"]
       /\ parent' = [parent EXCEPT ![c] = p]
       /\ path' = [path EXCEPT ![c] = Append(path[p], n)]
  /\ UNCHANGED <<tree, watching, waits, restarting, loose>>

\* The actors that stops from above no longer see once c has started: those
\* below whom it replaces, and c itself if its parent is past stopping children.
CutOff(c) ==
  UNION {Subtree(r) : r \in Same(c)} \cup
    (IF life[parent[c]] \in {"running", "suspended", "draining"} /\ parent[c] \in inTree
     THEN {} ELSE {c})

\* start() after preStart(): the actor runs and joins the tree, whatever
\* became of its parent meanwhile.
Started(c) ==
  /\ life[c] = "starting"
  /\ life' = [life EXCEPT ![c] = "running"]
  /\ AddNode(c)
  /\ loose' = loose \cup CutOff(c)
  /\ UNCHANGED <<parent, path, watching, waits, restarting>>

\* preStart() throws: the child is never registered.
StartFails(c) ==
  /\ life[c] = "starting"
  /\ life' = [life EXCEPT ![c] = "failed"]
  /\ UNCHANGED <<parent, path, tree, watching, waits, restarting, loose>>

-----------------------------------------------------------------------------
(* Stopping                                                                *)

\* shutdown() of every actor of S; one that stops already is left alone.
ShutdownAll(S) ==
  [p \in Pids |-> IF p \in S /\ life[p] \in {"running", "suspended"} THEN "draining" ELSE life[p]]

\* shutdown(), whoever calls it; the receive loop may still be busy.
Shutdown(p) ==
  /\ life[p] \in {"running", "suspended"}
  /\ life' = ShutdownAll({p})
  /\ UNCHANGED <<parent, path, tree, watching, waits, restarting, loose>>

\* stop(): a parent stops the child it knows under that path.
Stop(p, c) ==
  /\ life[p] = "running"
  /\ life[c] \in {"running", "suspended"}
  /\ c # Root /\ kids[p][Name(c)] # Nil
  /\ p \in inTree /\ path[kids[p][Name(c)]] = path[c]
  /\ life' = ShutdownAll({c})
  /\ UNCHANGED <<parent, path, tree, watching, waits, restarting, loose>>

\* The watches p still holds end before its postStop().
ReleaseWatchees(p) ==
  /\ watchersOf' = [q \in Pids |-> IF q \in watchees(p) THEN watchersOf[q] \ {p} ELSE watchersOf[q]]
  /\ watcheesOf' = [watcheesOf EXCEPT ![p] = @ \ watchees(p)]

\* Mutant: the children are told to stop, but not awaited.
Drained_NoWait(p) ==
  /\ life[p] = "draining"
  /\ life' = [ShutdownAll(children(p)) EXCEPT ![p] = "postStop"]
  /\ ReleaseWatchees(p)
  /\ UNCHANGED <<parent, path, tree, inbox, wanted, watches, waits, restarting, loose>>

\* doShutdown() once the loop is idle: the children of this moment stop;
\* without any the actor goes straight to its postStop().
Drained(p) ==
  /\ life[p] = "draining"
  /\ waits' = [waits EXCEPT ![p] = children(p)]
  /\ IF children(p) = {}
     THEN life' = [life EXCEPT ![p] = "postStop"] /\ ReleaseWatchees(p)
     ELSE /\ life' = [ShutdownAll(children(p)) EXCEPT ![p] = "children"]
          /\ UNCHANGED <<watchersOf, watcheesOf>>
  /\ UNCHANGED <<parent, path, tree, inbox, wanted, watches, restarting, loose>>

\* Mutant: waits until there are no children, not for those it stopped.
ChildrenStopped_None(p) ==
  /\ life[p] = "children"
  /\ children(p) = {}
  /\ life' = [life EXCEPT ![p] = "postStop"]
  /\ waits' = [waits EXCEPT ![p] = {}]
  /\ ReleaseWatchees(p)
  /\ UNCHANGED <<parent, path, tree, inbox, wanted, watches, restarting, loose>>

\* The awaited children have stopped; postStop() begins.
ChildrenStopped(p) ==
  /\ life[p] = "children"
  /\ \A c \in waits[p] : life[c] = "stopped"
  /\ life' = [life EXCEPT ![p] = "postStop"]
  /\ waits' = [waits EXCEPT ![p] = {}]
  /\ ReleaseWatchees(p)
  /\ UNCHANGED <<parent, path, tree, inbox, wanted, watches, restarting, loose>>

\* Mutant: reset() before the death notice, which then finds no watchers.
NotifyWatchers_Late(p) == UNCHANGED inbox

\* Terminated to every watcher; one that is not running has it dead-lettered.
NotifyWatchers(p) == inbox' = inbox \cup {<<w, p>> : w \in {w \in watchers(p) : life[w] = "running"}}

\* postStop() is over: watchers are told, then reset().
TornDown(p) ==
  /\ life[p] = "postStop"
  /\ NotifyWatchers(p)
  /\ DeleteNode(p)
  /\ life' = [life EXCEPT ![p] = "stopped"]
  /\ parent' = [parent EXCEPT ![p] = Nil]
  /\ loose' = loose \cup {c \in Subtree(p) \ {p} : life[c] \in Live}
  /\ UNCHANGED <<path, waits, restarting, wanted, watches>>

-----------------------------------------------------------------------------
(* Faults and restarts                                                     *)

\* A fault suspends the actor.
Suspend(p) ==
  /\ life[p] = "running" /\ p # Root
  /\ life' = [life EXCEPT ![p] = "suspended"]
  /\ UNCHANGED <<parent, path, tree, watching, waits, restarting, loose>>

\* reinstate()
Reinstate(p) ==
  /\ life[p] = "suspended"
  /\ life' = [life EXCEPT ![p] = "running"]
  /\ UNCHANGED <<parent, path, tree, watching, waits, restarting, loose>>

\* restart(): the actor is suspended until the loop is idle.
RestartBegins(p) ==
  /\ restarts < MaxRestarts /\ p # Root
  /\ life[p] \in {"running", "suspended"} /\ restart[p] = "no"
  /\ restarts' = restarts + 1
  /\ restart' = [restart EXCEPT ![p] = "idle"]
  /\ life' = [life EXCEPT ![p] = "suspended"]
  /\ UNCHANGED <<parent, path, tree, watching, waits, restartWaits, loose>>

\* The loop is idle: a stop takes over, or the children are stopped.
RestartIdle(p) ==
  /\ restart[p] = "idle"
  /\ IF life[p] \in Stopping \cup {"stopped"}
     THEN restart' = [restart EXCEPT ![p] = "no"] /\ UNCHANGED <<life, restartWaits>>
     ELSE /\ restart' = [restart EXCEPT ![p] = "children"]
          /\ restartWaits' = [restartWaits EXCEPT ![p] = children(p)]
          /\ life' = ShutdownAll(children(p))
  /\ UNCHANGED <<parent, path, tree, watching, waits, restarts, loose>>

\* The hooks run; a preStart() that fails leaves the actor suspended.
RestartEnds(p) ==
  /\ restart[p] = "children"
  /\ \A c \in restartWaits[p] : life[c] = "stopped"
  /\ restart' = [restart EXCEPT ![p] = "no"]
  /\ restartWaits' = [restartWaits EXCEPT ![p] = {}]
  /\ \/ life' = [life EXCEPT ![p] = IF @ = "suspended" THEN "running" ELSE @]
     \/ UNCHANGED life
  /\ UNCHANGED <<parent, path, tree, watching, waits, restarts, loose>>

-----------------------------------------------------------------------------
(* Death watch                                                             *)

\* Mutant: only the watched side is recorded.
AddWatcher_OneSide(q, w) == watchersOf' = [watchersOf EXCEPT ![q] = @ \cup {w}] /\ UNCHANGED watcheesOf

\* addWatcher(): the watcher's side only if it is in the tree itself.
AddWatcher(q, w) ==
  /\ watchersOf' = [watchersOf EXCEPT ![q] = @ \cup {w}]
  /\ watcheesOf' = IF w \in inTree THEN [watcheesOf EXCEPT ![w] = @ \cup {q}] ELSE watcheesOf

\* watch() by an actor that is alive; no-op unless the other one runs.
Watch(w, q) ==
  /\ watches < MaxWatches /\ w # q
  /\ life[w] \in Live /\ life[q] = "running" /\ q \in inTree
  /\ watches' = watches + 1
  /\ AddWatcher(q, w)
  /\ wanted' = wanted \cup {<<w, q>>}
  /\ UNCHANGED <<life, parent, path, tree, waits, restarting, inbox, loose>>

\* unWatch()
UnWatch(w, q) ==
  /\ <<w, q>> \in wanted /\ life[q] # "stopped"
  /\ watchersOf' = [watchersOf EXCEPT ![q] = @ \ {w}]
  /\ watcheesOf' = [watcheesOf EXCEPT ![w] = @ \ {q}]
  /\ wanted' = wanted \ {<<w, q>>}
  /\ UNCHANGED <<life, parent, path, tree, waits, restarting, inbox, watches, loose>>

-----------------------------------------------------------------------------
Progress(p) ==
  \/ Started(p) \/ Drained(p) \/ ChildrenStopped(p) \/ TornDown(p)
  \/ RestartIdle(p) \/ RestartEnds(p)

Next ==
  \/ \E p \in Pids :
       \/ Started(p) \/ StartFails(p) \/ Shutdown(p)
       \/ Drained(p) \/ ChildrenStopped(p) \/ TornDown(p)
       \/ Suspend(p) \/ Reinstate(p) \/ RestartBegins(p) \/ RestartIdle(p) \/ RestartEnds(p)
       \/ \E n \in Names : SpawnChild(p, n)
       \/ \E c \in Pids : Stop(p, c)
  \/ \E w \in Watchers, q \in Pids : Watch(w, q) \/ UnWatch(w, q)

Spec == Init /\ [][Next]_vars
\* Behaviours and hooks of user code finish.
FairSpec == Spec /\ \A p \in Pids : WF_vars(Progress(p))

-----------------------------------------------------------------------------
(* Properties                                                              *)

TypeOK ==
  /\ life \in [Pids -> {"new", "starting", "failed", "stopped"} \cup Live]
  /\ parent \in [Pids -> Pids \cup {Nil}]
  /\ \A p \in Pids : path[p] \in Seq(Names)
  /\ inTree \subseteq Pids /\ forest \subseteq Pids /\ count \in 0..Cardinality(Pids)
  /\ kids \in [Pids -> [Names -> Pids \cup {Nil}]]
  /\ watchersOf \in [Pids -> SUBSET Pids] /\ watcheesOf \in [Pids -> SUBSET Pids]
  /\ waits \in [Pids -> SUBSET Pids] /\ restartWaits \in [Pids -> SUBSET Pids]
  /\ restart \in [Pids -> {"no", "idle", "children"}]
  /\ inbox \subseteq Pids \X Pids /\ wanted \subseteq Pids \X Pids /\ loose \subseteq Pids
  /\ restarts \in 0..MaxRestarts /\ watches \in 0..MaxWatches

\* PidTree's indexes agree after any history of spawns, stops and restarts,
\* overlapping spawns of one name included: an actor is marked in the tree
\* exactly if it stands in the forest or under its own name below its spawn
\* parent, never both; _count counts the marks; the host is in the tree too
\* unless another actor took its place.
TreeSound ==
  /\ \A p \in Pids : p \in inTree <=>
       \/ p \in forest
       \/ \E q \in Pids : p \in Kids(q)
  /\ \A p \in Pids, n \in Names : kids[p][n] # Nil =>
       /\ p \in inTree \cup loose
       /\ kids[p][n] \notin forest
       /\ parent[kids[p][n]] = p /\ Name(kids[p][n]) = n
  /\ count = Cardinality(inTree)

\* start(), detach(): every live actor stands in the tree, and under a parent
\* that is in it, unless a spawn that overlapped took its place or one above.
InPlace ==
  \A c \in Pids : life[c] \in Live /\ c # Root /\ c \notin loose =>
    kids[parent[c]][Name(c)] = c /\ parent[c] \in inTree

\* doShutdown(): while an actor runs its postStop(), and once it has stopped,
\* none of its children is alive, except those whose start came too late
\* for the stop to see them.
ChildrenFirst ==
  \A c \in Pids : life[c] \in Live /\ c # Root /\ c \notin loose =>
    life[parent[c]] \in {"running", "suspended", "draining", "children"}

\* Comment in doShutdown(): children cannot outlive their parent.
ChildrenStopWithParent ==
  \A c \in Pids : life[c] \in Live /\ c # Root => life[parent[c]] # "stopped"

\* spawnChild(): a live actor is never silently replaced, so no two live
\* actors hold the same path.
NameIsUnique ==
  \A p, q \in Pids : life[p] \in Live /\ life[q] \in Live /\ path[p] = path[q] => p = q

\* A stopped actor is in no watch registration, on neither side, so it keeps
\* nothing alive and is told of nothing.
WatchesEnd ==
  \A p \in Pids : life[p] = "stopped" /\ p \notin loose =>
    /\ watchersOf[p] = {} /\ watcheesOf[p] = {}
    /\ \A q \in Pids : p \notin watchersOf[q] \cup watcheesOf[q]

Ends(q) == life[q] # "stopped" /\ life'[q] = "stopped"

ToldStep ==
  \A w, q \in Pids \ loose : Ends(q) /\ <<w, q>> \in wanted /\ life[w] = "running"
    => <<w, q>> \in inbox'

\* An actor that runs when an actor it watches stops has the Terminated in
\* its mailbox in the same step, whatever stopped, restarted or was released
\* around the two (both inside the tree).
RunningWatcherIsTold == [][ToldStep]_vars

\* Death watch: Terminated fires whenever the watched actor terminates, for
\* every watcher that is not itself stopping.
WatcherIsTold ==
  [][\A w, q \in Pids : Ends(q) /\ <<w, q>> \in wanted /\ life[w] \in {"running", "suspended"}
       => <<w, q>> \in inbox']_vars

\* A stop that began ends, however stops, restarts and spawns of parent and
\* children meet.
StopsEnd == \A p \in Pids : life[p] \in Stopping ~> life[p] = "stopped"
=============================================================================
