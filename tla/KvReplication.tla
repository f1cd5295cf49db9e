---------------------------- MODULE KvReplication ----------------------------
(***************************************************************************)
(* One key of one partition on all the nodes of a cluster: routing of      *)
(* writes and reads to the primary (kv/replication.ts), replication to the *)
(* backups (kv/primary.backup.ts), and the moves of fragments that a new   *)
(* routing table starts (kv/recovery.ts, clustering.ts).                   *)
(*                                                                         *)
(* A node is its rank by age.  What a node holds of the partition is one   *)
(* number: 0 is nothing, 1 its other keys and above that the timestamp of  *)
(* the key's entry, so that a merge is a maximum.  Clocks are taken to     *)
(* agree here; KvEngine is about one node's clock.  A fragment moves in    *)
(* one chunk, a comparison of two replicas is one step, and tables come in *)
(* one line of versions.                                                   *)
(***************************************************************************)
EXTENDS Integers, Sequences, FiniteSets

CONSTANTS
  Nodes,         \* ranks by age
  Initial,       \* the members at first
  Walk,          \* the members clockwise from the partition's position
  Assigned,      \* the ring's primary for each set of members
  ReplicaCount, WriteQuorum,
  Ops,           \* writes, numbered in the order they are issued
  Claims,        \* the conditional ones (ifAbsent)
  Occupied,      \* the partition holds other keys from the start
  Writers, Readers,  \* the nodes at which writes and reads enter
  Async,         \* ReplicationMode is "async"
  MaxCrashes, MaxLost, MaxTables

VARIABLES
  alive, members, view,
  tables,     \* the tables authored: owners, primary last, and author
  table,      \* table[n]: version installed at n, 0 for none
  ring,       \* ring[n]: the members n's ring was built from
  data,       \* data[n]: what n holds of the partition
  empty,      \* the nodes whose last report did not list the partition
  pulls,      \* pulls[n]: backups a recovering primary still has to pull from
  fresh,      \* fresh[n]: backups to refill after that
  moves,      \* pushes of a fragment or an entry on their way
  clock,      \* the last timestamp
  writes, read, lost

vars == <<alive, members, view, tables, table, ring, data, empty, pulls, fresh, moves, clock,
          writes, read, lost>>

Least(S) == CHOOSE x \in S : \A y \in S : x <= y
Most(S) == CHOOSE x \in S : \A y \in S : y <= x
Final(s) == s[Len(s)]

\* backups(): the next members clockwise, without the ring's primary.
Backups(R) ==
  LET others == SelectSeq(Walk, LAMBDA n : n \in R /\ n # Assigned[R])
  IN  {others[i] : i \in {j \in 1 .. Len(others) : j < ReplicaCount}}

Owners(n) == tables[table[n]].owners
Primary(n) == Final(Owners(n))

\* #isRecovering()
Recovering(n) == pulls[n] # {}

Idle == [phase |-> "idle", at |-> 0, stamp |-> 0, waiting |-> {}, acks |-> 0, needed |-> 0]
NoRead == [phase |-> "idle", at |-> 0, floor |-> 0, asked |-> {}, seen |-> {}, value |-> 0]

TypeOK ==
  /\ alive \subseteq Nodes /\ members \subseteq Nodes
  /\ view \in [Nodes -> SUBSET Nodes] /\ ring \in [Nodes -> SUBSET Nodes]
  /\ table \in [Nodes -> 0 .. Len(tables)]
  /\ data \in [Nodes -> 0 .. clock] /\ clock \in 1 .. Cardinality(Ops) + 1
  /\ empty \subseteq Nodes /\ pulls \in [Nodes -> SUBSET Nodes]
  /\ lost \in 0 .. MaxLost /\ Len(tables) <= MaxTables

-----------------------------------------------------------------------------
\* Membership: a crash, its detection, a join, and a node hearing of either.

Crash(n) ==
  /\ n \in alive /\ Cardinality(Nodes \ alive) < MaxCrashes
  /\ alive' = alive \ {n}
  /\ data' = [data EXCEPT ![n] = 0]
  /\ pulls' = [pulls EXCEPT ![n] = {}]
  /\ moves' = {m \in moves : ~(m.from = n /\ m.kind = "drained")}
  /\ writes' = [o \in Ops |-> IF writes[o].phase = "waiting" /\ writes[o].at = n
                              THEN [writes[o] EXCEPT !.phase = "failed"] ELSE writes[o]]
  /\ read' = IF read.at = n /\ read.phase \in {"sent", "gather"}
             THEN [read EXCEPT !.phase = "failed"] ELSE read
  /\ UNCHANGED <<members, view, tables, table, ring, empty, fresh, clock, lost>>

Detect(n) ==
  /\ n \in members \ alive
  /\ members' = members \ {n}
  /\ UNCHANGED <<alive, view, tables, table, ring, data, empty, pulls, fresh, moves, clock,
                 writes, read, lost>>

Join(n) ==
  /\ n \in alive \ members /\ n \notin Initial
  /\ members' = members \cup {n}
  /\ view' = [view EXCEPT ![n] = members']
  /\ UNCHANGED <<alive, tables, table, ring, data, empty, pulls, fresh, moves, clock, writes,
                 read, lost>>

Hear(n) ==
  /\ n \in alive \cap members /\ view[n] # members
  /\ view' = [view EXCEPT ![n] = members]
  /\ UNCHANGED <<alive, members, tables, table, ring, data, empty, pulls, fresh, moves, clock,
                 writes, read, lost>>

\* isRetained(): a previous owner stays until it is dead or reports nothing.
Retained(owner, primary, live) == owner # primary /\ owner \in live /\ owner \notin empty

\* rebalance(), #recompute(), evolveOwners(): a new version when owners changed.
Author(c) ==
  LET last == Final(tables)
      primary == Assigned[view[c]]
      owners == Append(SelectSeq(last.owners, LAMBDA o : Retained(o, primary, view[c])), primary)
  IN  /\ c \in alive /\ c \in view[c] /\ c = Least(view[c])
      /\ last.author = c \/ table[c] = Len(tables)
      /\ owners # last.owners
      /\ Len(tables) < MaxTables
      /\ tables' = Append(tables, [owners |-> owners, author |-> c])
      /\ empty' = {}
      /\ UNCHANGED <<alive, members, view, table, ring, data, pulls, fresh, moves, clock, writes,
                     read, lost>>

\* #localReport(), in the answer to a push.
Reported(n) == IF data[n] = 0 THEN empty \cup {n} ELSE empty \ {n}

\* The periodic push of the current table: the answer is a report.
Report(n) ==
  /\ n \in alive /\ table[n] = Len(tables)
  /\ empty' = Reported(n) /\ empty' # empty
  /\ UNCHANGED <<alive, members, view, tables, table, ring, data, pulls, fresh, moves, clock,
                 writes, read, lost>>

-----------------------------------------------------------------------------
Push(kind, from, to, entry, keep) ==
  [kind |-> kind, from |-> from, to |-> to, entry |-> entry, keep |-> keep]

\* #isCrashPromotion()
IsCrashPromotion(n, v) ==
  /\ tables[v].owners = <<n>>
  /\ table[n] # 0 /\ Primary(n) # n
  /\ Primary(n) \notin view[n]

\* #freshBackups(): for a primary that had a ring before, the backups this adds.
FreshBackups(n, v) ==
  IF Final(tables[v].owners) = n /\ table[n] # 0
  THEN Backups(view[n]) \ Backups(ring[n]) ELSE {}

\* #refill(): the fragment as it is now goes to each.
Refill(n, backups, entry) == {Push("refill", n, b, entry, TRUE) : b \in backups}

\* drain(): a previous owner's fragment goes to the primary.
Drain(n, v) ==
  LET owners == tables[v].owners
  IN  {Push("drain", n, Final(owners), data[n], n \in Backups(view[n])) :
         i \in {j \in 1 .. Len(owners) - 1 : owners[j] = n}}

\* #serveTable(), #applyLocalTable(), onTable(): adopts a newer table of the
\* believed coordinator, builds the ring from the node's own view, and starts
\* the moves.
Install(n, v) ==
  LET backups == Backups(view[n])
      recover == IsCrashPromotion(n, v) /\ backups # {}
  IN  /\ n \in alive /\ v > table[n]
      /\ n \in view[n] /\ tables[v].author = Least(view[n])
      /\ table' = [table EXCEPT ![n] = v]
      /\ ring' = [ring EXCEPT ![n] = view[n]]
      /\ empty' = IF v = Len(tables) THEN Reported(n) ELSE empty
      /\ pulls' = IF recover THEN [pulls EXCEPT ![n] = backups] ELSE pulls
      /\ fresh' = IF recover THEN [fresh EXCEPT ![n] = FreshBackups(n, v)] ELSE fresh
      /\ moves' = moves \cup Drain(n, v) \cup
           IF recover THEN {} ELSE Refill(n, FreshBackups(n, v), data[n])
      /\ UNCHANGED <<alive, members, view, tables, data, clock, writes, read, lost>>

\* #recover(), pull(): the survivor's fragment is merged, or skipped when it
\* does not answer; after the last one the mark is cleared and backups refilled.
Pull(n, b) ==
  \E answers \in BOOLEAN :
    LET entry == IF answers THEN Most({data[n], data[b]}) ELSE data[n]
    IN  /\ n \in alive /\ b \in pulls[n]
        /\ answers => b \in alive
        /\ ~answers /\ b \in alive => lost < MaxLost
        /\ lost' = IF ~answers /\ b \in alive THEN lost + 1 ELSE lost
        /\ data' = [data EXCEPT ![n] = entry]
        /\ pulls' = [pulls EXCEPT ![n] = @ \ {b}]
        /\ moves' = IF pulls[n] = {b} THEN moves \cup Refill(n, fresh[n], entry) ELSE moves
        /\ UNCHANGED <<alive, members, view, tables, table, ring, empty, fresh, clock, writes,
                       read>>

\* fragmentPush, replicate of a read repair: the receiver merges.
Arrive(m) ==
  /\ m \in moves /\ m.kind # "drained" /\ m.to \in alive
  /\ data' = [data EXCEPT ![m.to] = Most({@, m.entry})]
  /\ moves' = (moves \ {m}) \cup
       IF m.kind = "drain" /\ m.from \in alive THEN {[m EXCEPT !.kind = "drained"]} ELSE {}
  /\ UNCHANGED <<alive, members, view, tables, table, ring, empty, pulls, fresh, clock, writes,
                 read, lost>>

\* A push that is not acknowledged, and not repeated.
Miss(m) ==
  /\ m \in moves /\ m.kind # "drained"
  /\ \/ {m.from, m.to} \cap alive # {m.from, m.to} /\ UNCHANGED lost
     \/ m.to \in alive /\ lost < MaxLost /\ lost' = lost + 1
  /\ moves' = moves \ {m}
  /\ UNCHANGED <<alive, members, view, tables, table, ring, data, empty, pulls, fresh, clock,
                 writes, read>>

\* #drainOne(), on the acknowledgment: drops the copy unless it is a backup's.
Drained(m) ==
  /\ m \in moves /\ m.kind = "drained"
  /\ moves' = moves \ {m}
  /\ data' = IF m.keep THEN data ELSE [data EXCEPT ![m.from] = 0]
  /\ UNCHANGED <<alive, members, view, tables, table, ring, empty, pulls, fresh, clock, writes,
                 read, lost>>

\* A repair that only pushes, a bug.
Repair_Pushes(n, b) ==
  /\ n \in alive /\ b \in alive /\ table[n] # 0 /\ Primary(n) = n /\ b \in Backups(ring[n])
  /\ data[n] > data[b]
  /\ data' = [data EXCEPT ![b] = data[n]]
  /\ UNCHANGED <<alive, members, view, tables, table, ring, empty, pulls, fresh, moves, clock,
                 writes, read, lost>>

\* #repairTick(), sync(): a primary and a backup converge on the newer entry.
Repair(n, b) ==
  /\ n \in alive /\ b \in alive /\ table[n] # 0 /\ Primary(n) = n /\ b \in Backups(ring[n])
  /\ data[n] # data[b]
  /\ data' = [data EXCEPT ![n] = Most({data[n], data[b]}), ![b] = Most({data[n], data[b]})]
  /\ UNCHANGED <<alive, members, view, tables, table, ring, empty, pulls, fresh, moves, clock,
                 writes, read, lost>>

-----------------------------------------------------------------------------
\* The rebalance gate: a conditional write needs one owner that is up to date.
Gated(n, o) == o \in Claims /\ (Len(Owners(n)) > 1 \/ Recovering(n))

Settle(o, phase) ==
  /\ writes' = [writes EXCEPT ![o] = [@ EXCEPT !.phase = phase]]
  /\ UNCHANGED <<data, clock>>

\* A quorum that counts the primary twice, a bug.
Needed_Twice(backups) ==
  IF Async THEN 0 ELSE Least({Most({0, WriteQuorum - 2}), Cardinality(backups)})

\* #replicate(): the acknowledgments a write waits for, beyond its own.
Needed(backups) == IF Async THEN 0 ELSE Least({WriteQuorum - 1, Cardinality(backups)})

\* propose(), #replicate(): applied locally, sent to the backups; acknowledged
\* at once when there is nobody to wait for.
Propose(o, n) ==
  LET backups == Backups(ring[n])
      needed == Needed(backups)
  IN  IF o \in Claims /\ data[n] > 1
      THEN Settle(o, "taken")
      ELSE /\ clock' = clock + 1
           /\ data' = [data EXCEPT ![n] = clock + 1]
           /\ writes' = [writes EXCEPT ![o] =
                [phase |-> IF needed = 0 THEN "acked" ELSE "waiting", at |-> n,
                 stamp |-> clock + 1, waiting |-> backups, acks |-> 0, needed |-> needed]]

\* write(): at the node the request enters.
Issue(o, n) ==
  /\ writes[o].phase = "idle" /\ \A p \in Ops : p < o => writes[p].phase # "idle"
  /\ n \in alive \cap Writers /\ table[n] # 0
  /\ \/ Gated(n, o) /\ Settle(o, "refused")
     \/ ~Gated(n, o) /\ Primary(n) = n /\ Propose(o, n)
     \/ /\ ~Gated(n, o) /\ Primary(n) # n
        /\ writes' = [writes EXCEPT ![o] =
             [@ EXCEPT !.phase = "sent", !.at = Primary(n)]]
        /\ UNCHANGED <<data, clock>>
  /\ UNCHANGED <<alive, members, view, tables, table, ring, empty, pulls, fresh, moves, read, lost>>

\* A request whose answer does not come: its node is dead, or it is lost.
Unanswered(n) ==
  \/ n \notin alive /\ UNCHANGED lost
  \/ n \in alive /\ lost < MaxLost /\ lost' = lost + 1

\* #serveWrite(): the gate again, by the table of the node the request was
\* forwarded to, which need not be the sender's nor name this node the primary.
Serve(o) ==
  LET n == writes[o].at
  IN  /\ writes[o].phase = "sent"
      /\ \/ n \in alive /\ table[n] # 0 /\ Gated(n, o) /\ Settle(o, "refused") /\ UNCHANGED lost
         \/ n \in alive /\ table[n] # 0 /\ ~Gated(n, o) /\ Propose(o, n) /\ UNCHANGED lost
         \/ n \in alive /\ table[n] = 0 /\ Settle(o, "failed") /\ UNCHANGED lost
         \/ Unanswered(n) /\ Settle(o, "failed")
      /\ UNCHANGED <<alive, members, view, tables, table, ring, empty, pulls, fresh, moves, read>>

\* firstAcks(): a send settled, with an acknowledgment or without.
Answered(o, b, acked) ==
  LET w == writes[o]
      acks == IF acked THEN w.acks + 1 ELSE w.acks
      phase == IF w.phase # "waiting" THEN w.phase
               ELSE IF acks >= w.needed THEN "acked"
               ELSE IF w.waiting = {b} THEN "failed"
               ELSE "waiting"
  IN  writes' = [writes EXCEPT ![o] =
        [w EXCEPT !.phase = phase, !.acks = acks, !.waiting = @ \ {b}]]

\* replicate at a backup and its acknowledgment, or the loss of either; what a
\* node that crashed had sent may be lost with it.
Replicate(o, b) ==
  /\ b \in writes[o].waiting
  /\ \/ b \in alive /\ Answered(o, b, TRUE) /\ UNCHANGED lost
        /\ data' = [data EXCEPT ![b] = Most({@, writes[o].stamp})]
     \/ {b, writes[o].at} \cap alive # {b, writes[o].at} /\ Answered(o, b, FALSE)
        /\ UNCHANGED <<data, lost>>
     \/ lost < MaxLost /\ lost' = lost + 1 /\ Answered(o, b, FALSE)
        /\ \/ UNCHANGED data
           \/ b \in alive /\ data' = [data EXCEPT ![b] = Most({@, writes[o].stamp})]
  /\ UNCHANGED <<alive, members, view, tables, table, ring, empty, pulls, fresh, moves, clock, read>>

-----------------------------------------------------------------------------
\* Writes whose client was told they are done.
Acked == {o \in DOMAIN writes : writes[o].phase = "acked"}
LastAcked == Most({0} \cup {writes[o].stamp : o \in Acked})

\* #gather(), #peekFrom(): its own entry at once, the others are asked.
Gather(n, owners) ==
  [read EXCEPT !.phase = "gather", !.at = n, !.asked = owners \ {n},
               !.seen = {[owner |-> o, entry |-> data[o]] : o \in owners \cap {n}}]

\* #servePrimaryRead(): local, or gathered while the primary recovers.
ServeRead(n) ==
  IF Recovering(n) THEN Gather(n, {n} \cup Backups(ring[n]))
  ELSE [read EXCEPT !.phase = "done", !.at = n, !.value = data[n]]

\* read(): gathered over the owners of a fragmented partition, else the primary's.
StartRead(n) ==
  /\ read.phase = "idle" /\ n \in alive \cap Readers /\ table[n] # 0
  /\ read' = [
       IF Len(Owners(n)) > 1 THEN Gather(n, {Owners(n)[i] : i \in 1 .. Len(Owners(n))})
       ELSE IF Primary(n) = n THEN ServeRead(n)
       ELSE [read EXCEPT !.phase = "sent", !.at = Primary(n)]
       EXCEPT !.floor = LastAcked]
  /\ UNCHANGED <<alive, members, view, tables, table, ring, data, empty, pulls, fresh, moves, clock,
                 writes, lost>>

\* receive() of a readRequest, at whatever table the node holds; without one
\* #groupFor() throws.
ReadAtPrimary ==
  /\ read.phase = "sent"
  /\ \/ read.at \in alive /\ table[read.at] # 0 /\ read' = ServeRead(read.at) /\ UNCHANGED lost
     \/ read.at \in alive /\ table[read.at] = 0 /\ read' = [read EXCEPT !.phase = "failed"]
        /\ UNCHANGED lost
     \/ Unanswered(read.at) /\ read' = [read EXCEPT !.phase = "failed"]
  /\ UNCHANGED <<alive, members, view, tables, table, ring, data, empty, pulls, fresh, moves, clock,
                 writes>>

\* After the last answer #gather() takes the newest entry, and #readRepair()
\* merges it here and sends it to the other owners with less.
Gathered(seen) ==
  LET winner == Most({s.entry : s \in seen})
      stale == {s.owner : s \in {t \in seen : winner > 1 /\ t.entry < winner}}
  IN  /\ read' = [read EXCEPT !.asked = {}, !.seen = {}, !.phase = "done", !.value = winner]
      /\ data' = IF read.at \in stale THEN [data EXCEPT ![read.at] = Most({@, winner})] ELSE data
      /\ moves' = moves \cup
           {Push("repair", read.at, s, winner, TRUE) : s \in stale \ {read.at}}

\* #peekFrom(): an owner's raw entry, nothing when it does not answer.
Peek(b) ==
  \E entry \in {data[b], 0} :
    LET seen == read.seen \cup {[owner |-> b, entry |-> entry]}
    IN  /\ read.phase = "gather" /\ b \in read.asked
        /\ \/ b \in alive /\ entry = data[b] /\ UNCHANGED lost
           \/ entry = 0 /\ Unanswered(b)
        /\ IF read.asked = {b} THEN Gathered(seen)
           ELSE /\ read' = [read EXCEPT !.asked = @ \ {b}, !.seen = seen]
                /\ UNCHANGED <<data, moves>>
        /\ UNCHANGED <<alive, members, view, tables, table, ring, empty, pulls, fresh, clock,
                       writes>>

-----------------------------------------------------------------------------
Init ==
  /\ alive = Nodes /\ members = Initial
  /\ view = [n \in Nodes |-> IF n \in Initial THEN Initial ELSE {}]
  /\ tables = <<[owners |-> <<Assigned[Initial]>>, author |-> Least(Initial)]>>
  /\ table = [n \in Nodes |-> IF n \in Initial THEN 1 ELSE 0]
  /\ ring = view
  /\ data = [n \in Nodes |->
       IF Occupied /\ n \in {Assigned[Initial]} \cup Backups(Initial) THEN 1 ELSE 0]
  /\ empty = {} /\ moves = {} /\ clock = 1 /\ lost = 0
  /\ pulls = [n \in Nodes |-> {}] /\ fresh = [n \in Nodes |-> {}]
  /\ writes = [o \in Ops |-> Idle]
  /\ read = NoRead

\* What the runtime and the network bring about by themselves.
Progress ==
  \/ \E n \in Nodes : Detect(n) \/ Join(n) \/ Hear(n) \/ Author(n) \/ Report(n)
  \/ \E n \in Nodes, v \in 1 .. Len(tables) : Install(n, v)
  \/ \E n, b \in Nodes : Pull(n, b) \/ Repair(n, b)
  \/ \E m \in moves : Arrive(m) \/ Miss(m) \/ Drained(m)
  \/ \E o \in Ops : Serve(o)
  \/ \E o \in Ops, b \in Nodes : Replicate(o, b)
  \/ ReadAtPrimary
  \/ \E b \in Nodes : Peek(b)

Next ==
  \/ Progress
  \/ \E n \in Nodes : Crash(n) \/ StartRead(n)
  \/ \E o \in Ops, n \in Nodes : Issue(o, n)

Spec == Init /\ [][Next]_vars /\ WF_vars(Progress)

-----------------------------------------------------------------------------
\* primary.backup.ts, recovery.ts: no sequence of promotions, drains, repairs,
\* stale requests and lost messages loses an acknowledged write: some live node
\* holds it or a newer one.
AckedSurvives == \E n \in alive : data[n] >= LastAcked

\* #servePrimaryRead(), #gather(): a read does not miss a write that was
\* acknowledged before it began.
ReadsSeeAcked == read.phase = "done" => read.value >= read.floor

\* write(), #serveWrite(): of several claims of a key at most one succeeds.
OneClaim == Cardinality(Acked \cap Claims) <= 1

\* Recovery and repair bring every acknowledged write to the primary in force.
AckedReachPrimary == <>[](data[Final(Final(tables).owners)] >= LastAcked)

\* evolveOwners(): a fragmented partition comes back to one owner.
Unfragments == <>[](Len(Final(tables).owners) = 1)
=============================================================================
