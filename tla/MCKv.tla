-------------------------------- MODULE MCKv --------------------------------
(***************************************************************************)
(* The key-value store for TLC: one node's engine, with entries of a peer  *)
(* and without, and the replication of one key while a node crashes or     *)
(* joins.  They share no state; a run explores one of the Parts.           *)
(***************************************************************************)
EXTENDS KvEngine, Sequences

CONSTANT Parts

VARIABLES part,
  alive, members, view, tables, table, ring, data, empty, pulls, fresh, moves, commits,
  writes, read, lost

rVars == <<alive, members, view, tables, table, ring, data, empty, pulls, fresh, moves, commits,
           writes, read, lost>>
mcvars == <<vars, part, rVars>>

Alone == INSTANCE KvEngine WITH Peers <- {}

\* The first member of walk, and the newest member.
First(walk) ==
  [S \in (SUBSET (1 .. 3)) \ {{}} |-> SelectSeq(walk, LAMBDA n : n \in S)[1]]
Newest == [S \in (SUBSET (1 .. 3)) \ {{}} |-> CHOOSE n \in S : \A m \in S : m <= n]

\* Claims and a read while the primary or another node crashes.
Crashing == INSTANCE KvReplication WITH
  Nodes <- 1 .. 3, Initial <- 1 .. 3, Walk <- <<2, 3, 1>>, Assigned <- First(<<2, 3, 1>>),
  ReplicaCount <- 3, WriteQuorum <- 2, Ops <- 1 .. 2, Claims <- 1 .. 2, Occupied <- TRUE,
  Writers <- 1 .. 3, Readers <- 1 .. 3, Async <- FALSE,
  MaxCrashes <- 1, MaxLost <- 0, MaxTables <- 4, clock <- commits

\* A put and a message that is lost, with a crash.
Losing == INSTANCE KvReplication WITH
  Nodes <- 1 .. 3, Initial <- 1 .. 3, Walk <- <<2, 3, 1>>, Assigned <- First(<<2, 3, 1>>),
  ReplicaCount <- 3, WriteQuorum <- 2, Ops <- {1}, Claims <- {}, Occupied <- TRUE,
  Writers <- 1 .. 3, Readers <- 1 .. 3, Async <- FALSE,
  MaxCrashes <- 1, MaxLost <- 1, MaxTables <- 4, clock <- commits

\* A put and a claim while a third node joins and becomes the primary of a partition in use.
Joining == INSTANCE KvReplication WITH
  Nodes <- 1 .. 3, Initial <- 1 .. 2, Walk <- <<3, 1, 2>>, Assigned <- Newest,
  ReplicaCount <- 2, WriteQuorum <- 2, Ops <- 1 .. 2, Claims <- {2}, Occupied <- TRUE,
  Writers <- 1 .. 3, Readers <- {}, Async <- FALSE,
  MaxCrashes <- 0, MaxLost <- 0, MaxTables <- 4, clock <- commits

\* The same for a partition that was never written, with claims at the two primaries.
Unused == INSTANCE KvReplication WITH
  Nodes <- 1 .. 3, Initial <- 1 .. 2, Walk <- <<3, 1, 2>>, Assigned <- Newest,
  ReplicaCount <- 2, WriteQuorum <- 2, Ops <- 1 .. 2, Claims <- 1 .. 2, Occupied <- FALSE,
  Writers <- {2, 3}, Readers <- {}, Async <- FALSE,
  MaxCrashes <- 0, MaxLost <- 0, MaxTables <- 4, clock <- commits

\* A join with the old primary among the new one's backups.
Staying == INSTANCE KvReplication WITH
  Nodes <- 1 .. 3, Initial <- 1 .. 2, Walk <- <<3, 1, 2>>, Assigned <- Newest,
  ReplicaCount <- 3, WriteQuorum <- 2, Ops <- {1}, Claims <- {}, Occupied <- TRUE,
  Writers <- 1 .. 3, Readers <- 1 .. 3, Async <- FALSE,
  MaxCrashes <- 0, MaxLost <- 0, MaxTables <- 4, clock <- commits

MCInit ==
  /\ Init /\ part \in Parts
  /\ \/ part \in {"alone", "peers", "crashing"} /\ Crashing!Init
     \/ part = "losing" /\ Losing!Init
     \/ part = "joining" /\ Joining!Init
     \/ part = "unused" /\ Unused!Init
     \/ part = "staying" /\ Staying!Init

MCNext ==
  /\ UNCHANGED part
  /\ \/ part = "alone" /\ Alone!Next /\ UNCHANGED rVars
     \/ part = "peers" /\ Next /\ UNCHANGED rVars
     \/ part = "crashing" /\ Crashing!Next /\ UNCHANGED vars
     \/ part = "losing" /\ Losing!Next /\ UNCHANGED vars
     \/ part = "joining" /\ Joining!Next /\ UNCHANGED vars
     \/ part = "unused" /\ Unused!Next /\ UNCHANGED vars
     \/ part = "staying" /\ Staying!Next /\ UNCHANGED vars

\* Fairness of the component.
Goes ==
  /\ UNCHANGED <<part, vars>>
  /\ \/ part = "crashing" /\ Crashing!Progress
     \/ part = "losing" /\ Losing!Progress
     \/ part = "joining" /\ Joining!Progress
     \/ part = "staying" /\ Staying!Progress

MCSpec == MCInit /\ [][MCNext]_mcvars /\ WF_mcvars(Goes)

-----------------------------------------------------------------------------
\* #commit(), apply(), now(): what a write reports as applied is what the fragment
\* holds then, unless a newer entry merged from a peer keeps its place.
AppliedIsKept == [][AppliedStep]_mcvars

\* #replicate(), #recover(), drain(): promotions, drains, repairs, stale requests
\* and a lost message leave every acknowledged write on some live node, with one
\* crash of a settled cluster or with one join.
AckedSurvives == Crashing!AckedSurvives

\* #servePrimaryRead(), #gather(): a read does not miss a write that was
\* acknowledged before it began.
ReadsSeeAcked == Crashing!ReadsSeeAcked

\* write(), #serveWrite(): of several claims of a key at most one succeeds.
OneClaim == Unused!OneClaim

\* #recover(), drain(), #repairTick(): every acknowledged write reaches the
\* primary in force in the end.
AckedReachPrimary ==
  part \in {"crashing", "losing", "joining", "staying"} => Crashing!AckedReachPrimary

\* evolveOwners(): a fragmented partition comes back to one owner.
Unfragments == part = "staying" => Staying!Unfragments
=============================================================================
