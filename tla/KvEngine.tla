------------------------------ MODULE KvEngine ------------------------------
(***************************************************************************)
(* One node's part of one partition of the key-value store: the hybrid     *)
(* clock (kv/hlc.ts), entries and their order (kv/entry.ts), the fragment  *)
(* (kv/partition.ts) and the pipeline of writes (kv/engine.ts).            *)
(*                                                                         *)
(* A task of the pipeline runs without an await, so a write is one step.   *)
(* Payloads are counters of the width of CounterHalf, and Text, which is   *)
(* no counter.  Times are wall clock readings; expiresAt = 0 means never.  *)
(***************************************************************************)
EXTENDS Integers

CONSTANTS
  Keys,           \* keys of the partition
  Nil,            \* no entry, no payload
  Text,           \* a payload that is no counter
  CounterHalf,    \* a counter is in -CounterHalf .. CounterHalf - 1
  Ttls,           \* times to live a put may have; 0 is none
  TOMBSTONE_TTL,  \* TOMBSTONE_TTL_MS
  Self,           \* this node's name, a number
  Peers,          \* names of the nodes whose entries arrive
  MaxWall,        \* bound on wall clock readings
  MaxWrites       \* bound on writes committed here

VARIABLES
  physical,  \* reading of the injected clock; it may stall and step back
  clock,     \* HybridClock: wallMs and logical
  sequence,  \* PartitionPipeline.#sequence
  store,     \* Partition.#entries
  digest,    \* Partition.#hi and #lo, as the contributions folded an odd number of times
  result     \* what the last write resolved with, and its key

vars == <<physical, clock, sequence, store, digest, result>>

Payloads == -CounterHalf .. CounterHalf - 1 \cup {Text}
Clocks == [wallMs : Nat, logical : Nat]
Stamps == [wallMs : Nat, logical : Nat, node : Nat]
\* Entry: a tombstone is an entry without a value.
Entries ==
  {e \in [value : Payloads \cup {Nil}, timestamp : Stamps, sequence : Nat, expiresAt : Nat,
          deleted : BOOLEAN] : e.deleted <=> e.value = Nil}

ASSUME KvAssumption ==
  /\ CounterHalf \in Nat \ {0, 1} /\ Text \in Int /\ Ttls \subseteq Nat
  /\ Self \in Nat /\ Peers \subseteq Nat \ {Self}
  /\ TOMBSTONE_TTL \in Nat /\ MaxWall \in Nat /\ MaxWrites \in Nat
  /\ Nil \notin Entries /\ Nil \notin Payloads

TypeOK ==
  /\ physical \in Nat /\ clock \in Clocks /\ sequence \in Nat
  /\ store \in [Keys -> Entries \cup {Nil}]

Larger(a, b) == IF a < b THEN b ELSE a

\* compareHybrid(left, right) < 0.
Before(left, right) ==
  \/ left.wallMs < right.wallMs
  \/ left.wallMs = right.wallMs /\ left.logical < right.logical
  \/ left.wallMs = right.wallMs /\ left.logical = right.logical /\ left.node < right.node

\* A clock that counts afresh only when the reading moved, a bug.
Now_Stalls(c, reading) ==
  LET wall == Larger(c.wallMs, reading)
  IN  [wallMs |-> wall, logical |-> IF wall = c.wallMs THEN c.logical ELSE 0]

\* now(), #stamp(): the clock after a local event.
Now(c, reading) ==
  LET wall == Larger(c.wallMs, reading)
  IN  [wallMs |-> wall, logical |-> IF wall = c.wallMs THEN c.logical + 1 ELSE 0]

\* update(), #mergeLogical(): the clock after a remote timestamp.  Nothing in
\* the repository calls it; the store merges without it.
Update(c, reading, remote) ==
  LET wall == Larger(Larger(c.wallMs, remote.wallMs), reading)
      local == wall = c.wallMs
      far == wall = remote.wallMs
  IN  [wallMs |-> wall,
       logical |-> IF local /\ far THEN Larger(c.logical, remote.logical) + 1
                   ELSE IF local THEN c.logical + 1
                   ELSE IF far THEN remote.logical + 1
                   ELSE 0]

Stamp(c) == [wallMs |-> c.wallMs, logical |-> c.logical, node |-> Self]

\* supersedes(candidate, incumbent)
Supersedes(candidate, incumbent) == Before(incumbent.timestamp, candidate.timestamp)

Expired(entry) == entry.expiresAt # 0 /\ entry.expiresAt <= physical
Live(entry) == ~entry.deleted /\ ~Expired(entry)
Reapable(entry) == entry.deleted /\ physical - entry.timestamp.wallMs >= TOMBSTONE_TTL

\* entryContribution(): what identifies an entry to a digest.
Contribution(k, entry) == <<k, entry.timestamp, entry.deleted>>

\* #toggle(): the exclusive or of contributions.
Toggled(set, contributions) == (set \ contributions) \cup (contributions \ set)

\* apply() of whatever came last, a bug.
Apply_Blind(k, entry) ==
  /\ store' = [store EXCEPT ![k] = entry]
  /\ digest' = Toggled(digest, {Contribution(k, e) : e \in {store[k], entry} \ {Nil}})

\* Partition.apply(): last write wins.
Apply(k, entry) ==
  LET existing == store[k]
      old == IF existing = Nil THEN {} ELSE {Contribution(k, existing)}
  IN  IF existing # Nil /\ ~Supersedes(entry, existing)
      THEN UNCHANGED <<store, digest>>
      ELSE /\ store' = [store EXCEPT ![k] = entry]
           /\ digest' = Toggled(Toggled(digest, old), {Contribution(k, entry)})

\* #liveValue()
Current(k) == IF store[k] # Nil /\ Live(store[k]) THEN store[k] ELSE Nil

\* BigInt.asIntN() at the width of a counter.
AsIntN(n) == ((n + CounterHalf) % (2 * CounterHalf)) - CounterHalf

\* #commit(): stamps, merges and reports the entry; a value of Nil is a tombstone.
Commit(k, value, expiresAt) ==
  LET next == Now(clock, physical)
      entry == [value |-> value, timestamp |-> Stamp(next), sequence |-> sequence + 1,
                expiresAt |-> expiresAt, deleted |-> value = Nil]
  IN  /\ sequence < MaxWrites
      /\ clock' = next
      /\ sequence' = sequence + 1
      /\ Apply(k, entry)
      /\ result' = [key |-> k, applied |-> TRUE, entry |-> entry]
      /\ UNCHANGED physical

\* A write that resolves with applied = false, or whose task throws.
Refuse(k) ==
  /\ result' = [key |-> k, applied |-> FALSE]
  /\ UNCHANGED <<physical, clock, sequence, store, digest>>

\* A put that ignores its condition, a bug.
Allowed_Always(k, condition) == TRUE

\* #applyPut(): the condition a put may carry.
Allowed(k, condition) ==
  /\ condition = "ifAbsent" => Current(k) = Nil
  /\ condition = "ifPresent" => Current(k) # Nil

Put(k, value, condition, ttl) ==
  IF Allowed(k, condition)
  THEN Commit(k, value, IF ttl = 0 THEN 0 ELSE physical + ttl)
  ELSE Refuse(k)

Delete(k) == Commit(k, Nil, 0)

\* #applyIncrement(), readCounter(): an absent key is zero, a text throws.
Increment(k, delta) ==
  IF Current(k) = Nil THEN Commit(k, AsIntN(delta), 0)
  ELSE IF Current(k).value = Text THEN Refuse(k)
  ELSE Commit(k, AsIntN(Current(k).value + delta), Current(k).expiresAt)

\* #applyCompareAndSet()
CompareAndSet(k, expected, value) ==
  IF Current(k) # Nil /\ Current(k).value = expected
  THEN Commit(k, value, Current(k).expiresAt)
  ELSE Refuse(k)

\* merge(): an entry stamped by another node; its clock is not this one.
Merge(k, entry) ==
  /\ Apply(k, entry)
  /\ UNCHANGED <<physical, clock, sequence, result>>

\* A sweep that keeps the digest, a bug.
Sweep_Undigested ==
  LET gone == {k \in Keys : store[k] # Nil /\ (Reapable(store[k]) \/ Expired(store[k]))}
  IN  /\ store' = [k \in Keys |-> IF k \in gone THEN Nil ELSE store[k]]
      /\ UNCHANGED <<physical, clock, sequence, digest, result>>

\* sweep(), reap(): a janitor removes old tombstones and expired entries.
Sweep ==
  LET gone == {k \in Keys : store[k] # Nil /\ (Reapable(store[k]) \/ Expired(store[k]))}
  IN  /\ store' = [k \in Keys |-> IF k \in gone THEN Nil ELSE store[k]]
      /\ digest' = Toggled(digest, {Contribution(k, store[k]) : k \in gone})
      /\ UNCHANGED <<physical, clock, sequence, result>>

\* drop(): the fragment goes after a handoff; clock and pipeline stay.
Drop ==
  /\ store' = [k \in Keys |-> Nil]
  /\ digest' = {}
  /\ UNCHANGED <<physical, clock, sequence, result>>

\* The injected clock moves, forward or back.
Read(reading) == physical' = reading /\ UNCHANGED <<clock, sequence, store, digest, result>>

PeerEntries ==
  [value : {1}, timestamp : [wallMs : 1 .. MaxWall, logical : {0}, node : Peers],
   sequence : {1}, expiresAt : {0}, deleted : {FALSE}]

Init ==
  /\ physical = 1
  /\ clock = [wallMs |-> 0, logical |-> 0]
  /\ sequence = 0
  /\ store = [k \in Keys |-> Nil]
  /\ digest = {}
  /\ result = Nil

Next ==
  \/ \E k \in Keys :
       \/ \E v \in {1, Text}, c \in {"none", "ifAbsent", "ifPresent"}, t \in Ttls : Put(k, v, c, t)
       \/ Delete(k)
       \/ Increment(k, 1)
       \/ CompareAndSet(k, 1, Text)
       \/ \E entry \in PeerEntries : Merge(k, entry)
  \/ Sweep
  \/ Drop
  \/ \E reading \in 1 .. MaxWall : Read(reading)

Spec == Init /\ [][Next]_vars

-----------------------------------------------------------------------------
\* now(): every timestamp is greater than all this clock gave before, however
\* the wall clock stalls or steps back.
RisingStep == clock' # clock => Before(Stamp(clock), Stamp(clock'))

StampsRise == [][RisingStep]_vars

\* #commit(), apply(): what a write reports as applied is what the fragment
\* holds then, or the fragment holds a newer entry of another node.  merge()
\* does not move the clock, so a commit may be stamped behind such an entry,
\* and apply() then keeps that one; never behind an entry of this node.
AppliedStep ==
  sequence' # sequence =>
    LET held == store'[result'.key]
    IN  \/ held = result'.entry
        \/ /\ held # Nil /\ held = store[result'.key]
           /\ held.timestamp.node # Self
           /\ Supersedes(held, result'.entry)

AppliedIsStored == [][AppliedStep]_vars

\* hlc.ts: receiving a timestamp advances the clock, so that a write that
\* follows it wins.  It fails: nothing calls update().
AppliedWins == [][sequence' # sequence => store'[result'.key] = result'.entry]_vars

\* apply(), reap(), drop(): an entry is replaced only by a newer one, and
\* removed alone only when it no longer answers a read.
ForwardStep ==
  \A k \in Keys : store[k] # Nil /\ store'[k] # store[k] =>
    \/ store'[k] # Nil /\ Supersedes(store'[k], store[k])
    \/ store'[k] = Nil /\ ~Live(store[k])
    \/ \A j \in Keys : store'[j] = Nil

OnlyForward == [][ForwardStep]_vars

\* partition.ts, #toggle(): the digest is the one of the entries held, after
\* any history of writes, merges, sweeps and drops; replicas with equal
\* entries have equal digests.
DigestInStep == digest = {Contribution(k, store[k]) : k \in {j \in Keys : store[j] # Nil}}

\* now(): the clock is not behind any entry this node stamped.
ClockAhead ==
  \A k \in Keys : store[k] # Nil /\ store[k].timestamp.node = Self =>
    ~Before(Stamp(clock), store[k].timestamp)
=============================================================================
