--------------------------- MODULE KvEngineProofs ---------------------------
(***************************************************************************)
(* Proofs about KvEngine: types, the clock, the order of entries, what an  *)
(* applied write may rely on, and the digest.                              *)
(***************************************************************************)
EXTENDS KvEngine, TLAPS

\* now(): the clock keeps its type.
LEMMA NowType ==
  ASSUME NEW c \in Clocks, NEW reading \in Nat
  PROVE  Now(c, reading) \in Clocks
  BY DEF Now, Clocks, Larger

\* now(): a later timestamp follows an earlier one of the same clock.
LEMMA NowRises ==
  ASSUME NEW c \in Clocks, NEW reading \in Nat
  PROVE  Before(Stamp(c), Stamp(Now(c, reading)))
  BY DEF Now, Clocks, Larger, Before, Stamp

\* update(), #mergeLogical(): the clock passes both its own last timestamp and
\* the one it received, whatever their wall times.
THEOREM UpdateRises ==
  ASSUME NEW c \in Clocks, NEW reading \in Nat, NEW remote \in Stamps
  PROVE  /\ Update(c, reading, remote) \in Clocks
         /\ Before(Stamp(c), Stamp(Update(c, reading, remote)))
         /\ Before(remote, Stamp(Update(c, reading, remote)))
<1> DEFINE wall == Larger(Larger(c.wallMs, remote.wallMs), reading)
           u == Update(c, reading, remote)
<1>1. /\ wall \in Nat /\ c.wallMs \in Nat /\ remote.wallMs \in Nat
      /\ wall >= c.wallMs /\ wall >= remote.wallMs
  BY DEF Clocks, Stamps, Larger
<1>2. c.logical \in Nat /\ remote.logical \in Nat
  BY DEF Clocks, Stamps
<1>3. /\ u.wallMs = wall
      /\ u.logical = IF wall = c.wallMs /\ wall = remote.wallMs
                     THEN Larger(c.logical, remote.logical) + 1
                     ELSE IF wall = c.wallMs THEN c.logical + 1
                     ELSE IF wall = remote.wallMs THEN remote.logical + 1
                     ELSE 0
      /\ u = [wallMs |-> u.wallMs, logical |-> u.logical]
  BY DEF Update
<1> HIDE DEF wall, u
<1>4. u.logical \in Nat
  BY <1>2, <1>3 DEF Larger
<1>5. u \in Clocks
  BY <1>1, <1>3, <1>4 DEF Clocks
<1>6. Before(Stamp(c), Stamp(u))
  BY <1>1, <1>2, <1>3 DEF Before, Stamp, Larger
<1>7. Before(remote, Stamp(u))
  BY <1>1, <1>2, <1>3 DEF Before, Stamp, Larger
<1> QED
  BY <1>5, <1>6, <1>7 DEF u

\* compareHybrid(): the order is transitive.
LEMMA BeforeTransitive ==
  ASSUME NEW a \in Stamps, NEW b \in Stamps, NEW c \in Stamps, Before(a, b), Before(b, c)
  PROVE  Before(a, c)
  BY DEF Before, Stamps

\* compareHybrid(): the order is total, so replicas agree on every winner.
LEMMA BeforeTotal ==
  ASSUME NEW a \in Stamps, NEW b \in Stamps
  PROVE  /\ Before(a, b) \/ a = b \/ Before(b, a)
         /\ ~(Before(a, b) /\ Before(b, a))
  BY DEF Before, Stamps

\* asIntN(): a counter stays within its width.
LEMMA CounterRange ==
  ASSUME NEW n \in Int
  PROVE  AsIntN(n) \in -CounterHalf .. CounterHalf - 1
  BY KvAssumption DEF AsIntN

\* #commit(): a commit applies a well formed entry.
LEMMA CommitApplies ==
  ASSUME TypeOK, NEW k \in Keys, NEW value \in Payloads \cup {Nil}, NEW expiresAt \in Nat,
         Commit(k, value, expiresAt)
  PROVE  \E entry \in Entries : Apply(k, entry)
<1> DEFINE next == Now(clock, physical)
           entry == [value |-> value, timestamp |-> Stamp(next), sequence |-> sequence + 1,
                     expiresAt |-> expiresAt, deleted |-> value = Nil]
<1>1. Stamp(next) \in Stamps
  BY NowType, KvAssumption DEF TypeOK, Stamp, Stamps, Clocks
<1>2. sequence + 1 \in Nat
  BY DEF TypeOK
<1>3. Apply(k, entry)
  BY DEF Commit
<1> HIDE DEF next
<1>4. entry \in Entries
  BY <1>1, <1>2 DEF Entries
<1> QED
  BY <1>3, <1>4

\* #commit(): types are kept.
LEMMA CommitType ==
  ASSUME TypeOK, NEW k \in Keys, NEW value \in Payloads \cup {Nil}, NEW expiresAt \in Nat,
         Commit(k, value, expiresAt)
  PROVE  TypeOK'
<1>1. clock' \in Clocks /\ sequence' \in Nat /\ physical' \in Nat
  BY NowType DEF Commit, TypeOK
<1>2. store' \in [Keys -> Entries \cup {Nil}]
  BY CommitApplies DEF Apply, TypeOK
<1> QED
  BY <1>1, <1>2 DEF TypeOK

\* #apply(), #applyPut(), #applyIncrement(), #applyCompareAndSet(): every write
\* either commits an entry or changes nothing.
LEMMA StepCases ==
  ASSUME TypeOK, Next
  PROVE  \/ \E k \in Keys, value \in Payloads \cup {Nil}, e \in Nat : Commit(k, value, e)
         \/ \E k \in Keys, entry \in PeerEntries : Merge(k, entry)
         \/ \E k \in Keys : Refuse(k)
         \/ Sweep
         \/ Drop
         \/ \E reading \in 1 .. MaxWall : Read(reading)
<1>1. physical \in Nat /\ 1 \in Payloads /\ Text \in Payloads /\ 1 \in Int
  BY KvAssumption DEF TypeOK, Payloads
<1>2. ASSUME NEW k \in Keys, Current(k) # Nil
      PROVE  Current(k).value \in Payloads /\ Current(k).expiresAt \in Nat
  BY <1>2 DEF Current, TypeOK, Live, Entries
<1>3. Payloads \subseteq Int
  BY KvAssumption DEF Payloads
<1>4. ASSUME NEW k \in Keys, NEW v \in {1, Text}, NEW t \in Ttls,
             NEW c \in {"none", "ifAbsent", "ifPresent"}, Put(k, v, c, t)
      PROVE  \/ \E value \in Payloads \cup {Nil}, e \in Nat : Commit(k, value, e)
             \/ Refuse(k)
  <2>1. v \in Payloads /\ (IF t = 0 THEN 0 ELSE physical + t) \in Nat
    BY <1>1, KvAssumption
  <2> QED
    BY <1>4, <2>1 DEF Put
<1>5. ASSUME NEW k \in Keys, Increment(k, 1)
      PROVE  \/ \E value \in Payloads \cup {Nil}, e \in Nat : Commit(k, value, e)
             \/ Refuse(k)
  <2>1. \A n \in Int : AsIntN(n) \in Payloads
    BY CounterRange DEF Payloads
  <2>2. CASE Current(k) = Nil
    BY <1>1, <1>5, <2>1, <2>2 DEF Increment
  <2>3. CASE Current(k) # Nil
    <3>1. Current(k).value \in Int /\ Current(k).expiresAt \in Nat
      BY <1>2, <1>3, <2>3
    <3>2. Current(k).value + 1 \in Int
      BY <3>1
    <3>3. AsIntN(Current(k).value + 1) \in Payloads
      BY <2>1, <3>2
    <3> QED
      BY <1>5, <2>3, <3>1, <3>3 DEF Increment
  <2> QED
    BY <2>2, <2>3
<1>6. ASSUME NEW k \in Keys, CompareAndSet(k, 1, Text)
      PROVE  \/ \E value \in Payloads \cup {Nil}, e \in Nat : Commit(k, value, e)
             \/ Refuse(k)
  BY <1>1, <1>2, <1>6 DEF CompareAndSet
<1>7. ASSUME NEW k \in Keys, Delete(k)
      PROVE  \E value \in Payloads \cup {Nil}, e \in Nat : Commit(k, value, e)
  BY <1>7 DEF Delete
<1> QED
  BY <1>4, <1>5, <1>6, <1>7 DEF Next

\* PeerEntries are entries, stamped by others.
LEMMA PeerEntriesTyped == PeerEntries \subseteq Entries
<1> SUFFICES ASSUME NEW entry \in PeerEntries PROVE entry \in Entries
  OBVIOUS
<1>1. entry.timestamp \in Stamps
  <2>1. entry.timestamp \in [wallMs : 1 .. MaxWall, logical : {0}, node : Peers]
    BY DEF PeerEntries
  <2>2. 1 .. MaxWall \subseteq Nat /\ {0} \subseteq Nat /\ Peers \subseteq Nat
    BY KvAssumption
  <2> QED
    BY <2>1, <2>2 DEF Stamps
<1>2. 1 \in Payloads /\ 1 # Nil
  BY KvAssumption DEF Payloads
<1>3. entry = [value |-> 1, timestamp |-> entry.timestamp, sequence |-> 1, expiresAt |-> 0,
               deleted |-> FALSE]
  BY DEF PeerEntries
<1>4. ASSUME NEW stamp \in Stamps
      PROVE  [value |-> 1, timestamp |-> stamp, sequence |-> 1, expiresAt |-> 0,
              deleted |-> FALSE] \in Entries
  BY <1>2 DEF Entries
<1> QED
  BY <1>1, <1>3, <1>4

\* The state keeps its types.
THEOREM TypeCorrect == Spec => []TypeOK
<1>1. Init => TypeOK
  BY DEF Init, TypeOK, Clocks
<1>2. TypeOK /\ [Next]_vars => TypeOK'
  <2> SUFFICES ASSUME TypeOK, [Next]_vars PROVE TypeOK'
    OBVIOUS
  <2>1. CASE \E k \in Keys, value \in Payloads \cup {Nil}, e \in Nat : Commit(k, value, e)
    BY <2>1, CommitType
  <2>2. CASE \E k \in Keys, entry \in PeerEntries : Merge(k, entry)
    BY <2>2, PeerEntriesTyped DEF Merge, Apply, TypeOK
  <2>3. CASE \E k \in Keys : Refuse(k)
    BY <2>3 DEF Refuse, TypeOK
  <2>4. CASE Sweep
    BY <2>4 DEF Sweep, TypeOK
  <2>5. CASE Drop
    BY <2>5 DEF Drop, TypeOK
  <2>6. CASE \E reading \in 1 .. MaxWall : Read(reading)
    BY <2>6, KvAssumption DEF Read, TypeOK
  <2>7. CASE UNCHANGED vars
    BY <2>7 DEF vars, TypeOK
  <2> QED
    BY <2>1, <2>2, <2>3, <2>4, <2>5, <2>6, <2>7, StepCases
<1> QED
  BY <1>1, <1>2, PTL DEF Spec

-----------------------------------------------------------------------------
\* now(): no timestamp is given twice or out of order.
THEOREM ClockRises == Spec => StampsRise
<1>1. TypeOK /\ [Next]_vars => [RisingStep]_vars
  <2> SUFFICES ASSUME TypeOK, Next PROVE RisingStep
    OBVIOUS
  <2>1. CASE \E k \in Keys, value \in Payloads \cup {Nil}, e \in Nat : Commit(k, value, e)
    BY <2>1, NowRises DEF Commit, RisingStep, TypeOK
  <2>2. CASE UNCHANGED clock
    BY <2>2 DEF RisingStep
  <2> QED
    BY <2>1, <2>2, StepCases DEF Merge, Refuse, Sweep, Drop, Read
<1> QED
  BY <1>1, TypeCorrect, PTL DEF Spec, StampsRise

\* #commit(): the timestamp of a commit follows every entry this node stamped.
LEMMA CommitWins ==
  ASSUME TypeOK, ClockAhead, NEW k \in Keys, store[k] # Nil, store[k].timestamp.node = Self
  PROVE  Before(store[k].timestamp, Stamp(Now(clock, physical)))
<1> DEFINE old == store[k].timestamp
           last == Stamp(clock)
           next == Stamp(Now(clock, physical))
<1>1. old \in Stamps
  BY DEF TypeOK, Entries
<1>2. last \in Stamps
  BY KvAssumption DEF TypeOK, Clocks, Stamps, Stamp
<1>3. next \in Stamps
  BY NowType, KvAssumption DEF TypeOK, Clocks, Stamps, Stamp
<1>4. Before(last, next)
  BY NowRises DEF TypeOK
<1>5. ~Before(last, old)
  BY DEF ClockAhead
<1> HIDE DEF old, last, next
<1>6. Before(old, last) \/ old = last
  BY <1>1, <1>2, <1>5, BeforeTotal
<1>7. Before(old, next)
  BY <1>1, <1>2, <1>3, <1>4, <1>6, BeforeTransitive
<1> QED
  BY <1>7 DEF old, next

\* PeerEntries: what peers send is not stamped by this node.
LEMMA PeersStamp ==
  ASSUME NEW entry \in PeerEntries
  PROVE  entry.timestamp.node # Self
<1>1. entry.timestamp \in [wallMs : 1 .. MaxWall, logical : {0}, node : Peers]
  BY DEF PeerEntries
<1>2. entry.timestamp.node \in Peers
  BY <1>1
<1> QED
  BY <1>2, KvAssumption

\* hlc.ts: the clock is never behind an entry this node stamped, whatever peers
\* send and however the wall clock moves.
THEOREM OwnEntriesBehind == Spec => []ClockAhead
<1>1. Init => ClockAhead
  BY DEF Init, ClockAhead
<1>2. TypeOK /\ ClockAhead /\ [Next]_vars => ClockAhead'
  <2> SUFFICES ASSUME TypeOK, ClockAhead, [Next]_vars PROVE ClockAhead'
    OBVIOUS
  <2>1. ASSUME NEW k \in Keys, NEW value \in Payloads \cup {Nil}, NEW e \in Nat,
               Commit(k, value, e)
        PROVE  ClockAhead'
    <3> DEFINE next == Stamp(Now(clock, physical))
               entry == [value |-> value, timestamp |-> next, sequence |-> sequence + 1,
                         expiresAt |-> e, deleted |-> value = Nil]
    <3>1. clock' = Now(clock, physical) /\ Apply(k, entry) /\ Stamp(clock)' = next
      BY <2>1 DEF Commit, Stamp
    <3>2. next \in Stamps
      BY NowType, KvAssumption DEF TypeOK, Clocks, Stamps, Stamp
    <3>3. entry.timestamp = next
      OBVIOUS
    <3>4. \A j \in Keys : store'[j] = store[j] \/ store'[j] = entry
      BY <3>1 DEF Apply, TypeOK
    <3>5. ~Before(next, next)
      BY <3>2, BeforeTotal
    <3>6. ASSUME NEW j \in Keys, store[j] # Nil, store[j].timestamp.node = Self
          PROVE  ~Before(next, store[j].timestamp)
      <4>1. store[j].timestamp \in Stamps
        BY <3>6 DEF TypeOK, Entries
      <4> QED
        BY <3>2, <3>6, <4>1, CommitWins, BeforeTotal
    <3> HIDE DEF next, entry
    <3> QED
      BY <3>1, <3>3, <3>4, <3>5, <3>6 DEF ClockAhead
  <2>2. ASSUME NEW k \in Keys, NEW entry \in PeerEntries, Merge(k, entry)
        PROVE  ClockAhead'
    <3>1. \A j \in Keys : store'[j] = store[j] \/ store'[j] = entry
      BY <2>2 DEF Merge, Apply, TypeOK
    <3>2. entry.timestamp.node # Self /\ Stamp(clock)' = Stamp(clock)
      BY <2>2, PeersStamp DEF Merge, Stamp
    <3> QED
      BY <3>1, <3>2 DEF ClockAhead
  <2>3. CASE Sweep \/ Drop
    BY <2>3 DEF Sweep, Drop, ClockAhead, Stamp
  <2>4. CASE UNCHANGED <<clock, store>>
    BY <2>4 DEF ClockAhead, Stamp
  <2> QED
    BY <2>1, <2>2, <2>3, <2>4, StepCases DEF Refuse, Read, vars
<1> QED
  BY <1>1, <1>2, TypeCorrect, PTL DEF Spec

\* #commit(), apply(): a write reported as applied is what the fragment holds,
\* unless that holds a newer entry of another node.
THEOREM AppliedStored == Spec => AppliedIsStored
<1>1. TypeOK /\ ClockAhead /\ [Next]_vars => [AppliedStep]_vars
  <2> SUFFICES ASSUME TypeOK, ClockAhead, Next PROVE AppliedStep
    OBVIOUS
  <2>1. ASSUME NEW k \in Keys, NEW value \in Payloads \cup {Nil}, NEW e \in Nat,
               Commit(k, value, e)
        PROVE  AppliedStep
    <3> DEFINE next == Stamp(Now(clock, physical))
               entry == [value |-> value, timestamp |-> next,
                         sequence |-> sequence + 1, expiresAt |-> e, deleted |-> value = Nil]
    <3>1. Apply(k, entry) /\ result'.key = k /\ result'.entry = entry
      BY <2>1 DEF Commit
    <3>2. entry.timestamp = next /\ next.node = Self
      BY DEF Stamp
    <3>3. next \in Stamps
      BY NowType, KvAssumption DEF TypeOK, Clocks, Stamps, Stamp
    <3>4. ASSUME store[k] # Nil, ~Supersedes(entry, store[k])
          PROVE  store[k].timestamp.node # Self /\ Supersedes(store[k], entry)
      <4>1. store[k].timestamp \in Stamps
        BY <3>4 DEF TypeOK, Entries
      <4>2. ~Before(store[k].timestamp, next)
        BY <3>4, <3>2 DEF Supersedes
      <4>3. store[k].timestamp.node # Self
        BY <3>4, <4>2, CommitWins
      <4>4. store[k].timestamp # next
        BY <4>3, <3>2
      <4> QED
        BY <3>2, <3>3, <4>1, <4>2, <4>3, <4>4, BeforeTotal DEF Supersedes
    <3> HIDE DEF entry, next
    <3>5. CASE store[k] = Nil \/ Supersedes(entry, store[k])
      BY <3>1, <3>5 DEF Apply, AppliedStep, TypeOK
    <3>6. CASE store[k] # Nil /\ ~Supersedes(entry, store[k])
      <4>1. store' = store
        BY <3>1, <3>6 DEF Apply
      <4> QED
        BY <3>1, <3>4, <3>6, <4>1 DEF AppliedStep
    <3> QED
      BY <3>5, <3>6
  <2>2. CASE UNCHANGED sequence
    BY <2>2 DEF AppliedStep
  <2> QED
    BY <2>1, <2>2, StepCases DEF Merge, Refuse, Sweep, Drop, Read
<1> QED
  BY <1>1, TypeCorrect, OwnEntriesBehind, PTL DEF Spec, AppliedIsStored

\* apply(), reap(), drop(): a fragment moves only forward, peers or not.
THEOREM FragmentForward == Spec => OnlyForward
<1>1. TypeOK /\ [Next]_vars => [ForwardStep]_vars
  <2> SUFFICES ASSUME TypeOK, Next PROVE ForwardStep
    OBVIOUS
  <2>1. ASSUME NEW k \in Keys, NEW entry \in Entries, Apply(k, entry) PROVE ForwardStep
    <3>1. entry # Nil
      BY KvAssumption
    <3> QED
      BY <2>1, <3>1 DEF Apply, ForwardStep, TypeOK
  <2>2. CASE \E k \in Keys, value \in Payloads \cup {Nil}, e \in Nat : Commit(k, value, e)
    BY <2>1, <2>2, CommitApplies
  <2>3. CASE \E k \in Keys, entry \in PeerEntries : Merge(k, entry)
    BY <2>1, <2>3, PeerEntriesTyped DEF Merge
  <2>4. CASE Sweep
    BY <2>4 DEF Sweep, ForwardStep, Live, Reapable
  <2>5. CASE Drop
    BY <2>5 DEF Drop, ForwardStep
  <2>6. CASE UNCHANGED store
    BY <2>6 DEF ForwardStep
  <2> QED
    BY <2>2, <2>3, <2>4, <2>5, <2>6, StepCases DEF Refuse, Read
<1> QED
  BY <1>1, TypeCorrect, PTL DEF Spec, OnlyForward

\* #toggle(): the digest of a fragment after one entry is applied.
LEMMA ApplyKeepsDigest ==
  ASSUME TypeOK, DigestInStep, NEW k \in Keys, NEW entry \in Entries, Apply(k, entry)
  PROVE  DigestInStep'
<1> DEFINE Held == {j \in Keys : store[j] # Nil}
           old == IF store[k] = Nil THEN {} ELSE {Contribution(k, store[k])}
<1>1. CASE UNCHANGED <<store, digest>>
  BY <1>1 DEF DigestInStep, Contribution
<1>2. CASE ~UNCHANGED <<store, digest>>
  <2>1. /\ store' = [store EXCEPT ![k] = entry]
        /\ digest' = Toggled(Toggled(digest, old), {Contribution(k, entry)})
    BY <1>2 DEF Apply
  <2>2. entry # Nil
    BY KvAssumption
  <2>3. Toggled(digest, old) = {Contribution(j, store[j]) : j \in Held \ {k}}
    BY DEF DigestInStep, Toggled, Contribution
  <2>4. Contribution(k, entry) \notin {Contribution(j, store[j]) : j \in Held \ {k}}
    BY DEF Contribution
  <2>5. digest' = {Contribution(j, store[j]) : j \in Held \ {k}} \cup {Contribution(k, entry)}
    BY <2>1, <2>3, <2>4 DEF Toggled
  <2>6. {j \in Keys : store'[j] # Nil} = Held \cup {k}
    BY <2>1, <2>2 DEF TypeOK
  <2>7. \A j \in Keys : store'[j] = IF j = k THEN entry ELSE store[j]
    BY <2>1 DEF TypeOK
  <2>8. {Contribution(j, store'[j]) : j \in Held \cup {k}}
          = {Contribution(j, store[j]) : j \in Held \ {k}} \cup {Contribution(k, entry)}
    BY <2>7
  <2> QED
    BY <2>5, <2>6, <2>8 DEF DigestInStep, Contribution
<1> QED
  BY <1>1, <1>2

\* partition.ts: the digest is kept in step with the fragment by every write,
\* merge, sweep and drop.
THEOREM DigestKept == Spec => []DigestInStep
<1>1. Init => DigestInStep
  BY DEF Init, DigestInStep
<1>2. TypeOK /\ DigestInStep /\ [Next]_vars => DigestInStep'
  <2> SUFFICES ASSUME TypeOK, DigestInStep, [Next]_vars PROVE DigestInStep'
    OBVIOUS
  <2>1. CASE \E k \in Keys, value \in Payloads \cup {Nil}, e \in Nat : Commit(k, value, e)
    BY <2>1, CommitApplies, ApplyKeepsDigest
  <2>2. CASE \E k \in Keys, entry \in PeerEntries : Merge(k, entry)
    BY <2>2, PeerEntriesTyped, ApplyKeepsDigest DEF Merge
  <2>3. CASE Sweep
    <3> DEFINE Gone == {k \in Keys : store[k] # Nil /\ (Reapable(store[k]) \/ Expired(store[k]))}
               Held == {j \in Keys : store[j] # Nil}
    <3>1. /\ store' = [k \in Keys |-> IF k \in Gone THEN Nil ELSE store[k]]
          /\ digest' = Toggled(digest, {Contribution(k, store[k]) : k \in Gone})
      BY <2>3 DEF Sweep
    <3>2. Gone \subseteq Held
      OBVIOUS
    <3> HIDE DEF Gone
    <3>3. digest' = {Contribution(k, store[k]) : k \in Held \ Gone}
      BY <3>1, <3>2 DEF DigestInStep, Toggled, Contribution
    <3>4. {j \in Keys : store'[j] # Nil} = Held \ Gone
      BY <3>1
    <3>5. \A j \in Held \ Gone : store'[j] = store[j]
      BY <3>1
    <3> QED
      BY <3>3, <3>4, <3>5 DEF DigestInStep, Contribution
  <2>4. CASE Drop
    BY <2>4 DEF Drop, DigestInStep
  <2>5. CASE UNCHANGED <<store, digest>>
    BY <2>5 DEF DigestInStep, Contribution
  <2> QED
    BY <2>1, <2>2, <2>3, <2>4, <2>5, StepCases DEF Refuse, Read, vars
<1> QED
  BY <1>1, <1>2, TypeCorrect, PTL DEF Spec
=============================================================================
