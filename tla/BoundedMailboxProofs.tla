------------------------ MODULE BoundedMailboxProofs ------------------------
(***************************************************************************)
(* The bounded mailbox is a first-in first-out queue, for every capacity   *)
(* and every set of messages.                                              *)
(***************************************************************************)
EXTENDS BoundedMailbox, TLAPS, SequenceTheorems

backlog == [i \in 1..count |-> buffer[Slot(i)]]

\* The slots of a backlog are slots of the ring, and no two messages share
\* one; where the next message goes is the slot after the last.
LEMMA SlotFacts ==
  ASSUME RingInv
  PROVE  /\ \A i \in 1..capacity : Slot(i) \in Slots
         /\ \A i, j \in 1..capacity : Slot(i) = Slot(j) => i = j
         /\ Slot(1) = head
         /\ count # capacity => Write = Slot(count + 1)
BY BoundedMailboxAssumption DEF RingInv, Slots, Slot, Write

\* enqueue(), dequeue() and dispose() keep the ring consistent.
LEMMA RingStep == RingInv /\ [Next]_vars => RingInv'
<1> SUFFICES ASSUME RingInv, [Next]_vars PROVE RingInv'
  OBVIOUS
<1> USE BoundedMailboxAssumption
<1>1. ASSUME NEW m \in Msgs, Enqueue(m) PROVE RingInv'
  <2>1. CASE ~(~disposed /\ count # capacity)
    BY <1>1, <2>1 DEF Enqueue, RingInv, Slots, Slot
  <2>2. CASE ~disposed /\ count # capacity
    <3>1. /\ buffer' = [buffer EXCEPT ![Slot(count + 1)] = m] /\ count' = count + 1
          /\ head' = head /\ disposed' = disposed
      BY <1>1, <2>2, SlotFacts DEF Enqueue
    <3>2. \A i : Slot(i)' = Slot(i)
      BY <3>1 DEF Slot
    <3>3. count + 1 \in 1..capacity /\ count \in Nat
      BY <2>2 DEF RingInv
    <3>4. Slot(count + 1) \in Slots
      BY <3>3, SlotFacts
    <3>5. /\ head' \in Slots /\ count' \in 0..capacity /\ disposed' \in BOOLEAN
          /\ buffer' \in [Slots -> Msgs \cup {Empty}]
      BY <3>1, <3>3, <3>4 DEF RingInv
    <3>6. \A i \in 1..count' : buffer'[Slot(i)'] \in Msgs
      BY <3>1, <3>2, <3>3, <3>4, SlotFacts DEF RingInv
    <3>7. ASSUME NEW j \in Slots, buffer'[j] # Empty
          PROVE  \E i \in 1..count' : j = Slot(i)'
      <4>1. CASE j = Slot(count + 1)
        BY <3>1, <3>2, <3>3, <4>1
      <4>2. CASE j # Slot(count + 1)
        <5>1. buffer[j] # Empty
          BY <3>1, <3>7, <4>2 DEF RingInv
        <5>2. PICK i \in 1..count : j = Slot(i)
          BY <5>1, <3>7 DEF RingInv
        <5> QED BY <5>2, <3>1, <3>2, <3>3
      <4> QED BY <4>1, <4>2
    <3> QED BY <3>5, <3>6, <3>7 DEF RingInv, Slots
  <2> QED BY <2>1, <2>2
<1>2. ASSUME Dequeue PROVE RingInv'
  <2>1. CASE count = 0
    BY <1>2, <2>1 DEF Dequeue, RingInv, Slots, Slot
  <2>2. CASE count # 0
    <3>1. /\ buffer' = [buffer EXCEPT ![head] = Empty] /\ count' = count - 1
          /\ head' = (IF head + 1 = capacity THEN 0 ELSE head + 1) /\ disposed' = disposed
      BY <1>2, <2>2 DEF Dequeue
    <3>2. count \in 1..capacity /\ head \in Slots /\ count' \in 0..capacity
      BY <2>2, <3>1 DEF RingInv
    <3>3. \A i \in 1..count' : Slot(i)' = Slot(i + 1)
      BY <3>1, <3>2 DEF Slot, Slots
    <3>4. /\ head' \in Slots /\ disposed' \in BOOLEAN
          /\ buffer' \in [Slots -> Msgs \cup {Empty}]
      BY <3>1, <3>2 DEF RingInv, Slots
    <3>5. ASSUME NEW i \in 1..count' PROVE buffer'[Slot(i)'] \in Msgs
      <4>1. i + 1 \in 1..count /\ i + 1 \in 1..capacity /\ 1 \in 1..capacity /\ i + 1 # 1
        BY <3>1, <3>2
      <4>2. Slot(i + 1) \in Slots /\ Slot(i + 1) # head
        BY <4>1, SlotFacts
      <4>3. buffer[Slot(i + 1)] \in Msgs
        BY <4>1 DEF RingInv
      <4> QED BY <3>1, <3>3, <4>2, <4>3 DEF RingInv
    <3>6. ASSUME NEW j \in Slots, buffer'[j] # Empty
          PROVE  \E i \in 1..count' : j = Slot(i)'
      <4>1. j # head /\ buffer[j] # Empty
        BY <3>1, <3>2, <3>6 DEF RingInv
      <4>2. PICK i \in 1..count : j = Slot(i)
        BY <4>1 DEF RingInv
      <4>3. i # 1
        BY <4>1, <4>2, SlotFacts
      <4>4. i - 1 \in 1..count' /\ (i - 1) + 1 = i
        BY <3>1, <3>2, <4>3
      <4> QED BY <3>3, <4>2, <4>4
    <3> QED BY <3>2, <3>4, <3>5, <3>6 DEF RingInv, Slots
  <2> QED BY <2>1, <2>2
<1>3. ASSUME Dispose PROVE RingInv'
  BY <1>3 DEF Dispose, RingInv, Slots, Slot
<1>4. ASSUME UNCHANGED vars PROVE RingInv'
  BY <1>4 DEF vars, RingInv, Slots, Slot
<1> QED BY <1>1, <1>2, <1>3, <1>4 DEF Next

\* In every reachable state the ring holds messages exactly in the count
\* slots from head on.
THEOREM RingConsistent == Spec => []RingInv
<1>1. ASSUME Init PROVE RingInv
  <2>1. head \in Slots /\ count \in 0..capacity
    BY <1>1, BoundedMailboxAssumption, SMT DEF Init, Slots
  <2>4. disposed \in BOOLEAN
    BY <1>1, Zenon DEF Init
  <2>2. buffer \in [Slots -> Msgs \cup {Empty}] /\ \A j \in Slots : buffer[j] = Empty
    BY <1>1 DEF Init
  <2>3. \A i \in 1..count : FALSE
    BY <1>1 DEF Init
  <2> QED BY <2>1, <2>2, <2>3, <2>4 DEF RingInv
<1> QED BY <1>1, RingStep, PTL DEF Spec

\* A call of the mailbox is a call of the queue.
LEMMA QueueStep == RingInv /\ [Next]_vars => [Queue!Next]_<<backlog, disposed, result>>
<1> SUFFICES ASSUME RingInv, [Next]_vars PROVE [Queue!Next]_<<backlog, disposed, result>>
  OBVIOUS
<1> USE BoundedMailboxAssumption
<1>a. count \in 0..capacity /\ count \in Nat
  BY DEF RingInv
<1>b. backlog \in Seq(Msgs) /\ Len(backlog) = count
  BY <1>a DEF backlog, RingInv
<1>1. ASSUME NEW m \in Msgs, Enqueue(m) PROVE Queue!Next
  <2>1. CASE ~(~disposed /\ count # capacity)
    <3>1. backlog' = backlog
      BY <1>1, <2>1 DEF Enqueue, backlog, Slot
    <3>2. Queue!Enqueue(m)
      BY <1>1, <2>1, <3>1, <1>b DEF Enqueue, Queue!Enqueue, AtCapacity, backlog
    <3> QED BY <3>2, <1>1 DEF Queue!Next, Enqueue
  <2>2. CASE ~disposed /\ count # capacity
    <3>1. /\ buffer' = [buffer EXCEPT ![Slot(count + 1)] = m] /\ count' = count + 1
          /\ head' = head /\ disposed' = disposed /\ result' = "null"
      BY <1>1, <2>2, SlotFacts DEF Enqueue
    <3>2. \A i : Slot(i)' = Slot(i)
      BY <3>1 DEF Slot
    <3>3. \A i \in 1..count : i \in 1..capacity /\ i # count + 1
      BY <1>a
    <3>4. count + 1 \in 1..capacity
      BY <1>a, <2>2
    <3>5. \A i \in 1..count : buffer'[Slot(i)] = buffer[Slot(i)]
      BY <3>1, <3>3, <3>4, SlotFacts DEF RingInv
    <3>6. buffer'[Slot(count + 1)] = m
      BY <3>1, <3>4, SlotFacts DEF RingInv
    <3>7. backlog' = [i \in 1..count + 1 |-> buffer'[Slot(i)]]
      BY <3>1, <3>2 DEF backlog
    <3>8. backlog' = Append(backlog, m)
      <4>1. \A i \in 1..count + 1 : buffer'[Slot(i)] \in Msgs
        BY <1>a, <3>5, <3>6 DEF RingInv
      <4>2. backlog' \in Seq(Msgs) /\ Len(backlog') = count + 1
        BY <1>a, <3>7, <4>1
      <4>3. /\ Append(backlog, m) \in Seq(Msgs) /\ Len(Append(backlog, m)) = count + 1
            /\ \A i \in 1..count : Append(backlog, m)[i] = backlog[i]
            /\ Append(backlog, m)[count + 1] = m
        BY <1>b, AppendProperties
      <4>4. \A i \in 1..count : backlog[i] = buffer[Slot(i)]
        BY DEF backlog
      <4>5. \A i \in 1..count + 1 : backlog'[i] = Append(backlog, m)[i]
        BY <1>a, <3>5, <3>6, <3>7, <4>3, <4>4
      <4> HIDE DEF backlog
      <4> QED BY <4>2, <4>3, <4>5, SeqEqual
    <3>9. Queue!Enqueue(m)
      BY <2>2, <3>1, <3>8, <1>b DEF Queue!Enqueue, AtCapacity, backlog
    <3> QED BY <3>9, <3>1 DEF Queue!Next
  <2> QED BY <2>1, <2>2
<1>2. ASSUME Dequeue PROVE Queue!Next
  <2>1. CASE count = 0
    <3>1. backlog' = backlog /\ backlog = <<>>
      BY <1>2, <2>1 DEF Dequeue, backlog, Slot
    <3>2. Queue!Dequeue
      BY <1>2, <2>1, <3>1 DEF Dequeue, Queue!Dequeue, backlog
    <3> QED BY <3>2, <1>2 DEF Queue!Next, Dequeue
  <2>2. CASE count # 0
    <3>1. /\ buffer' = [buffer EXCEPT ![head] = Empty] /\ count' = count - 1
          /\ head' = (IF head + 1 = capacity THEN 0 ELSE head + 1) /\ disposed' = disposed
          /\ result' = buffer[head]
      BY <1>2, <2>2 DEF Dequeue
    <3>2. \A i \in 1..count' : Slot(i)' = Slot(i + 1)
      BY <3>1, <1>a DEF Slot, Slots, RingInv
    <3>3. \A i \in 1..count' : i + 1 \in 1..capacity /\ i + 1 # 1 /\ 1 \in 1..capacity
      BY <3>1, <1>a, <2>2
    <3>4. \A i \in 1..count' : buffer'[Slot(i + 1)] = buffer[Slot(i + 1)]
      BY <3>1, <3>3, SlotFacts DEF RingInv
    <3>5. backlog' = [i \in 1..count - 1 |-> buffer[Slot(i + 1)]]
      BY <3>1, <3>2, <3>4 DEF backlog
    <3>6. backlog # <<>> /\ Head(backlog) = buffer[head]
      BY <1>a, <1>b, <2>2, SlotFacts DEF backlog
    <3>7. /\ Tail(backlog) \in Seq(Msgs) /\ Len(Tail(backlog)) = count - 1
          /\ \A i \in 1..count - 1 : Tail(backlog)[i] = backlog[i + 1]
      BY <1>b, <3>6, HeadTailProperties
    <3>8. \A i \in 1..count - 1 : backlog[i + 1] = buffer[Slot(i + 1)] /\ backlog[i + 1] \in Msgs
      BY <1>a DEF backlog, RingInv
    <3>9. backlog' = Tail(backlog)
      <4>1. backlog' \in Seq(Msgs) /\ Len(backlog') = count - 1
        BY <1>a, <2>2, <3>5, <3>8
      <4>2. \A i \in 1..count - 1 : backlog'[i] = Tail(backlog)[i]
        BY <3>5, <3>7, <3>8
      <4> HIDE DEF backlog
      <4> QED BY <3>7, <4>1, <4>2, SeqEqual
    <3>10. Queue!Dequeue
      BY <3>1, <3>6, <3>9 DEF Queue!Dequeue, backlog
    <3> QED BY <3>10, <3>1 DEF Queue!Next
  <2> QED BY <2>1, <2>2
<1>3. ASSUME Dispose PROVE Queue!Next
  <2>1. backlog' = <<>>
    BY <1>3 DEF Dispose, backlog
  <2>2. Queue!Dispose
    BY <1>3, <2>1 DEF Dispose, Queue!Dispose, backlog
  <2> QED BY <2>2, <1>3 DEF Queue!Next, Dispose
<1>4. ASSUME UNCHANGED vars PROVE UNCHANGED <<backlog, disposed, result>>
  BY <1>4 DEF vars, backlog, Slot
<1> QED BY <1>1, <1>2, <1>3, <1>4 DEF Next

\* Whatever the sequence of calls, the ring answers as a first-in first-out
\* queue of that capacity would: it implements the interface.
THEOREM Refinement == Spec => IsQueue
<1>1. Init => Queue!Init
  BY DEF Init, Queue!Init
<1>2. RingInv /\ [Next]_vars => [Queue!Next]_<<[i \in 1..count |-> buffer[Slot(i)]], disposed, result>>
  BY QueueStep DEF backlog
<1> QED BY <1>1, <1>2, RingConsistent, PTL DEF Spec, IsQueue, Queue!Spec
=============================================================================
