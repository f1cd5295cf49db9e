--------------------------- MODULE BoundedMailbox ---------------------------
(***************************************************************************)
(* class BoundedMailbox (src/src/bounded.mailbox.ts): a fixed ring.        *)
(***************************************************************************)
EXTENDS Integers, Sequences

CONSTANTS
  Msgs,
  capacity,
  Empty    \* null in a slot

ASSUME BoundedMailboxAssumption ==
  capacity \in Nat \ {0} /\ Empty \notin Msgs
  /\ {"null", "undefined", "ErrMailboxDisposed", "ErrMailboxFull"} \cap Msgs = {}

VARIABLES buffer, head, count, disposed, result

vars == <<buffer, head, count, disposed, result>>
Slots == 0..capacity - 1

Init ==
  /\ buffer = [i \in Slots |-> Empty] /\ head = 0 /\ count = 0
  /\ disposed = FALSE /\ result = "null"

\* Mutant: the write position wraps one slot too late.
Write_Late == IF head + count > capacity THEN head + count - capacity ELSE head + count

\* Where the next message goes.
Write == IF head + count >= capacity THEN head + count - capacity ELSE head + count

Enqueue(m) ==
  /\ \/ disposed /\ result' = "ErrMailboxDisposed" /\ UNCHANGED <<buffer, count>>
     \/ ~disposed /\ count = capacity /\ result' = "ErrMailboxFull" /\ UNCHANGED <<buffer, count>>
     \/ /\ ~disposed /\ count # capacity /\ result' = "null"
        /\ buffer' = [buffer EXCEPT ![Write] = m] /\ count' = count + 1
  /\ UNCHANGED <<head, disposed>>

\* Mutant: the slot is not cleared.
Dequeue_Lingers ==
  /\ \/ count = 0 /\ result' = "undefined" /\ UNCHANGED <<buffer, head, count>>
     \/ /\ count # 0 /\ result' = buffer[head]
        /\ head' = (IF head + 1 = capacity THEN 0 ELSE head + 1)
        /\ count' = count - 1 /\ UNCHANGED buffer
  /\ UNCHANGED disposed

Dequeue ==
  /\ \/ count = 0 /\ result' = "undefined" /\ UNCHANGED <<buffer, head, count>>
     \/ /\ count # 0 /\ result' = buffer[head]
        /\ buffer' = [buffer EXCEPT ![head] = Empty]
        /\ head' = (IF head + 1 = capacity THEN 0 ELSE head + 1)
        /\ count' = count - 1
  /\ UNCHANGED disposed

Dispose ==
  /\ disposed' = TRUE /\ result' = "null"
  /\ buffer' = [i \in Slots |-> Empty] /\ head' = 0 /\ count' = 0

Next == Dequeue \/ Dispose \/ \E m \in Msgs : Enqueue(m)
Spec == Init /\ [][Next]_vars

-----------------------------------------------------------------------------
\* The slot of the i-th message of the backlog.
Slot(i) == IF head + i - 1 >= capacity THEN head + i - 1 - capacity ELSE head + i - 1

\* The ring holds messages exactly in the count slots from head on: what was
\* dequeued does not linger, and nothing of the backlog is overwritten.
RingInv ==
  /\ head \in Slots /\ count \in 0..capacity /\ disposed \in BOOLEAN
  /\ buffer \in [Slots -> Msgs \cup {Empty}]
  /\ \A i \in 1..count : buffer[Slot(i)] \in Msgs
  /\ \A j \in Slots : buffer[j] # Empty => \E i \in 1..count : j = Slot(i)

AtCapacity(n) == n = capacity
Queue == INSTANCE Mailbox WITH
  Full <- AtCapacity, queue <- [i \in 1..count |-> buffer[Slot(i)]]

\* Whatever the sequence of calls, the ring answers as a first-in first-out
\* queue of that capacity would.
IsQueue == Queue!Spec
=============================================================================
