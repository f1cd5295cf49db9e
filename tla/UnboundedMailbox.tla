-------------------------- MODULE UnboundedMailbox --------------------------
(***************************************************************************)
(* class UnboundedMailbox (src/src/unbounded.mailbox.ts): a ring that      *)
(* doubles when full and is given back by the first drain.                 *)
(***************************************************************************)
EXTENDS Integers, Sequences

CONSTANTS
  Msgs,
  Empty,             \* null in a slot
  RELEASE_CAPACITY,
  MaxBacklog         \* bound: messages in the mailbox

VARIABLES
  length,    \* buffer.length, which is mask + 1; 0: there is no buffer
  buffer, head, size, drained, disposed, result

vars == <<length, buffer, head, size, drained, disposed, result>>

\* (i & mask): the length is a power of two.
Masked(i) == i % length

NoBuffer == [i \in {} |-> Empty]

Init ==
  /\ length = 0 /\ buffer = NoBuffer /\ head = 0 /\ size = 0
  /\ drained = FALSE /\ disposed = FALSE /\ result = "null"

\* Mutant: the backlog is copied as it lies, not as it arrived.
Grown_Raw == [i \in 0..2 * length - 1 |-> IF i < size THEN buffer[i] ELSE Empty]

\* grow(): twice the ring, with the backlog from its first slot on.
Grown == [i \in 0..2 * length - 1 |-> IF i < size THEN buffer[Masked(head + i)] ELSE Empty]

Enqueue(m) ==
  /\ size < MaxBacklog
  /\ \/ disposed /\ result' = "ErrMailboxDisposed" /\ UNCHANGED <<length, buffer, head, size>>
     \/ /\ ~disposed
        /\ result' = "null" /\ size' = size + 1
        /\ \/ length = 0 /\ length' = 1 /\ buffer' = [i \in {0} |-> m] /\ UNCHANGED head
           \/ /\ length # 0 /\ size = length
              /\ length' = 2 * length /\ head' = 0
              /\ buffer' = [Grown EXCEPT ![size] = m]
           \/ /\ length # 0 /\ size # length
              /\ buffer' = [buffer EXCEPT ![Masked(head + size)] = m]
              /\ UNCHANGED <<length, head>>
  /\ UNCHANGED <<drained, disposed>>

\* Mutant: the slot is not cleared.
Cleared_Not(b, i) == b

Cleared(b, i) == [b EXCEPT ![i] = Empty]

\* Only the first drain gives the ring back, and only a small one.
Dequeue ==
  /\ \/ size = 0 /\ result' = "undefined" /\ UNCHANGED <<length, buffer, head, size, drained>>
     \/ /\ size > 1
        /\ result' = buffer[head] /\ buffer' = Cleared(buffer, head)
        /\ head' = Masked(head + 1) /\ size' = size - 1
        /\ UNCHANGED <<length, drained>>
     \/ /\ size = 1
        /\ result' = buffer[head] /\ head' = 0 /\ size' = 0 /\ drained' = TRUE
        /\ IF ~drained /\ length <= RELEASE_CAPACITY
           THEN length' = 0 /\ buffer' = NoBuffer
           ELSE buffer' = Cleared(buffer, head) /\ UNCHANGED length
  /\ UNCHANGED disposed

Dispose ==
  /\ disposed' = TRUE /\ result' = "null"
  /\ length' = 0 /\ buffer' = NoBuffer /\ head' = 0 /\ size' = 0 /\ UNCHANGED drained

Next == Dequeue \/ Dispose \/ \E m \in Msgs : Enqueue(m)
Spec == Init /\ [][Next]_vars

-----------------------------------------------------------------------------
\* The ring's length is zero or a power of two, the backlog fits, and slots
\* outside it hold no message: nothing processed lingers, grown or wrapped.
RingInv ==
  /\ length \in {0} \cup {2^k : k \in 0..MaxBacklog}
  /\ DOMAIN buffer = 0..length - 1
  /\ size <= length /\ (length = 0 \/ head < length)
  /\ \A j \in 0..length - 1 : buffer[j] # Empty <=> \E i \in 0..size - 1 : j = Masked(head + i)

Never(n) == FALSE
Queue == INSTANCE Mailbox WITH
  Full <- Never, queue <- [i \in 1..size |-> buffer[Masked(head + i - 1)]]

\* Whatever the sequence of calls, growth and release included, the mailbox
\* answers as an unbounded first-in first-out queue would.
IsQueue == Queue!Spec

\* Mailbox documentation: idle mailboxes at or below the release capacity
\* release the buffer.
IdleHoldsNoBuffer == size = 0 => length = 0 \/ length > RELEASE_CAPACITY
=============================================================================
