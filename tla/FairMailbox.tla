----------------------------- MODULE FairMailbox -----------------------------
(***************************************************************************)
(* class UnboundedFairMailbox (src/src/fair.mailbox.ts): a sub-queue per   *)
(* sender, the sub-queues with messages linked in the order of their       *)
(* turns.  A sub-queue is an UnboundedMailbox, a first-in first-out queue  *)
(* by IsQueue of that module: here it is the number of its messages.  A    *)
(* box dropped from the map and the next box of its key are alike, so a    *)
(* box is its key.                                                         *)
(***************************************************************************)
EXTENDS Naturals, FiniteSets, FiniteSetsExt

CONSTANTS
  Keys,        \* the values of senderKeyOf
  Nil,
  MaxPending   \* bound: messages in a sub-queue

VARIABLES
  senders,     \* keys of the map
  pending,     \* messages in the queue of each box
  active, nextActive, activeHead, activeTail, size, disposed,
  result,      \* the key of the message dequeued
  passed       \* history: the boxes served while a box has been waiting

boxes == <<senders, pending, active, nextActive, activeHead, activeTail, size>>
vars == <<boxes, disposed, result, passed>>

Init ==
  /\ senders = {} /\ pending = [k \in Keys |-> 0] /\ active = [k \in Keys |-> FALSE]
  /\ nextActive = [k \in Keys |-> Nil] /\ activeHead = Nil /\ activeTail = Nil
  /\ size = 0 /\ disposed = FALSE /\ result = Nil
  /\ passed = [k \in Keys |-> {}]

\* Mutant: the box is put in front.
PushActive_Front(k, ring) ==
  [head |-> k, tail |-> IF ring.tail = Nil THEN k ELSE ring.tail,
   next |-> [ring.next EXCEPT ![k] = ring.head]]

\* A ring is its head, its tail and the links.
PushActive(k, ring) ==
  [head |-> IF ring.tail = Nil THEN k ELSE ring.head,
   tail |-> k,
   next |-> [b \in Keys |-> IF b = k THEN Nil ELSE IF b = ring.tail THEN k ELSE ring.next[b]]]

\* Mutant: the tail is kept when the ring becomes empty.
PopActive_Tail(ring) ==
  [head |-> ring.next[ring.head], tail |-> ring.tail,
   next |-> [ring.next EXCEPT ![ring.head] = Nil]]

PopActive(ring) ==
  [head |-> ring.next[ring.head],
   tail |-> IF ring.next[ring.head] = Nil THEN Nil ELSE ring.tail,
   next |-> [ring.next EXCEPT ![ring.head] = Nil]]

Ring == [head |-> activeHead, tail |-> activeTail, next |-> nextActive]
Becomes(ring) == activeHead' = ring.head /\ activeTail' = ring.tail /\ nextActive' = ring.next

Enqueue(k) ==
  /\ pending[k] < MaxPending
  /\ \/ disposed /\ UNCHANGED <<boxes, passed>>
     \/ /\ ~disposed
        /\ senders' = senders \cup {k}
        /\ pending' = [pending EXCEPT ![k] = @ + 1] /\ size' = size + 1
        /\ active' = [active EXCEPT ![k] = TRUE]
        /\ Becomes(IF active[k] THEN Ring ELSE PushActive(k, Ring))
        /\ passed' = IF pending[k] = 0 THEN [passed EXCEPT ![k] = {}] ELSE passed
  /\ result' = Nil /\ UNCHANGED disposed

Dequeue ==
  /\ \/ activeHead = Nil /\ result' = Nil /\ UNCHANGED <<boxes, passed>>
     \/ /\ activeHead # Nil
        /\ result' = activeHead
        /\ pending' = [pending EXCEPT ![activeHead] = @ - 1] /\ size' = size - 1
        /\ \/ /\ pending[activeHead] = 1
              /\ active' = [active EXCEPT ![activeHead] = FALSE]
              /\ senders' = senders \ {activeHead}
              /\ Becomes(PopActive(Ring))
           \/ /\ pending[activeHead] # 1
              /\ Becomes(PushActive(activeHead, PopActive(Ring)))
              /\ UNCHANGED <<active, senders>>
        /\ passed' = [k \in Keys |-> IF k = activeHead THEN {}
                                     ELSE IF pending[k] > 0 THEN passed[k] \cup {activeHead}
                                     ELSE passed[k]]
  /\ UNCHANGED disposed

\* The boxes are dropped with the map: nothing refers to their links.
Dispose ==
  /\ disposed' = TRUE /\ senders' = {} /\ activeHead' = Nil /\ activeTail' = Nil /\ size' = 0
  /\ pending' = [k \in Keys |-> 0] /\ active' = [k \in Keys |-> FALSE]
  /\ nextActive' = [k \in Keys |-> Nil]
  /\ result' = Nil /\ passed' = [k \in Keys |-> {}]

Next == Dequeue \/ Dispose \/ \E k \in Keys : Enqueue(k)
Spec == Init /\ [][Next]_vars

-----------------------------------------------------------------------------
\* The boxes of the first n turns.
Turns(n) ==
  LET box[i \in 0..n] == IF i = 0 THEN activeHead
                         ELSE IF box[i - 1] = Nil THEN Nil ELSE nextActive[box[i - 1]]
  IN [i \in 1..n |-> box[i - 1]]

\* The ring holds every box with a message once, ends at the tail, and the
\* map holds the same boxes: "a box in the active ring always has a pending
\* message" (fair.mailbox.ts), and no sender is remembered once drained.
RingSound ==
  LET n == Cardinality(senders)
      turns == Turns(n + 1)
  IN /\ senders = {k \in Keys : pending[k] > 0}
     /\ senders = {k \in Keys : active[k]}
     /\ senders = {turns[i] : i \in 1..n}
     /\ turns[n + 1] = Nil
     /\ activeTail = IF n = 0 THEN Nil ELSE turns[n]
     /\ size = MapThenSumSet(LAMBDA k : pending[k], Keys)

\* No sender is served twice while another one waits, however the two drain
\* and refill their sub-queues: a chatty sender cannot starve a quiet one.
TakesTurns ==
  [][\A k \in Keys : pending[k] > 0 /\ result' \in Keys \ {k} => result' \notin passed[k]]_vars
=============================================================================
