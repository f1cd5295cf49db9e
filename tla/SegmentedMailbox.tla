-------------------------- MODULE SegmentedMailbox --------------------------
(***************************************************************************)
(* class UnboundedSegmentedMailbox (src/src/segmented.mailbox.ts): a list  *)
(* of fixed-size segments, of which a drained one is kept as a spare.      *)
(***************************************************************************)
EXTENDS Integers, Sequences, FiniteSets

CONSTANTS
  Msgs,
  Empty,         \* null in a slot
  Segs,          \* segments that can exist at once
  Nil,           \* no segment
  SEGMENT_SIZE,
  MaxBacklog     \* bound: messages in the mailbox

VARIABLES data, read, write, next,  \* of each segment
          head, tail, spare, size, disposed, result

segments == <<data, read, write, next>>
vars == <<segments, head, tail, spare, size, disposed, result>>

Blank == [i \in 0..SEGMENT_SIZE - 1 |-> Empty]
All(v) == [s \in Segs |-> v]

Init ==
  /\ data = All(Blank) /\ read = All(0) /\ write = All(0) /\ next = All(Nil)
  /\ head = (CHOOSE s \in Segs : TRUE) /\ tail = head /\ spare = Nil
  /\ size = 0 /\ disposed = FALSE /\ result = "null"

\* The segments from s to the end of the list.
Chain(s) ==
  LET walk[n \in 0..Cardinality(Segs)] ==
        IF n = 0 THEN <<s>>
        ELSE LET w == walk[n - 1]
             IN IF next[w[Len(w)]] = Nil THEN w ELSE Append(w, next[w[Len(w)]])
  IN walk[Cardinality(Segs)]
InUse == {Chain(head)[i] : i \in 1..Len(Chain(head))} \cup ({spare} \ {Nil})

\* new Segment(); a segment outside the list is garbage, and blank.
NewSegment == CHOOSE s \in Segs : s \notin InUse

\* A full tail is followed by the spare or by a new segment.
Enqueue(m) ==
  /\ size < MaxBacklog
  /\ \/ disposed /\ result' = "ErrMailboxDisposed" /\ UNCHANGED <<segments, tail, spare, size>>
     \/ /\ ~disposed
        /\ result' = "null" /\ size' = size + 1
        /\ \/ /\ write[tail] # SEGMENT_SIZE
              /\ data' = [data EXCEPT ![tail][write[tail]] = m]
              /\ write' = [write EXCEPT ![tail] = @ + 1]
              /\ UNCHANGED <<read, next, tail, spare>>
           \/ /\ write[tail] = SEGMENT_SIZE
              /\ tail' = (IF spare # Nil THEN spare ELSE NewSegment) /\ spare' = Nil
              /\ next' = [next EXCEPT ![tail] = tail']
              /\ data' = [data EXCEPT ![tail'][write[tail']] = m]
              /\ write' = [write EXCEPT ![tail'] = @ + 1]
              /\ UNCHANGED read
  /\ UNCHANGED <<head, disposed>>

\* Mutant: the drained segment keeps its successor.
Recycled_Linked(s) == <<[read EXCEPT ![s] = 0], [write EXCEPT ![s] = 0], next>>

\* A drained segment, ready to be the spare.
Recycled(s) == <<[read EXCEPT ![s] = 0], [write EXCEPT ![s] = 0], [next EXCEPT ![s] = Nil]>>

\* Mutant: the tail is not rewound when it drains.
Rewinds_Never(s) == FALSE

\* The message taken is the last of the tail: the tail starts over.
Rewinds(s) == s = tail /\ read[s] + 1 = write[s]

\* One message of segment s, with positions r and w after recycling.
Take(s, r, w) ==
  /\ result' = data[s][r[s]] /\ size' = size - 1
  /\ data' = [data EXCEPT ![s][r[s]] = Empty]
  /\ read' = [r EXCEPT ![s] = IF Rewinds(s) THEN 0 ELSE @ + 1]
  /\ write' = [w EXCEPT ![s] = IF Rewinds(s) THEN 0 ELSE @]

\* A drained head with a successor is recycled first.  The loop of
\* dequeue() runs at most once: only the tail can be without a message.
Dequeue ==
  /\ \/ /\ read[head] = write[head] /\ next[head] = Nil
        /\ result' = "undefined" /\ UNCHANGED <<segments, head, spare, size>>
     \/ /\ read[head] = write[head] /\ next[head] # Nil
        /\ LET r == Recycled(head)
           IN Take(next[head], r[1], r[2]) /\ next' = r[3]
        /\ spare' = IF spare = Nil THEN head ELSE spare
        /\ head' = next[head]
     \/ /\ read[head] # write[head]
        /\ Take(head, read, write)
        /\ UNCHANGED <<next, head, spare>>
  /\ UNCHANGED <<tail, disposed>>

Dispose ==
  /\ disposed' = TRUE /\ result' = "null" /\ size' = 0 /\ spare' = Nil
  /\ data' = All(Blank) /\ read' = All(0) /\ write' = All(0) /\ next' = All(Nil)
  /\ tail' = head /\ UNCHANGED head

Next == Dequeue \/ Dispose \/ \E m \in Msgs : Enqueue(m)
Spec == Init /\ [][Next]_vars

-----------------------------------------------------------------------------
\* The backlog, segment by segment.
Part(s) == [i \in 1..write[s] - read[s] |-> data[s][read[s] + i - 1]]
Backlog ==
  LET chain == Chain(head)
      upTo[n \in 0..Len(chain)] == IF n = 0 THEN <<>> ELSE upTo[n - 1] \o Part(chain[n])
  IN upTo[Len(chain)]

\* The list ends at the tail, every segment but the tail was filled, every
\* segment but the head has a message (dequeue() looks no further than
\* one), a drained tail is rewound, and the spare is blank and unlinked.
ListSound ==
  LET chain == Chain(head)
  IN /\ chain[Len(chain)] = tail /\ next[tail] = Nil
     /\ \A i \in 2..Len(chain) : read[chain[i]] < write[chain[i]]
     /\ \A i \in 1..Len(chain) - 1 : write[chain[i]] = SEGMENT_SIZE
     /\ read[tail] = write[tail] => write[tail] = 0
     /\ spare # Nil => /\ \A i \in 1..Len(chain) : chain[i] # spare
                       /\ read[spare] = 0 /\ write[spare] = 0 /\ data[spare] = Blank
     /\ size = Len(Backlog)

Never(n) == FALSE
Queue == INSTANCE Mailbox WITH Full <- Never, queue <- Backlog

\* Whatever the sequence of calls, across segment boundaries and recycled
\* segments, the mailbox answers as an unbounded first-in first-out queue.
IsQueue == Queue!Spec
=============================================================================
