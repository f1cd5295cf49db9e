--------------------------- MODULE PriorityMailbox ---------------------------
(***************************************************************************)
(* class PriorityMailboxBase (src/src/priority.mailbox.ts): a binary heap  *)
(* in an array, with a parallel array of sequence numbers when stable.     *)
(* priorityFunc is a strict order given by the messages' priorities.       *)
(***************************************************************************)
EXTENDS Integers, Sequences

CONSTANTS
  Prios,
  Capacities,    \* of the mailboxes; a large one stands for Infinity
  MaxArrivals    \* bound: messages accepted

VARIABLES
  items,      \* the heap, each message with its arrival number as a ghost
  seqs,       \* <<>> throughout when ordering is unstable
  seq, stable, capacity, disposed, result,
  arrivals    \* history: messages accepted

vars == <<items, seqs, seq, stable, capacity, disposed, result, arrivals>>

\* An answer that is no message.
Returned(answer) == [answer |-> answer]

Init ==
  /\ items = <<>> /\ seqs = <<>> /\ seq = 0 /\ disposed = FALSE
  /\ stable \in BOOLEAN /\ capacity \in Capacities
  /\ result = Returned("null") /\ arrivals = 0

PriorityFunc(a, b) == a.prio > b.prio

\* A heap is its two arrays; slot i of the code is i + 1 here.
\* Mutant: a tie is not broken by arrival.
Less_Unstable(h, i, j) == PriorityFunc(h.items[i], h.items[j])

Less(h, i, j) ==
  \/ PriorityFunc(h.items[i], h.items[j])
  \/ /\ stable /\ ~PriorityFunc(h.items[j], h.items[i])
     /\ h.seqs[i] < h.seqs[j]

Exchange(s, i, j) == [s EXCEPT ![i] = s[j], ![j] = s[i]]

\* Mutant: the sequence numbers stay where they are.
Swap_Items(h, i, j) == [h EXCEPT !.items = Exchange(@, i, j)]

Swap(h, i, j) ==
  [items |-> Exchange(h.items, i, j),
   seqs |-> IF stable THEN Exchange(h.seqs, i, j) ELSE h.seqs]

Tree == INSTANCE BinaryHeap WITH Before <- Less

SiftUp(heap, slot) == Tree!Up(heap, slot)
SiftDown(heap) == Tree!Down(heap, 1, Len(heap.items))

Enqueue(p) ==
  /\ arrivals < MaxArrivals
  /\ \/ disposed /\ result' = Returned("ErrMailboxDisposed") /\ UNCHANGED <<items, seqs, seq, arrivals>>
     \/ /\ ~disposed /\ Len(items) >= capacity
        /\ result' = Returned("ErrMailboxFull") /\ UNCHANGED <<items, seqs, seq, arrivals>>
     \/ /\ ~disposed /\ Len(items) < capacity
        /\ LET pushed == [items |-> Append(items, [prio |-> p, arrival |-> arrivals]),
                          seqs |-> IF stable THEN Append(seqs, seq) ELSE seqs]
               heap == SiftUp(pushed, Len(items) + 1)
           IN items' = heap.items /\ seqs' = heap.seqs
        /\ seq' = IF stable THEN seq + 1 ELSE seq
        /\ result' = Returned("null") /\ arrivals' = arrivals + 1
  /\ UNCHANGED <<stable, capacity, disposed>>

\* pop(): the array without its last slot, which then replaces the first.
Popped(s) == IF Len(s) <= 1 THEN <<>> ELSE <<s[Len(s)]>> \o SubSeq(s, 2, Len(s) - 1)

Dequeue ==
  /\ \/ items = <<>> /\ result' = Returned("undefined") /\ UNCHANGED <<items, seqs>>
     \/ /\ items # <<>>
        /\ result' = items[1]
        /\ LET heap == SiftDown([items |-> Popped(items), seqs |-> Popped(seqs)])
           IN items' = heap.items /\ seqs' = heap.seqs
  /\ UNCHANGED <<seq, stable, capacity, disposed, arrivals>>

Dispose ==
  /\ disposed' = TRUE /\ items' = <<>> /\ seqs' = <<>> /\ result' = Returned("null")
  /\ UNCHANGED <<seq, stable, capacity, arrivals>>

Next == Dequeue \/ Dispose \/ \E p \in Prios : Enqueue(p)
Spec == Init /\ [][Next]_vars

-----------------------------------------------------------------------------
\* No slot outranks its parent, and in a stable mailbox each slot's sequence
\* number is still that of the message in it after any number of swaps.
HeapInv ==
  /\ \A j \in 2..Len(items) : ~Less([items |-> items, seqs |-> seqs], j, j \div 2)
  /\ Len(items) <= capacity
  /\ seqs = IF stable THEN [i \in DOMAIN items |-> items[i].arrival] ELSE <<>>

Queue == INSTANCE PriorityQueue WITH messages <- {items[i] : i \in DOMAIN items}

\* Whatever the sequence of calls, the heap loses and invents no message,
\* and answers with a message of the highest priority, the oldest one when
\* the mailbox is stable.
IsPriorityQueue == Queue!Spec
=============================================================================
