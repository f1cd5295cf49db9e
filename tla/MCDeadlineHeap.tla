--------------------------- MODULE MCDeadlineHeap ---------------------------
(* Every sequence of operations on a small DeadlineHeap.                   *)
EXTENDS DeadlineHeap

CONSTANTS Entries, Deadlines

VARIABLES
  h,
  due    \* reference: the deadline of each entry in the heap

Init == h = EmptyHeap(Entries) /\ due = [e \in {} |-> 0]

PushEntry(e, d) ==
  /\ ~Holds(h, e)
  /\ h' = Push(h, e, d)
  /\ due' = [f \in DOMAIN due \cup {e} |-> IF f = e THEN d ELSE due[f]]
RemoveEntry(e) ==
  /\ h' = Remove(h, e) /\ due' = [f \in DOMAIN due \ {e} |-> due[f]]
PopEntry ==
  /\ h.heap # <<>>
  /\ h' = Pop(h) /\ due' = [f \in DOMAIN due \ {Root(h)} |-> due[f]]

Next == PopEntry \/ \E e \in Entries : RemoveEntry(e) \/ \E d \in Deadlines : PushEntry(e, d)
Spec == Init /\ [][Next]_<<h, due>>

\* After any pushes, pops and removals from the middle the arrays are a heap
\* whose entries know their slots, so the next removal takes the right one.
HeapInv == IsHeap(h)

\* The heap holds the entries put in and not taken out, each with its own
\* deadline, and its root is one of the earliest: what the shared timer is
\* armed for.
RootIsEarliest ==
  /\ {e \in Entries : Holds(h, e)} = DOMAIN due
  /\ \A e \in DOMAIN due : Deadline(h, e) = due[e] /\ due[Root(h)] <= due[e]
=============================================================================
