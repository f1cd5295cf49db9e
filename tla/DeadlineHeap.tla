---------------------------- MODULE DeadlineHeap ----------------------------
(***************************************************************************)
(* The heap of the passivation manager (src/src/passivation.manager.ts)    *)
(* and of the scheduler (src/src/scheduler.ts): entries ordered by         *)
(* deadline, each of which knows its slot so that it can be removed from   *)
(* the middle.  The scheduler keeps a deadline in its entry, where it only *)
(* changes while the entry is out of the heap.                             *)
(***************************************************************************)
EXTENDS Integers, Sequences

\* A heap of entries of the set: its arrays, and the slot of every entry,
\* 0 for an entry that is not in it (-1 in the code).
EmptyHeap(entries) ==
  [heap |-> <<>>, deadlines |-> <<>>, slot |-> [e \in entries |-> 0]]

Before(h, i, j) == h.deadlines[i] < h.deadlines[j]

Exchange(s, i, j) == [s EXCEPT ![i] = s[j], ![j] = s[i]]

\* Mutant: the entries are not told their new slots.
Swap_Silent(h, i, j) ==
  [h EXCEPT !.heap = Exchange(@, i, j), !.deadlines = Exchange(@, i, j)]

Swap(h, i, j) ==
  [heap |-> Exchange(h.heap, i, j), deadlines |-> Exchange(h.deadlines, i, j),
   slot |-> [h.slot EXCEPT ![h.heap[i]] = j, ![h.heap[j]] = i]]

Tree == INSTANCE BinaryHeap

Push(h, e, deadline) ==
  LET n == Len(h.heap) + 1
  IN Tree!Up([heap |-> Append(h.heap, e), deadlines |-> Append(h.deadlines, deadline),
              slot |-> [h.slot EXCEPT ![e] = n]], n)

AllButLast(s) == SubSeq(s, 1, Len(s) - 1)

\* Mutant: the entry moved into the slot only goes down.
RemoveAt_Down(h, i) ==
  LET n == Len(h.heap)
      without == [heap |-> AllButLast(h.heap), deadlines |-> AllButLast(h.deadlines),
                  slot |-> [h.slot EXCEPT ![h.heap[i]] = 0]]
      moved == [heap |-> [without.heap EXCEPT ![i] = h.heap[n]],
                deadlines |-> [without.deadlines EXCEPT ![i] = h.deadlines[n]],
                slot |-> [without.slot EXCEPT ![h.heap[n]] = i]]
  IN IF i = n THEN without ELSE Tree!Down(moved, i, n - 1)

\* The last entry moves into the slot and settles in either direction.
RemoveAt(h, i) ==
  LET n == Len(h.heap)
      without == [heap |-> AllButLast(h.heap), deadlines |-> AllButLast(h.deadlines),
                  slot |-> [h.slot EXCEPT ![h.heap[i]] = 0]]
      moved == [heap |-> [without.heap EXCEPT ![i] = h.heap[n]],
                deadlines |-> [without.deadlines EXCEPT ![i] = h.deadlines[n]],
                slot |-> [without.slot EXCEPT ![h.heap[n]] = i]]
  IN IF i = n THEN without ELSE Tree!Up(Tree!Down(moved, i, n - 1), i)

\* An entry that is not in the heap is not removed.
Remove(h, e) == IF h.slot[e] = 0 THEN h ELSE RemoveAt(h, h.slot[e])

\* The earliest entry, of a heap that is not empty.
Root(h) == h.heap[1]
Pop(h) == RemoveAt(h, 1)

Holds(h, e) == h.slot[e] # 0
Deadline(h, e) == h.deadlines[h.slot[e]]

-----------------------------------------------------------------------------
\* Parents come no later than their children, the heap holds no entry
\* twice, and every entry's slot is where it lies.
IsHeap(h) ==
  /\ Len(h.deadlines) = Len(h.heap)
  /\ \A j \in 2..Len(h.heap) : h.deadlines[j \div 2] <= h.deadlines[j]
  /\ \A e \in DOMAIN h.slot : \A j \in 1..Len(h.heap) : h.heap[j] = e <=> h.slot[e] = j
  /\ \A e \in DOMAIN h.slot : h.slot[e] \in 0..Len(h.heap)
=============================================================================
