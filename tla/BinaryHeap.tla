----------------------------- MODULE BinaryHeap -----------------------------
(***************************************************************************)
(* The two walks of a binary heap in an array, as the priority mailboxes,  *)
(* the scheduler and the passivation manager each write them.  A heap is   *)
(* any value h; slot i of the code is slot i + 1 here.                     *)
(***************************************************************************)
EXTENDS Integers

CONSTANTS
  Before(_, _, _),  \* Before(h, i, j): slot i of h goes above slot j
  Swap(_, _, _)     \* Swap(h, i, j): h with the two slots exchanged

\* From a slot towards the root, as long as the parent is outranked.
Up(h, slot) ==
  LET up[n \in 0..slot] ==
        IF n = 0 THEN [h |-> h, j |-> slot]
        ELSE LET s == up[n - 1]
                 parent == s.j \div 2
             IN IF s.j > 1 /\ Before(s.h, s.j, parent)
                THEN [h |-> Swap(s.h, parent, s.j), j |-> parent] ELSE s
  IN up[slot].h

\* From a slot of a heap of len slots towards the leaves: the better child
\* comes up.
Down(h, slot, len) ==
  LET Child(s) == IF 2 * s.i + 1 <= len /\ Before(s.h, 2 * s.i + 1, 2 * s.i)
                  THEN 2 * s.i + 1 ELSE 2 * s.i
      down[n \in 0..len] ==
        IF n = 0 THEN [h |-> h, i |-> slot]
        ELSE LET s == down[n - 1]
             IN IF 2 * s.i <= len /\ Before(s.h, Child(s), s.i)
                THEN [h |-> Swap(s.h, s.i, Child(s)), i |-> Child(s)] ELSE s
  IN down[len].h
=============================================================================
