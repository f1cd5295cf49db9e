---------------------------- MODULE PriorityQueue ----------------------------
(***************************************************************************)
(* What a priority mailbox promises (src/src/priority.mailbox.ts): a       *)
(* message that none outranks comes first and, when the mailbox is stable, *)
(* the oldest of those.                                                    *)
(***************************************************************************)
EXTENDS Naturals, FiniteSets

CONSTANTS Prios

VARIABLES
  messages,   \* of the mailbox, each with its priority and its arrival
  arrivals, stable, capacity, disposed, result

vars == <<messages, arrivals, stable, capacity, disposed, result>>

\* An answer that is no message.
Returned(answer) == [answer |-> answer]

Init == messages = {} /\ arrivals = 0 /\ disposed = FALSE /\ result = Returned("null")

Enqueue(p) ==
  \/ disposed /\ result' = Returned("ErrMailboxDisposed") /\ UNCHANGED <<messages, arrivals>>
  \/ /\ ~disposed /\ Cardinality(messages) >= capacity
     /\ result' = Returned("ErrMailboxFull") /\ UNCHANGED <<messages, arrivals>>
  \/ /\ ~disposed /\ Cardinality(messages) < capacity
     /\ result' = Returned("null") /\ arrivals' = arrivals + 1
     /\ messages' = messages \cup {[prio |-> p, arrival |-> arrivals]}

Best(m) ==
  \A o \in messages : /\ o.prio <= m.prio
                      /\ stable /\ o.prio = m.prio => m.arrival <= o.arrival

Dequeue ==
  \/ messages = {} /\ result' = Returned("undefined") /\ UNCHANGED <<messages, arrivals>>
  \/ \E m \in messages : /\ Best(m) /\ result' = m
                         /\ messages' = messages \ {m} /\ UNCHANGED arrivals

Dispose == disposed' = TRUE /\ result' = Returned("null") /\ messages' = {} /\ UNCHANGED arrivals

Next ==
  /\ \/ (Dequeue \/ \E p \in Prios : Enqueue(p)) /\ UNCHANGED disposed
     \/ Dispose
  /\ UNCHANGED <<stable, capacity>>

Spec == Init /\ [][Next]_vars
=============================================================================
