------------------------------- MODULE Mailbox -------------------------------
(***************************************************************************)
(* What the interface Mailbox promises (src/src/mailbox.ts): a first-in    *)
(* first-out queue that may refuse a message when it holds Capacity of     *)
(* them, and that refuses everything once disposed.                        *)
(***************************************************************************)
EXTENDS Naturals, Sequences

CONSTANTS
  Msgs,      \* messages
  Full(_)    \* whether a queue of this length refuses messages

VARIABLES
  queue,
  disposed,
  result     \* what the last operation returned

Init == queue = <<>> /\ disposed = FALSE /\ result = "null"

\* enqueue(): null when accepted, otherwise why not.
Enqueue(m) ==
  \/ disposed /\ result' = "ErrMailboxDisposed" /\ UNCHANGED queue
  \/ ~disposed /\ Full(Len(queue)) /\ result' = "ErrMailboxFull" /\ UNCHANGED queue
  \/ ~disposed /\ ~Full(Len(queue)) /\ result' = "null" /\ queue' = Append(queue, m)

\* dequeue(): the oldest message, or undefined.
Dequeue ==
  \/ queue = <<>> /\ result' = "undefined" /\ UNCHANGED queue
  \/ queue # <<>> /\ result' = Head(queue) /\ queue' = Tail(queue)

Dispose == queue' = <<>> /\ result' = "null"

Next ==
  \/ (Dequeue \/ \E m \in Msgs : Enqueue(m)) /\ UNCHANGED disposed
  \/ Dispose /\ disposed' = TRUE

Spec == Init /\ [][Next]_<<queue, disposed, result>>
=============================================================================
