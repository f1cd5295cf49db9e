----------------------------- MODULE MCMailboxes -----------------------------
(***************************************************************************)
(* The five mailboxes for TLC.  They share no state; a run explores every  *)
(* sequence of calls to one of them, named by kind.                        *)
(***************************************************************************)
EXTENDS BoundedMailbox

VARIABLES kind,
  length, uBuffer, uHead, uSize, drained, uDisposed, uResult,
  data, read, write, next, sHead, tail, spare, sSize, sDisposed, sResult,
  senders, pending, active, nextActive, activeHead, activeTail, fSize, fDisposed,
  fResult, passed,
  items, seqs, seq, stable, pCapacity, pDisposed, pResult, arrivals

\* A ring that grows up to eight slots and is released at two.
Unbounded == INSTANCE UnboundedMailbox WITH
  RELEASE_CAPACITY <- 2, MaxBacklog <- 5, buffer <- uBuffer, head <- uHead,
  size <- uSize, disposed <- uDisposed, result <- uResult

\* Segments of two slots.
Segmented == INSTANCE SegmentedMailbox WITH
  Segs <- 1 .. 4, Nil <- Empty, SEGMENT_SIZE <- 2, MaxBacklog <- 4,
  head <- sHead, size <- sSize, disposed <- sDisposed, result <- sResult

\* Three senders.
Fair == INSTANCE FairMailbox WITH
  Keys <- 1 .. 3, Nil <- Empty, MaxPending <- 2,
  size <- fSize, disposed <- fDisposed, result <- fResult

\* A heap of three levels, with ties, bounded and not, stable and not.
Priority == INSTANCE PriorityMailbox WITH
  Prios <- 1 .. 3, Capacities <- {3, 10}, MaxArrivals <- 6,
  capacity <- pCapacity, disposed <- pDisposed, result <- pResult

uVars == <<length, uBuffer, uHead, uSize, drained, uDisposed, uResult>>
sVars == <<data, read, write, next, sHead, tail, spare, sSize, sDisposed, sResult>>
fVars == <<senders, pending, active, nextActive, activeHead, activeTail, fSize,
           fDisposed, fResult, passed>>
pVars == <<items, seqs, seq, stable, pCapacity, pDisposed, pResult, arrivals>>
mcvars == <<vars, kind, uVars, sVars, fVars, pVars>>

MCInit ==
  /\ kind \in {"bounded", "unbounded", "segmented", "fair", "priority"}
  /\ Init /\ Unbounded!Init /\ Segmented!Init /\ Fair!Init /\ Priority!Init
  /\ kind = "priority" \/ (stable /\ pCapacity = 3)

MCNext ==
  /\ UNCHANGED kind
  /\ \/ kind = "bounded" /\ Next /\ UNCHANGED <<uVars, sVars, fVars, pVars>>
     \/ kind = "unbounded" /\ Unbounded!Next /\ UNCHANGED <<vars, sVars, fVars, pVars>>
     \/ kind = "segmented" /\ Segmented!Next /\ UNCHANGED <<vars, uVars, fVars, pVars>>
     \/ kind = "fair" /\ Fair!Next /\ UNCHANGED <<vars, uVars, sVars, pVars>>
     \/ kind = "priority" /\ Priority!Next /\ UNCHANGED <<vars, uVars, sVars, fVars>>

MCSpec == MCInit /\ [][MCNext]_mcvars

-----------------------------------------------------------------------------
\* The other mailboxes' structures: the growing ring is a power of two and holds
\* the backlog and nothing else, the list of segments ends at its tail with a
\* blank spare, the ring of turns and the map hold the same boxes, and the two
\* parallel arrays of the heap are one heap.
StructuresSound ==
  /\ kind = "unbounded" => Unbounded!RingInv
  /\ kind = "segmented" => Segmented!ListSound
  /\ kind = "fair" => Fair!RingSound
  /\ kind = "priority" => Priority!HeapInv

\* UnboundedMailbox, UnboundedSegmentedMailbox: for every caller an unbounded
\* first-in first-out queue, through growth, release and recycled segments.
AreQueues == Unbounded!IsQueue /\ Segmented!IsQueue

\* UnboundedFairMailbox, PriorityMailboxBase: no sender is served twice while
\* another one waits; and a priority queue, first-in first-out if stable.
ServesInOrder == Fair!TakesTurns /\ Priority!IsPriorityQueue
=============================================================================
