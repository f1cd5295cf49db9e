-------------------------- MODULE DispatcherProofs --------------------------
(***************************************************************************)
(* Proofs about Dispatcher, for every set of actors, backlog and quota.    *)
(***************************************************************************)
EXTENDS Dispatcher, TLAPS

\* What QueueArmed needs to be inductive: the queue and the pump's locals.
QueueInv ==
  /\ ready \in Seq(Actors)
  /\ on \in Actors \cup {NoActor}
  /\ n \in Nat \cup {-1} /\ i \in Nat
  /\ QueueArmed

\* arm() leaves a pump armed, whoever calls it.
LEMMA ArmArms ==
  ASSUME NEW late, Arm(late)
  PROVE  armed' # "no"
BY DEF Arm

\* An entry joins the queue: the batch of a running pump keeps its bounds.
LEMMA Joins ==
  ASSUME QueueInv, NEW a \in Actors, NEW late,
         ready' = Append(ready, a), Arm(late),
         UNCHANGED <<n, i>>, on' \in Actors \cup {NoActor}
  PROVE  QueueInv'
<1>1. ready' \in Seq(Actors) /\ Len(ready') = Len(ready) + 1
  BY DEF QueueInv
<1>2. armed' # "no"
  BY ArmArms
<1> QED
  BY <1>1, <1>2 DEF QueueInv, QueueArmed, Pumping

LEMMA QueueStep ==
  ASSUME QueueInv, [Next]_vars
  PROVE  QueueInv'
<1> USE DEF queue, pumpVars, stack, actors
<1>1. ASSUME NEW a \in Actors, Send(a)
      PROVE  QueueInv'
  <2>1. CASE processing[a]
    BY <1>1, <2>1 DEF Send, Schedule, QueueInv, QueueArmed, Pumping
  <2>2. CASE ~processing[a]
    BY <1>1, <2>2, Joins DEF Send, Schedule, QueueInv
  <2> QED
    BY <2>1, <2>2
<1>2. ASSUME NEW a \in Actors, Resume(a)
      PROVE  QueueInv'
  <2>1. CASE parked[a] + 1 >= THROUGHPUT
    BY <1>2, <2>1, Joins DEF Resume, Yield, QueueInv
  <2>2. CASE ~(parked[a] + 1 >= THROUGHPUT)
    BY <1>2, <2>2 DEF Resume, QueueInv, QueueArmed, Pumping
  <2> QED
    BY <2>1, <2>2
<1>3. CASE PumpStart
  BY <1>3 DEF PumpStart, StackFree, QueueInv, QueueArmed, Pumping
<1>4. CASE Dispatch
  <2>1. ready[i + 1] \in Actors
    BY <1>4 DEF Dispatch, QueueInv, QueueArmed, Pumping
  <2> QED
    BY <1>4, <2>1 DEF Dispatch, QueueInv, QueueArmed, Pumping
<1>5. CASE PumpEnd
  <2>1. n \in Nat /\ n <= Len(ready) /\ n' = -1 /\ i' = 0 /\ on' = on
    BY <1>5 DEF PumpEnd, QueueInv, QueueArmed, Pumping
  <2>2. ready' \in Seq(Actors) /\ Len(ready') = Len(ready) - n
    BY <1>5, <2>1 DEF PumpEnd, Compact, QueueInv
  <2>3. Len(ready) > n => armed' # "no"
    BY <1>5, ArmArms DEF PumpEnd
  <2> QED
    BY <2>1, <2>2, <2>3 DEF QueueInv, QueueArmed, Pumping
<1>6. CASE LoopIdle
  BY <1>6 DEF LoopIdle, QueueInv, QueueArmed, Pumping
<1>7. CASE LoopParks
  BY <1>7 DEF LoopParks, QueueInv, QueueArmed, Pumping
<1>8. CASE LoopHandles
  <2>1. CASE quota + 1 >= THROUGHPUT
    BY <1>8, <2>1, Joins DEF LoopHandles, Yield, QueueInv
  <2>2. CASE ~(quota + 1 >= THROUGHPUT)
    BY <1>8, <2>2 DEF LoopHandles, QueueInv, QueueArmed, Pumping
  <2> QED
    BY <2>1, <2>2
<1>9. CASE EventLoopTurn
  BY <1>9 DEF EventLoopTurn, QueueInv, QueueArmed, Pumping
<1>10. CASE UNCHANGED vars
  BY <1>10 DEF vars, QueueInv, QueueArmed, Pumping
<1>11. QED
  BY <1>1, <1>2, <1>3, <1>4, <1>5, <1>6, <1>7, <1>8, <1>9, <1>10
  DEF Next, PumpStep, LoopStep

\* No batch is forgotten: whatever joins the ready queue of pid.ts, during a
\* pump or between two, has a pump armed that will dispatch it, for any number
\* of actors and any quota.
THEOREM NoBatchForgotten == Spec => []QueueArmed
<1>1. Init => QueueInv
  BY DEF Init, QueueInv, QueueArmed, Pumping
<1>2. QueueInv /\ [Next]_vars => QueueInv'
  BY QueueStep
<1>3. QueueInv => QueueArmed
  BY DEF QueueInv
<1> QED
  BY <1>1, <1>2, <1>3, PTL DEF Spec
=============================================================================
