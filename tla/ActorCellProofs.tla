-------------------------- MODULE ActorCellProofs --------------------------
(***************************************************************************)
(* Proofs about ActorCell, for every environment, bound and quota.         *)
(***************************************************************************)
EXTENDS ActorCell, TLAPS

LEMMA MessageType ==
  /\ NoMessage \in Message
  /\ \A k \in {"user", "pill", "reply", "panic"}, n \in Nat : <<k, n>> \in Message
  /\ \A m \in Message : m[2] \in Nat
BY DEF NoMessage, Message

LEMMA UserIdsType ==
  ASSUME NEW q \in Seq(Message)
  PROVE  UserIds(q) \subseteq Nat
BY MessageType DEF UserIds

LEMMA QueueOps ==
  ASSUME NEW q \in Seq(Message)
  PROVE  /\ \A m \in Message : Append(q, m) \in Seq(Message)
         /\ q # <<>> => Head(q) \in Message /\ Tail(q) \in Seq(Message)
         /\ \A r \in Seq(Message) : q \o r \in Seq(Message)
         /\ <<>> \in Seq(Message)
OBVIOUS

LEMMA NatAppends ==
  ASSUME NEW q \in Seq(Nat), NEW n \in Nat
  PROVE  Append(q, n) \in Seq(Nat)
OBVIOUS

LEMMA UnstashTypes ==
  ASSUME NEW mb \in Seq(Message), stash \in Seq(Message), dropped \subseteq Nat, UnstashAll(mb)
  PROVE  mailbox' \in Seq(Message) /\ stash' \in Seq(Message) /\ dropped' \subseteq Nat
<1> DEFINE n == Room(mb)
<1>1. CASE Len(stash) <= n
  BY <1>1, QueueOps DEF UnstashAll
<1>2. CASE ~(Len(stash) <= n)
  <2>1. n \in Nat /\ n < Len(stash)
    BY <1>2, ActorCellAssumption DEF Room, HasRoom
  <2>2. stash[n + 1] \in Message
    BY <2>1
  <2>3. SubSeq(stash, 1, n) \in Seq(Message) /\ SubSeq(stash, n + 2, Len(stash)) \in Seq(Message)
    BY <2>1
  <2>4. /\ mailbox' = mb \o SubSeq(stash, 1, n)
        /\ stash' = SubSeq(stash, n + 2, Len(stash))
        /\ dropped' = dropped \cup {stash[n + 1][2]}
    BY <1>2 DEF UnstashAll
  <2> QED
    BY <2>2, <2>3, <2>4, MessageType, QueueOps
<1> QED
  BY <1>1, <1>2

LEMMA PostReceiveControl ==
  ASSUME ControlOK, NEW q \in Nat, NEW susp, PostReceive(q, susp)
  PROVE  /\ count' \in Nat /\ ready' \in Nat /\ quota' \in Nat /\ ended' \in Nat
         /\ pc' \in {"none", "next"}
         /\ sd' \in {"none", "awaitIdle", "woken", "children", "postStop", "done"}
         /\ rs' \in {rs, "woken"}
BY DEF ControlOK, PostReceive, NextOrYield, NotifyIdle, BeginShutdown, StopChildren

LEMMA FlagsStep ==
  ASSUME TypeOK, [Next]_vars
  PROVE  FlagsOK'
<1> USE DEF TypeOK, FlagsOK, flags, queues, loop, life, reqs, bounds, history
<1>1. CASE Start
  BY <1>1 DEF Start, Schedule
<1>2. CASE Tell
  BY <1>2 DEF Tell, Arrive, DoReceive, Accepts, Schedule
<1>3. CASE Shutdown
  BY <1>3 DEF Shutdown, BeginShutdown, StopChildren
<1>4. CASE ShutdownWoken
  BY <1>4 DEF ShutdownWoken, StopChildren
<1>5. CASE ShutdownChildrenStopped
  BY <1>5 DEF ShutdownChildrenStopped
<1>6. CASE ShutdownReset
  BY <1>6 DEF ShutdownReset
<1>7. CASE Restart
  BY <1>7
     DEF Restart, BeginRestart, RestartChildren, RestartTeardown,
         Reinitialize
<1>8. CASE RestartWoken
  BY <1>8 DEF RestartWoken, RestartChildren, RestartTeardown, Reinitialize
<1>9. CASE RestartChildrenStopped
  BY <1>9 DEF RestartChildrenStopped, RestartTeardown, Reinitialize
<1>10. CASE RestartPostStopDone
  BY <1>10 DEF RestartPostStopDone, Reinitialize
<1>11. CASE RestartFails
  BY <1>11 DEF RestartFails
<1>12. CASE RestartSucceeds
  BY <1>12 DEF RestartSucceeds, Schedule
<1>13. CASE Reinstate
  BY <1>13 DEF Reinstate, Schedule
<1>14. CASE SuspendedByParent
  BY <1>14 DEF SuspendedByParent
<1>15. CASE Dispatch
  BY <1>15 DEF Dispatch
<1>16. CASE LoopIdle
  BY <1>16 DEF LoopIdle, NotifyIdle
<1>17. CASE LoopPill
  BY <1>17 DEF LoopPill, BeginShutdown, StopChildren
<1>18. CASE LoopPanicking
  BY <1>18 DEF LoopPanicking
<1>19. CASE LoopReply
  BY <1>19 DEF LoopReply, TakeReply, CompleteRequest, UnstashAll
<1>20. CASE CallbackReturns
  BY <1>20 DEF CallbackReturns
<1>21. CASE LoopStash
  BY <1>21 DEF LoopStash, NextOrYield
<1>22. CASE LoopReceive
  BY <1>22 DEF LoopReceive
<1>23. CASE HandlerParks
  BY <1>23 DEF HandlerParks
<1>24. CASE StashCurrent
  BY <1>24 DEF StashCurrent
<1>25. CASE UnstashByBehavior
  BY <1>25 DEF UnstashByBehavior, UnstashAll
<1>26. ASSUME NEW k \in {"pill", "panic"}, TellCommand(k)
      PROVE  FlagsOK'
  BY <1>26 DEF TellCommand, Arrive, DoReceive, Accepts, Schedule
<1>27. ASSUME NEW h \in Handles, NEW mode \in {"allowAll", "stashNonReentrant"}, Request(h, mode)
      PROVE  FlagsOK'
  BY <1>27 DEF Request
<1>28. ASSUME NEW h \in Handles, Reply(h)
      PROVE  FlagsOK'
  BY <1>28 DEF Reply, DeliverRequestReply, Arrive, DoReceive, Accepts, Schedule
<1>29. ASSUME NEW h \in Handles, Cancel(h)
      PROVE  FlagsOK'
  BY <1>29 DEF Cancel, DeliverRequestReply, Arrive, DoReceive, Accepts, Schedule
<1>30. ASSUME NEW fail \in Faults, HandlerReturns(fail)
      PROVE  FlagsOK'
  BY <1>30
     DEF HandlerReturns, PostReceive, NextOrYield, NotifyIdle, BeginShutdown,
         StopChildren, Faults
<1>31. ASSUME NEW fail \in Faults, ParkedSettles(fail)
      PROVE  FlagsOK'
  BY <1>31
     DEF ParkedSettles, PostReceive, NextOrYield, NotifyIdle, BeginShutdown,
         StopChildren, Faults
<1>32. CASE UNCHANGED vars
  BY <1>32 DEF vars
<1>33. QED
  BY <1>1, <1>2, <1>3, <1>4, <1>5, <1>6, <1>7, <1>8, <1>9, <1>10, <1>11,
     <1>12, <1>13, <1>14, <1>15, <1>16, <1>17, <1>18, <1>19, <1>20, <1>21, <1>22,
     <1>23, <1>24, <1>25, <1>26, <1>27, <1>28, <1>29, <1>30, <1>31, <1>32
  DEF Next, ShutdownStep, RestartStep, LoopStep, Settle

LEMMA ControlStep ==
  ASSUME TypeOK, [Next]_vars
  PROVE  ControlOK'
<1> USE ActorCellAssumption DEF TypeOK, ControlOK, flags, queues, loop, life, reqs, bounds, history
<1>1. CASE Start
  BY <1>1 DEF Start, Schedule
<1>2. CASE Tell
  BY <1>2 DEF Tell, Arrive, DoReceive, Accepts, Schedule
<1>3. CASE Shutdown
  BY <1>3 DEF Shutdown, BeginShutdown, StopChildren
<1>4. CASE ShutdownWoken
  BY <1>4 DEF ShutdownWoken, StopChildren
<1>5. CASE ShutdownChildrenStopped
  BY <1>5 DEF ShutdownChildrenStopped
<1>6. CASE ShutdownReset
  BY <1>6 DEF ShutdownReset
<1>7. CASE Restart
  BY <1>7
     DEF Restart, BeginRestart, RestartChildren, RestartTeardown,
         Reinitialize
<1>8. CASE RestartWoken
  BY <1>8 DEF RestartWoken, RestartChildren, RestartTeardown, Reinitialize
<1>9. CASE RestartChildrenStopped
  BY <1>9 DEF RestartChildrenStopped, RestartTeardown, Reinitialize
<1>10. CASE RestartPostStopDone
  BY <1>10 DEF RestartPostStopDone, Reinitialize
<1>11. CASE RestartFails
  BY <1>11 DEF RestartFails
<1>12. CASE RestartSucceeds
  BY <1>12 DEF RestartSucceeds, Schedule
<1>13. CASE Reinstate
  BY <1>13 DEF Reinstate, Schedule
<1>14. CASE SuspendedByParent
  BY <1>14 DEF SuspendedByParent
<1>15. CASE Dispatch
  BY <1>15 DEF Dispatch
<1>16. CASE LoopIdle
  BY <1>16 DEF LoopIdle, NotifyIdle
<1>17. CASE LoopPill
  BY <1>17 DEF LoopPill, BeginShutdown, StopChildren
<1>18. CASE LoopPanicking
  BY <1>18 DEF LoopPanicking
<1>19. CASE LoopReply
  BY <1>19 DEF LoopReply, TakeReply, CompleteRequest
<1>20. CASE CallbackReturns
  BY <1>20 DEF CallbackReturns
<1>21. CASE LoopStash
  BY <1>21 DEF LoopStash, NextOrYield
<1>22. CASE LoopReceive
  BY <1>22 DEF LoopReceive
<1>23. CASE HandlerParks
  BY <1>23 DEF HandlerParks
<1>24. CASE StashCurrent
  BY <1>24 DEF StashCurrent
<1>25. CASE UnstashByBehavior
  BY <1>25 DEF UnstashByBehavior, UnstashAll
<1>26. ASSUME NEW k \in {"pill", "panic"}, TellCommand(k)
      PROVE  ControlOK'
  BY <1>26 DEF TellCommand, Arrive, DoReceive, Accepts, Schedule
<1>27. ASSUME NEW h \in Handles, NEW mode \in {"allowAll", "stashNonReentrant"}, Request(h, mode)
      PROVE  ControlOK'
  BY <1>27 DEF Request
<1>28. ASSUME NEW h \in Handles, Reply(h)
      PROVE  ControlOK'
  BY <1>28 DEF Reply, DeliverRequestReply, Arrive, DoReceive, Accepts, Schedule
<1>29. ASSUME NEW h \in Handles, Cancel(h)
      PROVE  ControlOK'
  BY <1>29 DEF Cancel, DeliverRequestReply, Arrive, DoReceive, Accepts, Schedule
<1>30. ASSUME NEW fail \in Faults, HandlerReturns(fail)
      PROVE  ControlOK'
  <2>1. PostReceive(quota, fail \/ suspended)
    BY <1>30 DEF HandlerReturns
  <2>2. quota \in Nat
    BY <1>30 DEF HandlerReturns
  <2> QED
    BY <1>30, <2>1, <2>2, PostReceiveControl DEF HandlerReturns
<1>31. ASSUME NEW fail \in Faults, ParkedSettles(fail)
      PROVE  ControlOK'
  <2>1. PostReceive(Head(parked)[2], fail \/ suspended)
    BY <1>31 DEF ParkedSettles
  <2>2. Head(parked)[2] \in Nat
    BY <1>31 DEF ParkedSettles, QueuesOK
  <2> QED
    BY <1>31, <2>1, <2>2, PostReceiveControl DEF ParkedSettles
<1>32. CASE UNCHANGED vars
  BY <1>32 DEF vars
<1>33. QED
  BY <1>1, <1>2, <1>3, <1>4, <1>5, <1>6, <1>7, <1>8, <1>9, <1>10, <1>11,
     <1>12, <1>13, <1>14, <1>15, <1>16, <1>17, <1>18, <1>19, <1>20, <1>21, <1>22,
     <1>23, <1>24, <1>25, <1>26, <1>27, <1>28, <1>29, <1>30, <1>31, <1>32
  DEF Next, ShutdownStep, RestartStep, LoopStep, Settle

LEMMA QueuesStep ==
  ASSUME TypeOK, [Next]_vars
  PROVE  QueuesOK'
<1> USE DEF TypeOK, QueuesOK, flags, queues, loop, life, reqs, bounds, history
<1>1. CASE Start
  <2>1. <<"user", nextId>> \in Message
    BY MessageType DEF ControlOK
  <2>2. mailbox' \in Seq(Message)
    BY <1>1, <2>1 DEF Start
  <2> QED
    BY <1>1, <2>2 DEF Start
<1>2. CASE Tell
  <2>1. <<"user", nextId>> \in Message
    BY <1>2, MessageType DEF ControlOK
  <2> QED
    BY <1>2, <2>1, QueueOps DEF Tell, Arrive, DoReceive, Accepts, Schedule
<1>3. CASE Shutdown
  BY <1>3 DEF Shutdown, BeginShutdown, StopChildren
<1>4. CASE ShutdownWoken
  BY <1>4 DEF ShutdownWoken, StopChildren
<1>5. CASE ShutdownChildrenStopped
  BY <1>5 DEF ShutdownChildrenStopped
<1>6. CASE ShutdownReset
  <2>1. UserIds(mailbox) \subseteq Nat /\ UserIds(stash) \subseteq Nat
    BY UserIdsType
  <2>2. <<>> \in Seq(Message)
    OBVIOUS
  <2>3. mailbox' \in Seq(Message) /\ stash' \in Seq(Message)
    BY <1>6, <2>2 DEF ShutdownReset
  <2>4. dropped' \subseteq Nat
    BY <1>6, <2>1 DEF ShutdownReset
  <2> QED
    BY <1>6, <2>3, <2>4 DEF ShutdownReset
<1>7. CASE Restart
  <2>1. UserIds(mailbox) \subseteq Nat /\ UserIds(stash) \subseteq Nat
    BY UserIdsType
  <2>2. <<>> \in Seq(Message)
    OBVIOUS
  <2>3. mailbox' \in Seq(Message) /\ stash' \in Seq(Message)
    BY <1>7, <2>2 DEF Restart, BeginRestart, RestartChildren, RestartTeardown,
         Reinitialize
  <2>4. dropped' \subseteq Nat
    BY <1>7, <2>1 DEF Restart, BeginRestart, RestartChildren, RestartTeardown,
         Reinitialize
  <2> QED
    BY <1>7, <2>3, <2>4 DEF Restart, BeginRestart, RestartChildren, RestartTeardown,
         Reinitialize
<1>8. CASE RestartWoken
  <2>1. UserIds(mailbox) \subseteq Nat /\ UserIds(stash) \subseteq Nat
    BY UserIdsType
  <2>2. <<>> \in Seq(Message)
    OBVIOUS
  <2>3. mailbox' \in Seq(Message) /\ stash' \in Seq(Message)
    BY <1>8, <2>2 DEF RestartWoken, RestartChildren, RestartTeardown,
         Reinitialize
  <2>4. dropped' \subseteq Nat
    BY <1>8, <2>1 DEF RestartWoken, RestartChildren, RestartTeardown,
         Reinitialize
  <2> QED
    BY <1>8, <2>3, <2>4 DEF RestartWoken, RestartChildren, RestartTeardown,
         Reinitialize
<1>9. CASE RestartChildrenStopped
  <2>1. UserIds(mailbox) \subseteq Nat /\ UserIds(stash) \subseteq Nat
    BY UserIdsType
  <2>2. <<>> \in Seq(Message)
    OBVIOUS
  <2>3. mailbox' \in Seq(Message) /\ stash' \in Seq(Message)
    BY <1>9, <2>2 DEF RestartChildrenStopped, RestartTeardown, Reinitialize
  <2>4. dropped' \subseteq Nat
    BY <1>9, <2>1 DEF RestartChildrenStopped, RestartTeardown, Reinitialize
  <2> QED
    BY <1>9, <2>3, <2>4 DEF RestartChildrenStopped, RestartTeardown, Reinitialize
<1>10. CASE RestartPostStopDone
  <2>1. UserIds(mailbox) \subseteq Nat /\ UserIds(stash) \subseteq Nat
    BY UserIdsType
  <2>2. <<>> \in Seq(Message)
    OBVIOUS
  <2>3. mailbox' \in Seq(Message) /\ stash' \in Seq(Message)
    BY <1>10, <2>2 DEF RestartPostStopDone, Reinitialize
  <2>4. dropped' \subseteq Nat
    BY <1>10, <2>1 DEF RestartPostStopDone, Reinitialize
  <2> QED
    BY <1>10, <2>3, <2>4 DEF RestartPostStopDone, Reinitialize
<1>11. CASE RestartFails
  BY <1>11 DEF RestartFails
<1>12. CASE RestartSucceeds
  BY <1>12 DEF RestartSucceeds, Schedule
<1>13. CASE Reinstate
  BY <1>13 DEF Reinstate, Schedule
<1>14. CASE SuspendedByParent
  BY <1>14 DEF SuspendedByParent
<1>15. CASE Dispatch
  BY <1>15 DEF Dispatch
<1>16. CASE LoopIdle
  BY <1>16 DEF LoopIdle, NotifyIdle
<1>17. CASE LoopPill
  BY <1>17, QueueOps DEF LoopPill, BeginShutdown, StopChildren
<1>18. CASE LoopPanicking
  <2>1. <<"user", nextId>> \in Message
    BY MessageType DEF ControlOK
  <2>2. Tail(mailbox) \in Seq(Message)
    BY <1>18, QueueOps DEF LoopPanicking
  <2>3. mailbox' \in Seq(Message)
    BY <1>18, <2>1, <2>2, QueueOps DEF LoopPanicking
  <2> QED
    BY <1>18, <2>3 DEF LoopPanicking
<1>19. CASE LoopReply
  <2>1. Tail(mailbox) \in Seq(Message)
    BY <1>19, QueueOps DEF LoopReply
  <2>5. UnstashAll(Tail(mailbox)) => /\ mailbox' \in Seq(Message) /\ stash' \in Seq(Message)
                                   /\ dropped' \subseteq Nat
    BY <2>1, UnstashTypes
  <2>6. mailbox' \in Seq(Message) /\ stash' \in Seq(Message) /\ dropped' \subseteq Nat
    BY <1>19, <2>1, <2>5 DEF LoopReply, TakeReply, CompleteRequest
  <2> QED
    BY <1>19, <2>6 DEF LoopReply
<1>20. CASE CallbackReturns
  BY <1>20 DEF CallbackReturns
<1>21. CASE LoopStash
  BY <1>21, QueueOps DEF LoopStash, NextOrYield
<1>22. CASE LoopReceive
  BY <1>22, QueueOps, MessageType DEF LoopReceive
<1>23. CASE HandlerParks
  BY <1>23, MessageType DEF HandlerParks, ControlOK
<1>24. CASE StashCurrent
  BY <1>24, QueueOps DEF StashCurrent
<1>25. CASE UnstashByBehavior
  <2>3. mailbox' \in Seq(Message) /\ stash' \in Seq(Message) /\ dropped' \subseteq Nat
    BY <1>25, UnstashTypes DEF UnstashByBehavior
  <2> QED
    BY <1>25, <2>3 DEF UnstashByBehavior
<1>26. ASSUME NEW k \in {"pill", "panic"}, TellCommand(k)
      PROVE  QueuesOK'
  <2>1. <<k, 0>> \in Message
    BY <1>26, MessageType DEF ControlOK
  <2> QED
    BY <1>26, <2>1, QueueOps DEF TellCommand, Arrive, DoReceive, Accepts, Schedule
<1>27. ASSUME NEW h \in Handles, NEW mode \in {"allowAll", "stashNonReentrant"}, Request(h, mode)
      PROVE  QueuesOK'
  BY <1>27 DEF Request
<1>28. ASSUME NEW h \in Handles, Reply(h)
      PROVE  QueuesOK'
  <2>1. <<"reply", h>> \in Message
    BY MessageType, ActorCellAssumption
  <2> QED
    BY <1>28, <2>1, QueueOps DEF Reply, DeliverRequestReply, Arrive, DoReceive, Accepts, Schedule
<1>29. ASSUME NEW h \in Handles, Cancel(h)
      PROVE  QueuesOK'
  <2>1. <<"reply", h>> \in Message
    BY MessageType, ActorCellAssumption
  <2> QED
    BY <1>29, <2>1, QueueOps DEF Cancel, DeliverRequestReply, Arrive, DoReceive, Accepts, Schedule
<1>30. ASSUME NEW fail \in Faults, HandlerReturns(fail)
      PROVE  QueuesOK'
  BY <1>30, MessageType DEF HandlerReturns
<1>31. ASSUME NEW fail \in Faults, ParkedSettles(fail)
      PROVE  QueuesOK'
  BY <1>31 DEF ParkedSettles
<1>32. CASE UNCHANGED vars
  BY <1>32 DEF vars
<1>33. QED
  BY <1>1, <1>2, <1>3, <1>4, <1>5, <1>6, <1>7, <1>8, <1>9, <1>10, <1>11,
     <1>12, <1>13, <1>14, <1>15, <1>16, <1>17, <1>18, <1>19, <1>20, <1>21, <1>22,
     <1>23, <1>24, <1>25, <1>26, <1>27, <1>28, <1>29, <1>30, <1>31, <1>32
  DEF Next, ShutdownStep, RestartStep, LoopStep, Settle

LEMMA RequestsStep ==
  ASSUME TypeOK, [Next]_vars
  PROVE  RequestsOK'
<1> USE ActorCellAssumption DEF TypeOK, RequestsOK, flags, queues, loop, life, reqs, bounds, history
<1>1. CASE Start
  BY <1>1 DEF Start, Schedule
<1>2. CASE Tell
  BY <1>2 DEF Tell, Arrive, DoReceive, Accepts, Schedule
<1>3. CASE Shutdown
  BY <1>3 DEF Shutdown, BeginShutdown, StopChildren
<1>4. CASE ShutdownWoken
  BY <1>4 DEF ShutdownWoken, StopChildren
<1>5. CASE ShutdownChildrenStopped
  BY <1>5 DEF ShutdownChildrenStopped
<1>6. CASE ShutdownReset
  BY <1>6 DEF ShutdownReset
<1>7. CASE Restart
  BY <1>7
     DEF Restart, BeginRestart, RestartChildren, RestartTeardown,
         Reinitialize
<1>8. CASE RestartWoken
  BY <1>8 DEF RestartWoken, RestartChildren, RestartTeardown, Reinitialize
<1>9. CASE RestartChildrenStopped
  BY <1>9 DEF RestartChildrenStopped, RestartTeardown, Reinitialize
<1>10. CASE RestartPostStopDone
  BY <1>10 DEF RestartPostStopDone, Reinitialize
<1>11. CASE RestartFails
  BY <1>11 DEF RestartFails
<1>12. CASE RestartSucceeds
  BY <1>12 DEF RestartSucceeds, Schedule
<1>13. CASE Reinstate
  BY <1>13 DEF Reinstate, Schedule
<1>14. CASE SuspendedByParent
  BY <1>14 DEF SuspendedByParent
<1>15. CASE Dispatch
  BY <1>15 DEF Dispatch
<1>16. CASE LoopIdle
  BY <1>16 DEF LoopIdle, NotifyIdle
<1>17. CASE LoopPill
  BY <1>17 DEF LoopPill, BeginShutdown, StopChildren
<1>18. CASE LoopPanicking
  BY <1>18 DEF LoopPanicking
<1>19. CASE LoopReply
  <2>1. Head(mailbox)[2] \in Nat
    BY <1>19, MessageType, QueueOps DEF LoopReply, QueuesOK
  <2>2. ran' \in {ran, Append(ran, Head(mailbox)[2])}
    BY <1>19 DEF LoopReply, TakeReply, CompleteRequest
  <2>3. ran' \in Seq(Nat)
    <3>1. ran \in Seq(Nat)
      OBVIOUS
    <3>2. Append(ran, Head(mailbox)[2]) \in Seq(Nat)
      BY ONLY <2>1, <3>1, NatAppends
    <3> QED
      BY ONLY <2>2, <3>1, <3>2
  <2>4. settled' \subseteq Nat
    BY <1>19, <2>1 DEF LoopReply, TakeReply, CompleteRequest
  <2> QED
    BY <1>19, <2>3, <2>4 DEF LoopReply
<1>20. CASE CallbackReturns
  BY <1>20 DEF CallbackReturns
<1>21. CASE LoopStash
  BY <1>21 DEF LoopStash, NextOrYield
<1>22. CASE LoopReceive
  BY <1>22 DEF LoopReceive
<1>23. CASE HandlerParks
  BY <1>23 DEF HandlerParks
<1>24. CASE StashCurrent
  BY <1>24 DEF StashCurrent
<1>25. CASE UnstashByBehavior
  BY <1>25 DEF UnstashByBehavior, UnstashAll
<1>26. ASSUME NEW k \in {"pill", "panic"}, TellCommand(k)
      PROVE  RequestsOK'
  BY <1>26 DEF TellCommand, Arrive, DoReceive, Accepts, Schedule
<1>27. ASSUME NEW h \in Handles, NEW mode \in {"allowAll", "stashNonReentrant"}, Request(h, mode)
      PROVE  RequestsOK'
  BY <1>27 DEF Request
<1>28. ASSUME NEW h \in Handles, Reply(h)
      PROVE  RequestsOK'
  BY <1>28 DEF Reply, DeliverRequestReply, Arrive, DoReceive, Accepts, Schedule
<1>29. ASSUME NEW h \in Handles, Cancel(h)
      PROVE  RequestsOK'
  BY <1>29 DEF Cancel, DeliverRequestReply, Arrive, DoReceive, Accepts, Schedule
<1>30. ASSUME NEW fail \in Faults, HandlerReturns(fail)
      PROVE  RequestsOK'
  BY <1>30 DEF HandlerReturns
<1>31. ASSUME NEW fail \in Faults, ParkedSettles(fail)
      PROVE  RequestsOK'
  BY <1>31 DEF ParkedSettles
<1>32. CASE UNCHANGED vars
  BY <1>32 DEF vars
<1>33. QED
  BY <1>1, <1>2, <1>3, <1>4, <1>5, <1>6, <1>7, <1>8, <1>9, <1>10, <1>11,
     <1>12, <1>13, <1>14, <1>15, <1>16, <1>17, <1>18, <1>19, <1>20, <1>21, <1>22,
     <1>23, <1>24, <1>25, <1>26, <1>27, <1>28, <1>29, <1>30, <1>31, <1>32
  DEF Next, ShutdownStep, RestartStep, LoopStep, Settle


\* The type invariant is inductive by itself.
THEOREM Typing == Spec => []TypeOK
<1>1. Init => TypeOK
  <2> SUFFICES ASSUME Init PROVE TypeOK
    OBVIOUS
  <2>1. FlagsOK
    BY DEF Init, FlagsOK
  <2>2. ControlOK
    BY DEF Init, ControlOK
  <2>3. QueuesOK
    BY MessageType DEF Init, QueuesOK
  <2>4. RequestsOK
    BY DEF Init, RequestsOK
  <2> QED
    BY <2>1, <2>2, <2>3, <2>4 DEF TypeOK
<1>2. TypeOK /\ [Next]_vars => TypeOK'
  BY FlagsStep, ControlStep, QueuesStep, RequestsStep DEF TypeOK
<1> QED
  BY <1>1, <1>2, PTL DEF Spec

LoopInv == SingleLoop /\ NoMissedWakeup /\ WaiterHasLoop

LEMMA LoopStepInv ==
  ASSUME TypeOK, LoopInv, [Next]_vars
  PROVE  LoopInv'
<1> USE DEF TypeOK, FlagsOK, ControlOK, LoopInv, SingleLoop, NoMissedWakeup,
         WaiterHasLoop, IsRunning, flags, queues, loop, life, reqs, bounds, history
<1>1. CASE Start
  <2>1. processing' = TRUE /\ parked' = parked /\ pc' = pc
    BY <1>1 DEF Start, Schedule
  <2>2. ready' = IF processing THEN ready ELSE ready + 1
    BY <1>1 DEF Start, Schedule
  <2>3. Len(parked) \in Nat
    BY DEF QueuesOK
  <2>4. SingleLoop'
    <3>1. CASE processing
      BY <2>1, <2>2, <2>3, <3>1
    <3>2. CASE ~processing
      BY <2>1, <2>2, <2>3, <3>2
    <3> QED
      BY <3>1, <3>2
  <2> QED
    BY <2>1, <2>4
<1>2. CASE Tell
  BY <1>2 DEF Tell, Arrive, DoReceive, Accepts, Schedule
<1>3. CASE Shutdown
  BY <1>3 DEF Shutdown, BeginShutdown, StopChildren
<1>4. CASE ShutdownWoken
  BY <1>4 DEF ShutdownWoken, StopChildren
<1>5. CASE ShutdownChildrenStopped
  BY <1>5 DEF ShutdownChildrenStopped
<1>6. CASE ShutdownReset
  BY <1>6 DEF ShutdownReset
<1>7. CASE Restart
  BY <1>7
     DEF Restart, BeginRestart, RestartChildren, RestartTeardown,
         Reinitialize
<1>8. CASE RestartWoken
  BY <1>8 DEF RestartWoken, RestartChildren, RestartTeardown, Reinitialize
<1>9. CASE RestartChildrenStopped
  BY <1>9 DEF RestartChildrenStopped, RestartTeardown, Reinitialize
<1>10. CASE RestartPostStopDone
  BY <1>10 DEF RestartPostStopDone, Reinitialize
<1>11. CASE RestartFails
  BY <1>11 DEF RestartFails
<1>12. CASE RestartSucceeds
  BY <1>12 DEF RestartSucceeds, Schedule
<1>13. CASE Reinstate
  BY <1>13 DEF Reinstate, Schedule
<1>14. CASE SuspendedByParent
  BY <1>14 DEF SuspendedByParent
<1>15. CASE Dispatch
  BY <1>15 DEF Dispatch
<1>16. CASE LoopIdle
  BY <1>16 DEF LoopIdle, NotifyIdle
<1>17. CASE LoopPill
  BY <1>17 DEF LoopPill, BeginShutdown, StopChildren
<1>18. CASE LoopPanicking
  BY <1>18 DEF LoopPanicking
<1>19. CASE LoopReply
  BY <1>19 DEF LoopReply, TakeReply, CompleteRequest, UnstashAll
<1>20. CASE CallbackReturns
  BY <1>20 DEF CallbackReturns
<1>21. CASE LoopStash
  BY <1>21 DEF LoopStash, NextOrYield
<1>22. CASE LoopReceive
  BY <1>22 DEF LoopReceive
<1>23. CASE HandlerParks
  BY <1>23 DEF HandlerParks
<1>24. CASE StashCurrent
  BY <1>24 DEF StashCurrent
<1>25. CASE UnstashByBehavior
  BY <1>25 DEF UnstashByBehavior, UnstashAll
<1>26. ASSUME NEW k \in {"pill", "panic"}, TellCommand(k)
      PROVE  LoopInv'
  BY <1>26 DEF TellCommand, Arrive, DoReceive, Accepts, Schedule
<1>27. ASSUME NEW h \in Handles, NEW mode \in {"allowAll", "stashNonReentrant"}, Request(h, mode)
      PROVE  LoopInv'
  BY <1>27 DEF Request
<1>28. ASSUME NEW h \in Handles, Reply(h)
      PROVE  LoopInv'
  BY <1>28 DEF Reply, DeliverRequestReply, Arrive, DoReceive, Accepts, Schedule
<1>29. ASSUME NEW h \in Handles, Cancel(h)
      PROVE  LoopInv'
  BY <1>29 DEF Cancel, DeliverRequestReply, Arrive, DoReceive, Accepts, Schedule
<1>30. ASSUME NEW fail \in Faults, HandlerReturns(fail)
      PROVE  LoopInv'
  <2>1. Len(parked) \in Nat
    BY DEF QueuesOK
  <2>2. processing /\ ready = 0 /\ Len(parked) = 0
    BY <1>30, <2>1 DEF HandlerReturns
  <2>3. parked' = parked /\ mailbox' = mailbox /\ running' = running
    BY <1>30 DEF HandlerReturns
  <2>4. CASE fail \/ suspended
    <3>1. /\ ~processing' /\ pc' = "none" /\ ready' = ready /\ suspended'
          /\ sd' # "awaitIdle" /\ rs' # "awaitIdle"
      BY <1>30, <2>4 DEF HandlerReturns, PostReceive, NotifyIdle
    <3> QED
      BY <2>2, <2>3, <3>1
  <2>5. CASE ~(fail \/ suspended)
    <3>1. processing' = processing /\ NextOrYield(quota)
      BY <1>30, <2>5 DEF HandlerReturns, PostReceive
    <3>2. SingleLoop'
      BY <2>2, <2>3, <3>1 DEF NextOrYield
    <3> QED
      BY <2>2, <3>1, <3>2
  <2> QED
    BY <2>4, <2>5
<1>31. ASSUME NEW fail \in Faults, ParkedSettles(fail)
      PROVE  LoopInv'
  <2>1. parked \in Seq(Message \X Nat) /\ parked # <<>>
    BY <1>31 DEF QueuesOK, ParkedSettles
  <2>2. Len(parked) \in Nat \ {0} /\ Len(Tail(parked)) = Len(parked) - 1
    BY ONLY <2>1
  <2>3. processing /\ ready = 0 /\ Len(parked) = 1 /\ pc = "none"
    BY <1>31, <2>2 DEF ParkedSettles
  <2>4. Len(parked') = 0 /\ mailbox' = mailbox /\ running' = running
    BY <1>31, <2>2, <2>3 DEF ParkedSettles
  <2>5. CASE fail \/ suspended
    <3>1. /\ ~processing' /\ pc' = "none" /\ ready' = ready /\ suspended'
          /\ sd' # "awaitIdle" /\ rs' # "awaitIdle"
      BY <1>31, <2>5 DEF ParkedSettles, PostReceive, NotifyIdle
    <3> QED
      BY <2>3, <2>4, <3>1
  <2>6. CASE ~(fail \/ suspended)
    <3>1. processing' = processing /\ NextOrYield(Head(parked)[2])
      BY <1>31, <2>6 DEF ParkedSettles, PostReceive
    <3>2. SingleLoop'
      BY <2>3, <2>4, <3>1 DEF NextOrYield
    <3> QED
      BY <2>3, <3>1, <3>2
  <2> QED
    BY <2>5, <2>6
<1>32. CASE UNCHANGED vars
  BY <1>32 DEF vars
<1>33. QED
  BY <1>1, <1>2, <1>3, <1>4, <1>5, <1>6, <1>7, <1>8, <1>9, <1>10, <1>11,
     <1>12, <1>13, <1>14, <1>15, <1>16, <1>17, <1>18, <1>19, <1>20, <1>21, <1>22,
     <1>23, <1>24, <1>25, <1>26, <1>27, <1>28, <1>29, <1>30, <1>31, <1>32
  DEF Next, ShutdownStep, RestartStep, LoopStep, Settle


\* Processing is strictly one message at a time and no wake-up is lost: for any
\* environment, in every reachable state the processing flag of a PID stands for
\* exactly one receive loop (ready queue, stack or parked behaviour), an actor
\* that accepts messages and has some has such a loop, and so has everyone who
\* waits in awaitIdle().
THEOREM ReceiveLoop == Spec => [](SingleLoop /\ NoMissedWakeup /\ WaiterHasLoop)
<1>1. Init => LoopInv
  BY DEF Init, LoopInv, SingleLoop, NoMissedWakeup, WaiterHasLoop
<1>2. TypeOK /\ LoopInv /\ [Next]_vars => LoopInv'
  BY LoopStepInv
<1>3. LoopInv => SingleLoop /\ NoMissedWakeup /\ WaiterHasLoop
  BY DEF LoopInv
<1> QED
  BY <1>1, <1>2, <1>3, Typing, PTL DEF Spec

=============================================================================
