------------------------------ MODULE MCTimers ------------------------------
(***************************************************************************)
(* The scheduler, the passivation manager and the heap they rest on, for   *)
(* TLC.  They share no state; a run explores one of them, named by part.   *)
(***************************************************************************)
EXTENDS Scheduler

\* Schedules that share a reference, an owner and a receiver.
MCEntries == {"once", "every", "rival"}
MCOwner == [e \in MCEntries |-> IF e \in {"once", "every"} THEN "a" ELSE Nil]
MCReceiver == [e \in MCEntries |-> IF e = "every" THEN "a" ELSE "b"]
MCReference == [e \in MCEntries |-> IF e \in {"once", "rival"} THEN "r" ELSE Nil]
MCInterval == [e \in MCEntries |-> CASE e = "once" -> 3 [] e = "every" -> 1 [] OTHER -> 2]
MCRepeats == [e \in MCEntries |-> e \in {"every", "rival"}]

VARIABLES part,
  pDue, pTimer, pStatus, enrolled, processing, pending, activity, down, quiet,
  heap, entered

pVars == <<pDue, pTimer, pStatus, enrolled, processing, pending, activity, down, quiet>>
hVars == <<heap, entered>>
mcvars == <<vars, part, pVars, hVars>>

\* Two schedules under one reference, for what must happen in the end.
Pair == {"once", "rival"}
Firing == INSTANCE Scheduler WITH
  Entries <- Pair, owner <- [e \in Pair |-> MCOwner[e]], receiver <- [e \in Pair |-> MCReceiver[e]],
  reference <- [e \in Pair |-> MCReference[e]], interval <- [e \in Pair |-> MCInterval[e]],
  repeats <- [e \in Pair |-> MCRepeats[e]]

\* Two actors with different timeouts; a delay of 2 is out of Node's range.
Passivated == INSTANCE Passivation WITH
  Pids <- {1, 2}, timeout <- <<1, 2>>, TimeoutMax <- 1, MaxLate <- 1,
  due <- pDue, timer <- pTimer, status <- pStatus

\* Six entries: the smallest heap in which a removal has to move one up.
Heap == INSTANCE MCDeadlineHeap WITH
  Entries <- 1 .. 6, Deadlines <- 1 .. 2, h <- heap, due <- entered

MCInit ==
  /\ \/ part \in {"scheduler", "passivation", "heap"} /\ Init
     \/ part = "firing" /\ Firing!Init
  /\ Passivated!Init /\ Heap!Init

MCNext ==
  /\ UNCHANGED part
  /\ \/ part = "scheduler" /\ Next /\ UNCHANGED <<pVars, hVars>>
     \/ part = "firing" /\ Firing!Next /\ UNCHANGED <<pVars, hVars>>
     \/ part = "passivation" /\ Passivated!Next /\ UNCHANGED <<vars, hVars>>
     \/ part = "heap" /\ Heap!Next /\ UNCHANGED <<vars, pVars>>

\* Fairness of the components.
Fixed == UNCHANGED <<part, hVars>>
SchedulerTime == Fixed /\ part = "firing" /\ Firing!Tick /\ UNCHANGED pVars
SchedulerFires == Fixed /\ part = "firing" /\ Firing!OnTimer /\ UNCHANGED pVars
ManagerTime == Fixed /\ part = "passivation" /\ Passivated!Tick /\ UNCHANGED vars
ManagerFires == Fixed /\ part = "passivation" /\ Passivated!OnTimer /\ UNCHANGED vars
Registered(p) == Fixed /\ part = "passivation" /\ Passivated!Register(p) /\ UNCHANGED vars

MCSpec ==
  /\ MCInit /\ [][MCNext]_mcvars
  /\ WF_mcvars(SchedulerTime) /\ WF_mcvars(SchedulerFires)
  /\ WF_mcvars(ManagerTime) /\ WF_mcvars(ManagerFires)
  /\ WF_mcvars(Registered(1)) /\ WF_mcvars(Registered(2))

-----------------------------------------------------------------------------
\* arm(), onTimer(): the shared timer is armed for the earliest deadline of the
\* scheduler and of the passivation manager, and every actor that can become
\* idle has one.
TimersCover == TimerCovers /\ (part = "passivation" => Passivated!Scheduled)

\* register(), discard(), dropOwner(), pause(), resume(): heap, references and
\* owners track the same schedules, and every schedule runs its full delay,
\* pauses left out.
SchedulesAgree == part = "scheduler" => TrackersAgree /\ RunsItsDelay

\* PassivationManager.onTimer(): only an idle actor is stopped.
OnlyIdle == Passivated!OnlyIdle

\* Scheduler.onTimer(), PassivationManager.onTimer(): what is due is sent, and
\* an actor that stays idle is stopped.
DueHappens ==
  /\ part = "firing" => Firing!DueFires
  /\ part = "passivation" => Passivated!IdleEnds

\* push(), pop(), removeAt(): after removals from the middle the arrays are
\* a heap whose entries know their slots, and its root is an earliest entry.
RootIsEarliest == part = "heap" => Heap!HeapInv /\ Heap!RootIsEarliest
=============================================================================
