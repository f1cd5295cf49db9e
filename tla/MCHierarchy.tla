----------------------------- MODULE MCHierarchy -----------------------------
(***************************************************************************)
(* Hierarchy for TLC: a guardian and two or three actors, in environments  *)
(* of their own for the tree, for the watches and for the end of stops.    *)
(***************************************************************************)
EXTENDS Hierarchy

VARIABLE env

\* Deep trees and names used again.
Tree == INSTANCE Hierarchy WITH
  Pids <- 0 .. 3, Names <- {"a"}, Watchers <- {}, MaxRestarts <- 1, MaxWatches <- 0

\* Everybody watches, and parent, child and sibling stop or restart.
Watched == INSTANCE Hierarchy WITH
  Pids <- 0 .. 2, Names <- {"a", "b"}, Watchers <- 0 .. 2, MaxRestarts <- 1, MaxWatches <- 2

\* Stops that meet spawns, restarts and each other.
Ending == INSTANCE Hierarchy WITH
  Pids <- 0 .. 2, Names <- {"a", "b"}, Watchers <- {}, MaxRestarts <- 1, MaxWatches <- 0

mcvars == <<vars, env>>

MCInit ==
  \/ env = "tree" /\ Tree!Init
  \/ env = "watched" /\ Watched!Init
  \/ env = "ending" /\ Ending!Init

MCNext ==
  /\ UNCHANGED env
  /\ \/ env = "tree" /\ Tree!Next
     \/ env = "watched" /\ Watched!Next
     \/ env = "ending" /\ Ending!Next

Goes(p) == env = "ending" /\ Ending!Progress(p) /\ UNCHANGED env

MCSpec ==
  /\ MCInit /\ [][MCNext]_mcvars
  /\ WF_mcvars(Goes(0)) /\ WF_mcvars(Goes(1)) /\ WF_mcvars(Goes(2))

-----------------------------------------------------------------------------
\* addNode(), deleteNode(), doShutdown(): the tree's indexes agree, also when
\* spawns of one name overlap; every live actor that was not cut off stands in
\* its place, and the children are gone before their parent's postStop.
TreeKept ==
  IF env = "tree" THEN Tree!TreeSound /\ Tree!InPlace /\ Tree!ChildrenFirst
  ELSE Watched!TreeSound /\ Watched!InPlace /\ Watched!ChildrenFirst

\* doShutdown(), addWatcher(), deleteNode(): a running watcher is told in the
\* same step, and a stopped actor is in no watch registration, on either side.
WatchesKept == [][Watched!ToldStep /\ Watched!WatchesEnd']_mcvars

\* doShutdown(): a stop that began ends.
StopsFinish == env = "ending" => Ending!StopsEnd
=============================================================================
