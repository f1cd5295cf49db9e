----------------------------- MODULE EventStream -----------------------------
(***************************************************************************)
(* class EventStream (src/src/eventstream.ts), one topic of it: publish()  *)
(* calls the subscribers on the publisher's stack, walking the live array. *)
(* A callback may itself subscribe, unsubscribe and cause a publication:   *)
(* publications nest.  A callback that throws is one that returns.         *)
(***************************************************************************)
EXTENDS Naturals, Sequences, SequencesExt

CONSTANTS
  Subscribers,
  MaxDepth     \* bound: nested publications

VARIABLES
  subscribers,  \* the topic's array
  stack         \* publications in progress, the innermost last: the index of
                \* the callback that runs, what a close() left it to walk, and
                \* history: who of those subscribed from the start on was not
                \* called yet and who was, whether one was called again, and
                \* whether an unsubscribe() moved the array

vars == <<subscribers, stack>>

Init == subscribers = <<>> /\ stack = <<>>

Subscribed == ToSet(subscribers)

\* Mutant: a new subscriber comes first.
Subscribe_First(s) ==
  /\ subscribers' = IF s \in Subscribed THEN subscribers ELSE <<s>> \o subscribers
  /\ UNCHANGED stack

Subscribe(s) ==
  /\ subscribers' = IF s \in Subscribed THEN subscribers ELSE Append(subscribers, s)
  /\ UNCHANGED stack

Removed(s) == SelectSeq(subscribers, LAMBDA t : t # s)
Unsubscribe(s) ==
  /\ s \in Subscribed /\ subscribers' = Removed(s)
  /\ stack' = [i \in DOMAIN stack |->
                 IF stack[i].closed THEN stack[i]
                 ELSE [stack[i] EXCEPT !.owed = @ \ {s}, !.heard = @ \ {s},
                                       !.moved = TRUE]]

\* The array a publication walks: the topic's, or what it had left of it when
\* the stream was closed.
Walked(frame) == IF frame.closed THEN frame.left ELSE subscribers

\* The for loop: the callback at an index, if the array reaches it.
Called(frame, at) ==
  LET s == Walked(frame)[at]
  IN  [frame EXCEPT !.at = at, !.owed = @ \ {s}, !.heard = @ \cup ({s} \cap frame.owed),
                    !.twice = @ \/ s \in frame.heard]
Publish ==
  /\ subscribers # <<>> /\ Len(stack) < MaxDepth
  /\ stack' = Append(stack, Called([at |-> 0, owed |-> Subscribed, heard |-> {}, twice |-> FALSE,
                                    moved |-> FALSE, closed |-> FALSE, left |-> <<>>], 1))
  /\ UNCHANGED subscribers

\* Mutant: the loop's bound is off by one.
HasNext_Short(frame) == frame.at + 1 < Len(Walked(frame))

HasNext(frame) == frame.at < Len(Walked(frame))

\* The innermost callback returns.
Return ==
  /\ stack # <<>> /\ HasNext(Last(stack))
  /\ stack' = Append(Front(stack), Called(Last(stack), Last(stack).at + 1))
  /\ UNCHANGED subscribers
Published ==
  /\ stack # <<>> /\ ~HasNext(Last(stack))
  /\ stack' = Front(stack)
  /\ UNCHANGED subscribers

\* close(): the topics are dropped; a publication in progress walks on over the
\* array it holds, which no subscribe() or unsubscribe() reaches any more.
\* The bound on the depth leaves out a close in the innermost callback.
LeftWith(frame) == SubSeq(subscribers, frame.at + 1, Len(subscribers))
Close ==
  /\ Len(stack) < MaxDepth
  /\ subscribers' = <<>>
  /\ stack' = [i \in DOMAIN stack |->
       IF stack[i].closed THEN stack[i]
       ELSE [stack[i] EXCEPT !.closed = TRUE, !.left = LeftWith(stack[i]), !.at = 0]]

Next ==
  \/ \E s \in Subscribers : Subscribe(s) \/ Unsubscribe(s)
  \/ Publish \/ Return \/ Published \/ Close

Spec == Init /\ [][Next]_vars

----------------------------------------------------------------------------
\* publish(): nobody who stays subscribed hears an event twice, however the
\* callbacks change the subscriptions.
HeardOnce == \A i \in DOMAIN stack : ~stack[i].twice

StableStep ==
  Len(stack') < Len(stack) /\ ~Last(stack).moved => Last(stack).owed = {}

\* publish(): when no callback unsubscribes, all who were subscribed before
\* the publication hear it, whatever is published or subscribed meanwhile, and
\* also when the stream is closed under it.
StableIsHeard == [][StableStep]_vars

\* EventStream's comment: every event published to a topic invokes each of
\* its subscribers.
EachIsInvoked == [][Len(stack') < Len(stack) => Last(stack).owed = {}]_vars
=============================================================================
