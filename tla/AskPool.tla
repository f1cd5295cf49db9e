------------------------------- MODULE AskPool -------------------------------
(***************************************************************************)
(* Asks and requests of one timeout duration (src/src/receive.context.ts): *)
(* the delivery contexts, the pool they are reused from, the two intrusive *)
(* generation lists and the shared timer.  The contexts travel through the *)
(* mailbox and the stash of one target, which a router may stand before    *)
(* (src/src/pid.ts, src/src/router.ts).                                    *)
(***************************************************************************)
EXTENDS Integers, Sequences, FiniteSets

CONSTANTS
  Ctxs,            \* contexts, numbered in the order they are allocated
  Asks,            \* asks, numbered in the order they are sent
  Nil,             \* null
  ASK_POOL_LIMIT,
  PERIOD,          \* the timeout, in ticks
  MaxStashes,      \* bound: calls of ctx.stash()
  Capacity,        \* what the target's mailbox holds; routees are unbounded
  Router           \* whether asks can go through a router

VARIABLES
  fresh,      \* contexts not allocated yet
  msg, reply, \* of each context: the ask it carries and the ask it completes
  links,      \* gen, prev, next of each context; head, tail of each generation
  young,      \* which of the two generations is the young one
  timer,      \* ticks to the sweep; -1: no timer
  sweeping,
  pool,       \* askPool, a stack
  routerBox, mailbox, stash,  \* queues of <<context, the ask it was queued for>>
  cur,        \* the entry whose behaviour runs, or Nil
  ask,        \* how each ask stands
  link,       \* RequestHandle._delivery
  waited,     \* ticks a pending ask has waited
  answer,     \* the ask whose handling answered each ask
  stashes     \* what the bound counts

data == <<fresh, msg, reply, pool>>
timing == <<links, young, timer, sweeping>>
queues == <<routerBox, mailbox, stash, cur, stashes>>
outcome == <<ask, link, waited, answer>>
vars == <<data, timing, queues, outcome>>

Gens == {"g1", "g2"}
old == CHOOSE g \in Gens : g # young

Init ==
  /\ fresh = Ctxs
  /\ msg = [c \in Ctxs |-> Nil] /\ reply = [c \in Ctxs |-> Nil]
  /\ links = [gen |-> [c \in Ctxs |-> Nil], prev |-> [c \in Ctxs |-> Nil],
              next |-> [c \in Ctxs |-> Nil], head |-> [g \in Gens |-> Nil],
              tail |-> [g \in Gens |-> Nil]]
  /\ young = "g1" /\ timer = -1 /\ sweeping = FALSE
  /\ pool = <<>> /\ routerBox = <<>> /\ mailbox = <<>> /\ stash = <<>>
  /\ cur = Nil /\ stashes = 0
  /\ ask = [a \in Asks |-> "new"] /\ link = [a \in Asks |-> Nil]
  /\ waited = [a \in Asks |-> 0] /\ answer = [a \in Asks |-> Nil]

-----------------------------------------------------------------------------
(* The generations                                                         *)

\* enlist(): at the tail of the young generation.
Enlist(l, c) ==
  LET g == young
      t == l.tail[g]
      joined == [l EXCEPT !.gen[c] = g, !.tail[g] = c]
  IN IF t = Nil THEN [joined EXCEPT !.head[g] = c]
                ELSE [joined EXCEPT !.prev[c] = t, !.next[t] = c]

\* Mutant: the tail of the generation is not moved back.
Unlink_KeepsTail(l, c) ==
  LET g == l.gen[c] p == l.prev[c] n == l.next[c]
      before == IF g = Nil THEN l
                ELSE IF p # Nil THEN [l EXCEPT !.next[p] = n] ELSE [l EXCEPT !.head[g] = n]
      after == IF g # Nil /\ n # Nil THEN [before EXCEPT !.prev[n] = p] ELSE before
  IN [after EXCEPT !.gen[c] = Nil, !.prev[c] = Nil, !.next[c] = Nil]

\* unlink(): a context without a generation has nothing to remove.
Unlink(l, c) ==
  LET g == l.gen[c]
      p == l.prev[c]
      n == l.next[c]
      before == IF p # Nil THEN [l EXCEPT !.next[p] = n] ELSE [l EXCEPT !.head[g] = n]
      after == IF n # Nil THEN [before EXCEPT !.prev[n] = p]
                          ELSE [before EXCEPT !.tail[g] = p]
  IN IF g = Nil THEN l
     ELSE [after EXCEPT !.gen[c] = Nil, !.prev[c] = Nil, !.next[c] = Nil]

\* The context's reply channel is closed with this outcome for its ask.
Settle(c, how) ==
  /\ ask' = [ask EXCEPT ![reply[c]] = how]
  /\ link' = [link EXCEPT ![reply[c]] = Nil]
  /\ reply' = [reply EXCEPT ![c] = Nil]

-----------------------------------------------------------------------------
(* Sending                                                                 *)

First(S) == CHOOSE x \in S : \A y \in S : x <= y

\* ask() and request(): a pooled or fresh context is enlisted and queued.
\* A full mailbox withdraws it again: cancelAsk(), and the call is refused.
Ask(a) ==
  /\ ~sweeping
  /\ ask[a] = "new" /\ a = First({b \in Asks : ask[b] = "new"})
  /\ pool # <<>> \/ fresh # {}
  /\ LET c == IF pool # <<>> THEN pool[Len(pool)] ELSE First(fresh) IN
       /\ pool' = IF pool # <<>> THEN SubSeq(pool, 1, Len(pool) - 1) ELSE pool
       /\ fresh' = fresh \ {c}
       /\ msg' = [msg EXCEPT ![c] = a]
       /\ timer' = IF timer = -1 THEN PERIOD ELSE timer
       /\ IF Router \/ Len(mailbox) < Capacity
          THEN /\ links' = Enlist(links, c)
               /\ reply' = [reply EXCEPT ![c] = a]
               /\ ask' = [ask EXCEPT ![a] = "pending"]
               /\ link' = [link EXCEPT ![a] = c]
               /\ IF Router
                  THEN routerBox' = Append(routerBox, <<c, a>>) /\ UNCHANGED mailbox
                  ELSE mailbox' = Append(mailbox, <<c, a>>) /\ UNCHANGED routerBox
          ELSE /\ links' = Unlink(Enlist(links, c), c)
               /\ reply' = [reply EXCEPT ![c] = Nil]
               /\ ask' = [ask EXCEPT ![a] = "refused"]
               /\ UNCHANGED <<link, routerBox, mailbox>>
  /\ UNCHANGED <<young, sweeping, stash, cur, stashes, waited, answer>>

\* RequestHandle.cancel() of a request whose delivery link is live.
Cancel(a) ==
  /\ ~sweeping
  /\ link[a] # Nil
  /\ LET c == link[a]
     IN /\ ask' = [ask EXCEPT ![a] = "canceled"]
        /\ link' = [link EXCEPT ![a] = Nil]
        /\ reply' = [reply EXCEPT ![c] = Nil]
        /\ links' = Unlink(links, c)
  /\ UNCHANGED <<fresh, msg, pool, young, timer, sweeping, queues, waited, answer>>

-----------------------------------------------------------------------------
(* Receiving                                                               *)

\* Mutant: a context goes to the pool although its ask is pending.
Recycle_Pending(c, chan) ==
  pool' = IF Len(pool) < ASK_POOL_LIMIT THEN Append(pool, c) ELSE pool

\* recycle(): the receive loop is done with the context; chan is its reply
\* channel by then.
Recycle(c, chan) ==
  pool' = IF chan = Nil /\ links.gen[c] = Nil /\ Len(pool) < ASK_POOL_LIMIT
          THEN Append(pool, c) ELSE pool

\* A router's turn: the context moves to a routee, or, when none is running,
\* its reply channel is rejected; then the router's loop recycles it.
RouterForwards(live) ==
  /\ ~sweeping
  /\ routerBox # <<>>
  /\ routerBox' = Tail(routerBox)
  /\ LET c == Head(routerBox)[1]
     IN IF live
        THEN /\ mailbox' = Append(mailbox, Head(routerBox))
             /\ Recycle(c, reply[c])
             /\ UNCHANGED <<reply, links, ask, link>>
        ELSE /\ links' = Unlink(links, c)
             /\ IF reply[c] # Nil
                THEN Settle(c, "refused")
                ELSE UNCHANGED <<reply, ask, link>>
             /\ pool' = IF Len(pool) < ASK_POOL_LIMIT THEN Append(pool, c) ELSE pool
             /\ UNCHANGED mailbox
  /\ UNCHANGED <<fresh, msg, young, timer, sweeping, stash, cur, stashes, waited,
                 answer>>

\* The target's loop takes a context and calls the behaviour.
Receive ==
  /\ ~sweeping
  /\ cur = Nil /\ mailbox # <<>>
  /\ cur' = Head(mailbox)
  /\ mailbox' = Tail(mailbox)
  /\ UNCHANGED <<data, timing, routerBox, stash, stashes, outcome>>

\* Mutant: a response after the timeout still counts.
Response_Late ==
  /\ ~sweeping /\ cur # Nil
  /\ ask' = [ask EXCEPT ![msg[cur[1]]] = "answered"]
  /\ answer' = [answer EXCEPT ![msg[cur[1]]] = cur[2]]
  /\ reply' = [reply EXCEPT ![cur[1]] = Nil]
  /\ link' = [link EXCEPT ![msg[cur[1]]] = Nil]
  /\ links' = Unlink(links, cur[1])
  /\ UNCHANGED <<fresh, msg, pool, young, timer, sweeping, queues, waited>>

\* Mutant: the answered context goes to the pool at once.
Response_Recycles ==
  /\ ~sweeping /\ cur # Nil
  /\ reply[cur[1]] # Nil
  /\ Settle(cur[1], "answered")
  /\ answer' = [answer EXCEPT ![reply[cur[1]]] = cur[2]]
  /\ links' = Unlink(links, cur[1])
  /\ pool' = Append(pool, cur[1])
  /\ UNCHANGED <<fresh, msg, young, timer, sweeping, queues, waited>>

\* response(): the first one wins, one after the timeout is ignored.
Response ==
  /\ ~sweeping /\ cur # Nil
  /\ reply[cur[1]] # Nil
  /\ Settle(cur[1], "answered")
  /\ answer' = [answer EXCEPT ![reply[cur[1]]] = cur[2]]
  /\ links' = Unlink(links, cur[1])
  /\ UNCHANGED <<fresh, msg, pool, young, timer, sweeping, queues, waited>>

\* ctx.stash() and ctx.unstash(), which a full mailbox refuses.
Stash ==
  /\ ~sweeping /\ cur # Nil
  /\ stashes < MaxStashes
  /\ stashes' = stashes + 1
  /\ stash' = Append(stash, cur)
  /\ UNCHANGED <<data, timing, routerBox, mailbox, cur, outcome>>

Unstash ==
  /\ ~sweeping /\ cur # Nil /\ stash # <<>>
  /\ stash' = Tail(stash)
  /\ mailbox' = IF Router \/ Len(mailbox) < Capacity
                THEN Append(mailbox, Head(stash)) ELSE mailbox
  /\ UNCHANGED <<data, timing, routerBox, cur, stashes, outcome>>

\* The behaviour has settled: the loop recycles the context.
Done ==
  /\ ~sweeping /\ cur # Nil
  /\ Recycle(cur[1], reply[cur[1]])
  /\ cur' = Nil
  /\ UNCHANGED <<fresh, msg, reply, timing, routerBox, mailbox, stash, stashes, outcome>>

-----------------------------------------------------------------------------
(* The timer                                                               *)

Pending == {a \in Asks : ask[a] = "pending"}

Tick ==
  /\ ~sweeping /\ timer > 0
  /\ timer' = timer - 1
  /\ waited' = [a \in Asks |-> IF a \in Pending THEN waited[a] + 1 ELSE waited[a]]
  /\ UNCHANGED <<data, links, young, sweeping, queues, ask, link, answer>>

\* sweepAsks(): one ask of the old generation after the other expires ...
SweepStarts ==
  /\ ~sweeping /\ timer = 0
  /\ timer' = -1 /\ sweeping' = TRUE
  /\ UNCHANGED <<data, links, young, queues, outcome>>

SweepExpires ==
  /\ sweeping /\ links.head[old] # Nil
  /\ Settle(links.head[old], "timedOut")
  /\ links' = Unlink(links, links.head[old])
  /\ UNCHANGED <<fresh, msg, pool, young, timer, sweeping, queues, waited, answer>>

\* Mutants: the timer looks at the generation just emptied; it is armed for a
\* tick too many.
SweepArms_Late == timer' = IF links.head[young] # Nil THEN PERIOD + 1 ELSE timer

SweepArms_Young == timer' = IF links.head[old] # Nil THEN PERIOD ELSE timer

\* ... and the timer goes on while the generation that is now old has asks.
SweepArms == timer' = IF links.head[young] # Nil THEN PERIOD ELSE timer

\* Mutant: the generations are not swapped.
SweepSwaps_Not == UNCHANGED young

SweepSwaps == young' = old

SweepEnds ==
  /\ sweeping /\ links.head[old] = Nil
  /\ SweepSwaps
  /\ SweepArms
  /\ sweeping' = FALSE
  /\ UNCHANGED <<data, links, queues, outcome>>

Sweep == SweepStarts \/ SweepExpires \/ SweepEnds

Next ==
  \/ \E a \in Asks : Ask(a) \/ Cancel(a)
  \/ \E live \in BOOLEAN : RouterForwards(live)
  \/ Receive \/ Response \/ Stash \/ Unstash \/ Done
  \/ Tick \/ Sweep

Spec == Init /\ [][Next]_vars

\* Time passes and due timers fire.
FairSpec == Spec /\ WF_vars(Tick) /\ WF_vars(Sweep)

-----------------------------------------------------------------------------
(* Properties                                                              *)

InUse == {q[1] : q \in {routerBox[i] : i \in DOMAIN routerBox}
                       \cup {mailbox[i] : i \in DOMAIN mailbox}
                       \cup {stash[i] : i \in DOMAIN stash}
                       \cup (IF cur = Nil THEN {} ELSE {cur})}

\* The shape of the state.
TypeOK ==
  /\ fresh \subseteq Ctxs /\ pool \in Seq(Ctxs) /\ InUse \subseteq Ctxs
  /\ \A c \in Ctxs : {msg[c], reply[c]} \subseteq Asks \cup {Nil}
  /\ timer \in -1 .. PERIOD /\ young \in Gens /\ sweeping \in BOOLEAN
  /\ \A a \in Asks : ask[a] \in {"new", "pending", "answered", "timedOut", "refused",
                                 "canceled"}

\* A context is recycled only when the runtime has "fully finished" with it: a
\* pooled context is in the pool once, and in no mailbox, stash or behaviour.
PoolIsFree ==
  /\ \A i, j \in DOMAIN pool : pool[i] = pool[j] => i = j
  /\ {pool[i] : i \in DOMAIN pool} \cap InUse = {}

\* What a mailbox or a stash holds is what was put there: no context is
\* re-attached to another ask while it waits.
NoAlias ==
  \A q \in {routerBox, mailbox, stash} : \A i \in DOMAIN q : msg[q[i][1]] = q[i][2]

\* An answer comes from handling the ask's own message.
AnswerMatches == \A a \in Asks : answer[a] \in {a, Nil}

\* "The first response wins and a response after a timeout is ignored": what an
\* ask was settled with never changes.
SettledOnce ==
  [][\A a \in Asks : ask[a] \notin {"new", "pending"} => ask'[a] = ask[a]]_vars

\* A pending ask can expire: exactly one context completes it, and that
\* context is in a generation; no other context is.
PendingListed ==
  /\ \A a \in Asks : Cardinality({c \in Ctxs : reply[c] = a}) =
                     (IF a \in Pending THEN 1 ELSE 0)
  /\ \A c \in Ctxs : reply[c] # Nil <=> links.gen[c] # Nil

\* The intrusive lists are sound: prev and next are inverse to each other, the
\* head and the tail are the only ends, and all stays within a generation.
ListsSound ==
  /\ \A g \in Gens : links.head[g] = Nil <=> links.tail[g] = Nil
  /\ \A g \in Gens, c \in Ctxs :
       /\ links.head[g] = c => links.gen[c] = g /\ links.prev[c] = Nil
       /\ links.tail[g] = c => links.gen[c] = g /\ links.next[c] = Nil
  /\ \A c \in Ctxs :
       /\ links.gen[c] # Nil /\ links.prev[c] = Nil => links.head[links.gen[c]] = c
       /\ links.gen[c] # Nil /\ links.next[c] = Nil => links.tail[links.gen[c]] = c
       /\ \A d \in Ctxs : links.next[c] = d <=> links.prev[d] = c
       /\ links.next[c] # Nil => links.gen[links.next[c]] = links.gen[c]

\* "An unanswered ask is rejected between one and two timeout periods": never
\* before the first is over, and none is pending after the second.
ExpiryWindow ==
  /\ \A a \in Pending : waited[a] <= 2 * PERIOD
  /\ \A a \in Asks : ask[a] = "timedOut" => waited[a] >= PERIOD

\* Every ask settles: it is answered, refused or canceled, or it expires.
AsksSettle == \A a \in Asks : ask[a] = "pending" ~> ask[a] # "pending"
=============================================================================
