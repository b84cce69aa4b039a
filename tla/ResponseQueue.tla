--------------------------- MODULE ResponseQueue ---------------------------
(***************************************************************************)
(* The way answers leave claw_core (claw_core_messages.c): the agent task  *)
(* pushes responses to a bounded queue; callers receive the response of    *)
(* one request, or any.  Under response_lock a caller first looks through  *)
(* the list of responses earlier callers read and did not want, then waits *)
(* on the queue, adding to the list what it does not want itself.          *)
(***************************************************************************)
EXTENDS Naturals, Sequences

CONSTANTS Requests,   \* request ids, each answered at most once
          Receivers,  \* tasks that call claw_core_receive_for
          Bounded,    \* those that do not pass UINT32_MAX as timeout
          Any,        \* request_id 0
          None,
          QueueLen    \* response_queue_len

ASSUME RequestsAssumption == /\ Any \notin Requests
                             /\ None \notin Receivers
                             /\ Bounded \subseteq Receivers
ASSUME QueueAssumption == QueueLen \in Nat \ {0}

VARIABLES queue,    \* response_queue
          pending,  \* pending_head .. pending_tail
          lock,     \* response_lock's holder
          want,     \* per receiver: the request_id of its call, None between calls
          \* history:
          stamp,    \* when each response was pushed, 0 before
          clock,
          fate      \* "new", "pushed", "received" or "lost"

vars == <<queue, pending, lock, want, stamp, clock, fate>>

Init == /\ queue = <<>> /\ pending = <<>>
        /\ lock = None
        /\ want = [c \in Receivers |-> None]
        /\ stamp = [r \in Requests |-> 0] /\ clock = 0
        /\ fate = [r \in Requests |-> "new"]

Matches(c, r) == want[c] \in {r, Any}
Ends(r, f) == fate' = [fate EXCEPT ![r] = f]
Returns(c) == lock' = None /\ want' = [want EXCEPT ![c] = None]

\* claw_core_response_push; on a full queue the agent task waits.
Push(r) == /\ fate[r] = "new" /\ Len(queue) < QueueLen
           /\ queue' = Append(queue, r)
           /\ clock' = clock + 1 /\ stamp' = [stamp EXCEPT ![r] = clock + 1]
           /\ Ends(r, "pushed")
           /\ UNCHANGED <<pending, lock, want>>

Call(c, w) == /\ want[c] = None
              /\ want' = [want EXCEPT ![c] = w]
              /\ UNCHANGED <<queue, pending, lock, stamp, clock, fate>>

\* pop_pending_response: the first match leaves the list.
Wanted(c) == {i \in 1..Len(pending) : Matches(c, pending[i])}
Without(i) == [j \in 1..(Len(pending) - 1) |-> IF j < i THEN pending[j] ELSE pending[j + 1]]

EnterVariant(c) == /\ want[c] # None /\ lock = None
                   /\ lock' = c
                   /\ UNCHANGED <<queue, pending, want, stamp, clock, fate>>
Enter(c) == /\ want[c] # None /\ lock = None
            /\ \/ /\ Wanted(c) = {} /\ lock' = c
                  /\ UNCHANGED <<pending, want, fate>>
               \/ \E i \in Wanted(c) :
                     /\ \A j \in Wanted(c) : i <= j
                     /\ pending' = Without(i)
                     /\ Ends(pending[i], "received")
                     /\ Returns(c)
            /\ UNCHANGED <<queue, stamp, clock>>

\* xQueueReceive gave the caller what it waits for.
Take(c) == /\ lock = c /\ queue # <<>> /\ Matches(c, Head(queue))
           /\ queue' = Tail(queue)
           /\ Ends(Head(queue), "received")
           /\ Returns(c)
           /\ UNCHANGED <<pending, stamp, clock>>

\* enqueue_pending_response: the response of another request is kept, or
\* without memory freed; the caller goes on waiting.
StashVariant(c) == /\ lock = c /\ queue # <<>> /\ ~Matches(c, Head(queue))
                   /\ queue' = Tail(queue)
                   /\ pending' = <<Head(queue)>> \o pending
                   /\ UNCHANGED <<lock, want, stamp, clock, fate>>
Stash(c) == /\ lock = c /\ queue # <<>> /\ ~Matches(c, Head(queue))
            /\ queue' = Tail(queue)
            /\ \/ pending' = Append(pending, Head(queue)) /\ UNCHANGED fate
               \/ Ends(Head(queue), "lost") /\ UNCHANGED pending
            /\ UNCHANGED <<lock, want, stamp, clock>>

TimeoutVariant(c) == /\ lock = c /\ c \in Bounded
                     /\ want' = [want EXCEPT ![c] = None]
                     /\ UNCHANGED <<queue, pending, lock, stamp, clock, fate>>
Timeout(c) == /\ lock = c /\ c \in Bounded
              /\ Returns(c)
              /\ UNCHANGED <<queue, pending, stamp, clock, fate>>

Step(c) == Enter(c) \/ Take(c) \/ Stash(c) \/ Timeout(c)

Next == \/ \E r \in Requests : Push(r)
        \/ \E c \in Receivers : Step(c) \/ \E w \in Requests \cup {Any} : Call(c, w)

Spec == Init /\ [][Next]_vars

\* A receiver that waits for the lock gets it when it is given often enough
\* (FreeRTOS wakes waiters by priority, and equal ones in turn), and one that
\* holds it goes on; a timeout passes.
Fairness == \A c \in Receivers : /\ SF_vars(Enter(c))
                                 /\ WF_vars(Take(c) \/ Stash(c) \/ Timeout(c))
FairSpec == Spec /\ Fairness

-----------------------------------------------------------------------------
(* Properties.                                                             *)

\* The state stays within its types.
TypeOK == /\ queue \in Seq(Requests) /\ Len(queue) <= QueueLen
          /\ pending \in Seq(Requests)
          /\ lock \in Receivers \cup {None}
          /\ want \in [Receivers -> Requests \cup {Any, None}]
          /\ fate \in [Requests -> {"new", "pushed", "received", "lost"}]

\* A caller that waits on the queue does not overlook its response in the
\* list, where an earlier caller may have put it: it would wait in vain.
NotOverlooked == lock # None => \A i \in 1..Len(pending) : ~Matches(lock, pending[i])

\* Callers of any response get them in the order they were pushed: what the
\* list holds is older than what the queue holds, and both are in order.
OldestFirst == LET all == pending \o queue
               IN \A i, j \in 1..Len(all) : i < j => stamp[all[i]] < stamp[all[j]]

\* Every call with a timeout returns, although the lock is held while its
\* holder waits.
ReceivesReturn == \A c \in Bounded : want[c] # None ~> want[c] = None
=============================================================================
