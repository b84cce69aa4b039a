------------------------ MODULE ResponseQueue_proofs ------------------------
(***************************************************************************)
(* Proofs about ResponseQueue, for any requests, receivers and length of   *)
(* the queue.                                                              *)
(***************************************************************************)
EXTENDS ResponseQueue, SequenceTheorems, TLAPS

USE RequestsAssumption, QueueAssumption

\* What the removal of one element leaves: pop_pending_response unlinks the
\* node it found and no other.
LEMMA WithoutProperties ==
    ASSUME pending \in Seq(Requests), NEW i \in 1..Len(pending)
    PROVE  /\ Without(i) \in Seq(Requests)
           /\ Len(Without(i)) = Len(pending) - 1
           /\ \A j \in 1..Len(Without(i)) :
                 Without(i)[j] = pending[IF j < i THEN j ELSE j + 1]
<1>1. Len(pending) \in Nat /\ Len(pending) - 1 \in Nat
  BY LenProperties
<1>2. \A j \in 1..Len(pending) : pending[j] \in Requests
  BY ElementOfSeq
<1>3. \A j \in 1..(Len(pending) - 1) : Without(i)[j] \in Requests
  BY <1>1, <1>2 DEF Without
<1>4. Without(i) \in [1..(Len(pending) - 1) -> Requests]
  BY <1>3 DEF Without
<1>5. Without(i) \in Seq(Requests) /\ Len(Without(i)) = Len(pending) - 1
  BY <1>1, <1>4
<1>6. QED  BY <1>1, <1>5 DEF Without

\* Type correctness: the queue never exceeds its length.
LEMMA TypeInit == Init => TypeOK
BY DEF Init, TypeOK

LEMMA TypeStep == TypeOK /\ [Next]_vars => TypeOK'
<1> SUFFICES ASSUME TypeOK, [Next]_vars PROVE TypeOK'
  OBVIOUS
<1> USE DEF TypeOK
<1>1. ASSUME NEW r \in Requests, Push(r) PROVE TypeOK'
  <2>1. Append(queue, r) \in Seq(Requests) /\ Len(Append(queue, r)) = Len(queue) + 1
    BY AppendProperties
  <2>2. QED  BY <1>1, <2>1, LenProperties DEF Push, Ends
<1>2. ASSUME NEW c \in Receivers, NEW w \in Requests \cup {Any}, Call(c, w) PROVE TypeOK'
  BY <1>2 DEF Call
<1>3. ASSUME NEW c \in Receivers, Enter(c) PROVE TypeOK'
  <2>1. CASE Wanted(c) = {} /\ lock' = c /\ UNCHANGED <<pending, want, fate>>
    BY <1>3, <2>1 DEF Enter
  <2>2. ASSUME NEW i \in Wanted(c), pending' = Without(i), Ends(pending[i], "received"),
               Returns(c)
        PROVE  TypeOK'
    <3>1. i \in 1..Len(pending)
      BY DEF Wanted
    <3>2. pending' \in Seq(Requests)
      BY <2>2, <3>1, WithoutProperties
    <3>3. QED  BY <1>3, <2>2, <3>2 DEF Enter, Ends, Returns
  <2>3. QED  BY <1>3, <2>1, <2>2 DEF Enter
<1>4. ASSUME NEW c \in Receivers, Take(c) PROVE TypeOK'
  <2>1. Tail(queue) \in Seq(Requests) /\ Len(Tail(queue)) <= QueueLen
    BY <1>4, HeadTailProperties, LenProperties DEF Take
  <2>2. QED  BY <1>4, <2>1 DEF Take, Ends, Returns
<1>5. ASSUME NEW c \in Receivers, Stash(c) PROVE TypeOK'
  <2>1. Tail(queue) \in Seq(Requests) /\ Len(Tail(queue)) <= QueueLen
    BY <1>5, HeadTailProperties, LenProperties DEF Stash
  <2>2. Append(pending, Head(queue)) \in Seq(Requests)
    BY <1>5, HeadTailProperties, AppendProperties DEF Stash
  <2>3. QED  BY <1>5, <2>1, <2>2 DEF Stash, Ends
<1>6. ASSUME NEW c \in Receivers, Timeout(c) PROVE TypeOK'
  BY <1>6 DEF Timeout, Returns
<1>7. ASSUME UNCHANGED vars PROVE TypeOK'
  BY <1>7 DEF vars
<1>8. QED  BY <1>1, <1>2, <1>3, <1>4, <1>5, <1>6, <1>7 DEF Next, Step

\* The queue of answers is typed and within response_queue_len, always.
THEOREM QueueTypeCorrect == Spec => []TypeOK
BY TypeInit, TypeStep, PTL DEF Spec

-----------------------------------------------------------------------------
(* A receiver that holds the lock is in a call, so that nobody changes what *)
(* it wants: with that NotOverlooked is inductive.                          *)

HolderCalls == lock # None => want[lock] # None
Seen == HolderCalls /\ NotOverlooked

LEMMA SeenStep == TypeOK /\ Seen /\ [Next]_vars => Seen'
<1> SUFFICES ASSUME TypeOK, Seen, [Next]_vars PROVE Seen'
  OBVIOUS
<1> USE DEF Seen, HolderCalls, NotOverlooked, Matches
<1>1. ASSUME NEW r \in Requests, Push(r) PROVE Seen'
  BY <1>1 DEF Push
<1>2. ASSUME NEW c \in Receivers, NEW w \in Requests \cup {Any}, Call(c, w) PROVE Seen'
  <2>1. lock # c
    BY <1>2 DEF Call
  <2>2. lock # None => want'[lock] = want[lock]
    BY <1>2, <2>1 DEF Call, TypeOK
  <2>3. QED  BY <1>2, <2>2 DEF Call
<1>3. ASSUME NEW c \in Receivers, Enter(c) PROVE Seen'
  <2>1. CASE Wanted(c) = {} /\ lock' = c /\ UNCHANGED <<pending, want, fate>>
    BY <1>3, <2>1 DEF Enter, Wanted
  <2>2. CASE lock' = None
    BY <2>2
  <2>3. QED  BY <1>3, <2>1, <2>2 DEF Enter, Returns
<1>4. ASSUME NEW c \in Receivers, Take(c) PROVE Seen'
  BY <1>4 DEF Take, Returns
<1>5. ASSUME NEW c \in Receivers, Stash(c) PROVE Seen'
  <2>1. lock = c /\ lock' = c /\ want' = want /\ want[c] # None
    BY <1>5 DEF Stash, TypeOK
  <2>2. CASE pending' = pending
    BY <2>1, <2>2
  <2>3. CASE pending' = Append(pending, Head(queue))
    <3>1. Head(queue) \in Requests
      BY <1>5, HeadTailProperties DEF Stash, TypeOK
    <3>2. /\ Len(pending') = Len(pending) + 1
          /\ \A i \in 1..Len(pending) : pending'[i] = pending[i]
          /\ pending'[Len(pending) + 1] = Head(queue)
      BY <2>3, <3>1, AppendProperties DEF TypeOK
    <3>3. ~Matches(c, Head(queue))
      BY <1>5 DEF Stash
    <3>4. Len(pending) \in Nat
      BY LenProperties DEF TypeOK
    <3>5. ASSUME NEW i \in 1..Len(pending') PROVE ~Matches(c, pending'[i])
      BY <2>1, <3>2, <3>3, <3>4
    <3>6. QED  BY <2>1, <3>5
  <2>4. QED  BY <1>5, <2>2, <2>3 DEF Stash
<1>6. ASSUME NEW c \in Receivers, Timeout(c) PROVE Seen'
  BY <1>6 DEF Timeout, Returns
<1>7. ASSUME UNCHANGED vars PROVE Seen'
  BY <1>7 DEF vars
<1>8. QED  BY <1>1, <1>2, <1>3, <1>4, <1>5, <1>6, <1>7 DEF Next, Step

\* A receiver that waits on the queue never overlooks its answer in the list
\* of answers other receivers put aside.
THEOREM AnswersAreSeen == Spec => []NotOverlooked
<1>1. Init => Seen
  BY DEF Init, Seen, HolderCalls, NotOverlooked
<1>2. QED  BY <1>1, TypeInit, TypeStep, SeenStep, PTL DEF Spec, Seen

-----------------------------------------------------------------------------
(* The order of the answers.  It is inductive when stated of the list, of   *)
(* the queue and between them, and with it that what either holds was       *)
(* pushed already: a new answer gets a stamp that is later than all others, *)
(* and no answer that is held is stamped again.                             *)

Stamped(seq) == \A i \in 1..Len(seq) : fate[seq[i]] # "new" /\ stamp[seq[i]] <= clock
InOrder(seq) == \A i, j \in 1..Len(seq) : i < j => stamp[seq[i]] < stamp[seq[j]]
ListIsOlder == \A i \in 1..Len(pending), j \in 1..Len(queue) :
                   stamp[pending[i]] < stamp[queue[j]]
OrderInv == /\ stamp \in [Requests -> Nat] /\ clock \in Nat
            /\ Stamped(pending) /\ Stamped(queue)
            /\ InOrder(pending) /\ InOrder(queue)
            /\ ListIsOlder

LEMMA OrderInit == Init => OrderInv
BY DEF Init, OrderInv, Stamped, InOrder, ListIsOlder

\* The steps that move or drop what is held and push nothing.
LEMMA NothingPushed ==
    ASSUME TypeOK, OrderInv,
           stamp' = stamp, clock' = clock,
           \A r \in Requests : fate[r] # "new" => fate'[r] # "new",
           Stamped(pending)', Stamped(queue)',
           InOrder(pending)', InOrder(queue)', ListIsOlder'
    PROVE  OrderInv'
BY DEF OrderInv

LEMMA OrderStep == TypeOK /\ OrderInv /\ [Next]_vars => OrderInv'
<1> SUFFICES ASSUME TypeOK, OrderInv, [Next]_vars PROVE OrderInv'
  OBVIOUS
<1> USE DEF OrderInv, Stamped, InOrder, ListIsOlder
<1>a. Len(pending) \in Nat /\ Len(queue) \in Nat
  BY LenProperties DEF TypeOK
<1>b. /\ \A i \in 1..Len(pending) : pending[i] \in Requests
      /\ \A i \in 1..Len(queue) : queue[i] \in Requests
  BY ElementOfSeq DEF TypeOK
<1>c. fate \in [Requests -> {"new", "pushed", "received", "lost"}]
  BY DEF TypeOK
<1>f. clock \in Nat /\ \A r \in Requests : stamp[r] \in Nat
  OBVIOUS
<1>d. ASSUME NEW r \in Requests, NEW f \in {"received", "lost"}, Ends(r, f)
      PROVE  \A q \in Requests : fate[q] # "new" => fate'[q] # "new"
  BY <1>c, <1>d DEF Ends
<1>e. ASSUME queue # <<>>
      PROVE  /\ Head(queue) \in Requests /\ Head(queue) = queue[1]
             /\ Len(queue) >= 1 /\ Len(Tail(queue)) = Len(queue) - 1
             /\ \A i \in 1..Len(Tail(queue)) :
                   i + 1 \in 1..Len(queue) /\ Tail(queue)[i] = queue[i + 1]
  BY <1>a, <1>e, HeadTailProperties, EmptySeq DEF TypeOK
<1>1. ASSUME NEW r \in Requests, Push(r) PROVE OrderInv'
  <2>1. /\ Len(queue') = Len(queue) + 1 /\ queue'[Len(queue) + 1] = r
        /\ \A i \in 1..Len(queue) : queue'[i] = queue[i]
    BY <1>1, AppendProperties DEF Push, TypeOK
  <2>2. clock' = clock + 1 /\ stamp'[r] = clock + 1 /\ stamp' \in [Requests -> Nat]
    BY <1>1 DEF Push
  <2>3. fate[r] = "new" /\ pending' = pending
    BY <1>1 DEF Push
  <2>4. \A q \in Requests : fate[q] # "new" => fate'[q] # "new" /\ stamp'[q] = stamp[q]
    BY <1>1, <1>c DEF Push, Ends
  <2>5. fate'[r] # "new"
    BY <1>1, <1>c DEF Push, Ends
  <2>a. \A q \in Requests : fate[q] # "new" /\ stamp[q] <= clock
                              => fate'[q] # "new" /\ stamp'[q] <= clock'
    BY <1>f, <2>2, <2>4
  <2>6. Stamped(pending)' /\ InOrder(pending)'
    <3>1. Stamped(pending)'
      BY <1>b, <2>3, <2>a
    <3>2. InOrder(pending)'
      BY <1>b, <2>3, <2>4
    <3>3. QED  BY <3>1, <3>2
  <2>7. Stamped(queue)'
    <3>1. \A i \in 1..Len(queue) : fate'[queue'[i]] # "new" /\ stamp'[queue'[i]] <= clock'
      BY <1>b, <2>1, <2>a
    <3>2. fate'[r] # "new" /\ stamp'[r] <= clock'
      BY <1>f, <2>2, <2>5
    <3>3. \A i \in 1..Len(queue') : i \in 1..Len(queue) \/ queue'[i] = r
      BY <1>a, <2>1
    <3>4. QED  BY <2>1, <3>1, <3>2, <3>3
  <2>8. InOrder(queue)'
    <3> SUFFICES ASSUME NEW i \in 1..Len(queue'), NEW j \in 1..Len(queue'), i < j
                 PROVE  stamp'[queue'[i]] < stamp'[queue'[j]]
      BY DEF InOrder
    <3>1. i \in 1..Len(queue)
      BY <1>a, <2>1
    <3>2. stamp'[queue'[i]] = stamp[queue[i]] /\ stamp[queue[i]] <= clock
      BY <1>b, <2>1, <2>4, <3>1
    <3>3. CASE j = Len(queue) + 1
      BY <1>b, <2>1, <2>2, <3>1, <3>2, <3>3
    <3>4. CASE j \in 1..Len(queue)
      BY <1>b, <2>1, <2>4, <3>1, <3>2, <3>4
    <3>5. QED  BY <1>a, <2>1, <3>3, <3>4
  <2>9. ListIsOlder'
    <3> SUFFICES ASSUME NEW i \in 1..Len(pending), NEW j \in 1..Len(queue')
                 PROVE  stamp'[pending[i]] < stamp'[queue'[j]]
      BY <2>3
    <3>1. stamp'[pending[i]] = stamp[pending[i]] /\ stamp[pending[i]] <= clock
      BY <1>b, <2>4
    <3>2. CASE j = Len(queue) + 1
      BY <1>b, <2>1, <2>2, <3>1, <3>2
    <3>3. CASE j \in 1..Len(queue)
      BY <1>b, <2>1, <2>4, <3>1, <3>3
    <3>4. QED  BY <1>a, <2>1, <3>2, <3>3
  <2>10. QED  BY <2>2, <2>6, <2>7, <2>8, <2>9
<1>2. ASSUME NEW c \in Receivers, NEW w \in Requests \cup {Any}, Call(c, w) PROVE OrderInv'
  BY <1>2 DEF Call
<1>3. ASSUME NEW c \in Receivers, Enter(c) PROVE OrderInv'
  <2>1. CASE UNCHANGED <<pending, want, fate>>
    BY <1>3, <2>1 DEF Enter
  <2>2. ASSUME NEW i \in Wanted(c), pending' = Without(i), Ends(pending[i], "received")
        PROVE  OrderInv'
    <3>1. i \in 1..Len(pending) /\ pending[i] \in Requests
      BY <1>b DEF Wanted
    <3>2. UNCHANGED <<queue, stamp, clock>>
      BY <1>3 DEF Enter
    <3>3. \A q \in Requests : fate[q] # "new" => fate'[q] # "new"
      BY <1>d, <2>2, <3>1
    <3>4. Len(pending') = Len(pending) - 1
      BY <2>2, <3>1, WithoutProperties DEF TypeOK
    <3>5. \A j \in 1..Len(pending') : pending'[j] = pending[IF j < i THEN j ELSE j + 1]
      BY <2>2, <3>1, WithoutProperties DEF TypeOK
    <3>6. \A j \in 1..Len(pending') : (IF j < i THEN j ELSE j + 1) \in 1..Len(pending)
      BY <1>a, <3>1, <3>4
    <3>7. Stamped(pending)' /\ Stamped(queue)'
      BY <1>b, <3>2, <3>3, <3>5, <3>6
    <3>8. InOrder(queue)' /\ ListIsOlder'
      BY <3>2, <3>5, <3>6
    <3>9. InOrder(pending)'
      <4> SUFFICES ASSUME NEW j \in 1..Len(pending'), NEW k \in 1..Len(pending'), j < k
                   PROVE  stamp[pending'[j]] < stamp[pending'[k]]
        BY <3>2
      <4>1. (IF j < i THEN j ELSE j + 1) < (IF k < i THEN k ELSE k + 1)
        BY <1>a, <3>1, <3>4
      <4>2. QED  BY <3>5, <3>6, <4>1
    <3>10. QED  BY <3>2, <3>3, <3>7, <3>8, <3>9, NothingPushed
  <2>3. QED  BY <1>3, <2>1, <2>2 DEF Enter
<1>4. ASSUME NEW c \in Receivers, Take(c) PROVE OrderInv'
  <2>1. queue # <<>> /\ queue' = Tail(queue) /\ UNCHANGED <<pending, stamp, clock>>
    BY <1>4 DEF Take
  <2>2. \A q \in Requests : fate[q] # "new" => fate'[q] # "new"
    BY <1>4, <1>d, <1>e DEF Take
  <2>3. Stamped(pending)' /\ Stamped(queue)'
    BY <1>b, <1>e, <2>1, <2>2, SMTT(30)
  <2>4. InOrder(pending)' /\ InOrder(queue)' /\ ListIsOlder'
    BY <1>a, <1>e, <2>1, SMTT(30)
  <2>5. QED  BY <2>1, <2>2, <2>3, <2>4, NothingPushed
<1>5. ASSUME NEW c \in Receivers, Stash(c) PROVE OrderInv'
  <2>1. queue # <<>> /\ queue' = Tail(queue) /\ UNCHANGED <<stamp, clock>>
    BY <1>5 DEF Stash
  <2>2. \A q \in Requests : fate[q] # "new" => fate'[q] # "new"
    BY <1>5, <1>d, <1>e DEF Stash
  <2>3. Stamped(queue)' /\ InOrder(queue)'
    <3>1. Stamped(queue)'
      BY <1>b, <1>e, <2>1, <2>2
    <3>2. InOrder(queue)'
      BY <1>a, <1>e, <2>1
    <3>3. QED  BY <3>1, <3>2
  <2>4. CASE pending' = pending
    <3>1. Stamped(pending)' /\ InOrder(pending)' /\ ListIsOlder'
      BY <1>a, <1>b, <1>e, <2>1, <2>2, <2>4
    <3>2. QED  BY <2>1, <2>2, <2>3, <3>1, NothingPushed
  <2>5. CASE pending' = Append(pending, Head(queue))
    <3>1. /\ Len(pending') = Len(pending) + 1 /\ pending'[Len(pending) + 1] = queue[1]
          /\ \A i \in 1..Len(pending) : pending'[i] = pending[i]
      BY <1>e, <2>1, <2>5, AppendProperties DEF TypeOK
    <3>2. 1 \in 1..Len(queue)
      BY <1>a, <1>e, <2>1
    <3>3. Stamped(pending)'
      <4>1. \A i \in 1..Len(pending') : i \in 1..Len(pending) \/ pending'[i] = queue[1]
        BY <1>a, <3>1
      <4>2. \A i \in 1..Len(pending) : fate'[pending'[i]] # "new" /\ stamp'[pending'[i]] <= clock'
        BY <1>b, <2>1, <2>2, <3>1
      <4>3. fate'[queue[1]] # "new" /\ stamp'[queue[1]] <= clock'
        BY <1>b, <2>1, <2>2, <3>2
      <4>4. QED  BY <4>1, <4>2, <4>3
    <3>4. InOrder(pending)'
      <4> SUFFICES ASSUME NEW i \in 1..Len(pending'), NEW j \in 1..Len(pending'), i < j
                   PROVE  stamp[pending'[i]] < stamp[pending'[j]]
        BY <2>1
      <4>1. i \in 1..Len(pending)
        BY <1>a, <3>1
      <4>2. CASE j = Len(pending) + 1
        BY <3>1, <3>2, <4>1, <4>2
      <4>3. CASE j \in 1..Len(pending)
        BY <3>1, <4>1, <4>3
      <4>4. j = Len(pending) + 1 \/ j \in 1..Len(pending)
        BY <1>a, <3>1, SMTT(30)
      <4>5. QED  BY <4>2, <4>3, <4>4
    <3>5. ListIsOlder'
      <4> SUFFICES ASSUME NEW i \in 1..Len(pending'), NEW j \in 1..Len(queue')
                   PROVE  stamp[pending'[i]] < stamp[queue'[j]]
        BY <2>1
      <4>1. j + 1 \in 1..Len(queue) /\ queue'[j] = queue[j + 1] /\ 1 < j + 1
        BY <1>a, <1>e, <2>1
      <4>2. CASE i = Len(pending) + 1
        BY <3>1, <3>2, <4>1, <4>2
      <4>3. CASE i \in 1..Len(pending)
        BY <3>1, <4>1, <4>3
      <4>4. QED  BY <1>a, <3>1, <4>2, <4>3
    <3>6. QED  BY <2>1, <2>2, <2>3, <3>3, <3>4, <3>5, NothingPushed
  <2>6. QED  BY <1>5, <2>4, <2>5 DEF Stash
<1>6. ASSUME NEW c \in Receivers, Timeout(c) PROVE OrderInv'
  BY <1>6 DEF Timeout
<1>7. ASSUME UNCHANGED vars PROVE OrderInv'
  BY <1>7 DEF vars
<1>8. QED  BY <1>1, <1>2, <1>3, <1>4, <1>5, <1>6, <1>7 DEF Next, Step

LEMMA OrderIsOldestFirst == TypeOK /\ OrderInv => OldestFirst
<1> SUFFICES ASSUME TypeOK, OrderInv PROVE OldestFirst
  OBVIOUS
<1> DEFINE all == pending \o queue
<1>1. Len(pending) \in Nat /\ Len(queue) \in Nat
  BY LenProperties DEF TypeOK
<1>2. /\ Len(all) = Len(pending) + Len(queue)
      /\ \A i \in 1..Len(all) : all[i] = IF i <= Len(pending) THEN pending[i]
                                                            ELSE queue[i - Len(pending)]
  BY ConcatProperties DEF TypeOK
<1> HIDE DEF all
<1>3. ASSUME NEW i \in 1..Len(all), NEW j \in 1..Len(all), i < j
      PROVE  stamp[all[i]] < stamp[all[j]]
  <2>1. CASE j <= Len(pending)
    BY <1>1, <1>2, <1>3, <2>1 DEF OrderInv, InOrder
  <2>2. CASE i > Len(pending)
    <3>1. i - Len(pending) \in 1..Len(queue) /\ j - Len(pending) \in 1..Len(queue)
      BY <1>1, <1>2, <1>3, <2>2
    <3>2. all[i] = queue[i - Len(pending)] /\ all[j] = queue[j - Len(pending)]
      BY <1>1, <1>2, <1>3, <2>2
    <3>3. i - Len(pending) < j - Len(pending)
      BY <1>1, <1>3
    <3>4. QED  BY <3>1, <3>2, <3>3 DEF OrderInv, InOrder
  <2>3. CASE i <= Len(pending) /\ j > Len(pending)
    <3>1. i \in 1..Len(pending) /\ j - Len(pending) \in 1..Len(queue)
      BY <1>1, <1>2, <2>3
    <3>2. all[i] = pending[i] /\ all[j] = queue[j - Len(pending)]
      BY <1>1, <1>2, <2>3
    <3>3. QED  BY <3>1, <3>2 DEF OrderInv, ListIsOlder
  <2>4. QED  BY <1>1, <1>2, <2>1, <2>2, <2>3
<1>4. QED  BY <1>3 DEF OldestFirst, all

\* Whoever asks for any answer gets the oldest there is: what other receivers
\* put aside was pushed before everything in the queue, and both are in order.
THEOREM AnswersKeepTheirOrder == Spec => []OldestFirst
BY TypeInit, TypeStep, OrderInit, OrderStep, OrderIsOldestFirst, PTL DEF Spec
=============================================================================
