------------------------- MODULE EventRouter_proofs -------------------------
(***************************************************************************)
(* Proofs about EventRouter, for any events with any ids, any publishers,  *)
(* rules and filters, and any sizes of the queue and of the table.         *)
(***************************************************************************)
EXTENDS EventRouter, SequenceTheorems, TLAPS

USE EventsAssumption, RulesAssumption, BoundsAssumption

PubTypes == pub \in [Tasks -> [pc : {"idle", "track", "send", "untrack"},
                               event : Events \cup {None}]]
SlotTypes == pending \in [1..Slots -> [event : Events \cup {None}, cancelled : BOOLEAN]]
RouterPlaces == Walking \cup {"waiting", "taken", "begin", "enter", "fallback"}
CoreTypes == /\ queue \in Seq(Events) /\ Len(queue) <= QueueLen
             /\ SlotTypes /\ PubTypes
             /\ router \in RouterPlaces /\ event \in Events \cup {None}
             /\ fate \in [Events -> Fates]
             /\ revoked \subseteq Events /\ evicted \subseteq Events
WalkTypes == /\ mutex \in {None, Router} /\ rules \in RuleSets /\ gen \in 0..MaxReloads
             /\ local \in [matched : BOOLEAN, ack : Acks]
             /\ last \in [matched : BOOLEAN, ack : Acks]
             /\ script \in BOOLEAN

\* Where an event is.  A publisher has it before it is in the queue, the
\* queue has it once, and the router after that: its fate says which.
Sends(t) == pub[t].pc # "idle" => /\ pub[t].event \in Events
                                  /\ fate[pub[t].event] = "sending"
                                  /\ PublisherOf[pub[t].event] = t
                                  /\ pub[t].pc = "track" => IdOf[pub[t].event] # None
Published == \A t \in Tasks : Sends(t)
Waiting == /\ \A i \in 1..Len(queue) : fate[queue[i]] = "queued"
           /\ \A i, j \in 1..Len(queue) : queue[i] = queue[j] => i = j
Received == router # "waiting" => /\ event \in Events /\ fate[event] = "queued"
                                  /\ \A i \in 1..Len(queue) : queue[i] # event
Places == CoreTypes /\ Published /\ Waiting /\ Received

\* What the table of pending events says of them.  With an id of its own an
\* event has a slot only while it is in flight, and the mark in a slot says
\* that the event was revoked.
Tracked(e) == /\ fate[e] # "unborn"
              /\ \A t \in Tasks : pub[t].event = e => pub[t].pc # "track"
SlotInv(i, e) == /\ IdOf[e] # None /\ Tracked(e)
                 /\ e \in Distinct => e \in InFlight
                 /\ pending[i].cancelled <=> e \in revoked
Marks == \A i \in 1..Slots, e \in Events : pending[i].event = e => SlotInv(i, e)
Revoked == \A e \in revoked : IdOf[e] # None /\ Tracked(e)
Table == Marks /\ Revoked /\ TrackedOrEvicted /\ RevocationHolds
RouterInv == Places /\ Table

-----------------------------------------------------------------------------
(* What the steps do to the state these say something of.                  *)

Off == {"waiting", "taken"}   \* the router is at no event's rules

Inside == /\ router \notin Off /\ router' \in RouterPlaces \ Off
          /\ UNCHANGED event
Keeps == UNCHANGED <<queue, pending, revoked, evicted, event>>

Births(t, e) == /\ StartPublish(t, e) /\ Keeps
                /\ router' = router \/ Inside
Works == Inside /\ Keeps /\ UNCHANGED <<pub, fate>>
Ends == /\ router \notin Off /\ Keeps /\ UNCHANGED pub
        /\ \E f \in {"done", "failed", "ignored"} : Rest(f)
Idles == Keeps /\ UNCHANGED <<pub, fate, router>>

Moves == \/ \E t \in Tasks, e \in Events : Births(t, e)
         \/ \E t \in Tasks : PublishStep(t)
         \/ \E F \in SUBSET Events : Mark(F)
         \/ Receive \/ Take \/ Works \/ Ends \/ Idles

LEMMA StepsMove == [Next]_vars => Moves
  <1> SUFFICES ASSUME [Next]_vars PROVE Moves
    OBVIOUS
  <1> USE DEF Keeps
  <1>1. {"rules", "acting", "emit", "script", "after", "enter", "fallback"} \subseteq RouterPlaces \ Off
    BY DEF RouterPlaces, Walking, Off
  <1>2. ASSUME NEW t \in Tasks, NEW e \in Events, Publish(t, e)
        PROVE  Moves
    BY <1>2 DEF Publish, Births, Moves, table
  <1>3. ASSUME NEW F \in SUBSET Events, Mark(F)
        PROVE  Moves
    BY <1>3 DEF Moves
  <1>4. ASSUME NEW e \in Events, CancelEvent(e)
        PROVE  Moves
    <2>1. Mark({f \in Events : IdOf[f] = IdOf[e]})
      BY <1>4 DEF CancelEvent
    <2> QED BY <1>3, <2>1
  <1>5. ASSUME NEW F \in Filters, PurgeQueue(F)
        PROVE  Moves
    BY <1>3, <1>5 DEF PurgeQueue
  <1>6. ASSUME NEW R \in RuleSets, Reload(R)
        PROVE  Moves
    BY <1>6 DEF Reload, Moves, Idles, table
  <1>7. CASE ScriptEnds
    BY <1>7 DEF ScriptEnds, Moves, Idles, table
  <1>8. CASE UNCHANGED vars
    BY <1>8 DEF vars, Moves, Idles, table
  <1>9. CASE RouterStep
    <2>1. CASE Receive \/ Take
      BY <2>1 DEF Moves
    <2>2. CASE Begin
      BY <1>1, <2>2 DEF Begin, Moves, Works, Ends, Inside, Off, table
    <2>3. CASE Enter
      BY <1>1, <2>3 DEF Enter, Moves, Works, Ends, Inside, Off, table
    <2>4. CASE TryRule
      BY <1>1, <2>4 DEF TryRule, GiveUp, Moves, Works, Ends, Inside, Off, table
    <2>5. CASE Call
      BY <1>1, <2>5 DEF Call, Doing, Continue, Moves, Works, Inside, Off, table
    <2>6. CASE Drop
      BY <1>1, <2>6 DEF Drop, Doing, Continue, Moves, Works, Inside, Off, table
    <2>7. CASE \E R \in RuleSets : ReloadAction(R)
      BY <1>1, <2>7 DEF ReloadAction, Doing, Continue, Moves, Works, Inside, Off, table
    <2>8. ASSUME NEW e \in Events, Emit(e)
          PROVE  Moves
      <3>1. Births(Router, e)
        BY <1>1, <2>8 DEF Emit, Doing, Births, Inside, Off, table
      <3> QED BY <3>1 DEF Moves
    <2>9. CASE EmitReturns
      BY <1>1, <2>9 DEF EmitReturns, Continue, Moves, Works, Inside, Off, table
    <2>10. CASE RunScript
      BY <1>1, <2>10 DEF RunScript, Doing, Moves, Works, Inside, Off, table
    <2>11. CASE ScriptReturns
      BY <1>1, <2>11 DEF ScriptReturns, Continue, Moves, Works, Inside, Off, table
    <2>12. CASE ActionsDone
      BY <1>1, <2>12 DEF ActionsDone, Moves, Works, Inside, Off, table
    <2>13. CASE RulesDone
      BY <1>1, <2>13 DEF RulesDone, Moves, Works, Inside, Off, table
    <2>14. CASE Finish
      BY <1>1, <2>14 DEF Finish, Moves, Works, Ends, Inside, Off, table
    <2>15. CASE Fallback
      BY <1>1, <2>15 DEF Fallback, Moves, Works, Ends, Inside, Off, table, walk
    <2> QED BY <1>9, <2>1, <2>2, <2>3, <2>4, <2>5, <2>6, <2>7, <2>8, <2>9, <2>10, <2>11,
               <2>12, <2>13, <2>14, <2>15 DEF RouterStep
  <1>10. ASSUME NEW t \in Tasks, PublishStep(t)
         PROVE  Moves
    BY <1>10 DEF Moves
  <1> QED BY <1>2, <1>4, <1>5, <1>6, <1>7, <1>8, <1>9, <1>10 DEF Next

LEMMA WalkStep ==
  ASSUME WalkTypes, [Next]_vars
  PROVE  WalkTypes'
  <1> USE DEF WalkTypes
  <1>1. {"", "processing", "matched", "rendered"} = Acks /\ Fresh \in [matched : BOOLEAN, ack : Acks]
    BY DEF Acks, Fresh
  <1>2. ASSUME NEW t \in Tasks, PublishStep(t) \/ \E e \in Events : Publish(t, e)
        PROVE  WalkTypes'
    BY <1>2 DEF Publish, PublishStep, Track, Send, SendTimeout, Untrack, walk
  <1>3. ASSUME NEW F, Mark(F)
        PROVE  WalkTypes'
    BY <1>3 DEF Mark, walk
  <1>4. ASSUME NEW R \in RuleSets, Reload(R) \/ ReloadAction(R)
        PROVE  WalkTypes'
    <2>1. gen' \in 0..MaxReloads /\ rules' \in RuleSets
      <3>1. Swap(R)
        BY <1>4 DEF Reload, ReloadAction
      <3>2. gen \in 0..MaxReloads /\ gen < MaxReloads /\ gen' = gen + 1
        BY <3>1 DEF Swap
      <3>3. gen' \in 0..MaxReloads
        BY <3>2
      <3> QED BY <3>1, <3>3 DEF Swap
    <2>2. UNCHANGED <<mutex, local, last, script>>
      BY <1>4 DEF Reload, ReloadAction, walk
    <2> QED BY <2>1, <2>2
  <1>5. CASE ScriptEnds \/ UNCHANGED vars
    BY <1>5 DEF ScriptEnds, vars, walk
  <1>6. CASE Receive \/ Take \/ RulesDone
    BY <1>6 DEF Receive, Take, RulesDone, walk
  <1>7. CASE Begin \/ Enter
    BY <1>1, <1>7 DEF Begin, Enter
  <1>8. CASE TryRule
    <2>1. local' = local \/ local' = [local EXCEPT !.matched = TRUE]
      BY <1>8 DEF TryRule, GiveUp
    <2>2. local' \in [matched : BOOLEAN, ack : Acks]
      <3>1. CASE local' = [local EXCEPT !.matched = TRUE]
        BY <3>1
      <3> QED BY <2>1, <3>1
    <2>3. mutex' \in {mutex, None} /\ UNCHANGED <<rules, gen, last, script>>
      BY <1>8 DEF TryRule, GiveUp
    <2> QED BY <2>2, <2>3
  <1>9. CASE Call \/ Drop \/ EmitReturns \/ RunScript \/ ScriptReturns
    BY <1>9 DEF Call, Drop, EmitReturns, RunScript, ScriptReturns, walk
  <1>10. ASSUME NEW e \in Events, Emit(e)
         PROVE  WalkTypes'
    BY <1>10 DEF Emit, walk
  <1>11. CASE ActionsDone
    <2>1. PICK a \in Acks : local' = [local EXCEPT !.ack = a]
      BY <1>1, <1>11 DEF ActionsDone
    <2> QED BY <1>11, <2>1 DEF ActionsDone
  <1>12. CASE Finish
    <2>1. local' \in [matched : BOOLEAN, ack : Acks]
      BY <1>1, <1>12 DEF Finish
    <2> QED BY <1>12, <2>1 DEF Finish
  <1>13. CASE Fallback
    BY <1>13 DEF Fallback, walk
  <1>14. CASE RouterStep
    BY <1>4, <1>6, <1>7, <1>8, <1>9, <1>10, <1>11, <1>12, <1>13, <1>14 DEF RouterStep
  <1>15. ASSUME NEW e \in Events, CancelEvent(e)
         PROVE  WalkTypes'
    BY <1>3, <1>15 DEF CancelEvent
  <1>16. ASSUME NEW F \in Filters, PurgeQueue(F)
         PROVE  WalkTypes'
    BY <1>3, <1>16 DEF PurgeQueue
  <1> HIDE DEF WalkTypes
  <1> QED BY <1>2, <1>4, <1>5, <1>14, <1>15, <1>16 DEF Next

-----------------------------------------------------------------------------
(* Where an event is. *)

LEMMA AdvanceEffect ==
  ASSUME PubTypes, NEW t \in Tasks, NEW pc \in {"idle", "track", "send", "untrack"},
         Advance(t, pc)
  PROVE  /\ PubTypes' /\ pub'[t].pc = pc /\ pub'[t].event = pub[t].event
         /\ \A u \in Tasks : u # t => pub'[u] = pub[u]
  BY DEF PubTypes, Advance

LEMMA StartEffect ==
  ASSUME CoreTypes, NEW t \in Tasks, NEW e \in Events, StartPublish(t, e)
  PROVE  /\ PubTypes' /\ pub'[t].pc = IF IdOf[e] = None THEN "send" ELSE "track"
         /\ pub'[t].event = e
         /\ \A u \in Tasks : u # t => pub'[u] = pub[u]
         /\ fate' \in [Events -> Fates] /\ fate[e] = "unborn" /\ fate'[e] = "sending"
         /\ \A f \in Events : f # e => fate'[f] = fate[f]
         /\ PublisherOf[e] = t
  <1> DEFINE r == [pc |-> IF IdOf[e] = None THEN "send" ELSE "track", event |-> e]
  <1>1. pub' = [pub EXCEPT ![t] = r] /\ fate' = [fate EXCEPT ![e] = "sending"]
    BY DEF StartPublish, Becomes
  <1>2. r \in [pc : {"idle", "track", "send", "untrack"}, event : Events \cup {None}]
    OBVIOUS
  <1>3. r.pc = (IF IdOf[e] = None THEN "send" ELSE "track") /\ r.event = e
    OBVIOUS
  <1> HIDE DEF r
  <1>4. "sending" \in Fates
    BY DEF Fates
  <1> QED BY <1>1, <1>2, <1>3, <1>4 DEF CoreTypes, PubTypes, StartPublish

LEMMA FateEffect ==
  ASSUME CoreTypes, NEW e \in Events, NEW f \in Fates, Becomes(e, f)
  PROVE  /\ fate' \in [Events -> Fates] /\ fate'[e] = f
         /\ \A g \in Events : g # e => fate'[g] = fate[g]
  BY DEF CoreTypes, Becomes

LEMMA ClearEffect ==
  ASSUME SlotTypes, NEW e \in Events, ClearSlot(e)
  PROVE  /\ SlotTypes'
         /\ \A i \in 1..Slots : \/ pending'[i] = pending[i] /\ i \notin Find(IdOf[e])
                                \/ pending'[i] = Empty /\ i \in Find(IdOf[e])
  <1>1. Empty \in [event : Events \cup {None}, cancelled : BOOLEAN]
    BY DEF Empty
  <1> QED BY <1>1 DEF SlotTypes, ClearSlot

LEMMA PlaceEffect ==
  ASSUME SlotTypes, NEW e \in Events, NEW i \in 1..Slots, PlaceIn(i, e)
  PROVE  /\ SlotTypes' /\ pending'[i].event = e /\ ~pending'[i].cancelled
         /\ \A j \in 1..Slots : j # i => pending'[j] = pending[j]
  BY DEF SlotTypes, PlaceIn

LEMMA MarkedSlot ==
  ASSUME NEW r \in [event : Events \cup {None}, cancelled : BOOLEAN],
         NEW n, n = [r EXCEPT !.cancelled = TRUE]
  PROVE  /\ n.event = r.event /\ n.cancelled = TRUE
         /\ n \in [event : Events \cup {None}, cancelled : BOOLEAN]
  OBVIOUS

LEMMA MarkEffect ==
  ASSUME SlotTypes, NEW F \in SUBSET Events, Mark(F)
  PROVE  /\ SlotTypes'
         /\ \A i \in 1..Slots :
               /\ pending'[i].event = pending[i].event
               /\ pending'[i].cancelled <=> pending[i].cancelled \/ pending[i].event \in F
         /\ \A e : e \in revoked' <=> e \in revoked \/ \E i \in 1..Slots :
               pending[i].event = e /\ e \in F /\ ~pending[i].cancelled
  <1> DEFINE hit == {i \in 1..Slots : pending[i].event \in F /\ ~pending[i].cancelled}
  <1>1. /\ pending' = [i \in 1..Slots |-> IF i \in hit
                                          THEN [pending[i] EXCEPT !.cancelled = TRUE]
                                          ELSE pending[i]]
        /\ revoked' = revoked \cup {pending[i].event : i \in hit}
    BY DEF Mark
  <1>2. ASSUME NEW i \in 1..Slots
        PROVE  /\ pending'[i] \in [event : Events \cup {None}, cancelled : BOOLEAN]
               /\ pending'[i].event = pending[i].event
               /\ pending'[i].cancelled <=> pending[i].cancelled \/ pending[i].event \in F
    <2>1. CASE i \in hit
      <3>1. pending'[i] = [pending[i] EXCEPT !.cancelled = TRUE]
        BY <1>1, <2>1
      <3>2. pending[i] \in [event : Events \cup {None}, cancelled : BOOLEAN]
        BY DEF SlotTypes
      <3>3. /\ pending'[i].event = pending[i].event /\ pending'[i].cancelled = TRUE
            /\ pending'[i] \in [event : Events \cup {None}, cancelled : BOOLEAN]
        BY <3>1, <3>2, MarkedSlot
      <3> QED BY <2>1, <3>3
    <2>2. CASE i \notin hit
      <3>1. pending'[i] = pending[i]
        BY <1>1, <2>2
      <3>2. pending[i] \in [event : Events \cup {None}, cancelled : BOOLEAN]
        BY DEF SlotTypes
      <3> QED BY <2>2, <3>1, <3>2
    <2> QED BY <2>1, <2>2
  <1>3. SlotTypes'
    <2>1. pending' = [i \in 1..Slots |-> pending'[i]]
      BY <1>1
    <2> QED BY <1>2, <2>1 DEF SlotTypes
  <1>4. \A e : e \in revoked' <=> e \in revoked \/ \E i \in 1..Slots :
               pending[i].event = e /\ e \in F /\ ~pending[i].cancelled
    BY <1>1
  <1> QED BY <1>2, <1>3, <1>4

LEMMA SlotsThere == \A e : SlotFor(e) \subseteq 1..Slots
  BY DEF First, SlotFor, Alloc, Find

LEMMA PlacesInit == Init => Places /\ WalkTypes
  <1> SUFFICES ASSUME Init PROVE Places /\ WalkTypes
    OBVIOUS
  <1>1. Empty \in [event : Events \cup {None}, cancelled : BOOLEAN]
    BY DEF Empty
  <1>2. CoreTypes
    <2>1. [pc |-> "idle", event |-> None] \in [pc : {"idle", "track", "send", "untrack"},
                                               event : Events \cup {None}]
      OBVIOUS
    <2>2. SlotTypes /\ PubTypes
      BY <1>1, <2>1 DEF Init, SlotTypes, PubTypes
    <2>3. fate \in [Events -> Fates]
      BY DEF Init, Fates
    <2>4. queue \in Seq(Events) /\ Len(queue) <= QueueLen
      <3>1. queue = <<>> /\ Len(<<>>) = 0 /\ <<>> \in Seq(Events)
        BY EmptySeq DEF Init
      <3> QED BY <3>1
    <2> QED BY <2>2, <2>3, <2>4 DEF Init, CoreTypes, RouterPlaces
  <1>3. WalkTypes
    <2>1. {Fresh, [matched |-> FALSE, ack |-> ""]} \subseteq [matched : BOOLEAN, ack : Acks]
      BY DEF Fresh, Acks
    <2>2. 0 \in 0..MaxReloads
      OBVIOUS
    <2> QED BY <2>1, <2>2 DEF Init, WalkTypes
  <1>4. Published /\ Waiting /\ Received
    <2>1. \A t \in Tasks : pub[t].pc = "idle"
      BY DEF Init
    <2>2. queue = <<>> /\ Len(queue) = 0 /\ router = "waiting"
      BY DEF Init
    <2> QED BY <2>1, <2>2 DEF Published, Sends, Waiting, Received
  <1> QED BY <1>2, <1>3, <1>4 DEF Places

LEMMA PlacesBirths ==
  ASSUME Places, NEW t \in Tasks, NEW e \in Events, Births(t, e)
  PROVE  Places'
  <1>1. /\ PubTypes' /\ pub'[t].event = e
        /\ pub'[t].pc = IF IdOf[e] = None THEN "send" ELSE "track"
        /\ \A u \in Tasks : u # t => pub'[u] = pub[u]
        /\ fate' \in [Events -> Fates] /\ fate[e] = "unborn" /\ fate'[e] = "sending"
        /\ \A f \in Events : f # e => fate'[f] = fate[f]
        /\ PublisherOf[e] = t
    BY StartEffect DEF Places, Births
  <1>2. /\ UNCHANGED <<queue, pending, revoked, evicted, event>>
        /\ router' \in RouterPlaces /\ (router' # "waiting" => router # "waiting")
    BY DEF Births, Keeps, Inside, Off, Places, CoreTypes
  <1>3. CoreTypes'
    BY <1>1, <1>2 DEF Places, CoreTypes, SlotTypes
  <1>4. Published'
    <2> SUFFICES ASSUME NEW u \in Tasks PROVE Sends(u)'
      BY DEF Published
    <2>1. CASE u = t
      BY <1>1, <2>1 DEF Sends
    <2>2. CASE u # t
      <3>1. pub'[u] = pub[u] /\ Sends(u)
        BY <1>1, <2>2 DEF Places, Published
      <3>2. pub[u].pc # "idle" => pub[u].event # e
        BY <1>1, <3>1 DEF Sends
      <3> QED BY <1>1, <3>1, <3>2 DEF Sends
    <2> QED BY <2>1, <2>2
  <1>5. \A i \in 1..Len(queue) : queue[i] \in Events
    BY DEF Places, CoreTypes
  <1>6. Waiting'
    BY <1>1, <1>2, <1>5 DEF Places, Waiting
  <1>7. Received'
    BY <1>1, <1>2 DEF Places, Received
  <1> QED BY <1>3, <1>4, <1>6, <1>7 DEF Places

LEMMA PlacesSend ==
  ASSUME Places, NEW t \in Tasks, Send(t)
  PROVE  Places'
  <1> DEFINE e == pub[t].event
  <1>1. /\ pub[t].pc = "send" /\ e \in Events /\ fate[e] = "sending" /\ PublisherOf[e] = t
        /\ Len(queue) < QueueLen /\ queue' = Append(queue, e) /\ queue \in Seq(Events)
        /\ UNCHANGED <<pending, revoked, evicted, router, event>>
    BY DEF Send, Places, Published, Sends, CoreTypes, table
  <1>2. /\ PubTypes' /\ pub'[t].pc = "idle" /\ pub'[t].event = e
        /\ \A u \in Tasks : u # t => pub'[u] = pub[u]
    BY AdvanceEffect DEF Send, Places, CoreTypes
  <1>3. /\ fate' \in [Events -> Fates] /\ fate'[e] = "queued"
        /\ \A g \in Events : g # e => fate'[g] = fate[g]
    BY <1>1, FateEffect DEF Send, Places, Fates
  <1>4. /\ queue' \in Seq(Events) /\ Len(queue') = Len(queue) + 1 /\ Len(queue) \in Nat
        /\ \A i \in 1..Len(queue) : queue'[i] = queue[i] /\ queue[i] \in Events
        /\ queue'[Len(queue) + 1] = e
    BY <1>1, AppendProperties
  <1>5. CoreTypes'
    <2>1. Len(queue') <= QueueLen
      BY <1>1, <1>4
    <2> QED BY <1>1, <1>2, <1>3, <1>4, <2>1 DEF Places, CoreTypes, SlotTypes
  <1>6. Published'
    <2> SUFFICES ASSUME NEW u \in Tasks PROVE Sends(u)'
      BY DEF Published
    <2>1. CASE u = t
      BY <1>2, <2>1 DEF Sends
    <2>2. CASE u # t
      <3>1. pub'[u] = pub[u] /\ Sends(u)
        BY <1>2, <2>2 DEF Places, Published
      <3>2. pub[u].pc # "idle" => pub[u].event # e
        BY <1>1, <2>2, <3>1 DEF Sends
      <3> QED BY <1>3, <3>1, <3>2 DEF Sends
    <2> QED BY <2>1, <2>2
  <1> HIDE DEF e
  <1>7. \A i \in 1..Len(queue) : fate[queue[i]] = "queued" /\ queue[i] # e
    BY <1>1 DEF Places, Waiting
  <1>8. Waiting'
    <2>1. ASSUME NEW i \in 1..Len(queue')
          PROVE  \/ i \in 1..Len(queue) /\ queue'[i] = queue[i]
                 \/ i = Len(queue) + 1 /\ queue'[i] = e
      BY <1>4
    <2>2. \A i \in 1..Len(queue') : fate'[queue'[i]] = "queued"
      BY <1>3, <1>4, <1>7, <2>1
    <2>3. ASSUME NEW i \in 1..Len(queue'), NEW j \in 1..Len(queue'), queue'[i] = queue'[j]
          PROVE  i = j
      BY <1>7, <2>1, <2>3 DEF Places, Waiting
    <2> QED BY <2>2, <2>3 DEF Waiting
  <1>9. Received'
    <2> SUFFICES ASSUME router # "waiting"
                 PROVE  /\ event \in Events /\ fate'[event] = "queued"
                        /\ \A i \in 1..Len(queue') : queue'[i] # event
      BY <1>1 DEF Received
    <2>1. event \in Events /\ fate[event] = "queued" /\ event # e
      BY <1>1 DEF Places, Received
    <2>2. \A i \in 1..Len(queue') : i \in 1..Len(queue) \/ i = Len(queue) + 1
      BY <1>4
    <2> QED BY <1>3, <1>4, <2>1, <2>2 DEF Places, Received
  <1> QED BY <1>5, <1>6, <1>8, <1>9 DEF Places

\* A publisher's step outside the queue.
LEMMA PlacesTrack ==
  ASSUME Places, NEW t \in Tasks, Track(t) \/ SendTimeout(t)
  PROVE  Places'
  <1>1. pub[t].pc # "idle" /\ pub[t].event \in Events
    BY DEF Track, SendTimeout, Places, Published, Sends
  <1>2. UNCHANGED <<queue, router, event, fate, revoked>> /\ Advance(t, pub'[t].pc)
        /\ pub'[t].pc \in {"send", "untrack"}
    BY DEF Track, SendTimeout, Advance, table, Places, CoreTypes, PubTypes
  <1>3. /\ PubTypes' /\ pub'[t].event = pub[t].event
        /\ \A u \in Tasks : u # t => pub'[u] = pub[u]
    BY <1>2, AdvanceEffect DEF Places, CoreTypes
  <1>4. SlotTypes' /\ evicted' \subseteq Events
    <2>1. CASE Track(t)
      <3>1. PICK i \in 1..Slots : PlaceIn(i, pub[t].event)
        BY <2>1, SlotsThere DEF Track
      <3>2. SlotTypes'
        BY <1>1, <3>1, PlaceEffect DEF Places, CoreTypes
      <3>3. evicted' \subseteq evicted \cup {pending[i].event} /\ evicted \subseteq Events
        BY <3>1 DEF PlaceIn, Places, CoreTypes
      <3>4. pending[i].event \in Events \/ evicted' = evicted
        BY <3>1 DEF PlaceIn, Free, Places, CoreTypes, SlotTypes
      <3> QED BY <3>2, <3>3, <3>4
    <2>2. CASE SendTimeout(t)
      BY <2>2 DEF SendTimeout, table, Places, CoreTypes, SlotTypes
    <2> QED BY <2>1, <2>2
  <1>5. CoreTypes'
    BY <1>2, <1>3, <1>4 DEF Places, CoreTypes
  <1>6. Published'
    BY <1>1, <1>2, <1>3 DEF Places, Published, Sends
  <1> QED BY <1>2, <1>5, <1>6 DEF Places, Waiting, Received

LEMMA PlacesUntrack ==
  ASSUME Places, NEW t \in Tasks, Untrack(t)
  PROVE  Places'
  <1> DEFINE e == pub[t].event
  <1>1. /\ pub[t].pc = "untrack" /\ e \in Events /\ fate[e] = "sending" /\ PublisherOf[e] = t
        /\ UNCHANGED <<queue, revoked, evicted, router, event>>
    BY DEF Untrack, Places, Published, Sends
  <1>2. /\ PubTypes' /\ pub'[t].pc = "idle" /\ pub'[t].event = e
        /\ \A u \in Tasks : u # t => pub'[u] = pub[u]
    BY AdvanceEffect DEF Untrack, Places, CoreTypes
  <1>3. /\ fate' \in [Events -> Fates] /\ fate'[e] = "refused"
        /\ \A g \in Events : g # e => fate'[g] = fate[g]
    BY <1>1, FateEffect DEF Untrack, Places, Fates
  <1>4. SlotTypes'
    BY <1>1, ClearEffect DEF Untrack, Places, CoreTypes
  <1>5. CoreTypes'
    BY <1>1, <1>2, <1>3, <1>4 DEF Places, CoreTypes
  <1>6. Published'
    <2> SUFFICES ASSUME NEW u \in Tasks PROVE Sends(u)'
      BY DEF Published
    <2>1. CASE u = t
      BY <1>2, <2>1 DEF Sends
    <2>2. CASE u # t
      <3>1. pub'[u] = pub[u] /\ Sends(u)
        BY <1>2, <2>2 DEF Places, Published
      <3>2. pub[u].pc # "idle" => pub[u].event # e
        BY <1>1, <2>2, <3>1 DEF Sends
      <3> QED BY <1>3, <3>1, <3>2 DEF Sends
    <2> QED BY <2>1, <2>2
  <1>7. \A i \in 1..Len(queue) : queue[i] \in Events
    BY DEF Places, CoreTypes
  <1>8. Waiting'
    BY <1>1, <1>3, <1>7 DEF Places, Waiting
  <1>9. Received'
    BY <1>1, <1>3 DEF Places, Received
  <1> QED BY <1>5, <1>6, <1>8, <1>9 DEF Places

LEMMA PlacesReceive ==
  ASSUME Places, Receive
  PROVE  Places'
  <1>1. /\ queue \in Seq(Events) /\ queue # <<>> /\ event' = Head(queue) /\ queue' = Tail(queue)
        /\ router' = "taken" /\ UNCHANGED <<pending, revoked, evicted, pub, fate>>
    BY DEF Receive, Places, CoreTypes, table
  <1>2. /\ queue' \in Seq(Events) /\ Len(queue') = Len(queue) - 1 /\ Len(queue) \in Nat
        /\ \A i \in 1..Len(queue') : queue'[i] = queue[i + 1]
        /\ Len(queue) > 0 /\ Head(queue) = queue[1] /\ Head(queue) \in Events
    BY <1>1, HeadTailProperties, LenProperties
  <1>3. CoreTypes'
    BY <1>1, <1>2 DEF Places, CoreTypes, SlotTypes, PubTypes, RouterPlaces
  <1>4. \A i \in 1..Len(queue') : i + 1 \in 1..Len(queue) /\ i + 1 # 1
    BY <1>2
  <1>5. Waiting'
    <2>1. \A i \in 1..Len(queue') : fate'[queue'[i]] = "queued"
      BY <1>1, <1>2, <1>4 DEF Places, Waiting
    <2>2. ASSUME NEW i \in 1..Len(queue'), NEW j \in 1..Len(queue'), queue'[i] = queue'[j]
          PROVE  i = j
      <3>1. i + 1 = j + 1
        BY <1>2, <1>4, <2>2 DEF Places, Waiting
      <3> QED BY <1>2, <3>1
    <2> QED BY <2>1, <2>2 DEF Waiting
  <1>6. Received'
    <2>1. 1 \in 1..Len(queue)
      BY <1>2
    <2> QED BY <1>1, <1>2, <1>4, <2>1 DEF Places, Waiting, Received
  <1>7. Published'
    BY <1>1 DEF Places, Published, Sends
  <1> QED BY <1>3, <1>5, <1>6, <1>7 DEF Places

\* The router lets its event go, with a fate of its own.
LEMMA PlacesRest ==
  ASSUME Places, router # "waiting", NEW f \in Fates, Rest(f), SlotTypes',
         UNCHANGED <<queue, pub, event, revoked, evicted>>
  PROVE  Places'
  <1>1. event \in Events /\ fate[event] = "queued" /\ \A i \in 1..Len(queue) : queue[i] # event
    BY DEF Places, Received
  <1>2. /\ fate' \in [Events -> Fates] /\ fate'[event] = f
        /\ \A g \in Events : g # event => fate'[g] = fate[g]
    BY <1>1, FateEffect DEF Rest, Places
  <1>3. CoreTypes'
    BY <1>2 DEF Places, CoreTypes, PubTypes, Rest, RouterPlaces
  <1>4. \A i \in 1..Len(queue) : queue[i] \in Events
    BY DEF Places, CoreTypes
  <1>5. Waiting'
    BY <1>1, <1>2, <1>4 DEF Places, Waiting
  <1>6. Published'
    BY <1>1, <1>2 DEF Places, Published, Sends
  <1> QED BY <1>3, <1>5, <1>6 DEF Places, Received, Rest

LEMMA PlacesStep ==
  ASSUME Places, Moves
  PROVE  Places'
  <1>1. CoreTypes /\ Published /\ Waiting /\ Received
    BY DEF Places
  <1>2. ASSUME NEW F \in SUBSET Events, Mark(F)
        PROVE  Places'
    <2>1. SlotTypes' /\ revoked' \subseteq Events
      BY <1>1, <1>2, MarkEffect DEF CoreTypes, SlotTypes
    <2>2. UNCHANGED <<queue, evicted, pub, router, event, fate>>
      BY <1>2 DEF Mark
    <2> QED BY <1>1, <2>1, <2>2 DEF Places, CoreTypes, PubTypes, Published, Sends, Waiting, Received
  <1>3. CASE Take
    <2>1. router = "taken" /\ event \in Events
      BY <1>1, <1>3 DEF Take, Received
    <2>2. SlotTypes' /\ UNCHANGED <<queue, pub, event, revoked, evicted>>
      BY <1>1, <1>3, <2>1, ClearEffect DEF Take, CoreTypes
    <2>3. CASE Rest("skipped")
      BY <2>1, <2>2, <2>3, PlacesRest DEF Fates
    <2>4. CASE router' = "begin" /\ fate' = fate
      BY <1>1, <2>1, <2>2, <2>4
         DEF Places, CoreTypes, PubTypes, Published, Sends, Waiting, Received, RouterPlaces
    <2> QED BY <1>3, <2>3, <2>4 DEF Take
  <1>4. CASE Works \/ Idles
    <2>1. /\ UNCHANGED <<queue, pub, event, revoked, evicted, pending, fate>>
          /\ router' \in RouterPlaces /\ (router' # "waiting" => router # "waiting")
      BY <1>1, <1>4 DEF Works, Idles, Keeps, Inside, Off, CoreTypes
    <2> QED BY <1>1, <2>1
            DEF Places, CoreTypes, SlotTypes, PubTypes, Published, Sends, Waiting, Received
  <1>5. CASE Ends
    <2>1. PICK f \in Fates : Rest(f)
      BY <1>5 DEF Ends, Fates
    <2>2. /\ router # "waiting" /\ SlotTypes'
          /\ UNCHANGED <<queue, pub, event, revoked, evicted>>
      BY <1>1, <1>5 DEF Ends, Keeps, Off, CoreTypes, SlotTypes
    <2> QED BY <2>1, <2>2, PlacesRest
  <1> QED BY <1>2, <1>3, <1>4, <1>5, PlacesBirths, PlacesSend, PlacesTrack, PlacesUntrack,
             PlacesReceive DEF Moves, PublishStep

-----------------------------------------------------------------------------
(* The table of pending events. *)

LEMMA TableInit == Init => Table
  <1> SUFFICES ASSUME Init PROVE Table
    OBVIOUS
  <1>1. /\ revoked = {} /\ queue = <<>> /\ Len(queue) = 0 /\ router = "waiting"
        /\ \A t \in Tasks : pub[t].pc = "idle"
        /\ \A i \in 1..Slots : pending[i].event = None
    BY DEF Init, Empty
  <1>2. Marks /\ Revoked /\ RevocationHolds
    BY <1>1 DEF Marks, Revoked, RevocationHolds
  <1>3. TrackedOrEvicted
    BY <1>1 DEF TrackedOrEvicted, InFlight
  <1> QED BY <1>2, <1>3 DEF Table

\* The table stays, and the same events are in flight.
LEMMA TableKept ==
  ASSUME Places, Table, UNCHANGED <<pending, revoked, evicted>>,
         \A f \in Events : /\ f \in InFlight' <=> f \in InFlight
                           /\ Tracked(f) => Tracked(f)'
                           /\ Tracked(f) /\ Ran(f)' => Ran(f)
  PROVE  Table'
  <1>1. revoked \subseteq Events
    BY DEF Places, CoreTypes
  <1>2. Marks'
    BY DEF Table, Marks, SlotInv
  <1>3. Revoked'
    BY <1>1 DEF Table, Revoked
  <1>4. TrackedOrEvicted'
    BY DEF Table, TrackedOrEvicted, InFlight
  <1>5. RevocationHolds'
    <2> SUFFICES ASSUME NEW e \in (revoked \cap Distinct) \ evicted
                 PROVE  ~Ran(e)'
      BY DEF RevocationHolds
    <2> QED BY <1>1 DEF Table, Revoked, RevocationHolds
  <1> QED BY <1>2, <1>3, <1>4, <1>5 DEF Table

\* The events of the queue, of the router and of the publishers are different ones.
LEMMA Apart ==
  ASSUME Places
  PROVE  /\ \A i \in 1..Len(queue) : queue[i] \in Events /\ fate[queue[i]] = "queued"
         /\ router # "waiting" => event \in Events /\ fate[event] = "queued"
         /\ \A t \in Tasks : Sends(t)
         /\ \A e \in InFlight : e \in Events /\ fate[e] \in {"sending", "queued"}
         /\ Len(queue) \in Nat
  <1>1. queue \in Seq(Events) /\ Len(queue) \in Nat
    BY LenProperties DEF Places, CoreTypes
  <1>2. \A i \in 1..Len(queue) : queue[i] \in Events /\ fate[queue[i]] = "queued"
    BY <1>1 DEF Places, Waiting
  <1> QED BY <1>1, <1>2 DEF Places, Received, Published, Sends, InFlight

LEMMA TableBirths ==
  ASSUME Places, Table, NEW t \in Tasks, NEW e \in Events, Births(t, e)
  PROVE  Table'
  <1>1. /\ pub'[t].event = e /\ pub[t].pc = "idle"
        /\ pub'[t].pc = IF IdOf[e] = None THEN "send" ELSE "track"
        /\ \A u \in Tasks : u # t => pub'[u] = pub[u]
        /\ fate[e] = "unborn" /\ fate'[e] = "sending"
        /\ \A f \in Events : f # e => fate'[f] = fate[f]
    <2>1. pub[t].pc = "idle"
      BY DEF Births, StartPublish
    <2> QED BY <2>1, StartEffect DEF Places, Births
  <1>2. /\ UNCHANGED <<queue, pending, revoked, evicted, event>>
        /\ router' = "taken" <=> router = "taken"
        /\ router' \in Off <=> router \in Off
    BY DEF Births, Keeps, Inside, Off
  <1>3. e \notin InFlight /\ ~(router \notin Off /\ event = e)
    BY <1>1, Apart DEF Off
  <1>4. ASSUME NEW f \in Events
        PROVE  /\ f \in InFlight' <=> f \in InFlight
               /\ Tracked(f) => Tracked(f)'
               /\ Tracked(f) /\ Ran(f)' => Ran(f)
    <2>1. CASE f = e
      <3>1. e \notin InFlight'
        BY <1>1, <1>2, <1>3 DEF InFlight
      <3>2. ~Tracked(e)
        BY <1>1 DEF Tracked
      <3> QED BY <1>3, <2>1, <3>1, <3>2
    <2>2. CASE f # e
      <3>1. f \in InFlight' <=> f \in InFlight
        BY <1>1, <1>2, <2>2 DEF InFlight
      <3>2. Tracked(f) => Tracked(f)'
        BY <1>1, <2>2 DEF Tracked
      <3>3. Ran(f)' => Ran(f)
        BY <1>1, <1>2, <2>2 DEF Ran, Off
      <3> QED BY <3>1, <3>2, <3>3
    <2> QED BY <2>1, <2>2
  <1> QED BY <1>2, <1>4, TableKept

LEMMA TableSend ==
  ASSUME Places, Table, NEW t \in Tasks, Send(t)
  PROVE  Table'
  <1>1. /\ pub[t].pc = "send" /\ pub[t].event \in Events /\ fate[pub[t].event] = "sending"
        /\ queue' = Append(queue, pub[t].event) /\ queue \in Seq(Events)
        /\ UNCHANGED <<pending, revoked, evicted, router, event>>
    BY DEF Send, Places, Published, Sends, CoreTypes, table
  <1>2. PICK e \in Events : e = pub[t].event
    BY <1>1
  <1>3. /\ pub'[t].pc = "idle" /\ pub'[t].event = e
        /\ \A u \in Tasks : u # t => pub'[u] = pub[u]
    BY <1>2, AdvanceEffect DEF Send, Places, CoreTypes
  <1>4. /\ fate'[e] = "queued" /\ \A g \in Events : g # e => fate'[g] = fate[g]
    BY <1>1, <1>2, FateEffect DEF Send, Places, Fates
  <1>5. /\ Len(queue') = Len(queue) + 1 /\ Len(queue) \in Nat
        /\ \A i \in 1..Len(queue) : queue'[i] = queue[i]
        /\ queue'[Len(queue) + 1] = e
    BY <1>1, <1>2, AppendProperties
  <1>6. /\ \A i \in 1..Len(queue) : i \in 1..Len(queue')
        /\ \A i \in 1..Len(queue') : i \in 1..Len(queue) \/ i = Len(queue) + 1
        /\ Len(queue) + 1 \in 1..Len(queue')
    BY <1>5
  <1>7. ASSUME NEW f \in Events
        PROVE  /\ f \in InFlight' <=> f \in InFlight
               /\ Tracked(f) => Tracked(f)'
               /\ Ran(f)' => Ran(f)
    <2>1. Tracked(f) => Tracked(f)'
      BY <1>3, <1>4 DEF Tracked
    <2>2. Ran(f)' => Ran(f)
      BY <1>1, <1>4 DEF Ran
    <2>3. CASE f = e
      <3>1. \E i \in 1..Len(queue') : queue'[i] = e
        BY <1>5, <1>6
      <3>2. \E u \in Tasks : pub[u].event = e /\ pub[u].pc \in {"send", "untrack"}
        BY <1>1, <1>2
      <3>3. e \in InFlight <=> IdOf[e] # None
        BY <3>2 DEF InFlight
      <3>4. e \in InFlight' <=> IdOf[e] # None
        BY <3>1 DEF InFlight
      <3> QED BY <2>1, <2>2, <2>3, <3>3, <3>4
    <2>4. CASE f # e
      <3>1. (\E i \in 1..Len(queue') : queue'[i] = f) <=> (\E i \in 1..Len(queue) : queue[i] = f)
        BY <1>5, <1>6, <2>4
      <3>2. (\E u \in Tasks : pub'[u].event = f /\ pub'[u].pc \in {"send", "untrack"})
              <=> (\E u \in Tasks : pub[u].event = f /\ pub[u].pc \in {"send", "untrack"})
        BY <1>2, <1>3, <2>4
      <3>3. f \in InFlight' <=> f \in InFlight
        BY <1>1, <3>1, <3>2 DEF InFlight
      <3> QED BY <2>1, <2>2, <3>3
    <2> QED BY <2>3, <2>4
  <1> QED BY <1>1, <1>7, TableKept

LEMMA TableTimeout ==
  ASSUME Places, Table, NEW t \in Tasks, SendTimeout(t)
  PROVE  Table'
  <1>1. pub[t].pc = "send" /\ UNCHANGED <<queue, pending, revoked, evicted, router, event, fate>>
    BY DEF SendTimeout, table
  <1>2. /\ pub'[t].pc = "untrack" /\ pub'[t].event = pub[t].event
        /\ \A u \in Tasks : u # t => pub'[u] = pub[u]
    BY AdvanceEffect DEF SendTimeout, Places, CoreTypes
  <1>3. ASSUME NEW f \in Events
        PROVE  /\ f \in InFlight' <=> f \in InFlight
               /\ Tracked(f) => Tracked(f)'
               /\ Ran(f)' => Ran(f)
    <2>1. (\E u \in Tasks : pub'[u].event = f /\ pub'[u].pc \in {"send", "untrack"})
            <=> (\E u \in Tasks : pub[u].event = f /\ pub[u].pc \in {"send", "untrack"})
      BY <1>1, <1>2
    <2> QED BY <1>1, <1>2, <2>1 DEF InFlight, Tracked, Ran
  <1> QED BY <1>1, <1>3, TableKept

LEMMA TableReceive ==
  ASSUME Places, Table, Receive
  PROVE  Table'
  <1>1. /\ queue \in Seq(Events) /\ queue # <<>> /\ event' = Head(queue) /\ queue' = Tail(queue)
        /\ router = "waiting" /\ router' = "taken"
        /\ UNCHANGED <<pending, revoked, evicted, pub, fate>>
    BY DEF Receive, Places, CoreTypes, table
  <1>2. /\ Len(queue') = Len(queue) - 1 /\ Len(queue) \in Nat
        /\ \A i \in 1..Len(queue') : queue'[i] = queue[i + 1]
        /\ Len(queue) > 0 /\ event' = queue[1]
    BY <1>1, HeadTailProperties, LenProperties
  <1>3. /\ \A i \in 1..Len(queue') : i + 1 \in 1..Len(queue)
        /\ \A i \in 1..Len(queue) : i = 1 \/ (i - 1 \in 1..Len(queue') /\ (i - 1) + 1 = i)
        /\ 1 \in 1..Len(queue)
    BY <1>2
  <1>4. ASSUME NEW f \in Events
        PROVE  /\ f \in InFlight' <=> f \in InFlight
               /\ Tracked(f) => Tracked(f)'
               /\ Ran(f)' => Ran(f)
    <2>1. (\E i \in 1..Len(queue) : queue[i] = f)
            <=> event' = f \/ \E i \in 1..Len(queue') : queue'[i] = f
      <3>1. ASSUME NEW i \in 1..Len(queue), queue[i] = f
            PROVE  event' = f \/ \E k \in 1..Len(queue') : queue'[k] = f
        <4>1. CASE i = 1
          BY <1>2, <3>1, <4>1
        <4>2. CASE i - 1 \in 1..Len(queue') /\ (i - 1) + 1 = i
          <5>1. queue'[i - 1] = f
            BY <1>2, <3>1, <4>2
          <5> QED BY <4>2, <5>1
        <4> QED BY <1>3, <4>1, <4>2
      <3> QED BY <1>2, <1>3, <3>1
    <2>2. f \in InFlight' <=> f \in InFlight
      BY <1>1, <2>1 DEF InFlight
    <2>3. (Tracked(f) => Tracked(f)') /\ (Ran(f)' => Ran(f))
      BY <1>1 DEF Tracked, Ran
    <2> QED BY <2>2, <2>3
  <1> QED BY <1>1, <1>4, TableKept

LEMMA TableRouter ==
  ASSUME Places, Table, Works \/ Ends \/ Idles
  PROVE  Table'
  <1>1. /\ UNCHANGED <<queue, pending, revoked, evicted, event, pub>>
        /\ router' = "taken" <=> router = "taken"
    BY DEF Works, Ends, Idles, Keeps, Inside, Rest, Off
  <1>2. ASSUME NEW f \in Events
        PROVE  /\ f \in InFlight' <=> f \in InFlight
               /\ Tracked(f) => Tracked(f)'
               /\ Ran(f)' => Ran(f)
    <2>1. f \in InFlight' <=> f \in InFlight
      BY <1>1 DEF InFlight
    <2>2. CASE fate' = fate /\ (router' \notin Off => router \notin Off)
      BY <1>1, <2>1, <2>2 DEF Tracked, Ran, Off
    <2>3. CASE Ends
      <3>1. router \notin Off /\ router' = "waiting" /\ event \in Events
        BY <2>3, Apart DEF Ends, Rest, Off
      <3>2. PICK o \in {"done", "failed", "ignored"} : Becomes(event, o)
        BY <2>3 DEF Ends, Rest
      <3>3. fate'[event] = o /\ \A g \in Events : g # event => fate'[g] = fate[g]
        BY <3>1, <3>2, FateEffect DEF Places, Fates
      <3> QED BY <1>1, <2>1, <3>1, <3>3 DEF Tracked, Ran, Off
    <2> QED BY <2>2, <2>3 DEF Works, Ends, Idles, Inside
  <1> QED BY <1>1, <1>2, TableKept

\* An event leaves its place and the table, which drops every slot with its id.
LEMMA TableCleared ==
  ASSUME Places, Table, NEW e \in Events, ClearSlot(e), UNCHANGED <<revoked, evicted>>,
         e \notin InFlight', Tracked(e) => Tracked(e)',
         Ran(e)' => Ran(e) \/ e \notin (revoked \cap Distinct) \ evicted,
         \A f \in Events : f # e => /\ f \in InFlight' <=> f \in InFlight
                                    /\ Tracked(f) => Tracked(f)'
                                    /\ Ran(f)' => Ran(f)
  PROVE  Table'
  <1>1. \A i \in 1..Slots : \/ pending'[i] = pending[i] /\ i \notin Find(IdOf[e])
                            \/ pending'[i] = Empty /\ i \in Find(IdOf[e])
    BY ClearEffect DEF Places, CoreTypes
  <1>2. Empty.event = None /\ None \notin Events
    BY DEF Empty
  <1>3. revoked \subseteq Events /\ \A f \in Events : Tracked(f) => Tracked(f)'
    BY DEF Places, CoreTypes
  <1>4. Marks'
    <2> SUFFICES ASSUME NEW i \in 1..Slots, NEW f \in Events, pending'[i].event = f
                 PROVE  /\ IdOf[f] # None /\ Tracked(f)'
                        /\ f \in Distinct => f \in InFlight'
                        /\ pending'[i].cancelled <=> f \in revoked'
      BY DEF Marks, SlotInv
    <2>1. pending'[i] = pending[i] /\ i \notin Find(IdOf[e]) /\ pending[i].event = f
      BY <1>1, <1>2
    <2>2. SlotInv(i, f)
      BY <2>1 DEF Table, Marks
    <2>3. f # e
      BY <1>2, <2>1, <2>2 DEF SlotInv, Find, Free
    <2> QED BY <2>1, <2>2, <2>3 DEF SlotInv
  <1>5. Revoked'
    BY <1>3 DEF Table, Revoked
  <1>6. TrackedOrEvicted'
    <2> SUFFICES ASSUME NEW f \in Events, f \in InFlight', f \in Distinct, f \notin evicted
                 PROVE  \E i \in 1..Slots : pending'[i].event = f
      BY DEF TrackedOrEvicted, InFlight
    <2>1. f # e /\ f \in InFlight
      OBVIOUS
    <2>2. PICK i \in 1..Slots : pending[i].event = f
      BY <2>1 DEF Table, TrackedOrEvicted
    <2>3. i \notin Find(IdOf[e])
      BY <2>1, <2>2 DEF Find, Distinct
    <2> QED BY <1>1, <2>2, <2>3
  <1>7. RevocationHolds'
    <2> SUFFICES ASSUME NEW f \in (revoked \cap Distinct) \ evicted
                 PROVE  ~Ran(f)'
      BY DEF RevocationHolds
    <2>1. ~Ran(f) /\ f \in Events
      BY <1>3 DEF Table, RevocationHolds
    <2> QED BY <2>1
  <1> QED BY <1>4, <1>5, <1>6, <1>7 DEF Table

LEMMA TableUntrack ==
  ASSUME Places, Table, NEW t \in Tasks, Untrack(t)
  PROVE  Table'
  <1>1. /\ pub[t].pc = "untrack" /\ pub[t].event \in Events /\ fate[pub[t].event] = "sending"
        /\ PublisherOf[pub[t].event] = t
        /\ UNCHANGED <<queue, revoked, evicted, router, event>>
    BY DEF Untrack, Places, Published, Sends
  <1>2. PICK e \in Events : e = pub[t].event
    BY <1>1
  <1>3. /\ pub'[t].pc = "idle" /\ pub'[t].event = e
        /\ \A u \in Tasks : u # t => pub'[u] = pub[u]
    BY <1>2, AdvanceEffect DEF Untrack, Places, CoreTypes
  <1>4. /\ fate'[e] = "refused" /\ \A g \in Events : g # e => fate'[g] = fate[g]
    BY <1>1, <1>2, FateEffect DEF Untrack, Places, Fates
  <1>5. /\ \A i \in 1..Len(queue) : queue[i] # e
        /\ router # "waiting" => event # e
        /\ \A u \in Tasks : u # t /\ pub[u].pc # "idle" => pub[u].event # e
    BY <1>1, <1>2, Apart DEF Sends
  <1>6. e \notin InFlight' /\ (Tracked(e) => Tracked(e)')
    BY <1>1, <1>3, <1>4, <1>5 DEF InFlight, Tracked
  <1>7. Ran(e)' => Ran(e)
    BY <1>1, <1>4 DEF Ran
  <1>8. ASSUME NEW f \in Events, f # e
        PROVE  /\ f \in InFlight' <=> f \in InFlight
               /\ Tracked(f) => Tracked(f)'
               /\ Ran(f)' => Ran(f)
    <2>1. (\E u \in Tasks : pub'[u].event = f /\ pub'[u].pc \in {"send", "untrack"})
            <=> (\E u \in Tasks : pub[u].event = f /\ pub[u].pc \in {"send", "untrack"})
      BY <1>2, <1>3, <1>8
    <2>2. f \in InFlight' <=> f \in InFlight
      BY <1>1, <2>1 DEF InFlight
    <2> QED BY <1>1, <1>2, <1>3, <1>4, <1>8, <2>2 DEF Tracked, Ran
  <1>9. ClearSlot(e)
    BY <1>2 DEF Untrack
  <1> QED BY <1>1, <1>6, <1>7, <1>8, <1>9, TableCleared

\* An event that the router goes on with was not revoked, or lost its slot.
LEMMA TakenUnmarked ==
  ASSUME Places, Table, router = "taken", ~Marked(event)
  PROVE  event \notin (revoked \cap Distinct) \ evicted
  <1> SUFFICES ASSUME event \in (revoked \cap Distinct) \ evicted
               PROVE  FALSE
    OBVIOUS
  <1>1. event \in Events /\ IdOf[event] # None
    BY Apart DEF Table, Revoked
  <1>2. event \in InFlight
    BY <1>1 DEF InFlight
  <1>3. PICK i \in 1..Slots : pending[i].event = event
    BY <1>2 DEF Table, TrackedOrEvicted
  <1>4. SlotInv(i, event)
    BY <1>1, <1>3 DEF Table, Marks
  <1>5. i \in Find(IdOf[event])
    BY <1>1, <1>3 DEF Find, Free
  <1> QED BY <1>4, <1>5 DEF Marked, SlotInv

LEMMA TableTake ==
  ASSUME Places, Table, Take
  PROVE  Table'
  <1>1. /\ router = "taken" /\ event \in Events /\ fate[event] = "queued"
        /\ \A i \in 1..Len(queue) : queue[i] # event
        /\ ClearSlot(event) /\ UNCHANGED <<queue, pub, event, revoked, evicted>>
    BY DEF Take, Places, Received
  <1>2. router' # "taken" /\ (router' = "waiting" \/ fate' = fate)
    BY DEF Take, Rest
  <1>3. \A u \in Tasks : pub[u].event = event => pub[u].pc = "idle"
    BY <1>1, Apart DEF Sends
  <1>4. /\ event \notin InFlight'
        /\ \A f \in Events : f # event => (f \in InFlight' <=> f \in InFlight)
    BY <1>1, <1>2, <1>3 DEF InFlight
  <1>5. CASE Marked(event)
    <2>1. router' = "waiting" /\ Becomes(event, "skipped")
      BY <1>5 DEF Take, Rest
    <2>2. fate'[event] = "skipped" /\ \A g \in Events : g # event => fate'[g] = fate[g]
      BY <1>1, <2>1, FateEffect DEF Places, Fates
    <2>3. \A f \in Events : (Tracked(f) => Tracked(f)') /\ (Ran(f)' => Ran(f))
      BY <1>1, <2>1, <2>2 DEF Tracked, Ran
    <2> QED BY <1>1, <1>4, <2>3, TableCleared
  <1>6. CASE ~Marked(event)
    <2>1. router' = "begin" /\ fate' = fate
      BY <1>6 DEF Take
    <2>2. \A f \in Events : (Tracked(f) => Tracked(f)') /\ (f # event /\ Ran(f)' => Ran(f))
      BY <1>1, <2>1 DEF Tracked, Ran
    <2>3. event \notin (revoked \cap Distinct) \ evicted
      BY <1>1, <1>6, TakenUnmarked
    <2> QED BY <1>1, <1>4, <2>2, <2>3, TableCleared
  <1> QED BY <1>5, <1>6

LEMMA TableMark ==
  ASSUME Places, Table, NEW F \in SUBSET Events, Mark(F)
  PROVE  Table'
  <1>1. /\ \A i \in 1..Slots :
               /\ pending'[i].event = pending[i].event
               /\ pending'[i].cancelled <=> pending[i].cancelled \/ pending[i].event \in F
        /\ \A e : e \in revoked' <=> e \in revoked \/ \E i \in 1..Slots :
               pending[i].event = e /\ e \in F /\ ~pending[i].cancelled
    BY MarkEffect DEF Places, CoreTypes
  <1>2. UNCHANGED <<queue, evicted, pub, router, event, fate>> /\ revoked \subseteq Events
    BY DEF Mark, Places, CoreTypes
  <1>3. \A f \in Events : /\ f \in InFlight' <=> f \in InFlight
                          /\ Tracked(f)' <=> Tracked(f)
                          /\ Ran(f)' <=> Ran(f)
    BY <1>2 DEF InFlight, Tracked, Ran
  <1>4. Marks'
    <2> SUFFICES ASSUME NEW i \in 1..Slots, NEW f \in Events, pending'[i].event = f
                 PROVE  /\ IdOf[f] # None /\ Tracked(f)'
                        /\ f \in Distinct => f \in InFlight'
                        /\ pending'[i].cancelled <=> f \in revoked'
      BY DEF Marks, SlotInv
    <2>1. pending[i].event = f /\ SlotInv(i, f)
      BY <1>1 DEF Table, Marks
    <2>2. \A k \in 1..Slots : pending[k].event = f => SlotInv(k, f)
      BY DEF Table, Marks
    <2>3. f \in revoked' <=> f \in revoked \/ f \in F
      <3>1. f \in F => f \in revoked'
        BY <1>1, <2>1 DEF SlotInv
      <3> QED BY <1>1, <3>1
    <2> QED BY <1>1, <1>3, <2>1, <2>3 DEF SlotInv
  <1>5. ASSUME NEW f \in revoked'
        PROVE  /\ f \in Events /\ IdOf[f] # None /\ Tracked(f)
               /\ f \in revoked \/ (f \in Distinct => f \in InFlight)
    <2>1. CASE f \in revoked
      BY <1>2, <2>1 DEF Table, Revoked
    <2>2. ASSUME NEW i \in 1..Slots, pending[i].event = f, f \in F
          PROVE  f \in Events /\ SlotInv(i, f)
      BY <2>2 DEF Table, Marks
    <2> QED BY <1>1, <1>5, <2>1, <2>2 DEF SlotInv
  <1>6. Revoked'
    BY <1>3, <1>5 DEF Revoked
  <1>7. TrackedOrEvicted'
    <2> SUFFICES ASSUME NEW f \in Events, f \in InFlight, f \in Distinct, f \notin evicted
                 PROVE  \E i \in 1..Slots : pending'[i].event = f
      BY <1>2, <1>3 DEF TrackedOrEvicted, InFlight
    <2> QED BY <1>1 DEF Table, TrackedOrEvicted
  <1>8. RevocationHolds'
    <2> SUFFICES ASSUME NEW f \in revoked', f \in Distinct, f \notin evicted
                 PROVE  ~Ran(f)'
      BY <1>2 DEF RevocationHolds
    <2>1. f \in InFlight => ~Ran(f)
      <3>1. f \in InFlight => fate[f] \notin {"done", "failed", "ignored"}
        BY Apart
      <3>2. ASSUME f \in InFlight, router \notin Off, event = f
            PROVE  FALSE
        <4>1. fate[f] = "queued" /\ \A i \in 1..Len(queue) : queue[i] # f
          BY <3>2 DEF Places, Received, Off
        <4>2. \A u \in Tasks : pub[u].event = f => pub[u].pc = "idle"
          BY <4>1, Apart DEF Sends
        <4> QED BY <3>2, <4>1, <4>2 DEF InFlight, Off
      <3> QED BY <3>1, <3>2 DEF Ran, Off
    <2> QED BY <1>3, <1>5, <2>1 DEF Table, RevocationHolds
  <1> QED BY <1>4, <1>6, <1>7, <1>8 DEF Table

\* pending_track: the event had no slot, and the one whose slot it takes is
\* evicted or has the same id.
LEMMA TableTrack ==
  ASSUME Places, Table, NEW t \in Tasks, Track(t)
  PROVE  Table'
  <1>1. /\ pub[t].pc = "track" /\ pub[t].event \in Events /\ fate[pub[t].event] = "sending"
        /\ PublisherOf[pub[t].event] = t /\ IdOf[pub[t].event] # None
        /\ UNCHANGED <<queue, revoked, router, event, fate>>
    BY DEF Track, Places, Published, Sends
  <1>2. PICK e \in Events : e = pub[t].event
    BY <1>1
  <1>3. /\ pub'[t].pc = "send" /\ pub'[t].event = e
        /\ \A u \in Tasks : u # t => pub'[u] = pub[u]
    BY <1>2, AdvanceEffect DEF Track, Places, CoreTypes
  <1>4. PICK s \in 1..Slots : PlaceIn(s, e)
    BY <1>2, SlotsThere DEF Track
  <1>5. /\ pending'[s].event = e /\ ~pending'[s].cancelled
        /\ \A i \in 1..Slots : i # s => pending'[i] = pending[i]
    BY <1>4, PlaceEffect DEF Places, CoreTypes
  <1>6. ~Tracked(e) /\ e \notin InFlight /\ ~Ran(e)
    <2>1. fate[e] = "sending" /\ ~Tracked(e)
      BY <1>1, <1>2 DEF Tracked
    <2>2. /\ \A i \in 1..Len(queue) : queue[i] # e
          /\ router # "waiting" => event # e
          /\ \A u \in Tasks : u # t /\ pub[u].pc # "idle" => pub[u].event # e
      BY <1>1, <1>2, <2>1, Apart DEF Sends
    <2>3. e \notin InFlight
      BY <1>1, <2>2 DEF InFlight
    <2> QED BY <2>1, <2>2, <2>3 DEF Ran
  <1>7. IdOf[e] # None => e \in InFlight'
    <2>1. \E u \in Tasks : pub'[u].event = e /\ pub'[u].pc \in {"send", "untrack"}
      BY <1>3
    <2> QED BY <2>1 DEF InFlight
  <1>8. ASSUME NEW f \in Events
        PROVE  /\ f # e => (f \in InFlight' <=> f \in InFlight)
               /\ f # e => (Tracked(f)' <=> Tracked(f))
               /\ Ran(f)' <=> Ran(f)
    <2>1. CASE f # e
      <3>1. (\E u \in Tasks : pub'[u].event = f /\ pub'[u].pc \in {"send", "untrack"})
              <=> (\E u \in Tasks : pub[u].event = f /\ pub[u].pc \in {"send", "untrack"})
        BY <1>2, <1>3, <2>1
      <3>2. f \in InFlight' <=> f \in InFlight
        BY <1>1, <3>1 DEF InFlight
      <3> QED BY <1>1, <1>2, <1>3, <2>1, <3>2 DEF Tracked, Ran
    <2> QED BY <1>1, <2>1 DEF Ran
  <1>9. /\ IdOf[e] # None /\ Tracked(e)' /\ e \notin revoked /\ e \in InFlight'
        /\ revoked \subseteq Events /\ evicted \subseteq Events
    <2>1. Tracked(e)'
      <3>1. fate'[e] # "unborn"
        BY <1>1, <1>2
      <3>2. ASSUME NEW u \in Tasks, pub'[u].event = e
            PROVE  pub'[u].pc # "track"
        BY <1>1, <1>2, <1>3, <3>2, Apart DEF Sends
      <3> QED BY <3>1, <3>2 DEF Tracked
    <2> QED BY <1>1, <1>2, <1>6, <1>7, <2>1 DEF Table, Revoked, Places, CoreTypes
  <1>10. Marks'
    <2> SUFFICES ASSUME NEW i \in 1..Slots, NEW f \in Events, pending'[i].event = f
                 PROVE  /\ IdOf[f] # None /\ Tracked(f)'
                        /\ f \in Distinct => f \in InFlight'
                        /\ pending'[i].cancelled <=> f \in revoked'
      BY DEF Marks, SlotInv
    <2>1. CASE i = s
      BY <1>1, <1>5, <1>9, <2>1
    <2>2. CASE i # s
      <3>1. pending'[i] = pending[i] /\ SlotInv(i, f)
        BY <1>5, <2>2 DEF Table, Marks
      <3>2. f # e
        BY <1>6, <3>1 DEF SlotInv
      <3> QED BY <1>1, <1>8, <3>1, <3>2 DEF SlotInv
    <2> QED BY <2>1, <2>2
  <1>11. Revoked'
    BY <1>1, <1>8, <1>9 DEF Table, Revoked
  <1>12. /\ evicted \subseteq evicted'
         /\ \A f \in Events : pending[s].event = f /\ IdOf[f] # IdOf[e] => f \in evicted'
    BY <1>4 DEF PlaceIn, Free
  <1>13. TrackedOrEvicted'
    <2> SUFFICES ASSUME NEW f \in Events, f \in InFlight', f \in Distinct, f \notin evicted'
                 PROVE  \E i \in 1..Slots : pending'[i].event = f
      BY DEF TrackedOrEvicted, InFlight
    <2>1. CASE f = e
      BY <1>5, <2>1
    <2>2. CASE f # e
      <3>1. PICK i \in 1..Slots : pending[i].event = f
        BY <1>8, <1>12, <2>2 DEF Table, TrackedOrEvicted
      <3>2. i # s
        BY <1>12, <2>2, <3>1 DEF Distinct
      <3> QED BY <1>5, <3>1, <3>2
    <2> QED BY <2>1, <2>2
  <1>14. RevocationHolds'
    <2> SUFFICES ASSUME NEW f \in revoked, f \in Distinct, f \notin evicted'
                 PROVE  ~Ran(f)'
      BY <1>1 DEF RevocationHolds
    <2> QED BY <1>8, <1>9, <1>12 DEF Table, RevocationHolds
  <1> QED BY <1>10, <1>11, <1>13, <1>14 DEF Table

LEMMA RouterStepInv == RouterInv /\ WalkTypes /\ [Next]_vars => (RouterInv /\ WalkTypes)'
  <1> SUFFICES ASSUME Places, Table, WalkTypes, [Next]_vars
               PROVE  (RouterInv /\ WalkTypes)'
    BY DEF RouterInv
  <1>1. Moves /\ WalkTypes' /\ Places'
    BY StepsMove, WalkStep, PlacesStep
  <1>2. Table'
    BY <1>1, TableBirths, TableTrack, TableSend, TableTimeout, TableUntrack, TableMark,
       TableReceive, TableTake, TableRouter DEF Moves, PublishStep
  <1> QED BY <1>1, <1>2 DEF RouterInv

\* The inductive invariant: where each event is in the queue and in the table, and which
\* publication or walk it belongs to, holds in every reachable state.
THEOREM RouterInvariant == Spec => [](RouterInv /\ WalkTypes)
  <1>1. Init => RouterInv /\ WalkTypes
    BY PlacesInit, TableInit DEF RouterInv
  <1> QED BY <1>1, RouterStepInv, PTL DEF Spec

-----------------------------------------------------------------------------
(* What it gives. *)

\* The queue stays within its length, and everything else within its type.
THEOREM RouterTypeCorrect == Spec => []TypeOK
  <1>1. RouterInv /\ WalkTypes => TypeOK
    BY DEF RouterInv, Places, CoreTypes, SlotTypes, PubTypes, WalkTypes, RouterPlaces, TypeOK
  <1> QED BY <1>1, RouterInvariant, PTL

\* Whatever is published, sent, refused, taken and cancelled in between, an
\* event in flight whose id no other has can be cancelled, or was evicted.
THEOREM EventsStayTracked == Spec => []TrackedOrEvicted
  <1>1. RouterInv => TrackedOrEvicted
    BY DEF RouterInv, Table
  <1> QED BY <1>1, RouterInvariant, PTL

\* An event with an id of its own whose cancellation was confirmed is not
\* processed, unless it was evicted.
THEOREM RevokedNeverRuns == Spec => []RevocationHolds
  <1>1. RouterInv => RevocationHolds
    BY DEF RouterInv, Table
  <1> QED BY <1>1, RouterInvariant, PTL

-----------------------------------------------------------------------------
(* The router implements the event bus. *)

\* What a move does to the outcome of an event.
LEMMA OutcomesKept ==
  ASSUME \A e \in Events : Outcome(e)' = Outcome(e)
  PROVE  Outcomes' = Outcomes
  BY DEF Outcomes

LEMMA OutcomeSettled ==
  ASSUME NEW e \in Events, NEW o, Outcome(e)' = o,
         \A f \in Events : f # e => Outcome(f)' = Outcome(f)
  PROVE  Bus!Settle(e, o)
  BY DEF Outcomes, Bus!Settle

LEMMA SameOutcome ==
  ASSUME NEW e \in Events, fate'[e] = fate[e], Ran(e)' <=> Ran(e)
  PROVE  Outcome(e)' = Outcome(e)
  BY DEF Outcome

LEMMA LineEffect ==
  ASSUME NEW q \in Seq(Events), NEW e \in Events
  PROVE  /\ <<e>> \o q # <<>> /\ Head(<<e>> \o q) = e /\ Tail(<<e>> \o q) = q
         /\ q # <<>> => <<Head(q)>> \o Tail(q) = q
         /\ \A f \in Events : Append(<<f>> \o q, e) = <<f>> \o Append(q, e)
  <1>1. <<e>> \in Seq(Events)
    OBVIOUS
  <1>2. /\ <<e>> \o q # <<>> /\ Head(<<e>> \o q) = e /\ Tail(<<e>> \o q) = q
    OBVIOUS
  <1>3. q # <<>> => <<Head(q)>> \o Tail(q) = q
    OBVIOUS
  <1>4. ASSUME NEW f \in Events
        PROVE  Append(<<f>> \o q, e) = <<f>> \o Append(q, e)
    OBVIOUS
  <1> QED BY <1>2, <1>3, <1>4

LEMMA BusInit == Init => Bus!Init
  <1> SUFFICES ASSUME Init PROVE Bus!Init
    OBVIOUS
  <1>1. Line = <<>>
    BY DEF Init, Line
  <1>2. \A e \in Events : Outcome(e) = "none"
    BY DEF Init, Outcome, Ran
  <1>3. Outcomes = [e \in Events |-> "none"]
    BY <1>2 DEF Outcomes
  <1>4. Named = {}
    BY DEF Init, Named
  <1> QED BY <1>1, <1>3, <1>4 DEF Bus!Init

LEMMA BusSend ==
  ASSUME Places, NEW t \in Tasks, Send(t)
  PROVE  Bus!Next
  <1>1. /\ pub[t].event \in Events /\ fate[pub[t].event] = "sending"
        /\ queue' = Append(queue, pub[t].event) /\ queue \in Seq(Events)
        /\ UNCHANGED <<revoked, router, event>>
    BY DEF Send, Places, Published, Sends, CoreTypes, table
  <1>2. PICK e \in Events : e = pub[t].event
    BY <1>1
  <1>3. fate'[e] = "queued" /\ \A g \in Events : g # e => fate'[g] = fate[g]
    BY <1>1, <1>2, FateEffect DEF Send, Places, Fates
  <1>4. ~Ran(e) /\ ~Ran(e)' /\ \A f \in Events : f # e => (Ran(f)' <=> Ran(f))
    BY <1>1, <1>2, <1>3, Apart DEF Ran
  <1>5. Outcome(e) = "none" /\ Outcome(e)' = "accepted"
    BY <1>1, <1>2, <1>3, <1>4 DEF Outcome
  <1>6. Outcomes[e] = "none" /\ Bus!Settle(e, "accepted")
    BY <1>3, <1>4, <1>5, SameOutcome, OutcomeSettled DEF Outcomes
  <1>7. Line' = Append(Line, e)
    <2>1. router = "taken" => event \in Events
      BY Apart
    <2> QED BY <1>1, <1>2, <2>1, LineEffect DEF Line
  <1>8. Named' = Named
    BY <1>1 DEF Named
  <1> QED BY <1>6, <1>7, <1>8 DEF Bus!Next, Bus!Accept

LEMMA BusUntrack ==
  ASSUME Places, NEW t \in Tasks, Untrack(t)
  PROVE  Bus!Next
  <1>1. /\ pub[t].event \in Events /\ pub[t].pc = "untrack" /\ fate[pub[t].event] = "sending"
        /\ UNCHANGED <<queue, revoked, router, event>>
    BY DEF Untrack, Places, Published, Sends
  <1>2. PICK e \in Events : e = pub[t].event
    BY <1>1
  <1>3. fate'[e] = "refused" /\ \A g \in Events : g # e => fate'[g] = fate[g]
    BY <1>1, <1>2, FateEffect DEF Untrack, Places, Fates
  <1>4. ~Ran(e) /\ \A f \in Events : f # e => (Ran(f)' <=> Ran(f))
    BY <1>1, <1>2, <1>3, Apart DEF Ran
  <1>5. Outcome(e) = "none" /\ Outcome(e)' = "refused"
    BY <1>1, <1>2, <1>3, <1>4 DEF Outcome
  <1>6. Outcomes[e] = "none" /\ Bus!Settle(e, "refused")
    BY <1>3, <1>4, <1>5, SameOutcome, OutcomeSettled DEF Outcomes
  <1>7. UNCHANGED <<Line, Named>>
    BY <1>1 DEF Line, Named
  <1> QED BY <1>6, <1>7 DEF Bus!Next, Bus!Refuse

LEMMA BusMark ==
  ASSUME Places, NEW F \in SUBSET Events, Mark(F)
  PROVE  Bus!Next
  <1>1. UNCHANGED <<queue, router, event, fate>> /\ revoked \subseteq revoked'
    BY DEF Mark
  <1>2. Line' = Line
    BY <1>1 DEF Line
  <1>3. \A e \in Events : Outcome(e)' = Outcome(e)
    BY <1>1 DEF Outcome, Ran
  <1>4. Outcomes' = Outcomes
    BY <1>3, OutcomesKept
  <1>5. Named' \in SUBSET Events /\ Named' = Named \cup Named'
    BY <1>1 DEF Named
  <1> QED BY <1>2, <1>4, <1>5 DEF Bus!Next, Bus!Revoke

LEMMA BusTake ==
  ASSUME Places, Table, Take
  PROVE  Bus!Next
  <1>1. /\ router = "taken" /\ event \in Events /\ fate[event] = "queued"
        /\ UNCHANGED <<queue, event, revoked>> /\ queue \in Seq(Events)
        /\ router' # "taken"
    BY DEF Take, Rest, Places, Received, CoreTypes
  <1>2. Line # <<>> /\ Head(Line) = event /\ Line' = Tail(Line)
    BY <1>1, LineEffect DEF Line
  <1>3. Named' = Named
    BY <1>1 DEF Named
  <1>4. CASE Marked(event)
    <2>1. router' = "waiting" /\ Becomes(event, "skipped")
      BY <1>4 DEF Take, Rest
    <2>2. fate'[event] = "skipped" /\ \A g \in Events : g # event => fate'[g] = fate[g]
      BY <1>1, <2>1, FateEffect DEF Places, Fates
    <2>3. Outcome(event)' = "skipped"
      BY <1>1, <2>2 DEF Outcome
    <2>4. \A f \in Events : f # event => (Ran(f)' <=> Ran(f))
      BY <1>1, <2>1, <2>2 DEF Ran
    <2>5. Bus!Settle(event, "skipped")
      BY <1>1, <2>2, <2>3, <2>4, SameOutcome, OutcomeSettled
    <2>6. event \in Named
      <3>1. PICK i \in Find(IdOf[event]) : pending[i].cancelled
        BY <1>4 DEF Marked
      <3>2. i \in 1..Slots /\ ~Free(i) /\ IdOf[pending[i].event] = IdOf[event]
        BY <3>1 DEF Find
      <3>3. PICK f \in Events : f = pending[i].event
        BY <3>2 DEF Free, Places, CoreTypes, SlotTypes
      <3>4. SlotInv(i, f)
        BY <3>2, <3>3 DEF Table, Marks
      <3> QED BY <1>1, <3>1, <3>2, <3>3, <3>4 DEF SlotInv, Named
    <2> QED BY <1>2, <1>3, <2>5, <2>6 DEF Bus!Next, Bus!Skip
  <1>5. CASE ~Marked(event)
    <2>1. router' = "begin" /\ fate' = fate
      BY <1>5 DEF Take
    <2>2. Outcome(event)' = "processed"
      BY <1>1, <2>1 DEF Outcome, Ran
    <2>3. \A f \in Events : f # event => (Ran(f)' <=> Ran(f))
      BY <1>1, <2>1 DEF Ran
    <2>4. Bus!Settle(event, "processed")
      BY <1>1, <2>1, <2>2, <2>3, SameOutcome, OutcomeSettled
    <2> QED BY <1>2, <1>3, <2>4 DEF Bus!Next, Bus!Process
  <1> QED BY <1>4, <1>5

LEMMA BusStays ==
  ASSUME Places,
         \/ \E t \in Tasks : Track(t) \/ SendTimeout(t) \/ \E e \in Events : Births(t, e)
         \/ Receive \/ Works \/ Ends \/ Idles
  PROVE  UNCHANGED Bus!vars
  <1>1. Named' = Named
    <2>1. revoked' = revoked
      BY DEF Track, SendTimeout, Births, Receive, Works, Ends, Idles, Keeps, table
    <2> QED BY <2>1 DEF Named
  <1>2. CASE \E t \in Tasks : Track(t) \/ SendTimeout(t)
    <2>1. UNCHANGED <<queue, router, event, fate>>
      BY <1>2 DEF Track, SendTimeout
    <2>2. \A e \in Events : Outcome(e)' = Outcome(e)
      BY <2>1 DEF Outcome, Ran
    <2> QED BY <1>1, <2>1, <2>2, OutcomesKept DEF Line, Bus!vars
  <1>3. ASSUME NEW t \in Tasks, NEW e \in Events, Births(t, e)
        PROVE  UNCHANGED Bus!vars
    <2>1. /\ fate[e] = "unborn" /\ fate'[e] = "sending"
          /\ \A f \in Events : f # e => fate'[f] = fate[f]
      BY <1>3, StartEffect DEF Places, Births
    <2>2. /\ UNCHANGED <<queue, event>>
          /\ router' = "taken" <=> router = "taken"
          /\ router' \in Off <=> router \in Off
      BY <1>3 DEF Births, Keeps, Inside, Off
    <2>3. ~Ran(e) /\ ~Ran(e)'
      BY <2>1, <2>2, Apart DEF Ran, Off
    <2>4. \A f \in Events : f # e => (Ran(f)' <=> Ran(f))
      BY <2>1, <2>2 DEF Ran, Off
    <2>5. \A f \in Events : Outcome(f)' = Outcome(f)
      <3>1. Outcome(e)' = Outcome(e)
        BY <2>1, <2>3 DEF Outcome
      <3> QED BY <2>1, <2>4, <3>1, SameOutcome
    <2> QED BY <1>1, <2>2, <2>5, OutcomesKept DEF Line, Bus!vars
  <1>4. CASE Receive
    <2>1. /\ queue \in Seq(Events) /\ queue # <<>> /\ event' = Head(queue) /\ queue' = Tail(queue)
          /\ router = "waiting" /\ router' = "taken" /\ fate' = fate
      BY <1>4 DEF Receive, Places, CoreTypes
    <2>2. Line' = Line
      <3>1. Head(queue) \in Events
        BY <2>1, HeadTailProperties
      <3> QED BY <2>1, <3>1, LineEffect DEF Line
    <2>3. \A e \in Events : Outcome(e)' = Outcome(e)
      BY <2>1 DEF Outcome, Ran
    <2> QED BY <1>1, <2>2, <2>3, OutcomesKept DEF Bus!vars
  <1>5. CASE Works \/ Idles
    <2>1. /\ UNCHANGED <<queue, event, fate>>
          /\ router' = "taken" <=> router = "taken"
          /\ router' \in Off <=> router \in Off
      BY <1>5 DEF Works, Idles, Keeps, Inside, Off
    <2>2. \A e \in Events : Outcome(e)' = Outcome(e)
      BY <2>1 DEF Outcome, Ran, Off
    <2> QED BY <1>1, <2>1, <2>2, OutcomesKept DEF Line, Bus!vars
  <1>6. CASE Ends
    <2>1. /\ router \notin Off /\ router' = "waiting" /\ event \in Events
          /\ fate[event] = "queued" /\ UNCHANGED <<queue, event>>
      BY <1>6, Apart DEF Ends, Rest, Keeps, Off
    <2>2. PICK o \in {"done", "failed", "ignored"} : Becomes(event, o)
      BY <1>6 DEF Ends, Rest
    <2>3. fate'[event] = o /\ \A g \in Events : g # event => fate'[g] = fate[g]
      BY <2>1, <2>2, FateEffect DEF Places, Fates
    <2>4. PICK e \in Events : e = event /\ e = event'
      BY <2>1
    <2>5. Outcome(e)' = Outcome(e)
      BY <2>1, <2>2, <2>3, <2>4 DEF Outcome, Ran, Off
    <2>6. \A f \in Events : Outcome(f)' = Outcome(f)
      <3>1. ASSUME NEW f \in Events, f # e
            PROVE  Outcome(f)' = Outcome(f)
        <4>1. fate'[f] = fate[f]
          BY <2>3, <2>4, <3>1
        <4>2. Ran(f)' <=> Ran(f)
          BY <2>1, <2>4, <3>1, <4>1 DEF Ran, Off
        <4> QED BY <4>1, <4>2, SameOutcome
      <3> QED BY <2>5, <3>1
    <2>7. Line' = Line
      BY <2>1 DEF Line, Off
    <2> QED BY <1>1, <2>6, <2>7, OutcomesKept DEF Bus!vars
  <1> QED BY <1>2, <1>3, <1>4, <1>5, <1>6

LEMMA BusStep ==
  ASSUME RouterInv, [Next]_vars
  PROVE  [Bus!Next]_Bus!vars
  <1>1. Places /\ Table /\ Moves
    BY StepsMove DEF RouterInv
  <1> QED BY <1>1, BusSend, BusUntrack, BusMark, BusTake, BusStays DEF Moves, PublishStep

\* Every behaviour of the router is one of the event bus: accepted events are
\* taken once and in order, and only events that a cancellation named are not
\* processed.
THEOREM BusImplemented == Spec => ImplementsBus
  <1>1. RouterInv /\ [Next]_vars => [Bus!Next]_Bus!vars
    BY BusStep
  <1> QED BY <1>1, BusInit, RouterInvariant, PTL DEF Spec, Bus!Spec, ImplementsBus
=============================================================================
