---------------------------- MODULE EventRouter ----------------------------
(***************************************************************************)
(* claw_event_router: publishers hand events to one router task through a  *)
(* bounded queue; a table beside the queue lets other tasks cancel events  *)
(* that still wait in it; the task walks the rules under the router's      *)
(* recursive mutex and runs their actions, which may themselves publish,   *)
(* replace the rules, or wait for a script that publishes.                 *)
(*                                                                         *)
(* A region under the mutex that neither blocks nor calls out is one       *)
(* action, taken when no other task holds the mutex.  Only the walk over   *)
(* the rules holds it from step to step.  What an event says is reduced to *)
(* which rules match it and which filters name it.                         *)
(***************************************************************************)
EXTENDS Naturals, Sequences, FiniteSets

CONSTANTS Events,       \* the events ever published
          IdOf,         \* event_id of each, None when it has none
          Tasks,        \* the tasks that publish, Router and Script included
          PublisherOf,  \* which of them publishes the event
          Router,       \* claw_event_router_task
          Script,       \* the job of a synchronous run_script action
          None,
          FromRouter,   \* events whose source_cap is "claw_event_router"
          Texts,        \* events of type "message" with a text
          DefaultAgent, \* config.default_route_messages_to_agent
          RuleSets,     \* contents of router_rules.json
          Filters,      \* the events each filter of purge_queue accepts
          QueueLen,     \* length of event_queue
          Slots,        \* CLAW_EVENT_ROUTER_PENDING_TABLE_SIZE
          MaxReloads    \* bound: how often the rules are replaced

Kinds == {"call", "script", "emit", "drop", "reload"}
Actions == [kind : Kinds, open : BOOLEAN]
Rules == [match : SUBSET Events, consume : BOOLEAN, ack : BOOLEAN, acts : Seq(Actions)]
Acks == {"", "processing", "matched", "rendered"}

\* IdOf is a function; what it returns is left open.
ASSUME EventsAssumption == /\ PublisherOf \in [Events -> Tasks]
                           /\ None \notin Events \cup Tasks
                           /\ {Router, Script} \subseteq Tasks
                           /\ Router # Script
                           /\ FromRouter \cup Texts \subseteq Events
                           /\ DOMAIN IdOf = Events
                           /\ Filters \subseteq SUBSET Events
ASSUME RulesAssumption == RuleSets \subseteq Seq(Rules) /\ RuleSets # {}
ASSUME BoundsAssumption == /\ QueueLen \in Nat \ {0}
                           /\ Slots \in Nat
                           /\ QueueLen <= Slots
                           /\ DefaultAgent \in BOOLEAN
                           /\ MaxReloads \in Nat

VARIABLES
    mutex,    \* the task that holds it across steps
    queue,    \* event_queue
    pending,  \* the table: the event that was tracked there, its mark
    rules,    \* rules[0 .. rule_count - 1]
    gen,      \* which array rules points to: each reload frees the last
    pub,      \* per publishing task: where it is, and with which event
    router,   \* where the router task is
    event,    \* the event it received
    rule,     \* the index i of the walk
    held,     \* the rule the walk points at, and the array it lies in
    act,      \* the index j of its next action
    local,    \* the result being built
    last,     \* last_result
    script,   \* whether the script job runs
    \* history:
    fate,     \* what has become of each event
    revoked,  \* events whose cancellation a caller was told of
    evicted   \* events that lost their slot to a later one

table == <<pending, revoked, evicted>>
walk == <<rule, held, act, local>>
vars == <<mutex, queue, table, rules, gen, pub, router, event, walk, last, script, fate>>

Empty == [event |-> None, cancelled |-> FALSE]
Free(i) == pending[i].event = None
NoRule == [rule |-> None, gen |-> 0]
Fresh == [matched |-> FALSE, ack |-> "processing"]
Walking == {"rules", "acting", "emit", "script", "after"}

Init == /\ mutex = None
        /\ queue = <<>>
        /\ pending = [i \in 1..Slots |-> Empty]
        /\ rules \in RuleSets
        /\ gen = 0
        /\ pub = [t \in Tasks |-> [pc |-> "idle", event |-> None]]
        /\ router = "waiting" /\ event = None
        /\ rule = 0 /\ held = NoRule /\ act = 0 /\ local = Fresh
        /\ last = [matched |-> FALSE, ack |-> ""]
        /\ script = FALSE
        /\ fate = [e \in Events |-> "unborn"]
        /\ revoked = {} /\ evicted = {}

\* xSemaphoreTakeRecursive succeeds for t.
Enters(t) == mutex \in {None, t}

Becomes(e, f) == fate' = [fate EXCEPT ![e] = f]

-----------------------------------------------------------------------------
(* The table of pending events.                                            *)

\* The first of a set of slots, as the set of it.
First(S) == {i \in S : \A j \in S : i <= j}

\* pending_find_slot_locked, as the set of slots that carry the id.
Find(id) == IF id = None THEN {}
            ELSE {i \in 1..Slots : ~Free(i) /\ IdOf[pending[i].event] = id}

\* pending_alloc_slot_locked: a free slot, else the first that is not
\* cancelled, else the first.
Alloc == LET free == {i \in 1..Slots : Free(i)}
             unmarked == {i \in 1..Slots : ~pending[i].cancelled}
         IN IF free # {} THEN First(free)
            ELSE IF unmarked # {} THEN First(unmarked) ELSE {1}

SlotFor(e) == IF Find(IdOf[e]) # {} THEN First(Find(IdOf[e])) ELSE Alloc

PlaceIn(i, e) ==
    /\ pending' = [pending EXCEPT ![i] = [event |-> e, cancelled |-> FALSE]]
    /\ evicted' = IF Free(i) \/ IdOf[pending[i].event] = IdOf[e] THEN evicted
                  ELSE evicted \cup {pending[i].event}

\* pending_take_for_event_id, and its return value.
ClearSlot(e) == pending' = [i \in 1..Slots |-> IF i \in Find(IdOf[e]) THEN Empty
                                               ELSE pending[i]]
MarkedVariant(e) == FALSE
MarkedAnyVariant(e) == \E i \in 1..Slots : pending[i].cancelled
Marked(e) == \E i \in Find(IdOf[e]) : pending[i].cancelled

-----------------------------------------------------------------------------
(* claw_event_router_publish, by any task.                                 *)

StartPublish(t, e) ==
    /\ pub[t].pc = "idle" /\ fate[e] = "unborn" /\ PublisherOf[e] = t
    /\ pub' = [pub EXCEPT ![t] = [pc |-> IF IdOf[e] = None THEN "send" ELSE "track",
                                  event |-> e]]
    /\ Becomes(e, "sending")

Publish(t, e) == /\ t # Router
                 /\ t = Script => script
                 /\ StartPublish(t, e)
                 /\ UNCHANGED <<mutex, queue, table, rules, gen, router, event, walk,
                                last, script>>

Advance(t, pc) == pub' = [pub EXCEPT ![t].pc = pc]

\* pending_track.
Track(t) == LET e == pub[t].event
            IN /\ pub[t].pc = "track" /\ Enters(t)
               /\ \E i \in SlotFor(e) : PlaceIn(i, e)
               /\ Advance(t, "send")
               /\ UNCHANGED <<mutex, queue, revoked, rules, gen, router, event, walk,
                              last, script, fate>>

\* xQueueSend.
Send(t) == /\ pub[t].pc = "send" /\ Len(queue) < QueueLen
           /\ queue' = Append(queue, pub[t].event)
           /\ Becomes(pub[t].event, "queued")
           /\ Advance(t, "idle")
           /\ UNCHANGED <<mutex, table, rules, gen, router, event, walk, last, script>>

\* The queue stayed full for a second.
SendTimeout(t) == /\ pub[t].pc = "send" /\ Len(queue) = QueueLen
                  /\ Advance(t, "untrack")
                  /\ UNCHANGED <<mutex, queue, table, rules, gen, router, event, walk,
                                 last, script, fate>>

\* pending_take_for_event_id of the event that was refused.
UntrackVariant(t) == /\ pub[t].pc = "untrack"
                     /\ Becomes(pub[t].event, "refused")
                     /\ Advance(t, "idle")
                     /\ pending' = [pending EXCEPT ![1] = Empty]
                     /\ UNCHANGED <<mutex, queue, evicted, revoked, rules, gen, router,
                                    event, walk, last, script>>
Untrack(t) == /\ pub[t].pc = "untrack" /\ Enters(t)
              /\ ClearSlot(pub[t].event)
              /\ Becomes(pub[t].event, "refused")
              /\ Advance(t, "idle")
              /\ UNCHANGED <<mutex, queue, evicted, revoked, rules, gen, router, event,
                             walk, last, script>>

-----------------------------------------------------------------------------
(* Calls of other tasks.                                                   *)

\* claw_event_router_purge_queue, and cancel_event, whose filter is an id.
Mark(F) == LET hit == {i \in 1..Slots : /\ pending[i].event \in F
                                        /\ ~pending[i].cancelled}
           IN /\ mutex = None
              /\ hit # {}
              /\ pending' = [i \in 1..Slots |-> IF i \in hit
                                                THEN [pending[i] EXCEPT !.cancelled = TRUE]
                                                ELSE pending[i]]
              /\ revoked' = revoked \cup {pending[i].event : i \in hit}
              /\ UNCHANGED <<mutex, queue, evicted, rules, gen, pub, router, event, walk,
                             last, script, fate>>

CancelEvent(e) == IdOf[e] # None /\ Mark({f \in Events : IdOf[f] = IdOf[e]})

PurgeQueue(F) == Mark(F)

Swap(R) == gen < MaxReloads /\ gen' = gen + 1 /\ rules' = R

\* claw_event_router_reload, and the commit of an added, updated or deleted
\* rule.
Reload(R) == /\ mutex = None
             /\ Swap(R)
             /\ UNCHANGED <<mutex, queue, table, pub, router, event, walk, last, script,
                            fate>>

-----------------------------------------------------------------------------
(* The router task.                                                        *)

Receive == /\ router = "waiting" /\ queue # <<>>
           /\ event' = Head(queue)
           /\ queue' = Tail(queue)
           /\ router' = "taken"
           /\ UNCHANGED <<mutex, table, rules, gen, pub, walk, last, script, fate>>

Rest(f) == router' = "waiting" /\ Becomes(event, f)

\* The end of the event's claim on its slot: it is skipped or processed.
Take == /\ router = "taken" /\ Enters(Router)
        /\ IF Marked(event) THEN Rest("skipped") ELSE router' = "begin" /\ UNCHANGED fate
        /\ ClearSlot(event)
        /\ UNCHANGED <<mutex, queue, evicted, revoked, rules, gen, pub, event, walk, last,
                       script>>

\* process_event up to the guard against the router's own events.
Begin == /\ router = "begin" /\ Enters(Router)
         /\ local' = Fresh /\ last' = Fresh
         /\ IF event \in FromRouter THEN Rest("ignored")
                                    ELSE router' = "enter" /\ UNCHANGED fate
         /\ UNCHANGED <<mutex, queue, table, rules, gen, pub, event, rule, held, act,
                        script>>

\* The context is built and the walk starts, with the mutex held; without
\* memory the event is given up.
Enter == /\ router = "enter" /\ Enters(Router)
         /\ \/ mutex' = Router /\ router' = "rules" /\ rule' = 1 /\ UNCHANGED fate
            \/ Rest("failed") /\ UNCHANGED <<mutex, rule>>
         /\ UNCHANGED <<queue, table, rules, gen, pub, event, held, act, local, last,
                        script>>

\* One turn of the loop over the rules: the rule matches or not; without
\* memory for its context the walk is given up.
GiveUpVariant == Rest("failed") /\ UNCHANGED <<mutex, local, act, held, rule>>
GiveUp == Rest("failed") /\ mutex' = None /\ UNCHANGED <<local, act, held, rule>>

TryRule == /\ router = "rules" /\ rule <= Len(rules)
           /\ IF event \notin rules[rule].match
              THEN rule' = rule + 1 /\ UNCHANGED <<mutex, router, held, act, local, fate>>
              ELSE \/ GiveUp
                   \/ /\ held' = [rule |-> rules[rule], gen |-> gen]
                      /\ act' = 1
                      /\ local' = [local EXCEPT !.matched = TRUE]
                      /\ router' = "acting"
                      /\ UNCHANGED <<mutex, rule, fate>>
           /\ UNCHANGED <<queue, table, rules, gen, pub, event, last, script>>

More == act <= Len(held.rule.acts)
Doing(k) == router = "acting" /\ More /\ held.rule.acts[act].kind = k

\* What follows an action: the next, or with an error that is not let pass
\* the end of the rule.
Continue(ok) == /\ router' = "acting"
                /\ act' = IF ok \/ held.rule.acts[act].open THEN act + 1
                          ELSE Len(held.rule.acts) + 1

\* call_cap, run_agent, send_message, run_script with "async": a call that
\* does not come back to the router; and every action that fails early.
Call == /\ \E k \in Kinds \ {"drop"} : Doing(k)
        /\ \E ok \in BOOLEAN : (ok => Doing("call")) /\ Continue(ok)
        /\ UNCHANGED <<mutex, queue, table, rules, gen, pub, event, rule, held, local, last,
                       script, fate>>

Drop == /\ Doing("drop") /\ Continue(TRUE)
        /\ UNCHANGED <<mutex, queue, table, rules, gen, pub, event, rule, held, local, last,
                       script, fate>>

\* call_cap of reload_router_rules, add, update or delete: the mutex is
\* recursive, so the router replaces the rules it is walking.  The walk then
\* reads freed memory; here it goes on with what the memory held, one of the
\* outcomes.
ReloadAction(R) == /\ Doing("reload") /\ Swap(R) /\ Continue(TRUE)
                   /\ UNCHANGED <<mutex, queue, table, pub, event, rule, held, local, last,
                                  script, fate>>

\* emit_event: the router is a publisher to its own queue.
Emit(e) == /\ Doing("emit") /\ StartPublish(Router, e)
           /\ router' = "emit"
           /\ UNCHANGED <<mutex, queue, table, rules, gen, event, walk, last, script>>

EmitReturns == /\ router = "emit" /\ pub[Router].pc = "idle"
               /\ Continue(fate[pub[Router].event] = "queued")
               /\ UNCHANGED <<mutex, queue, table, rules, gen, pub, event, rule, held,
                              local, last, script, fate>>

\* run_script: lua_run_script waits for its job, up to its timeout.
RunScript == /\ Doing("script") /\ ~script
             /\ script' = TRUE /\ router' = "script"
             /\ UNCHANGED <<mutex, queue, table, rules, gen, pub, event, walk, last, fate>>

ScriptEnds == /\ script /\ pub[Script].pc = "idle"
              /\ script' = FALSE
              /\ UNCHANGED <<mutex, queue, table, rules, gen, pub, router, event, walk, last,
                             fate>>

ScriptReturnsVariant == /\ router = "script" /\ ~script
                        /\ \E ok \in BOOLEAN : Continue(ok)
                        /\ UNCHANGED <<mutex, queue, table, rules, gen, pub, event, rule,
                                       held, local, last, script, fate>>
ScriptReturns == /\ router = "script"
                 /\ \E ok \in BOOLEAN : (script => ~ok) /\ Continue(ok)
                 /\ UNCHANGED <<mutex, queue, table, rules, gen, pub, event, rule, held,
                                local, last, script, fate>>

\* The rule is done: its ack is rendered, to a text or to nothing, or there
\* is no memory for it.
ActionsDone == /\ router = "acting" /\ ~More
               /\ \E a \in {"", "rendered", local.ack} :
                      /\ ~held.rule.ack => a = local.ack
                      /\ local' = [local EXCEPT !.ack = a]
               /\ IF held.rule.consume THEN router' = "after" /\ UNCHANGED rule
                                       ELSE router' = "rules" /\ rule' = rule + 1
               /\ UNCHANGED <<mutex, queue, table, rules, gen, pub, event, held, act, last,
                              script, fate>>

RulesDone == /\ router = "rules" /\ rule > Len(rules)
             /\ router' = "after"
             /\ UNCHANGED <<mutex, queue, table, rules, gen, pub, event, walk, last, script,
                            fate>>

Finish == /\ router = "after"
          /\ local' = IF local.matched /\ local.ack = ""
                      THEN [local EXCEPT !.ack = "matched"] ELSE local
          /\ mutex' = None
          /\ IF ~local.matched /\ DefaultAgent /\ event \in Texts
             THEN router' = "fallback" /\ UNCHANGED <<last, fate>>
             ELSE Rest("done") /\ last' = local'
          /\ UNCHANGED <<queue, table, rules, gen, pub, event, rule, held, act, script>>

\* The default agent, submitted with the mutex released.
Fallback == /\ router = "fallback" /\ Enters(Router)
            /\ last' = local
            /\ Rest("done")
            /\ UNCHANGED <<mutex, queue, table, rules, gen, pub, event, walk, script>>

-----------------------------------------------------------------------------

PublishStep(t) == Track(t) \/ Send(t) \/ SendTimeout(t) \/ Untrack(t)

RouterStep == \/ Receive \/ Take \/ Begin \/ Enter \/ TryRule \/ Call \/ Drop
              \/ \E R \in RuleSets : ReloadAction(R)
              \/ \E e \in Events : Emit(e)
              \/ EmitReturns \/ RunScript \/ ScriptReturns \/ ActionsDone
              \/ RulesDone \/ Finish \/ Fallback

Next == \/ \E t \in Tasks, e \in Events : Publish(t, e)
        \/ \E t \in Tasks : PublishStep(t)
        \/ \E e \in Events : CancelEvent(e)
        \/ \E F \in Filters : PurgeQueue(F)
        \/ \E R \in RuleSets : Reload(R)
        \/ ScriptEnds
        \/ RouterStep

Spec == Init /\ [][Next]_vars

\* The scheduler runs every task that can run, and waits on the queue and
\* on the script are bounded by timeouts.  No caller has to publish, cancel
\* or reload, and no script has to end.
FairSpec == Spec /\ WF_vars(RouterStep) /\ \A t \in Tasks : WF_vars(PublishStep(t))

-----------------------------------------------------------------------------
(* Properties.                                                             *)

Fates == {"unborn", "sending", "queued", "done", "failed", "ignored", "skipped", "refused"}

\* The state stays within its types; the queue within event_queue_len.
TypeOK ==
    /\ mutex \in {None, Router}
    /\ queue \in Seq(Events) /\ Len(queue) <= QueueLen
    /\ pending \in [1..Slots -> [event : Events \cup {None}, cancelled : BOOLEAN]]
    /\ rules \in RuleSets /\ gen \in 0..MaxReloads
    /\ pub \in [Tasks -> [pc : {"idle", "track", "send", "untrack"},
                          event : Events \cup {None}]]
    /\ router \in Walking \cup {"waiting", "taken", "begin", "enter", "fallback"}
    /\ event \in Events \cup {None}
    /\ local \in [matched : BOOLEAN, ack : Acks] /\ last \in [matched : BOOLEAN, ack : Acks]
    /\ script \in BOOLEAN
    /\ fate \in [Events -> Fates]
    /\ revoked \subseteq Events /\ evicted \subseteq Events

\* The events whose publisher has tracked them and the router not yet taken.
InFlight == {e \in Events :
                /\ IdOf[e] # None
                /\ \/ \E t \in Tasks : pub[t].event = e /\ pub[t].pc \in {"send", "untrack"}
                   \/ \E i \in 1..Len(queue) : queue[i] = e
                   \/ router = "taken" /\ event = e}

Ran(e) == \/ fate[e] \in {"done", "failed", "ignored"}
          \/ router \notin {"waiting", "taken"} /\ event = e

\* The events that can be told from the others: the code makes most ids from
\* the time in milliseconds, and two events may have the same one.
Distinct == {e \in Events : \A f \in Events : IdOf[f] = IdOf[e] => f = e}

\* Every event in flight can still be cancelled, unless its slot was
\* evicted: no step of a publisher or of the router loses the slot of
\* another one's event (pending_track against pending_take_for_event_id).
TrackedOrEvicted ==
    \A e \in (InFlight \cap Distinct) \ evicted : \E i \in 1..Slots : pending[i].event = e

\* An event whose cancellation was confirmed, and that kept its slot, is
\* never processed, however long it waits and whatever is published.
RevocationHolds == \A e \in (revoked \cap Distinct) \ evicted : ~Ran(e)

\* While the actions of a rule run, the rules array the walk points into is
\* the router's current one: reload frees only what no walk is using.
RuleInUseIsLive == router \in {"acting", "emit", "script"} => held.gen = gen

Outcome(e) == IF fate[e] = "refused" THEN "refused"
              ELSE IF fate[e] = "skipped" THEN "skipped"
              ELSE IF Ran(e) THEN "processed"
              ELSE IF fate[e] = "queued" THEN "accepted" ELSE "none"
Line == IF router = "taken" THEN <<event>> \o queue ELSE queue
Outcomes == [e \in Events |-> Outcome(e)]
\* A cancellation names an id.
Named == {e \in Events : \E f \in revoked : IdOf[f] = IdOf[e]}
Bus == INSTANCE EventBus WITH line <- Line, outcome <- Outcomes, revoked <- Named

\* The router keeps the promise of the event bus: accepted events are taken
\* once, in order, and only revoked ones are not processed.
ImplementsBus == Bus!Spec

\* An accepted event is eventually processed or skipped, although the
\* router publishes to its own full queue and waits for scripts that wait
\* for its mutex: the timeouts break both waits.
EventsSettle ==
    \A e \in Events : fate[e] = "queued" ~> fate[e] \in {"done", "failed", "ignored", "skipped"}

\* Every call of publish returns, the router's own and a script's too.
PublishReturns == \A t \in Tasks : pub[t].pc # "idle" ~> pub[t].pc = "idle"
=============================================================================
