------------------------------ MODULE ClawCore ------------------------------
(***************************************************************************)
(* claw_core, the agent core: the task that takes requests off a queue,    *)
(* talks to the LLM and runs tools until it has an answer, and the three   *)
(* ways other tasks reach into it while it works: submitting a request or  *)
(* a user interrupt (claw_core_messages.c), cancelling the request in      *)
(* flight (claw_core_control.c) and stopping the core (claw_core.c).       *)
(*                                                                         *)
(* One action is one step no other task can observe half done: a region    *)
(* under inflight_lock, one queue operation, one read or write of an       *)
(* unlocked flag, or a stretch of code that touches nothing shared.        *)
(* Allocation failures, the session store, the request gate, the context   *)
(* providers, the LLM and the tools are outside: each may succeed or fail. *)
(***************************************************************************)
EXTENDS Naturals, Sequences, FiniteSets

CONSTANTS Requests,         \* requests clients may submit (request_id # 0)
          Interrupts,       \* flagged CLAW_CORE_REQUEST_FLAG_USER_INTERRUPT
          SkipsResponse,    \* flagged CLAW_CORE_REQUEST_FLAG_SKIP_RESPONSE_QUEUE
          Sessions,         \* non-empty session ids
          SessionOf,        \* session_id of a request, None when absent or ""
          None,             \* request id 0, the empty session id
          Wake,             \* the zeroed item claw_core_stop enqueues
          QueueLen,         \* request_queue_len
          ResponseQueueLen, \* response_queue_len
          InsertLen,        \* CLAW_CORE_INSERT_QUEUE_LEN
          MaxIter,          \* max_tool_iterations
          MaxCancels        \* bound: how often clients call cancel_request

\* What a response can say.
Answers == {"text", "rejected", "error", "cancelled"}

ASSUME RequestsAssumption == /\ Interrupts \subseteq Requests
                             /\ SkipsResponse \subseteq Requests
                             /\ None \notin Requests \cup Sessions \cup Answers
                             /\ Wake \notin Requests \cup {None}
                             /\ SessionOf \in [Requests -> Sessions \cup {None}]
ASSUME BoundsAssumption == /\ QueueLen \in Nat \ {0}
                           /\ ResponseQueueLen \in Nat \ {0}
                           /\ InsertLen \in Nat \ {0}
                           /\ MaxIter \in Nat \ {0}
                           /\ MaxCancels \in Nat

VARIABLES
    started,        \* core->started
    stopRequested,  \* core->stop_requested
    requestQueue,   \* core->request_queue
    responseQueue,  \* core->response_queue, the ids of the responses in it
    \* under inflight_lock:
    inflightId, inflightSession, phase, abort, reason, insertQueue,
    \* the worker task:
    worker,         \* where claw_core_agent_loop_task is
    cur,            \* request: the item it received
    texts,          \* the inserts it dequeued and has not appended yet
    drainedAt,      \* the timing point handle_pending_user_interrupts runs at
    iteration,      \* tool rounds done
    err,            \* the local err, "ok" or "fail"
    result,         \* what the response says so far
    \* the task in claw_core_start and claw_core_stop:
    owner,
    cancels,        \* calls of cancel_request so far
    \* history:
    fate,           \* where each request is, from submission to its end
    \* history of the request being served:
    armed,          \* a cancel_request for it returned ESP_OK
    turn,           \* its turn in the session's records: none, open or closed
    hampered,       \* an allocation or the session store failed
    observed        \* the completion observers were told of it

coreVars == <<started, stopRequested, requestQueue, responseQueue>>
slotVars == <<inflightId, inflightSession>>
controlVars == <<abort, reason, insertQueue>>
inflightVars == <<slotVars, phase, controlVars>>
roundVars == <<drainedAt, iteration, err>>
workerVars == <<worker, cur, texts, roundVars, result>>
clientVars == <<owner, cancels, fate>>
recordVars == <<turn, hampered, observed>>
servedVars == <<armed, recordVars>>
vars == <<coreVars, inflightVars, workerVars, clientVars, servedVars>>

-----------------------------------------------------------------------------
Phases == {"IDLE", "BEFORE_BUILD", "BUILDING", "BEFORE_LLM_HTTP", "IN_LLM_HTTP",
           "AFTER_LLM_BEFORE_TOOL", "RUNNING_TOOL", "FINALIZING"}
Reasons == {"NONE", "CANCEL", "USER_INTERRUPT"}
DrainPoints == {"build", "http", "abort", "tool"}

\* Where the worker is between receiving a request and having answered it.
Before == {"begin"}
Serving == {"prepare", "top", "drain", "clear", "absorb", "build", "preHttp",
            "callLlm", "http", "failed", "postLlm", "toTools", "tools", "text",
            "final", "finish", "release"}
After == {"note", "respond"}
Idle == {"none", "loop", "recv", "exit"}

Fates == {"new", "inserting", "sending", "refused", "queued", "active",
          "inserted", "taken", "merged", "lost", "dropped", "answered"}

TypeOK ==
    /\ started \in BOOLEAN
    /\ stopRequested \in BOOLEAN
    /\ requestQueue \in Seq(Requests \cup {Wake})
    /\ responseQueue \in Seq(Requests)
    /\ inflightId \in Requests \cup {None}
    /\ inflightSession \in Sessions \cup {None}
    /\ phase \in Phases
    /\ abort \in BOOLEAN
    /\ reason \in Reasons
    /\ insertQueue \in Seq(Requests)
    /\ worker \in Idle \cup Before \cup Serving \cup After
    /\ cur \in Requests \cup {Wake, None}
    /\ texts \in Seq(Requests)
    /\ drainedAt \in DrainPoints
    /\ iteration \in 0..MaxIter
    /\ err \in {"ok", "fail"}
    /\ result \in Answers \cup {None}
    /\ owner \in {"idle", "starting", "running", "cancelling", "waking",
                  "waiting", "stopped", "timedOut"}
    /\ cancels \in 0..MaxCancels
    /\ fate \in [Requests -> Fates]
    /\ armed \in BOOLEAN
    /\ turn \in {"none", "open", "closed"}
    /\ hampered \in BOOLEAN
    /\ observed \in BOOLEAN

\* The core as claw_core_create leaves it.
Init ==
    /\ started = FALSE /\ stopRequested = FALSE
    /\ requestQueue = <<>> /\ responseQueue = <<>>
    /\ inflightId = None /\ inflightSession = None /\ phase = "IDLE"
    /\ abort = FALSE /\ reason = "NONE" /\ insertQueue = <<>>
    /\ worker = "none" /\ cur = None /\ texts = <<>> /\ drainedAt = "build"
    /\ iteration = 0 /\ err = "ok" /\ result = None
    /\ owner = "idle" /\ cancels = 0
    /\ fate = [r \in Requests |-> "new"]
    /\ armed = FALSE /\ turn = "none" /\ hampered = FALSE /\ observed = FALSE

-----------------------------------------------------------------------------
(* Submitting: claw_core_ingress_submit, in the client's task.             *)

Move(r, f) == fate' = [fate EXCEPT ![r] = f]

\* claw_core_ingress_submit up to the clone: core->started is read without a
\* lock, and the clone may run out of memory.
SubmitCheck(r) ==
    /\ fate[r] = "new"
    /\ \/ Move(r, "refused")
       \/ /\ started
          /\ Move(r, IF r \in Interrupts THEN "inserting" ELSE "sending")
    /\ UNCHANGED <<coreVars, inflightVars, workerVars, owner, cancels,
                   servedVars>>

Insertable(p) == p \notin {"IDLE", "FINALIZING"}

InsertArms(p, why) == p = "IN_LLM_HTTP" /\ why # "CANCEL"

\* The request in flight is one this request may join.
SameConversation(r) == /\ SessionOf[r] # None
                       /\ inflightId # None
                       /\ inflightSession = SessionOf[r]

\* try_queue_insert_request: accepted, refused for want of room or of the lock
\* (200 ms), or passed on to the ordinary queue.
TryInsert(r) ==
    /\ fate[r] = "inserting"
    /\ \/ /\ SameConversation(r) /\ Insertable(phase)
          /\ Len(insertQueue) < InsertLen
          /\ insertQueue' = Append(insertQueue, r)
          /\ IF InsertArms(phase, reason)
             THEN abort' = TRUE /\ reason' = "USER_INTERRUPT"
             ELSE UNCHANGED <<abort, reason>>
          /\ Move(r, "inserted")
       \/ /\ SameConversation(r) /\ Insertable(phase)
          /\ Len(insertQueue) >= InsertLen
          /\ Move(r, "refused")
          /\ UNCHANGED <<controlVars>>
       \/ /\ ~(SameConversation(r) /\ Insertable(phase))
          /\ Move(r, "sending")
          /\ UNCHANGED <<controlVars>>
       \/ /\ Move(r, "refused")
          /\ UNCHANGED <<controlVars>>
    /\ UNCHANGED <<coreVars, slotVars, phase, workerVars, owner, cancels,
                   servedVars>>

\* xQueueSend to request_queue: blocks while full, until its timeout.
SubmitSend(r) ==
    /\ fate[r] = "sending"
    /\ Len(requestQueue) < QueueLen
    /\ requestQueue' = Append(requestQueue, r)
    /\ Move(r, "queued")
    /\ UNCHANGED <<started, stopRequested, responseQueue, inflightVars,
                   workerVars, owner, cancels, servedVars>>

SubmitTimeout(r) ==
    /\ fate[r] = "sending"
    /\ Len(requestQueue) >= QueueLen
    /\ Move(r, "refused")
    /\ UNCHANGED <<coreVars, inflightVars, workerVars, owner, cancels,
                   servedVars>>

-----------------------------------------------------------------------------
(* Cancelling, starting and stopping.                                      *)

CancelHits(id) == inflightId # None /\ id \in {None, inflightId}

\* The locked region of claw_core_control_cancel_request; id None is 0, "any".
ArmCancel(id) ==
    IF CancelHits(id)
    THEN /\ abort' = TRUE
         /\ reason' = "CANCEL"
         /\ armed' = TRUE
    ELSE UNCHANGED <<abort, reason, armed>>

Cancel(id) ==
    /\ cancels < MaxCancels
    /\ cancels' = cancels + 1
    /\ ArmCancel(id)
    /\ UNCHANGED <<coreVars, slotVars, phase, insertQueue, workerVars, owner,
                   fate, recordVars>>

\* claw_core_start creates the task first and sets started afterwards.
StartTask ==
    /\ owner = "idle"
    /\ owner' = "starting"
    /\ worker' = "loop"
    /\ UNCHANGED <<coreVars, inflightVars, cur, texts, roundVars, result,
                   cancels, fate, servedVars>>

StartFlag ==
    /\ owner = "starting"
    /\ owner' = "running"
    /\ started' = TRUE
    /\ UNCHANGED <<stopRequested, requestQueue, responseQueue, inflightVars,
                   workerVars, cancels, fate, servedVars>>

\* claw_core_stop, one action per shared step. It may be called again after it
\* timed out (claw_core_destroy does).
StopFlag ==
    /\ owner \in {"running", "timedOut"}
    /\ started
    /\ owner' = "cancelling"
    /\ stopRequested' = TRUE
    /\ UNCHANGED <<started, requestQueue, responseQueue, inflightVars,
                   workerVars, cancels, fate, servedVars>>

\* cancel_request(core, 0); the 200 ms wait for the lock may also fail.
StopCancel ==
    /\ owner = "cancelling"
    /\ owner' = "waking"
    /\ ArmCancel(None) \/ UNCHANGED <<abort, reason, armed>>
    /\ UNCHANGED <<coreVars, slotVars, phase, insertQueue, workerVars, cancels,
                   fate, recordVars>>

\* Variant: the worker is not woken.
QueueWithoutWake == requestQueue

\* The wake item is sent without waiting: a full queue is only logged.
QueueWithWake == IF Len(requestQueue) < QueueLen
                 THEN Append(requestQueue, Wake) ELSE requestQueue

StopWake ==
    /\ owner = "waking"
    /\ owner' = "waiting"
    /\ requestQueue' = QueueWithWake
    /\ UNCHANGED <<started, stopRequested, responseQueue, inflightVars,
                   workerVars, cancels, fate, servedVars>>

StopWait ==
    /\ owner = "waiting"
    /\ owner' = IF started THEN "timedOut" ELSE "stopped"
    /\ UNCHANGED <<coreVars, inflightVars, workerVars, cancels, fate,
                   servedVars>>

-----------------------------------------------------------------------------
(* The worker: claw_core_agent_loop_task.                                  *)

Goto(pc) == worker' = pc

\* The session store fails, or memory runs out, while cur is served.
Hamper(failing) == hampered' = (hampered \/ failing)

Persists == SessionOf[cur] # None

\* A record of cur reaches the session store; its turn becomes t.
Record(ok, t) ==
    turn' = IF ok /\ Persists THEN t ELSE turn

\* Leaving for finish_request.
Fail == err' = "fail" /\ Goto("finish")

\* Every inserted request in the sequence q ends as f.
SettleAll(q, f) ==
    fate' = [r \in Requests |->
                IF \E i \in 1..Len(q) : q[i] = r THEN f ELSE fate[r]]

\* The loop condition; the locals of the loop body are fresh.
LoopTest ==
    /\ worker = "loop"
    /\ Goto(IF stopRequested THEN "exit" ELSE "recv")
    /\ drainedAt' = "build" /\ iteration' = 0 /\ err' = "ok" /\ result' = None
    /\ armed' = FALSE /\ turn' = "none" /\ hampered' = FALSE /\ observed' = FALSE
    /\ UNCHANGED <<coreVars, inflightVars, cur, texts, clientVars>>

\* xQueueReceive, then the second test of stop_requested.
Serves == ~stopRequested

Receive ==
    /\ worker = "recv"
    /\ requestQueue # <<>>
    /\ requestQueue' = Tail(requestQueue)
    /\ IF Serves
       THEN /\ Goto("begin")
            /\ cur' = Head(requestQueue)
            /\ Move(Head(requestQueue), "active")
       ELSE /\ Goto("exit")
            /\ UNCHANGED cur
            /\ IF Head(requestQueue) = Wake THEN UNCHANGED fate
               ELSE Move(Head(requestQueue), "dropped")
    /\ UNCHANGED <<started, stopRequested, responseQueue, inflightVars, texts,
                   roundVars, result, owner, cancels, servedVars>>

\* Variant: the insert queue is left as it is.
KeepInserts == UNCHANGED <<insertQueue, fate>>

\* claw_core_ingress_clear_insert_queue_locked.
FreeInserts == insertQueue' = <<>> /\ SettleAll(insertQueue, "lost")

\* The locked region that makes the request the one in flight.
Begin ==
    /\ worker = "begin"
    /\ inflightId' = cur
    /\ inflightSession' = SessionOf[cur]
    /\ phase' = "BEFORE_BUILD"
    /\ abort' = FALSE /\ reason' = "NONE"
    /\ FreeInserts
    /\ Goto("prepare")
    /\ UNCHANGED <<coreVars, cur, texts, roundVars, result, owner, cancels,
                   servedVars>>

PrepareFrame == UNCHANGED <<coreVars, inflightVars, cur, texts, drainedAt,
                            iteration, clientVars, armed, observed>>

\* The response target cannot be copied: finish_request with err still ESP_OK.
TargetFails ==
    /\ worker = "prepare"
    /\ Goto("finish")
    /\ Hamper(TRUE)
    /\ UNCHANGED <<err, result, turn>>
    /\ PrepareFrame

\* The LLM is not configured, or the gate refuses the request with a message.
Reject ==
    /\ worker = "prepare"
    /\ \/ result' = "rejected" /\ Goto("finish") /\ UNCHANGED <<err, hampered>>
       \/ Fail /\ Hamper(TRUE) /\ UNCHANGED result
    /\ UNCHANGED turn
    /\ PrepareFrame

\* The gate refuses the request without a message.
GateFails ==
    /\ worker = "prepare"
    /\ Fail
    /\ UNCHANGED <<result, turn, hampered>>
    /\ PrepareFrame

\* on_request_start (its error is kept in err only until the contexts are
\* collected), the user's record, the runtime messages, the start contexts.
Admit ==
    /\ worker = "prepare"
    /\ \E stored \in BOOLEAN :
          /\ Record(stored, "open")
          /\ \/ /\ err' \in {"ok", "fail"} /\ Goto("finish") /\ Hamper(TRUE)
             \/ /\ Fail /\ Hamper(~stored)
             \/ /\ err' = "ok" /\ Goto("top") /\ Hamper(~stored)
    /\ UNCHANGED result
    /\ PrepareFrame

PhaseFrame == UNCHANGED <<coreVars, slotVars, controlVars, cur, texts, result,
                          clientVars, servedVars>>

BeforeBuild ==
    /\ worker = "top"
    /\ phase' = "BEFORE_BUILD"
    /\ drainedAt' = "build"
    /\ Goto("drain")
    /\ UNCHANGED <<iteration, err>>
    /\ PhaseFrame

\* claw_core_build_iteration_context; its providers may fail.
Build ==
    /\ worker = "build"
    /\ phase' = "BUILDING"
    /\ \/ err' = "ok" /\ Goto("preHttp")
       \/ Fail
    /\ UNCHANGED <<drainedAt, iteration>>
    /\ PhaseFrame

BeforeHttp ==
    /\ worker = "preHttp"
    /\ phase' = "BEFORE_LLM_HTTP"
    /\ drainedAt' = "http"
    /\ Goto("drain")
    /\ UNCHANGED <<iteration, err>>
    /\ PhaseFrame

CallLlm ==
    /\ worker = "callLlm"
    /\ phase' = "IN_LLM_HTTP"
    /\ Goto("http")
    /\ UNCHANGED <<roundVars>>
    /\ PhaseFrame

\* claw_llm_http_post_json returns an answer only if the abort flag is clear
\* once the transfer is over, and the flag alone makes it fail; it also fails
\* for reasons of its own (transport, status, parsing, memory).
LlmAnswers ==
    /\ worker = "http"
    /\ ~abort
    /\ Goto("text") \/ Goto("postLlm")
    /\ err' = "ok"
    /\ UNCHANGED <<phase, drainedAt, iteration>>
    /\ PhaseFrame

LlmFails ==
    /\ worker = "http"
    /\ Goto("failed")
    /\ err' = "fail"
    /\ UNCHANGED <<phase, drainedAt, iteration>>
    /\ PhaseFrame

\* claw_core_control_take_user_interrupt_http_abort.
TakeAbort ==
    /\ worker = "failed"
    /\ IF inflightId = cur /\ abort /\ reason = "USER_INTERRUPT"
       THEN /\ abort' = FALSE /\ reason' = "NONE"
            /\ drainedAt' = "abort"
            /\ Goto("drain")
       ELSE /\ Goto("finish")
            /\ UNCHANGED <<abort, reason, drainedAt>>
    /\ UNCHANGED <<coreVars, slotVars, phase, insertQueue, cur, texts,
                   iteration, err, result, clientVars, servedVars>>

AfterLlm ==
    /\ worker = "postLlm"
    /\ phase' = "AFTER_LLM_BEFORE_TOOL"
    /\ drainedAt' = "tool"
    /\ Goto("drain")
    /\ UNCHANGED <<iteration, err>>
    /\ PhaseFrame

RunTools ==
    /\ worker = "toTools"
    /\ phase' = "RUNNING_TOOL"
    /\ Goto("tools")
    /\ UNCHANGED <<roundVars>>
    /\ PhaseFrame

\* Variant: one tool round too many.
LimitReachedLate(rounds) == rounds > MaxIter

LimitReached(rounds) == rounds >= MaxIter

\* The tool calls have run, or one of the steps around them failed.
ToolsDone ==
    /\ worker = "tools"
    /\ \/ /\ Fail
          /\ UNCHANGED iteration
       \/ /\ iteration' = iteration + 1
          /\ IF LimitReached(iteration') THEN Fail ELSE err' = "ok" /\ Goto("top")
    /\ UNCHANGED <<phase, drainedAt>>
    /\ PhaseFrame

-----------------------------------------------------------------------------
(* handle_pending_user_interrupts.                                         *)

Joins(i) == SessionOf[cur] # None /\ SessionOf[insertQueue[i]] = SessionOf[cur]

\* The dequeue loop stops after n items.
DrainsExactly(n) ==
    /\ n <= InsertLen
    /\ \A i \in 1..n : Joins(i)
    /\ n \notin {Len(insertQueue), InsertLen} => ~Joins(n + 1)

\* Variant: the loop starts over whether or not something was drained.
AlwaysContinue == [build |-> "top", http |-> "top", tool |-> "top", abort |-> "top"]

\* Where the loop goes on when nothing was drained.
AfterDrain == [build |-> "build", http |-> "callLlm", tool |-> "toTools",
               abort |-> "finish"]

\* Variant: the head is advanced one item short.
UndrainedOffByOne(n) ==
    IF n = 0 THEN insertQueue ELSE SubSeq(insertQueue, n, Len(insertQueue))

Undrained(n) == SubSeq(insertQueue, n + 1, Len(insertQueue))

\* claw_core_ingress_dequeue_inserted_user_inputs.
Drain ==
    /\ worker = "drain"
    /\ \E n \in 0..Len(insertQueue) :
          /\ DrainsExactly(n)
          /\ insertQueue' = Undrained(n)
          /\ texts' = SubSeq(insertQueue, 1, n)
          /\ SettleAll(SubSeq(insertQueue, 1, n), "taken")
          /\ Goto(IF n > 0 THEN "clear" ELSE AfterDrain[drainedAt])
    /\ err' = "ok"
    /\ UNCHANGED <<coreVars, slotVars, phase, abort, reason, cur, drainedAt,
                   iteration, result, owner, cancels, servedVars>>

\* Variants: the abort is not taken back, or whatever its reason is.
ClearsNothing(why) == FALSE
ClearsAnyReason(why) == why # "NONE"

\* Which abort claw_core_control_clear_user_interrupt_abort takes back.
Clearable(why) == why = "USER_INTERRUPT"

ClearAbort ==
    /\ worker = "clear"
    /\ IF inflightId = cur /\ Clearable(reason)
       THEN abort' = FALSE /\ reason' = "NONE"
       ELSE UNCHANGED <<abort, reason>>
    /\ Goto("absorb")
    /\ UNCHANGED <<coreVars, slotVars, phase, insertQueue, cur, texts,
                   roundVars, result, clientVars, servedVars>>

\* The inserted texts are recorded and appended to the conversation.
Absorb ==
    /\ worker = "absorb"
    /\ \E stored \in BOOLEAN :
          /\ Record(stored, "open")
          /\ \/ /\ SettleAll(texts, "merged") /\ Hamper(~stored)
                /\ err' = "ok" /\ Goto("top")
             \/ /\ SettleAll(texts, "lost") /\ Hamper(TRUE)
                /\ Fail
    /\ texts' = <<>>
    /\ UNCHANGED <<coreVars, inflightVars, cur, drainedAt, iteration, result,
                   owner, cancels, armed, observed>>

-----------------------------------------------------------------------------
(* Answering.                                                              *)

\* A reply without tool calls. Copying the text may fail, with err ESP_OK.
Text ==
    /\ worker = "text"
    /\ phase' = "FINALIZING"
    /\ \/ result' = "text" /\ UNCHANGED hampered
       \/ UNCHANGED result /\ Hamper(TRUE)
    /\ Goto("final")
    /\ UNCHANGED <<coreVars, slotVars, controlVars, cur, texts, roundVars,
                   clientVars, armed, turn, observed>>

\* The final record and the completion observers.
Final ==
    /\ worker = "final"
    /\ IF result = "text"
       THEN /\ \E stored \in BOOLEAN : Record(stored, "closed") /\ Hamper(~stored)
            /\ observed' = TRUE
       ELSE UNCHANGED <<recordVars>>
    /\ Goto("finish")
    /\ UNCHANGED <<coreVars, inflightVars, cur, texts, roundVars, result,
                   clientVars, armed>>

Finish ==
    /\ worker = "finish"
    /\ phase' = "FINALIZING"
    /\ Goto("release")
    /\ UNCHANGED <<roundVars>>
    /\ PhaseFrame

WasCancelled == abort /\ reason = "CANCEL"

\* Variant: the cancel overrides an answer that was already there.
OutcomeCancelFirst(wasCancelled) ==
    IF wasCancelled THEN "cancelled"
    ELSE IF err = "fail" \/ result = None THEN "error" ELSE result

\* What the response will say.
Outcome(wasCancelled) ==
    IF err = "fail" THEN IF wasCancelled THEN "cancelled" ELSE "error"
    ELSE IF result = None THEN "error" ELSE result

\* The locked region of finish_request: nothing is in flight any more, and the
\* inserts nobody drained are freed.
Release ==
    /\ worker = "release"
    /\ result' = Outcome(WasCancelled)
    /\ inflightId' = None /\ inflightSession' = None /\ phase' = "IDLE"
    /\ abort' = FALSE /\ reason' = "NONE"
    /\ FreeInserts
    /\ Goto("note")
    /\ UNCHANGED <<coreVars, cur, texts, roundVars, owner, cancels,
                   servedVars>>

\* Variant: no note for a cancelled request.
NeedsNoteUnlessCancelled == err = "fail" /\ result # "cancelled"

NeedsNote == err = "fail"

\* A failed request is closed in its session with a failure note.
FailureNote ==
    /\ worker = "note"
    /\ IF NeedsNote
       THEN \E stored \in BOOLEAN : Record(stored, "closed") /\ Hamper(~stored)
       ELSE UNCHANGED <<turn, hampered>>
    /\ Goto("respond")
    /\ UNCHANGED <<coreVars, inflightVars, cur, texts, roundVars, result,
                   clientVars, armed, observed>>

\* The response is handed over, or dropped when the client did not want one;
\* claw_core_response_push waits for room as long as it takes.
Respond ==
    /\ worker = "respond"
    /\ IF cur \in SkipsResponse THEN UNCHANGED responseQueue
       ELSE /\ Len(responseQueue) < ResponseQueueLen
            /\ responseQueue' = Append(responseQueue, cur)
    /\ Move(cur, "answered")
    /\ cur' = None
    /\ Goto("loop")
    /\ UNCHANGED <<started, stopRequested, requestQueue, inflightVars, texts,
                   roundVars, result, owner, cancels, servedVars>>

Exit ==
    /\ worker = "exit"
    /\ started' = FALSE
    /\ Goto("none")
    /\ UNCHANGED <<stopRequested, requestQueue, responseQueue, inflightVars,
                   cur, texts, roundVars, result, clientVars, servedVars>>

\* A client takes a response (claw_core_response_receive_for).
Consume ==
    /\ responseQueue # <<>>
    /\ responseQueue' = Tail(responseQueue)
    /\ UNCHANGED <<started, stopRequested, requestQueue, inflightVars,
                   workerVars, clientVars, servedVars>>

-----------------------------------------------------------------------------
Client == \E r \in Requests : \/ SubmitCheck(r) \/ TryInsert(r)
                              \/ SubmitSend(r) \/ SubmitTimeout(r)

Canceller == \E id \in Requests \cup {None} : Cancel(id)

Owner == StartTask \/ StartFlag \/ StopFlag \/ StopCancel \/ StopWake \/ StopWait

Worker ==
    \/ LoopTest \/ Receive \/ Begin
    \/ TargetFails \/ Reject \/ GateFails \/ Admit
    \/ BeforeBuild \/ Build \/ BeforeHttp \/ CallLlm \/ LlmAnswers \/ LlmFails
    \/ TakeAbort \/ AfterLlm \/ RunTools \/ ToolsDone
    \/ Drain \/ ClearAbort \/ Absorb
    \/ Text \/ Final \/ Finish \/ Release \/ FailureNote \/ Respond \/ Exit

Next == Client \/ Canceller \/ Owner \/ Worker \/ Consume

Spec == Init /\ [][Next]_vars

\* The worker's task is scheduled, its calls return (the HTTP client and the
\* tools have timeouts), and a stop that began takes its steps.
Fairness == WF_vars(Worker) /\ WF_vars(StopCancel \/ StopWake)

FairSpec == Spec /\ Fairness

-----------------------------------------------------------------------------
(* Correctness.                                                            *)

InFlight == worker \in Serving

Occurs(r, q) == \E i \in 1..Len(q) : q[i] = r

NoRepeats(q) == \A i, j \in 1..Len(q) : q[i] = q[j] /\ q[i] # Wake => i = j

\* An abort raised by a user interrupt always has its interrupt still waiting,
\* or just dequeued and about to clear it: aborting the LLM call is never done
\* for nothing, a stale abort never reaches a later call, and a call given up
\* for an interrupt finds one to go on with.
AbortHasWork ==
    /\ abort <=> reason # "NONE"
    /\ reason = "USER_INTERRUPT" => insertQueue # <<>> \/ worker = "clear"
    /\ worker = "drain" /\ drainedAt = "abort" => insertQueue # <<>>

\* Each accepted request is in exactly one place: the request queue, the
\* worker's hands, the insert queue, or the texts being appended; none of them
\* holds a request twice or one the client was told is refused.
OnePlace ==
    /\ NoRepeats(requestQueue) /\ NoRepeats(insertQueue) /\ NoRepeats(texts)
    /\ \A r \in Requests :
          /\ fate[r] = "queued" <=> Occurs(r, requestQueue)
          /\ fate[r] = "inserted" <=> Occurs(r, insertQueue)
          /\ fate[r] = "taken" <=> Occurs(r, texts)
          /\ fate[r] = "active" <=> r = cur

\* The state under inflight_lock describes the worker: it names the request
\* while that one is served, and is blank whenever none is.
InflightMatchesWorker ==
    IF InFlight
    THEN inflightId = cur /\ inflightSession = SessionOf[cur] /\ phase # "IDLE"
    ELSE /\ inflightId = None /\ inflightSession = None /\ phase = "IDLE"
         /\ insertQueue = <<>> /\ reason = "NONE"

\* The zeroed item that wakes a stopping worker is never served as a request,
\* and a stop that woke it did ask it to stop first.
WakeIsNeverServed ==
    /\ cur # Wake
    /\ Occurs(Wake, requestQueue) => stopRequested
    /\ cur = None <=> worker \in Idle

\* A record of the user's turn in the session is closed, by an answer or by a
\* failure note, whatever way the request ended, unless memory or the session
\* store failed meanwhile.
AnsweredTurnsAreClosed ==
    worker = "respond" /\ turn = "open" => hampered

\* The completion observers are told of exactly the requests that the client
\* is answered with the model's text, whatever cancel came in between: not of
\* each request, as the documentation has it (ObserversSeeEveryRequest below).
ObserversSeeAnswers ==
    worker = "respond" => (observed <=> result = "text")

\* Once armed, a cancel stands until the request is released: neither a user
\* interrupt nor the start of another LLM call takes it back.
CancelSticks ==
    [][reason = "CANCEL" /\ inflightId' # None
          => reason' = "CANCEL" /\ abort' /\ ~(worker = "http" /\ worker' \in {"text", "postLlm"})]_vars

\* What the fate of a request is to its client.
Promised(f) == CASE f \in {"inserting", "sending"} -> "new"
                 [] f = "taken" -> "inserted"
                 [] OTHER -> f
PromisedFate == [r \in Requests |-> Promised(fate[r])]

\* What claw_core promises its clients, stated without its queues and phases.
Promise == INSTANCE AgentService WITH fate <- PromisedFate, active <- cur

ImplementsPromise == Promise!Spec

\* A request in flight is let go whatever the LLM does, cancelled or not.
InFlightEnds == InFlight ~> ~InFlight

\* An accepted user interrupt is settled: it joins the conversation or is
\* dropped with the request it waited for.
InsertsSettle ==
    \A r \in Requests : fate[r] = "inserted" ~> fate[r] \in {"merged", "lost"}

\* A stop succeeds, unless the worker cannot hand over a response because
\* nobody reads the full response queue.
StopEnds ==
    stopRequested ~> \/ ~started
                     \/ worker = "respond" /\ Len(responseQueue) >= ResponseQueueLen

\* What the documentation says, and the code does not do.

\* claw-core.mdx: a user interrupt is "started after aborting the previous
\* request". The insert queue is freed with whatever is still in it.
InterruptsAreStarted == \A r \in Requests : fate[r] # "lost"

\* claw-core.mdx: a completion observer receives a summary "after each
\* request".  One that fails, is cancelled or reaches the tool iteration limit
\* is answered, and no observer is called.
ObserversSeeEveryRequest == worker = "respond" => observed
=============================================================================
