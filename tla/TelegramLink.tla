---------------------------- MODULE TelegramLink ----------------------------
(***************************************************************************)
(* cap_im_tg's gateway.  A task polls the server for updates and handles   *)
(* those of an answer one by one: it moves the offset past the update,     *)
(* remembers its id, and publishes the text, or queues the attachment for  *)
(* a second task to download.  The offset of the next poll tells the       *)
(* server to forget what came before.  Nothing of this survives a reset    *)
(* but what the server remembers.                                          *)
(*                                                                         *)
(* The server is outside, and so is the event router, which may refuse.    *)
(* Ids are numbered for each bot.  Starts and stops come one at a time.    *)
(***************************************************************************)
EXTENDS FiniteSets, Integers, Sequences

CONSTANTS Bots,        \* tokens
          MaxId,       \* bound: updates of a bot
          Files,       \* ids of those that carry a file, not a text
          SeenSize,    \* CAP_IM_TG_DEDUP_CACHE_SIZE
          QueueSize,   \* CAP_IM_TG_ATTACHMENT_QUEUE_LEN
          MaxSavers,   \* bound: attachment tasks that late starts leave
          MaxResets    \* bound on resets

ASSUME LinkAssumption == /\ MaxId \in Nat /\ SeenSize \in Nat \ {0}
                         /\ QueueSize \in Nat \ {0} /\ MaxResets \in Nat
                         /\ MaxSavers \in Nat

VARIABLES
    sent,      \* external: per bot, how many updates it has had
    kept,      \* external: per bot, the ids the server has not been told to forget
    token,     \* bot_token
    stopping,  \* stop_requested
    offset,    \* next_update_id
    seen,      \* seen_update_keys, the latest first
    poll,      \* poll_task: where it is, what its request is, its answer
    savers,    \* attachment tasks that run: how many wait, how many are at work
    saver,     \* attachment_task is set
    jobs,      \* attachment_queue: how many jobs; -1 when there is none
    gate,      \* where a start or stop is
    resets,
    \* history:
    handled,   \* updates that were handled, ever
    published, \* updates published since the last reset, or set_token
    twice,     \* an update was published when it had been
    mixed,     \* set_token was called during a poll
    late       \* a start followed a stop that had timed out

linkVars == <<sent, kept, token, stopping, offset, seen, poll, savers, saver, jobs, gate,
              resets, handled, published, twice, mixed, late>>
serverVars == <<sent, kept>>
linkTasks == <<stopping, savers, saver, jobs, gate>>
linkGhosts == <<resets, handled, published, twice, mixed, late>>

NoPoll == [pc |-> "none", bot |-> "none", offset |-> 0, answer |-> <<>>]
NoQueue == -1

LinkInit == /\ sent = [b \in Bots |-> 0] /\ kept = [b \in Bots |-> {}]
            /\ token \in Bots
            /\ stopping = FALSE /\ offset = 0 /\ seen = <<>>
            /\ poll = NoPoll /\ savers = [waiting |-> 0, busy |-> 0]
            /\ saver = FALSE /\ jobs = NoQueue /\ gate = "none" /\ resets = 0
            /\ handled = {} /\ published = {} /\ twice = FALSE /\ mixed = FALSE /\ late = FALSE

Polls(pc) == poll.pc = pc
Works == savers.waiting + savers.busy
InOrder(S) == {s \in [1..Cardinality(S) -> S] :
                  /\ \A u \in S : \E i \in DOMAIN s : s[i] = u
                  /\ \A i, j \in DOMAIN s : i < j => s[i] < s[j]}

-----------------------------------------------------------------------------
(* The poll task.                                                          *)

\* poll_once reads the offset.
PollBegins == /\ Polls("check") /\ ~stopping
              /\ poll' = [poll EXCEPT !.pc = "ask", !.offset = offset]
              /\ UNCHANGED <<serverVars, token, offset, seen, linkTasks, linkGhosts>>

PollEnds == /\ Polls("check") /\ stopping
            /\ poll' = NoPoll
            /\ UNCHANGED <<serverVars, token, offset, seen, linkTasks, linkGhosts>>

\* The request is made with the token as it is now and arrives, or does not.
Ask == /\ Polls("ask")
       /\ \/ /\ poll' = [poll EXCEPT !.pc = "wait", !.bot = token]
             /\ kept' = [kept EXCEPT ![token] = {u \in @ : u >= poll.offset}]
          \/ poll' = [NoPoll EXCEPT !.pc = "check"] /\ UNCHANGED kept
       /\ UNCHANGED <<sent, token, offset, seen, linkTasks, linkGhosts>>

\* The answer, or none that arrives and parses.
Answer == /\ Polls("wait")
          /\ LET new == {u \in kept[poll.bot] : u >= poll.offset}
             IN \/ poll' = [NoPoll EXCEPT !.pc = "check"]
                \/ \E answer \in InOrder(new) :
                      poll' = [poll EXCEPT !.pc = "handle", !.answer = answer]
          /\ UNCHANGED <<serverVars, token, offset, seen, linkTasks, linkGhosts>>

\* queue_attachment; without room the attachment is dropped.
Queued == jobs' = IF jobs # NoQueue /\ jobs < QueueSize THEN jobs + 1 ELSE jobs

MovedVariant(u) == offset
MovedFarVariant(u) == IF u >= offset THEN u + 2 ELSE offset
Moved(u) == IF u >= offset THEN u + 1 ELSE offset

\* handle_update.
Handle ==
    LET u == Head(poll.answer)
        update == <<poll.bot, u>>
        known == \E i \in 1..Len(seen) : seen[i] = u
    IN /\ Polls("handle") /\ poll.answer # <<>>
       /\ poll' = [poll EXCEPT !.answer = Tail(@)]
       /\ offset' = Moved(u)
       /\ seen' = IF known THEN seen
                  ELSE SubSeq(<<u>> \o seen, 1,
                              IF Len(seen) < SeenSize THEN Len(seen) + 1 ELSE SeenSize)
       /\ handled' = handled \cup {update}
       /\ IF known \/ u \notin Files THEN UNCHANGED jobs ELSE Queued
       /\ \/ /\ ~known /\ u \notin Files
             /\ twice' = (twice \/ update \in published)
             /\ published' = published \cup {update}
          \/ UNCHANGED <<twice, published>>   \* known, a file, or the router refuses
       /\ UNCHANGED <<serverVars, token, stopping, savers, saver, gate, resets, mixed, late>>

Handled == /\ Polls("handle") /\ poll.answer = <<>>
           /\ poll' = [NoPoll EXCEPT !.pc = "check"]
           /\ UNCHANGED <<serverVars, token, offset, seen, linkTasks, linkGhosts>>

-----------------------------------------------------------------------------
(* The attachment task.                                                    *)

SaverTakes == /\ savers.waiting > 0 /\ jobs > 0
              /\ jobs' = jobs - 1
              /\ savers' = [waiting |-> savers.waiting - 1, busy |-> savers.busy + 1]
              /\ UNCHANGED <<serverVars, token, stopping, offset, seen, poll, saver, gate,
                             linkGhosts>>

SaverSaves == /\ savers.busy > 0
              /\ savers' = [waiting |-> savers.waiting + 1, busy |-> savers.busy - 1]
              /\ UNCHANGED <<serverVars, token, stopping, offset, seen, poll, saver, jobs, gate,
                             linkGhosts>>

SaverEnds == /\ savers.waiting > 0 /\ jobs <= 0 /\ stopping
             /\ savers' = [savers EXCEPT !.waiting = @ - 1]
             /\ saver' = FALSE
             /\ UNCHANGED <<serverVars, token, stopping, offset, seen, poll, jobs, gate,
                            linkGhosts>>

-----------------------------------------------------------------------------
(* gateway_start, gateway_stop, set_token.                                 *)

\* The attachment task is made, then the poll task.
Start == /\ gate \in {"none", "overdue"} /\ Polls("none")
         /\ stopping' = FALSE
         /\ late' = (late \/ gate = "overdue")
         /\ Works < MaxSavers
         /\ \/ /\ jobs' = IF jobs = NoQueue THEN 0 ELSE jobs
               /\ savers' = [savers EXCEPT !.waiting = @ + 1] /\ saver' = TRUE
               /\ gate' = "start"
            \/ /\ jobs' = NoQueue /\ saver' = FALSE
               /\ gate' = "none"
               /\ UNCHANGED savers
         /\ UNCHANGED <<serverVars, token, offset, seen, poll, resets, handled, published,
                        twice, mixed>>

StartPoll == /\ gate = "start"
             /\ \/ poll' = [NoPoll EXCEPT !.pc = "check"] /\ gate' = "none" /\ UNCHANGED stopping
                \/ stopping' = TRUE /\ gate' = "undo" /\ UNCHANGED poll
             /\ UNCHANGED <<serverVars, token, offset, seen, savers, saver, jobs, linkGhosts>>

\* No poll task: the attachment task is waited for as long as it takes.
UndoStart == /\ gate = "undo" /\ ~saver
             /\ jobs' = NoQueue /\ gate' = "none"
             /\ UNCHANGED <<serverVars, token, stopping, offset, seen, poll, savers, saver,
                            linkGhosts>>

Stop == /\ gate \in {"none", "overdue"} /\ ~Polls("none")
        /\ stopping' = TRUE /\ gate' = "stop"
        /\ UNCHANGED <<serverVars, token, offset, seen, poll, savers, saver, jobs, linkGhosts>>

StopTimesOut == /\ gate = "stop" /\ (~Polls("none") \/ saver)
                /\ gate' = "overdue"
                /\ UNCHANGED <<serverVars, token, stopping, offset, seen, poll, savers, saver,
                               jobs, linkGhosts>>

StoppedVariant == /\ gate = "stop" /\ Polls("none")
                  /\ jobs' = NoQueue /\ gate' = "none"
                  /\ UNCHANGED <<serverVars, token, stopping, offset, seen, poll, savers, saver,
                                 linkGhosts>>
Stopped == /\ gate = "stop" /\ Polls("none") /\ ~saver
           /\ jobs' = NoQueue /\ gate' = "none"
           /\ UNCHANGED <<serverVars, token, stopping, offset, seen, poll, savers, saver,
                          linkGhosts>>

SetToken(b) == /\ token' = b /\ offset' = 0 /\ seen' = <<>>
               /\ published' = {}
               /\ mixed' = (mixed \/ poll.pc \in {"ask", "wait", "handle"})
               /\ UNCHANGED <<serverVars, poll, linkTasks, resets, handled, twice, late>>

-----------------------------------------------------------------------------
(* Outside.                                                                *)

\* Somebody writes to a bot.
Arrives(b) == /\ sent[b] < MaxId
              /\ sent' = [sent EXCEPT ![b] = @ + 1]
              /\ kept' = [kept EXCEPT ![b] = @ \cup {sent[b] + 1}]
              /\ UNCHANGED <<token, offset, seen, poll, linkTasks, linkGhosts>>

\* The token is loaded again from the settings.
LinkReset == /\ resets < MaxResets /\ resets' = resets + 1
             /\ stopping' = FALSE /\ offset' = 0 /\ seen' = <<>>
             /\ poll' = NoPoll /\ savers' = [waiting |-> 0, busy |-> 0]
             /\ saver' = FALSE /\ jobs' = NoQueue /\ gate' = "none"
             /\ published' = {}
             /\ UNCHANGED <<serverVars, token, handled, twice, mixed, late>>

LinkNext == \/ PollBegins \/ PollEnds \/ Ask \/ Answer \/ Handle \/ Handled
            \/ SaverTakes \/ SaverSaves \/ SaverEnds
            \/ Start \/ StartPoll \/ UndoStart \/ Stop \/ StopTimesOut \/ Stopped
            \/ LinkReset
            \/ \E b \in Bots : SetToken(b) \/ Arrives(b)

LinkSpec == LinkInit /\ [][LinkNext]_linkVars

-----------------------------------------------------------------------------
(* Properties.                                                             *)

\* The state stays within its types.
LinkTypeOK ==
    /\ \A b \in Bots : sent[b] <= MaxId /\ kept[b] \subseteq 1..sent[b]
    /\ token \in Bots /\ offset \in 0..(MaxId + 2) /\ Len(seen) <= SeenSize
    /\ stopping \in BOOLEAN /\ saver \in BOOLEAN
    /\ poll.pc \in {"none", "check", "ask", "wait", "handle"}
    /\ savers \in [waiting : Nat, busy : Nat]
    /\ jobs \in -1..QueueSize
    /\ gate \in {"none", "start", "undo", "stop", "overdue"}

\* What the server has been told to forget was handled, before or after any
\* resets and stops, unless the token was ever changed during a poll, when the
\* answer to the old bot moves the new bot's offset.
ForgottenWasHandled ==
    ~mixed => \A b \in Bots : \A u \in 1..sent[b] : u \in kept[b] \/ <<b, u>> \in handled

\* An update is published once between two resets, although the server sends
\* it again until it is told to forget it.
PublishedOnce == ~mixed => ~twice

\* The attachment task's queue is there as long as the task, unless a start
\* followed a stop that had timed out.
QueueOutlivesItsTask == ~late /\ Works > 0 => jobs # NoQueue
=============================================================================
