---------------------------- MODULE AgentService ----------------------------
(***************************************************************************)
(* What claw_core promises the code that submits requests to it, with no   *)
(* queue, lock, phase or task: every accepted request is in one place, one *)
(* request is served at a time, a user interrupt only ever joins a request *)
(* of its own session that is being served, and nothing that joined it     *)
(* outlives the answer.                                                    *)
(***************************************************************************)

CONSTANTS Requests,     \* every request a client may submit
          Interrupts,   \* those flagged CLAW_CORE_REQUEST_FLAG_USER_INTERRUPT
          Sessions,     \* session identifiers
          SessionOf,    \* the session of a request, or None
          None

VARIABLES fate,         \* what has become of each request
          active        \* the request being served, or None

vars == <<fate, active>>

Fates == {"new", "refused", "queued", "active", "inserted", "merged", "lost",
          "dropped", "answered"}

Init == /\ fate = [r \in Requests |-> "new"]
        /\ active = None

\* A submission fails: the core is not running, full, or out of memory.
Refuse(r) == /\ fate[r] = "new"
             /\ fate' = [fate EXCEPT ![r] = "refused"]
             /\ UNCHANGED active

\* A submission waits for its turn.
Enqueue(r) == /\ fate[r] = "new"
              /\ fate' = [fate EXCEPT ![r] = "queued"]
              /\ UNCHANGED active

\* A user interrupt joins the request being served, of its own session.
Insert(r) == /\ fate[r] = "new"
             /\ r \in Interrupts
             /\ active # None
             /\ SessionOf[r] \in Sessions
             /\ SessionOf[r] = SessionOf[active]
             /\ fate' = [fate EXCEPT ![r] = "inserted"]
             /\ UNCHANGED active

Start(r) == /\ active = None
            /\ fate[r] = "queued"
            /\ fate' = [fate EXCEPT ![r] = "active"]
            /\ active' = r

\* A stopping core takes a request off the queue and forgets it.
Drop(r) == /\ active = None
           /\ fate[r] = "queued"
           /\ fate' = [fate EXCEPT ![r] = "dropped"]
           /\ UNCHANGED active

\* Some of the interrupts become part of the conversation of the active
\* request, or are discarded with it: in both cases while it is active.
Settle(S, outcome) ==
    /\ active # None
    /\ \A r \in S : fate[r] = "inserted"
    /\ fate' = [r \in Requests |-> IF r \in S THEN outcome ELSE fate[r]]
    /\ UNCHANGED active

\* The active request is answered, and no interrupt is left behind.
Answer == /\ active # None
          /\ \A r \in Requests : fate[r] # "inserted"
          /\ fate' = [fate EXCEPT ![active] = "answered"]
          /\ active' = None

Next == \/ \E r \in Requests : \/ Refuse(r) \/ Enqueue(r) \/ Insert(r)
                               \/ Start(r) \/ Drop(r)
        \/ \E S \in SUBSET Requests : Settle(S, "merged") \/ Settle(S, "lost")
        \/ Answer

Spec == Init /\ [][Next]_vars
=============================================================================
