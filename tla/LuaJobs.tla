------------------------------ MODULE LuaJobs -------------------------------
(***************************************************************************)
(* cap_lua_async.c: Lua scripts run as jobs, each in a task of its own.    *)
(* A fixed table holds the jobs and their results; a binary semaphore per  *)
(* slot tells a waiter that the slot's job has ended.  Callers submit jobs *)
(* (some replace a running job they conflict with, some wait for their own *)
(* job's result) and stop jobs, all at once.                               *)
(*                                                                         *)
(* One action is one region under s_job_lock, one semaphore operation, or  *)
(* the creation of a task.  The regions are short, so the bounded waits    *)
(* for the lock itself are taken to succeed.  Every job is submitted once: *)
(* its identity is its job_id.                                             *)
(***************************************************************************)
EXTENDS Naturals, FiniteSets

CONSTANTS Jobs,       \* the jobs submitted
          Keys,       \* names and exclusive groups each job claims
          Replacing,  \* submitted with replace = true
          Sync,       \* submitted by cap_lua_async_run_and_wait
          Stoppers,   \* callers of cap_lua_async_stop_job
          None,
          MaxJobs,    \* CAP_LUA_ASYNC_MAX_JOBS
          MaxConcurrent

Callers == Jobs \cup Stoppers   \* a job stands for the task that submits it
Slots == 1..MaxJobs

ASSUME JobsAssumption == /\ Replacing \cup Sync \subseteq Jobs
                         /\ None \notin Jobs
                         /\ Jobs \cap Stoppers = {}
                         /\ \A j \in Jobs : IsFiniteSet(Keys[j])
ASSUME BoundsAssumption == /\ MaxConcurrent \in Nat \ {0}
                           /\ MaxJobs \in Nat
                           /\ MaxConcurrent <= MaxJobs

VARIABLES
    jobs,     \* s_jobs: per slot its job, status, sync_waiter, stop_requested
    sem,      \* s_slot_terminal_sem
    running,  \* s_running_jobs
    call,     \* per caller: where it is, and its local variables
    task      \* per job: its task

vars == <<jobs, sem, running, call, task>>

Terminal == {"done", "failed", "stopped"}   \* a timeout counts as failed
Unused == [job |-> None, status |-> "queued", waiter |-> FALSE, stop |-> FALSE]
NoCall == [pc |-> "idle", why |-> "none", slot |-> 0, target |-> None,
           expired |-> FALSE, retried |-> FALSE, result |-> "none"]

Init == /\ jobs = [s \in Slots |-> Unused]
        /\ sem = [s \in Slots |-> FALSE]
        /\ running = 0
        /\ call = [p \in Callers |-> NoCall]
        /\ task = [j \in Jobs |-> "none"]

Used(s) == jobs[s].job # None
Ended(s) == jobs[s].status \in Terminal
Active(s) == Used(s) /\ ~Ended(s)
Full == running >= MaxConcurrent
CountedOff == IF running > 0 THEN running - 1 ELSE 0
Clashing(j) == {s \in Slots : Active(s) /\ Keys[jobs[s].job] \cap Keys[j] # {}}

At(p, pc) == call[p].pc = pc
Goes(p, pc) == call' = [call EXCEPT ![p].pc = pc]
Returns(p, r) ==
    call' = [call EXCEPT ![p] = [pc |-> "idle", why |-> "none", slot |-> call[p].slot,
                                 target |-> None, expired |-> FALSE, retried |-> FALSE,
                                 result |-> r]]
Aims(p, why, s, pc) ==
    call' = [call EXCEPT ![p] = [pc |-> pc, why |-> why, slot |-> s,
                                 target |-> jobs[s].job, expired |-> call[p].expired,
                                 retried |-> call[p].retried, result |-> call[p].result]]

-----------------------------------------------------------------------------
(* cap_lua_async_submit.                                                   *)

Submit(j) == /\ call[j] = NoCall   \* each job once
             /\ Goes(j, "check")
             /\ UNCHANGED <<jobs, sem, running, task>>

\* The pre-flight loop: a conflict is refused or its holder stopped.
Check(j) == /\ At(j, "check")
            /\ IF Clashing(j) # {}
               THEN IF j \in Replacing
                    THEN \E s \in Clashing(j) : Aims(j, "replace", s, "stopping")
                    ELSE Returns(j, "refused")
               ELSE IF Full THEN Returns(j, "refused") ELSE Goes(j, "commit")
            /\ UNCHANGED <<jobs, sem, running, task>>

\* cap_lua_find_reusable_slot_locked: the first unused slot met before the
\* loop ends, else the oldest ended one no caller waits for.  finished_at is
\* wall time in seconds: which one is the oldest is left open.
ReusableWaitedVariant(s) == Ended(s)
ReusableStoppedVariant(s) == (Ended(s) \/ jobs[s].stop) /\ ~jobs[s].waiter
Reusable(s) == Ended(s) /\ ~jobs[s].waiter
ReusableSlots == LET unused == {s \in Slots : ~Used(s)}
                 IN IF unused # {} THEN {s \in unused : \A u \in unused : s <= u}
                                   ELSE {s \in Slots : Reusable(s)}

\* The second look under the lock, and the claim of a slot.
ClashingAgainVariant(j) == FALSE
ClashingAgain(j) == Clashing(j) # {}

Commit(j) ==
    /\ At(j, "commit")
    /\ \/ Returns(j, "refused") /\ UNCHANGED <<jobs, sem, running>>    \* no memory
       \/ /\ Full
          /\ Returns(j, "refused") /\ UNCHANGED <<jobs, sem, running>>
       \/ /\ ~Full /\ ClashingAgain(j)
          /\ IF call[j].retried THEN Returns(j, "refused")
             ELSE call' = [call EXCEPT ![j].pc = "check", ![j].retried = TRUE]
          /\ UNCHANGED <<jobs, sem, running>>
       \/ /\ ~Full /\ ~ClashingAgain(j)
          /\ \E s \in ReusableSlots :
                /\ jobs' = [jobs EXCEPT ![s] = [job |-> j, status |-> "queued",
                                                waiter |-> j \in Sync, stop |-> FALSE]]
                /\ sem' = [sem EXCEPT ![s] = FALSE]
                /\ call' = [call EXCEPT ![j].pc = "spawn", ![j].slot = s]
          /\ running' = running + 1
       \/ /\ ~Full /\ ~ClashingAgain(j)                  \* no memory for its copy
          /\ \E s \in ReusableSlots : /\ jobs' = [jobs EXCEPT ![s] = Unused]
                                     /\ sem' = [sem EXCEPT ![s] = FALSE]
          /\ Returns(j, "refused")
          /\ UNCHANGED running
    /\ UNCHANGED task

\* The task is created, or there is no memory for its stack.
Spawn(j) == /\ At(j, "spawn")
            /\ \/ task' = [task EXCEPT ![j] = "runs"] /\ Goes(j, "mark")
               \/ Goes(j, "unspawn") /\ UNCHANGED task
            /\ UNCHANGED <<jobs, sem, running>>

UnspawnVariant(j) == /\ At(j, "unspawn")
                     /\ jobs' = [jobs EXCEPT ![call[j].slot] = Unused]
                     /\ Returns(j, "refused")
                     /\ UNCHANGED <<sem, task, running>>
Unspawn(j) == /\ At(j, "unspawn")
              /\ jobs' = [jobs EXCEPT ![call[j].slot] = Unused]
              /\ running' = CountedOff
              /\ Returns(j, "refused")
              /\ UNCHANGED <<sem, task>>

\* The job may have ended, and its slot have another job, before its
\* submitter marks it running.
Marks(j) == jobs[call[j].slot].job = j /\ jobs[call[j].slot].status = "queued"

Mark(j) == /\ At(j, "mark")
           /\ jobs' = IF Marks(j) THEN [jobs EXCEPT ![call[j].slot].status = "running"]
                                  ELSE jobs
           /\ IF j \in Sync THEN Goes(j, "locate") ELSE Returns(j, "submitted")
           /\ UNCHANGED <<sem, running, task>>

-----------------------------------------------------------------------------
(* The job's task.                                                         *)

\* cap_lua_finish_job: the outcome under the lock, the signal after it.
Finish(j) ==
    /\ task[j] = "runs"
    /\ \E s \in {t \in Slots : jobs[t].job = j} :
          \E o \in (IF jobs[s].stop THEN {"stopped"} ELSE {"done", "failed"}) :
              jobs' = [jobs EXCEPT ![s].status = o]
    /\ running' = CountedOff
    /\ task' = [task EXCEPT ![j] = "signals"]
    /\ UNCHANGED <<sem, call>>

Signal(j) == /\ task[j] = "signals"
             /\ sem' = [sem EXCEPT ![call[j].slot] = TRUE]
             /\ task' = [task EXCEPT ![j] = "ended"]
             /\ UNCHANGED <<jobs, running, call>>

-----------------------------------------------------------------------------
(* cap_lua_stop_slot_and_wait and cap_lua_wait_for_terminal, on behalf of  *)
(* a submitter that replaces, of stop_job, or of run_and_wait.             *)

\* How the caller goes on, told whether the job has ended.
Told(p, ended) ==
    CASE call[p].why = "replace"  -> IF ended THEN Goes(p, "check") ELSE Returns(p, "timeout")
      [] call[p].why = "stop"     -> Returns(p, IF ended THEN "stopped" ELSE "timeout")
      [] call[p].why = "sync"     -> Goes(p, "collect")
      [] call[p].why = "syncstop" -> Goes(p, "release")

\* The request: of the job found there before, if it is still there.
RequestStop(p) ==
    LET s == call[p].slot
    IN /\ At(p, "stopping")
       /\ IF jobs[s].job = call[p].target /\ Active(s)
          THEN jobs' = [jobs EXCEPT ![s].stop = TRUE] /\ Goes(p, "peek")
          ELSE Told(p, TRUE) /\ UNCHANGED jobs
       /\ UNCHANGED <<sem, running, task>>

\* cap_lua_slot_is_terminal, before the wait and after it.
Peek(p) == /\ At(p, "peek")
           /\ IF Active(call[p].slot) THEN Goes(p, "await") ELSE Told(p, TRUE)
           /\ UNCHANGED <<jobs, sem, running, task>>

Woken(p) == /\ At(p, "await") /\ sem[call[p].slot]
            /\ sem' = [sem EXCEPT ![call[p].slot] = FALSE]
            /\ Goes(p, "verify")
            /\ UNCHANGED <<jobs, running, task>>

ExpireVariant(p) == FALSE /\ UNCHANGED vars
Expire(p) == /\ At(p, "await") /\ ~sem[call[p].slot]
             /\ call' = [call EXCEPT ![p].pc = "verify", ![p].expired = TRUE]
             /\ UNCHANGED <<jobs, sem, running, task>>

Verify(p) == /\ At(p, "verify")
             /\ Told(p, ~Active(call[p].slot))
             /\ UNCHANGED <<jobs, sem, running, task>>

-----------------------------------------------------------------------------
(* cap_lua_async_run_and_wait after its submit.                            *)

Locate(j) == /\ At(j, "locate")
             /\ IF ~ \E s \in Slots : jobs[s].job = j THEN Returns(j, "lost")
                ELSE \E s \in Slots : jobs[s].job = j /\
                         Aims(j, "sync", s, IF Ended(s) THEN "collect" ELSE "peek")
             /\ UNCHANGED <<jobs, sem, running, task>>

Collect(j) == LET s == call[j].slot
              IN /\ At(j, "collect")
                 /\ IF jobs[s].job = j /\ Ended(s)
                    THEN Goes(j, "clear")
                    ELSE call' = [call EXCEPT ![j].pc = "stopping", ![j].why = "syncstop"]
                 /\ UNCHANGED <<jobs, sem, running, task>>

\* The result was copied out: the slot is given back.
Clear(j) == LET s == call[j].slot
            IN /\ At(j, "clear")
               /\ jobs' = IF jobs[s].job = j THEN [jobs EXCEPT ![s] = Unused] ELSE jobs
               /\ Returns(j, "collected")
               /\ UNCHANGED <<sem, running, task>>

\* The caller gives up: the job's result is nobody's.
ReleaseVariant(j) == /\ At(j, "release")
                     /\ Returns(j, "timeout")
                     /\ UNCHANGED <<jobs, sem, running, task>>
Release(j) == LET s == call[j].slot
              IN /\ At(j, "release")
                 /\ jobs' = IF jobs[s].job = j THEN [jobs EXCEPT ![s].waiter = FALSE] ELSE jobs
                 /\ Returns(j, "timeout")
                 /\ UNCHANGED <<sem, running, task>>

-----------------------------------------------------------------------------
(* cap_lua_async_stop_job, and each turn of stop_all_jobs.                 *)

StopJob(p) == /\ call[p] = NoCall
              /\ \E s \in Slots : Used(s) /\ Aims(p, "stop", s, "stopping")
              /\ UNCHANGED <<jobs, sem, running, task>>

-----------------------------------------------------------------------------

WaitStep(p) == RequestStop(p) \/ Peek(p) \/ Woken(p) \/ Expire(p) \/ Verify(p)
CallStep(j) == \/ Check(j) \/ Commit(j) \/ Spawn(j) \/ Unspawn(j) \/ Mark(j)
               \/ Locate(j) \/ Collect(j) \/ Clear(j) \/ Release(j)

Next == \/ \E j \in Jobs : Submit(j) \/ CallStep(j) \/ Finish(j) \/ Signal(j)
        \/ \E p \in Callers : WaitStep(p)
        \/ \E p \in Stoppers : StopJob(p)

Spec == Init /\ [][Next]_vars

\* Callers run; a script need not end.
FairSpec == Spec /\ (\A p \in Callers : WF_vars(WaitStep(p)))
                 /\ (\A j \in Jobs : WF_vars(CallStep(j)))

-----------------------------------------------------------------------------
(* Properties.                                                             *)

Statuses == {"queued", "running"} \cup Terminal

\* The state stays within its types, the count within the limit, and a slot
\* that is not used is cleared.
TypeOK ==
    /\ \A s \in Slots : ~Used(s) => jobs[s] = Unused
    /\ jobs \in [Slots -> [job : Jobs \cup {None}, status : Statuses,
                           waiter : BOOLEAN, stop : BOOLEAN]]
    /\ sem \in [Slots -> BOOLEAN]
    /\ running \in 0..MaxConcurrent
    /\ \A p \in Callers : call[p].slot \in 0..MaxJobs
    /\ task \in [Jobs -> {"none", "runs", "signals", "ended"}]

\* s_running_jobs is the number of jobs in the table that have not ended,
\* on every way a submission can fail and a job can end: a count that
\* drifts up would refuse every later job.
RunningIsExact == running = Cardinality({s \in Slots : Active(s)})

\* Two jobs with a name or an exclusive group in common never run at once,
\* although a submission looks twice with the lock released in between.
OneHolderPerKey ==
    \A s, t \in Slots : s # t /\ Active(s) /\ Active(t) =>
        Keys[jobs[s].job] \cap Keys[jobs[t].job] = {}

\* A running script's stop flag is in its own slot: the slot is not given
\* to another job while the task holds a pointer into it.
RunningOwnsSlot == \A j \in Jobs : task[j] = "runs" => jobs[call[j].slot].job = j

\* The result of a job someone waits for is still there when it is collected.
ResultIsKept == \A j \in Sync : /\ call[j].pc \in {"peek", "await", "verify", "collect"}
                                /\ call[j].why = "sync"
                                => jobs[call[j].slot].job = j

\* Whoever gives up or fails, no slot stays claimed for a waiter that is gone.
SlotsComeBack ==
    (\A p \in Callers : call[p].pc = "idle") => \A s \in Slots : Used(s) /\ Ended(s) => Reusable(s)

\* Every submission, wait and stop returns, whether or not scripts end.
CallsReturn == \A p \in Callers : call[p].pc # "idle" ~> call[p].pc = "idle"

\* What the code says of itself and does not keep.

\* "Wait for a slot to leave RUNNING/QUEUED. Returns true if terminal in
\* time": run_and_wait gives a job up only when its time is over.
SyncWaitsItsTime == \A j \in Sync : call[j].why = "syncstop" => call[j].expired
=============================================================================
