--------------------------- MODULE LuaJobs_proofs ---------------------------
(***************************************************************************)
(* Proofs about LuaJobs, for any jobs, keys, callers and sizes of the      *)
(* table.                                                                  *)
(***************************************************************************)
EXTENDS LuaJobs, FiniteSetTheorems, TLAPS

USE JobsAssumption, BoundsAssumption

Waits == {"stopping", "peek", "await", "verify"}
Holding == {"spawn", "unspawn", "mark", "locate", "collect", "clear", "release"}
Pcs == {"idle", "check", "commit"} \cup Waits \cup Holding
Reasons == {"none", "replace", "stop", "sync", "syncstop"}
Results == {"none", "refused", "submitted", "timeout", "stopped", "lost", "collected"}

CallRecs == [pc : Pcs, why : Reasons, slot : 0..MaxJobs, target : Jobs \cup {None},
             expired : BOOLEAN, retried : BOOLEAN, result : Results]
SlotRecs == [job : Jobs \cup {None}, status : Statuses, waiter : BOOLEAN, stop : BOOLEAN]

CallTypes == call \in [Callers -> CallRecs]
SlotTypes == jobs \in [Slots -> SlotRecs]

-----------------------------------------------------------------------------
(* What the ways a caller goes on make of its record.                      *)

OthersStay(p) == \A q \in Callers : q # p => call'[q] = call[q]

LEMMA GoesEffect ==
  ASSUME CallTypes, NEW p \in Callers, NEW pc \in Pcs, Goes(p, pc)
  PROVE  /\ CallTypes' /\ OthersStay(p)
         /\ call'[p].pc = pc /\ call'[p].why = call[p].why
         /\ call'[p].slot = call[p].slot /\ call'[p].result = call[p].result
  BY DEF CallTypes, CallRecs, Goes, OthersStay

LEMMA ReturnsEffect ==
  ASSUME CallTypes, NEW p \in Callers, NEW r \in Results, Returns(p, r)
  PROVE  /\ CallTypes' /\ OthersStay(p)
         /\ call'[p].pc = "idle" /\ call'[p].why = "none"
         /\ call'[p].slot = call[p].slot /\ call'[p].result = r
  BY DEF CallTypes, CallRecs, Returns, OthersStay, Pcs, Reasons

LEMMA AimsEffect ==
  ASSUME CallTypes, SlotTypes, NEW p \in Callers, NEW why \in Reasons, NEW s \in Slots,
         NEW pc \in Pcs, Aims(p, why, s, pc)
  PROVE  /\ CallTypes' /\ OthersStay(p)
         /\ call'[p].pc = pc /\ call'[p].why = why
         /\ call'[p].slot = s /\ call'[p].result = call[p].result
  BY DEF CallTypes, CallRecs, SlotTypes, SlotRecs, Slots, Aims, OthersStay

LEMMA RetriesEffect ==
  ASSUME CallTypes, NEW p \in Callers,
         call' = [call EXCEPT ![p].pc = "check", ![p].retried = TRUE]
  PROVE  /\ CallTypes' /\ OthersStay(p)
         /\ call'[p].pc = "check" /\ call'[p].why = call[p].why
         /\ call'[p].slot = call[p].slot /\ call'[p].result = call[p].result
  BY ZenonT(40) DEF CallTypes, CallRecs, OthersStay, Pcs

LEMMA ClaimsEffect ==
  ASSUME CallTypes, NEW p \in Callers, NEW s \in Slots,
         call' = [call EXCEPT ![p].pc = "spawn", ![p].slot = s]
  PROVE  /\ CallTypes' /\ OthersStay(p)
         /\ call'[p].pc = "spawn" /\ call'[p].why = call[p].why
         /\ call'[p].slot = s /\ call'[p].result = call[p].result
  <1>1. s \in 0..MaxJobs /\ "spawn" \in Pcs
    BY DEF Slots, Pcs, Holding
  <1> QED BY <1>1, ZenonT(40) DEF CallTypes, CallRecs, OthersStay

LEMMA ExpiresEffect ==
  ASSUME CallTypes, NEW p \in Callers,
         call' = [call EXCEPT ![p].pc = "verify", ![p].expired = TRUE]
  PROVE  /\ CallTypes' /\ OthersStay(p)
         /\ call'[p].pc = "verify" /\ call'[p].why = call[p].why
         /\ call'[p].slot = call[p].slot /\ call'[p].result = call[p].result
  BY ZenonT(40) DEF CallTypes, CallRecs, OthersStay, Pcs, Waits

LEMMA GivesUpEffect ==
  ASSUME CallTypes, NEW p \in Callers,
         call' = [call EXCEPT ![p].pc = "stopping", ![p].why = "syncstop"]
  PROVE  /\ CallTypes' /\ OthersStay(p)
         /\ call'[p].pc = "stopping" /\ call'[p].why = "syncstop"
         /\ call'[p].slot = call[p].slot /\ call'[p].result = call[p].result
  BY ZenonT(40) DEF CallTypes, CallRecs, OthersStay, Pcs, Waits, Reasons

-----------------------------------------------------------------------------
(* The inductive invariant. A job is unclaimed until its submitter has a    *)
(* slot for it: then no slot holds it and it has no task.  From there on    *)
(* its submitter's slot is the only one that can hold the job, which is     *)
(* what makes the search for "the slot of this job" find one at most.       *)

Unclaimed(j) == \/ call[j].pc = "idle" /\ call[j].result = "none"
                \/ call[j].pc \in {"check", "commit"}
                \/ call[j].pc \in Waits /\ call[j].why = "replace"

\* run_and_wait is between its submission and its return.
InSync(j) == \/ call[j].pc \in Holding
             \/ call[j].pc \in Waits /\ call[j].why \in {"sync", "syncstop"}

Homes == \A s \in Slots : Used(s) => ~Unclaimed(jobs[s].job) /\ call[jobs[s].job].slot = s

\* A slot is not given away while its job's task is to come, or runs.
Spawns == \A j \in Jobs : call[j].pc \in {"spawn", "unspawn"} =>
              /\ call[j].slot \in Slots /\ jobs[call[j].slot].job = j
              /\ jobs[call[j].slot].status = "queued" /\ task[j] = "none"
Runs == \A j \in Jobs : task[j] = "runs" =>
              /\ call[j].slot \in Slots /\ jobs[call[j].slot].job = j
              /\ ~Ended(call[j].slot)
Tasks == \A j \in Jobs : /\ task[j] # "none" => ~Unclaimed(j) /\ call[j].slot \in Slots
                         /\ call[j].pc = "mark" => task[j] # "none"

\* The waiter's mark is set exactly while someone waits, and it keeps the slot.
Waiters == \A j \in Sync : InSync(j) =>
              /\ call[j].slot \in Slots /\ jobs[call[j].slot].job = j
              /\ jobs[call[j].slot].waiter
Waited == \A s \in Slots : jobs[s].waiter => jobs[s].job \in Sync /\ InSync(jobs[s].job)

\* Who waits for what.
WhyOf(p) ==
    /\ p \notin Sync => call[p].pc \notin {"locate", "collect", "clear", "release"}
    /\ call[p].pc \in Waits =>
          /\ call[p].slot \in Slots
          /\ \/ call[p].why = "replace" /\ p \in Jobs
             \/ call[p].why = "stop" /\ p \in Stoppers
             \/ call[p].why \in {"sync", "syncstop"} /\ p \in Sync
    /\ p \in Stoppers => call[p].pc \in Waits \cup {"idle"}
Whys == \A p \in Callers : WhyOf(p)

\* A result that was copied out stays as it is until its slot is cleared.
Clears == \A j \in Jobs : call[j].pc = "clear" => Ended(call[j].slot)

LuaTypes == /\ CallTypes /\ SlotTypes /\ task \in [Jobs -> {"none", "runs", "signals", "ended"}]
            /\ sem \in [Slots -> BOOLEAN]
            /\ \A s \in Slots : ~Used(s) => jobs[s] = Unused
Table == Homes /\ Spawns /\ Runs /\ Tasks /\ Waiters /\ Waited /\ Whys /\ Clears
Count == running \in 0..MaxConcurrent /\ RunningIsExact
LuaInv == LuaTypes /\ Table /\ Count /\ OneHolderPerKey

ActiveSlots == {s \in Slots : Active(s)}

LEMMA SlotsAreFinite == IsFiniteSet(Slots) /\ Slots \subseteq Nat
  BY FS_Interval DEF Slots

LEMMA LuaInit == Init => LuaInv
  <1> SUFFICES ASSUME Init PROVE LuaInv
    OBVIOUS
  <1>1. \A s \in Slots : jobs[s] = Unused /\ ~Used(s)
    BY DEF Init, Used, Unused
  <1>2. \A p \in Callers : call[p] = NoCall
    BY DEF Init
  <1>3. NoCall \in CallRecs
    BY DEF NoCall, CallRecs, Pcs, Reasons, Results
  <1>4. Unused \in SlotRecs
    BY DEF Unused, SlotRecs, Statuses
  <1>5. LuaTypes
    BY <1>1, <1>3, <1>4 DEF Init, LuaTypes, CallTypes, SlotTypes
  <1>6. \A p \in Callers : call[p].pc = "idle" /\ call[p].result = "none"
    BY <1>2 DEF NoCall
  <1>7. \A s \in Slots : ~jobs[s].waiter
    BY <1>1 DEF Unused
  <1>8. \A j \in Jobs : task[j] = "none" /\ j \in Callers
    BY DEF Init, Callers
  <1>9. Homes /\ Spawns /\ Runs /\ Tasks
    BY <1>1, <1>6, <1>8 DEF Homes, Spawns, Runs, Tasks
  <1>10. Waiters /\ Waited /\ Whys /\ Clears
    BY <1>6, <1>7, <1>8 DEF Waiters, Waited, Whys, WhyOf, InSync, Holding, Waits, Clears
  <1>11. ActiveSlots = {}
    BY <1>1 DEF ActiveSlots, Active
  <1>12. Count
    <2>1. running = Cardinality(ActiveSlots)
      BY <1>11, FS_EmptySet DEF Init
    <2>2. running \in 0..MaxConcurrent
      BY DEF Init
    <2> QED BY <2>1, <2>2 DEF Count, RunningIsExact, ActiveSlots
  <1>13. OneHolderPerKey
    BY <1>1 DEF OneHolderPerKey, Active
  <1> QED BY <1>5, <1>9, <1>10, <1>12, <1>13 DEF LuaInv, Table

-----------------------------------------------------------------------------
(* The steps that change nothing but a caller's own record. *)

CallMoves(p) ==
    /\ CallTypes' /\ OthersStay(p)
    /\ p \in Jobs => /\ Unclaimed(p)' => Unclaimed(p)
                     /\ ~Unclaimed(p) => call'[p].slot = call[p].slot
                     /\ call'[p].pc \notin {"spawn", "unspawn", "mark"}
    /\ p \in Sync => (InSync(p)' <=> InSync(p))
    /\ WhyOf(p)'
    /\ call'[p].pc = "clear" => Ended(call'[p].slot)

LEMMA CallOnly ==
  ASSUME LuaInv, NEW p \in Callers, CallMoves(p), UNCHANGED <<jobs, running, task>>,
         sem' \in [Slots -> BOOLEAN]
  PROVE  LuaInv'
  <1> USE DEF LuaInv, Table
  <1>a. ASSUME NEW q \in Callers, q # p
        PROVE  /\ call'[q] = call[q]
               /\ Unclaimed(q)' <=> Unclaimed(q)
               /\ InSync(q)' <=> InSync(q)
               /\ WhyOf(q) => WhyOf(q)'
    <2>1. call'[q] = call[q]
      BY <1>a DEF CallMoves, OthersStay
    <2> QED BY <2>1 DEF Unclaimed, InSync, WhyOf
  <1>b. \A s \in Slots : Used(s) => jobs[s].job \in Jobs
    BY DEF LuaTypes, SlotTypes, SlotRecs, Used
  <1>e. Jobs \subseteq Callers /\ Sync \subseteq Jobs
    BY DEF Callers
  <1>c. ASSUME NEW j \in Jobs
        PROVE  /\ Unclaimed(j)' => Unclaimed(j)
               /\ ~Unclaimed(j) => call'[j].slot = call[j].slot
               /\ call'[j].pc \in {"spawn", "unspawn", "mark"} => call'[j] = call[j]
               /\ j \in Sync => (InSync(j)' <=> InSync(j))
    <2>1. CASE j = p
      BY <2>1 DEF CallMoves
    <2>2. CASE j # p
      BY <1>a, <1>e, <2>2
    <2> QED BY <2>1, <2>2
  <1>d. \A s \in Slots : Used(s)' = Used(s) /\ Ended(s)' = Ended(s) /\ Active(s)' = Active(s)
    BY DEF Used, Ended, Active
  <1>1. LuaTypes'
    BY <1>d DEF LuaTypes, CallMoves, SlotTypes
  <1>2. Homes'
    BY <1>b, <1>c, <1>d DEF Homes
  <1>3. Spawns' /\ Runs' /\ Tasks'
    <2> SUFFICES ASSUME NEW j \in Jobs
                 PROVE  /\ call'[j].pc \in {"spawn", "unspawn"} =>
                              /\ call'[j].slot \in Slots /\ jobs[call'[j].slot].job = j
                              /\ jobs[call'[j].slot].status = "queued" /\ task[j] = "none"
                        /\ task[j] = "runs" =>
                              /\ call'[j].slot \in Slots /\ jobs[call'[j].slot].job = j
                              /\ ~Ended(call'[j].slot)
                        /\ task[j] # "none" => ~Unclaimed(j)' /\ call'[j].slot \in Slots
                        /\ call'[j].pc = "mark" => task[j] # "none"
      BY DEF Spawns, Runs, Tasks, Ended
    <2>1. call'[j].pc \in {"spawn", "unspawn", "mark"} => call'[j] = call[j]
      BY <1>c
    <2>2. task[j] # "none" => ~Unclaimed(j)' /\ call'[j].slot = call[j].slot
      BY <1>c DEF Tasks
    <2> QED BY <2>1, <2>2 DEF Spawns, Runs, Tasks
  <1>5. \A j \in Sync : InSync(j) => ~Unclaimed(j)
    BY DEF InSync, Unclaimed, Holding, Waits
  <1>6. Waiters' /\ Waited'
    BY <1>c, <1>5 DEF Waiters, Waited
  <1>7. Whys'
    <2> SUFFICES ASSUME NEW q \in Callers PROVE WhyOf(q)'
      BY DEF Whys
    <2>1. CASE q = p
      BY <2>1 DEF CallMoves
    <2>2. CASE q # p
      BY <1>a, <2>2 DEF Whys
    <2> QED BY <2>1, <2>2
  <1>8. Count' /\ OneHolderPerKey'
    BY <1>d DEF Count, RunningIsExact, OneHolderPerKey
  <1>9. Clears'
    <2> SUFFICES ASSUME NEW j \in Jobs, call'[j].pc = "clear"
                 PROVE  jobs[call'[j].slot].status \in Terminal
      BY DEF Clears, Ended
    <2>1. CASE j = p
      BY <2>1 DEF CallMoves, Ended
    <2>2. CASE j # p
      BY <1>a, <1>e, <2>2 DEF Clears, Ended
    <2> QED BY <2>1, <2>2
  <1> QED BY <1>1, <1>2, <1>3, <1>6, <1>7, <1>8, <1>9

LEMMA ToldMoves ==
  ASSUME LuaInv, NEW p \in Callers, call[p].pc \in Waits, NEW ended \in BOOLEAN,
         Told(p, ended)
  PROVE  CallMoves(p)
  <1> USE DEF CallMoves, Unclaimed, InSync, WhyOf, Holding, Waits
  <1>1. WhyOf(p) /\ CallTypes /\ Sync \subseteq Jobs /\ Jobs \cap Stoppers = {}
    BY DEF LuaInv, Table, Whys, LuaTypes
  <1>2. {"check", "collect", "release"} \subseteq Pcs /\ {"timeout", "stopped"} \subseteq Results
    BY DEF Pcs, Results
  <1>3. CASE call[p].why = "replace"
    <2>1. Goes(p, "check") \/ Returns(p, "timeout")
      BY <1>3 DEF Told
    <2>2. CASE Goes(p, "check")
      <3>1. /\ CallTypes' /\ OthersStay(p) /\ call'[p].pc = "check"
            /\ call'[p].slot = call[p].slot
        BY <1>1, <1>2, <2>2, GoesEffect
      <3> QED BY <1>1, <1>3, <3>1
    <2>3. CASE Returns(p, "timeout")
      <3>1. /\ CallTypes' /\ OthersStay(p) /\ call'[p].pc = "idle"
            /\ call'[p].slot = call[p].slot
        BY <1>1, <1>2, <2>3, ReturnsEffect
      <3> QED BY <1>1, <1>3, <3>1
    <2> QED BY <2>1, <2>2, <2>3
  <1>4. CASE call[p].why = "stop"
    <2>1. PICK r \in {"timeout", "stopped"} : Returns(p, r)
      BY <1>4 DEF Told
    <2>2. CallTypes' /\ OthersStay(p) /\ call'[p].pc = "idle"
      BY <1>1, <1>2, <2>1, ReturnsEffect
    <2> QED BY <1>1, <1>4, <2>2
  <1>5. CASE call[p].why \in {"sync", "syncstop"}
    <2>1. PICK pc \in {"collect", "release"} : Goes(p, pc)
      BY <1>5 DEF Told
    <2>2. /\ CallTypes' /\ OthersStay(p) /\ call'[p].pc = pc
          /\ call'[p].slot = call[p].slot
      BY <1>1, <1>2, <2>1, GoesEffect
    <2> QED BY <1>1, <1>5, <2>2
  <1> QED BY <1>1, <1>3, <1>4, <1>5

\* The steps of a submission that claim nothing.
LEMMA SubmitMoves ==
  ASSUME LuaInv, NEW j \in Jobs,
         \/ Submit(j) \/ Check(j)
         \/ /\ At(j, "commit")
            /\ \/ Returns(j, "refused")
               \/ call' = [call EXCEPT ![j].pc = "check", ![j].retried = TRUE]
  PROVE  CallMoves(j)
  <1> USE DEF CallMoves, Unclaimed, InSync, WhyOf, Holding, Waits
  <1>1. WhyOf(j) /\ CallTypes /\ SlotTypes /\ j \in Callers /\ j \notin Stoppers
    BY DEF LuaInv, Table, Whys, LuaTypes, Callers
  <1>2. {"check", "commit", "stopping"} \subseteq Pcs /\ "refused" \in Results /\ "replace" \in Reasons
    BY DEF Pcs, Results, Reasons
  <1>3. Unclaimed(j) /\ ~InSync(j)
    BY DEF Submit, Check, At, NoCall
  <1>4. ASSUME CallTypes', OthersStay(j), call'[j].pc \in {"check", "commit"},
               call'[j].result = call[j].result
        PROVE  CallMoves(j)
    BY <1>1, <1>3, <1>4
  <1>5. ASSUME NEW pc \in {"check", "commit"}, Goes(j, pc)
        PROVE  CallMoves(j)
    <2>1. /\ CallTypes' /\ OthersStay(j) /\ call'[j].pc = pc
          /\ call'[j].result = call[j].result
      BY <1>1, <1>2, <1>5, GoesEffect
    <2> QED BY <1>4, <2>1
  <1>6. ASSUME Returns(j, "refused")
        PROVE  CallMoves(j)
    <2>1. CallTypes' /\ OthersStay(j) /\ call'[j].pc = "idle" /\ call'[j].result = "refused"
      BY <1>1, <1>2, <1>6, ReturnsEffect
    <2> QED BY <1>1, <1>3, <2>1
  <1>7. ASSUME NEW s \in Slots, Aims(j, "replace", s, "stopping")
        PROVE  CallMoves(j)
    <2>1. /\ CallTypes' /\ OthersStay(j) /\ call'[j].pc = "stopping"
          /\ call'[j].why = "replace" /\ call'[j].slot = s
      BY <1>1, <1>2, <1>7, AimsEffect
    <2> QED BY <1>1, <1>3, <2>1
  <1>8. CASE Submit(j)
    BY <1>5, <1>8 DEF Submit
  <1>9. CASE Check(j)
    <2>1. \/ \E s \in Slots : Aims(j, "replace", s, "stopping")
          \/ Returns(j, "refused") \/ Goes(j, "commit")
      BY <1>9 DEF Check, Clashing
    <2> QED BY <1>5, <1>6, <1>7, <2>1
  <1>10. CASE call' = [call EXCEPT ![j].pc = "check", ![j].retried = TRUE]
    <2>1. /\ CallTypes' /\ OthersStay(j) /\ call'[j].pc = "check"
          /\ call'[j].result = call[j].result
      BY <1>1, <1>10, RetriesEffect
    <2> QED BY <1>4, <2>1
  <1> QED BY <1>6, <1>8, <1>9, <1>10

\* The steps of a wait that only look, and of run_and_wait before it is done.
LEMMA WaitMoves ==
  ASSUME LuaInv, NEW p \in Callers, Peek(p) \/ Woken(p) \/ Expire(p) \/ Verify(p)
  PROVE  CallMoves(p)
  <1>1. WhyOf(p) /\ CallTypes /\ Jobs \cap Stoppers = {}
    BY DEF LuaInv, Table, Whys, LuaTypes
  <1>2. call[p].pc \in Waits
    BY DEF Peek, Woken, Expire, Verify, At, Waits
  <1>3. ASSUME NEW pc \in Waits, CallTypes', OthersStay(p), call'[p].pc = pc,
               call'[p].why = call[p].why, call'[p].slot = call[p].slot
        PROVE  CallMoves(p)
    BY <1>1, <1>2, <1>3 DEF CallMoves, Unclaimed, InSync, WhyOf, Holding, Waits
  <1>4. ASSUME NEW pc \in Waits, Goes(p, pc)
        PROVE  CallMoves(p)
    <2>1. pc \in Pcs
      BY DEF Pcs
    <2>2. /\ CallTypes' /\ OthersStay(p) /\ call'[p].pc = pc
          /\ call'[p].why = call[p].why /\ call'[p].slot = call[p].slot
      BY <1>1, <1>4, <2>1, GoesEffect
    <2> QED BY <1>3, <2>2
  <1>5. CASE Peek(p)
    <2>1. Told(p, TRUE) \/ Goes(p, "await")
      BY <1>5 DEF Peek
    <2>2. "await" \in Waits
      BY DEF Waits
    <2> QED BY <1>2, <1>4, <2>1, <2>2, ToldMoves
  <1>6. CASE Woken(p)
    <2>1. "verify" \in Waits /\ Goes(p, "verify")
      BY <1>6 DEF Waits, Woken
    <2> QED BY <1>4, <2>1
  <1>7. CASE Expire(p)
    <2>1. call' = [call EXCEPT ![p].pc = "verify", ![p].expired = TRUE]
      BY <1>7 DEF Expire
    <2>2. "verify" \in Waits
      BY DEF Waits
    <2>3. /\ CallTypes' /\ OthersStay(p) /\ call'[p].pc = "verify"
          /\ call'[p].why = call[p].why /\ call'[p].slot = call[p].slot
      BY <1>1, <2>1, ExpiresEffect
    <2> QED BY <1>3, <2>2, <2>3
  <1>8. CASE Verify(p)
    <2>1. Told(p, ~Active(call[p].slot)) /\ (~Active(call[p].slot)) \in BOOLEAN
      BY <1>8 DEF Verify, Active
    <2> QED BY <1>2, <2>1, ToldMoves
  <1> QED BY <1>5, <1>6, <1>7, <1>8

\* What run_and_wait finds under its job's name is its own slot.
LEMMA SyncMoves ==
  ASSUME LuaInv, NEW j \in Jobs, Locate(j) \/ Collect(j)
  PROVE  CallMoves(j)
  <1>1. /\ WhyOf(j) /\ CallTypes /\ SlotTypes /\ j \in Callers /\ j \notin Stoppers
        /\ Waiters /\ Homes /\ j # None
    BY DEF LuaInv, Table, Whys, LuaTypes, Callers
  <1>2. InSync(j) /\ ~Unclaimed(j) /\ j \in Sync
    BY <1>1 DEF Locate, Collect, At, InSync, Unclaimed, WhyOf, Holding, Waits
  <1>3. call[j].slot \in Slots /\ jobs[call[j].slot].job = j
    BY <1>1, <1>2 DEF Waiters
  <1>4. \A s \in Slots : jobs[s].job = j => s = call[j].slot
    BY <1>1 DEF Homes, Used
  <1>5. ASSUME CallTypes', OthersStay(j), call'[j].slot = call[j].slot,
               \/ call'[j].pc = "collect"
               \/ call'[j].pc = "clear" /\ Ended(call[j].slot)
               \/ call'[j].pc \in Waits /\ call'[j].why \in {"sync", "syncstop"}
        PROVE  CallMoves(j)
    BY <1>1, <1>2, <1>3, <1>5 DEF CallMoves, Unclaimed, InSync, WhyOf, Holding, Waits
  <1>6. {"collect", "clear", "peek"} \subseteq Pcs /\ "sync" \in Reasons
    BY DEF Pcs, Waits, Holding, Reasons
  <1>7. CASE Locate(j)
    <2>1. PICK s \in Slots : /\ jobs[s].job = j
                             /\ Aims(j, "sync", s, IF Ended(s) THEN "collect" ELSE "peek")
      BY <1>3, <1>7 DEF Locate
    <2>2. PICK pc \in {"collect", "peek"} : Aims(j, "sync", call[j].slot, pc)
      BY <1>4, <2>1
    <2>3. /\ CallTypes' /\ OthersStay(j) /\ call'[j].pc = pc /\ call'[j].why = "sync"
          /\ call'[j].slot = call[j].slot
      BY <1>1, <1>3, <1>6, <2>2, AimsEffect
    <2> QED BY <1>5, <2>3 DEF Waits
  <1>8. CASE Collect(j)
    <2>1. \/ Goes(j, "clear") /\ Ended(call[j].slot)
          \/ call' = [call EXCEPT ![j].pc = "stopping", ![j].why = "syncstop"]
      BY <1>8 DEF Collect
    <2>2. CASE Goes(j, "clear") /\ Ended(call[j].slot)
      <3>1. CallTypes' /\ OthersStay(j) /\ call'[j].pc = "clear" /\ call'[j].slot = call[j].slot
        BY <1>1, <1>6, <2>2, GoesEffect
      <3> QED BY <1>5, <2>2, <3>1
    <2>3. CASE call' = [call EXCEPT ![j].pc = "stopping", ![j].why = "syncstop"]
      <3>1. /\ CallTypes' /\ OthersStay(j) /\ call'[j].pc = "stopping"
            /\ call'[j].why = "syncstop" /\ call'[j].slot = call[j].slot
        BY <1>1, <2>3, GivesUpEffect
      <3> QED BY <1>5, <3>1 DEF Waits
    <2> QED BY <2>1, <2>2, <2>3
  <1> QED BY <1>7, <1>8

LEMMA StopJobMoves ==
  ASSUME LuaInv, NEW p \in Stoppers, StopJob(p)
  PROVE  CallMoves(p)
  <1>1. CallTypes /\ SlotTypes /\ p \in Callers /\ p \notin Jobs
    BY DEF LuaInv, LuaTypes, Callers
  <1>2. PICK s \in Slots : Aims(p, "stop", s, "stopping")
    BY DEF StopJob
  <1>3. "stop" \in Reasons /\ "stopping" \in Pcs
    BY DEF Reasons, Pcs, Waits
  <1>4. /\ CallTypes' /\ OthersStay(p) /\ call'[p].pc = "stopping" /\ call'[p].why = "stop"
        /\ call'[p].slot = s
    BY <1>1, <1>2, <1>3, AimsEffect
  <1> QED BY <1>1, <1>4 DEF CallMoves, WhyOf, Waits

-----------------------------------------------------------------------------
(* The number of running jobs, and the keys they hold. *)

LEMMA ActiveFinite == IsFiniteSet(ActiveSlots) /\ ActiveSlots \subseteq Slots
  BY SlotsAreFinite, FS_Subset DEF ActiveSlots

LEMMA CountSame ==
  ASSUME Count, running' = running, \A s \in Slots : Active(s)' <=> Active(s)
  PROVE  Count'
  <1>1. ActiveSlots' = ActiveSlots
    BY DEF ActiveSlots
  <1> QED BY <1>1 DEF Count, RunningIsExact, ActiveSlots

LEMMA CountMore ==
  ASSUME Count, ~Full, running' = running + 1, NEW s \in Slots, ~Active(s), Active(s)',
         \A t \in Slots : t # s => (Active(t)' <=> Active(t))
  PROVE  Count'
  <1>1. ActiveSlots' = ActiveSlots \cup {s} /\ s \notin ActiveSlots
    BY DEF ActiveSlots
  <1>2. Cardinality(ActiveSlots') = Cardinality(ActiveSlots) + 1
    BY <1>1, ActiveFinite, FS_AddElement
  <1>3. running \in 0..MaxConcurrent /\ running < MaxConcurrent
    BY DEF Count, Full
  <1>4. running' \in 0..MaxConcurrent
    BY <1>3
  <1> QED BY <1>2, <1>4 DEF Count, RunningIsExact, ActiveSlots

LEMMA CountLess ==
  ASSUME Count, running' = CountedOff, NEW s \in Slots, Active(s), ~Active(s)',
         \A t \in Slots : t # s => (Active(t)' <=> Active(t))
  PROVE  Count'
  <1>1. ActiveSlots' = ActiveSlots \ {s} /\ s \in ActiveSlots
    BY DEF ActiveSlots
  <1>2. Cardinality(ActiveSlots') = Cardinality(ActiveSlots) - 1
    BY <1>1, ActiveFinite, FS_RemoveElement
  <1>3. running \in 0..MaxConcurrent /\ running = Cardinality(ActiveSlots)
    BY DEF Count, RunningIsExact, ActiveSlots
  <1>4. Cardinality(ActiveSlots) # 0
    BY <1>1, ActiveFinite, FS_EmptySet
  <1>5. running' = running - 1 /\ running' \in 0..MaxConcurrent
    BY <1>3, <1>4 DEF CountedOff
  <1> QED BY <1>2, <1>3, <1>5 DEF Count, RunningIsExact, ActiveSlots

LEMMA HoldersKept ==
  ASSUME OneHolderPerKey,
         \A s \in Slots : Active(s)' => Active(s) /\ jobs'[s].job = jobs[s].job
  PROVE  OneHolderPerKey'
  <1> SUFFICES ASSUME NEW s \in Slots, NEW t \in Slots, s # t, Active(s)', Active(t)'
               PROVE  Keys[jobs'[s].job] \cap Keys[jobs'[t].job] = {}
    BY DEF OneHolderPerKey
  <1> QED BY DEF OneHolderPerKey

-----------------------------------------------------------------------------
(* The steps that change a slot of the table. *)

\* A slot's record changes and its job stays: the submitter marks it, or
\* someone asks the job to stop.
LEMMA SlotTouched ==
  ASSUME LuaInv, NEW p \in Callers, CallMoves(p), UNCHANGED <<sem, running, task>>,
         NEW s \in Slots, Used(s), SlotTypes',
         \A t \in Slots : t # s => jobs'[t] = jobs[t],
         jobs'[s].job = jobs[s].job, jobs'[s].waiter = jobs[s].waiter,
         Ended(s)' <=> Ended(s),
         call[jobs[s].job].pc \in {"spawn", "unspawn"} => jobs'[s].status = jobs[s].status
  PROVE  LuaInv'
  <1> USE DEF LuaInv, Table
  <1>a. ASSUME NEW q \in Callers, q # p
        PROVE  /\ call'[q] = call[q]
               /\ Unclaimed(q)' <=> Unclaimed(q)
               /\ InSync(q)' <=> InSync(q)
               /\ WhyOf(q) => WhyOf(q)'
    <2>1. call'[q] = call[q]
      BY <1>a DEF CallMoves, OthersStay
    <2> QED BY <2>1 DEF Unclaimed, InSync, WhyOf
  <1>b. \A t \in Slots : Used(t) => jobs[t].job \in Jobs
    BY DEF LuaTypes, SlotTypes, SlotRecs, Used
  <1>e. Jobs \subseteq Callers /\ Sync \subseteq Jobs
    BY DEF Callers
  <1>c. ASSUME NEW j \in Jobs
        PROVE  /\ Unclaimed(j)' => Unclaimed(j)
               /\ ~Unclaimed(j) => call'[j].slot = call[j].slot
               /\ call'[j].pc \in {"spawn", "unspawn", "mark"} => call'[j] = call[j]
               /\ j \in Sync => (InSync(j)' <=> InSync(j))
    <2>1. CASE j = p
      BY <2>1 DEF CallMoves
    <2>2. CASE j # p
      BY <1>a, <1>e, <2>2
    <2> QED BY <2>1, <2>2
  <1>d. ASSUME NEW t \in Slots
        PROVE  /\ jobs'[t].job = jobs[t].job /\ jobs'[t].waiter = jobs[t].waiter
               /\ Used(t)' <=> Used(t) /\ (Ended(t)' <=> Ended(t))
               /\ Active(t)' <=> Active(t)
               /\ call[jobs[t].job].pc \in {"spawn", "unspawn"}
                    => jobs'[t].status = jobs[t].status
    <2>1. CASE t = s
      BY <2>1 DEF Used, Active, Ended
    <2>2. CASE t # s
      BY <2>2 DEF Used, Active, Ended
    <2> QED BY <2>1, <2>2
  <1>1. LuaTypes'
    <2>1. ASSUME NEW t \in Slots, ~Used(t)'
          PROVE  jobs'[t] = Unused
      <3>1. ~Used(t)
        BY <1>d, <2>1 DEF Used
      <3>3. t # s
        BY <3>1
      <3>2. jobs'[t] = jobs[t] /\ jobs[t] = Unused
        BY <3>1, <3>3 DEF LuaTypes, Used
      <3> QED BY <3>2
    <2> QED BY <2>1 DEF LuaTypes, CallMoves
  <1>2. Homes'
    BY <1>b, <1>c, <1>d DEF Homes
  <1>3. Spawns' /\ Runs' /\ Tasks'
    <2> SUFFICES ASSUME NEW j \in Jobs
                 PROVE  /\ call'[j].pc \in {"spawn", "unspawn"} =>
                              /\ call'[j].slot \in Slots /\ jobs'[call'[j].slot].job = j
                              /\ jobs'[call'[j].slot].status = "queued" /\ task[j] = "none"
                        /\ task[j] = "runs" =>
                              /\ call'[j].slot \in Slots /\ jobs'[call'[j].slot].job = j
                              /\ jobs'[call'[j].slot].status \notin Terminal
                        /\ task[j] # "none" => ~Unclaimed(j)' /\ call'[j].slot \in Slots
                        /\ call'[j].pc = "mark" => task[j] # "none"
      BY DEF Spawns, Runs, Tasks, Ended
    <2>1. call'[j].pc \in {"spawn", "unspawn", "mark"} => call'[j] = call[j]
      BY <1>c
    <2>2. task[j] # "none" => ~Unclaimed(j)' /\ call'[j].slot = call[j].slot
      BY <1>c DEF Tasks
    <2>3. \A t \in Slots : ~Ended(t) => jobs'[t].status \notin Terminal
      BY <1>d DEF Ended
    <2> QED BY <1>d, <2>1, <2>2, <2>3 DEF Spawns, Runs, Tasks
  <1>5. \A j \in Sync : InSync(j) => ~Unclaimed(j)
    BY DEF InSync, Unclaimed, Holding, Waits
  <1>6. Waiters' /\ Waited'
    BY <1>c, <1>d, <1>5 DEF Waiters, Waited
  <1>7. Whys'
    <2> SUFFICES ASSUME NEW q \in Callers PROVE WhyOf(q)'
      BY DEF Whys
    <2>1. CASE q = p
      BY <2>1 DEF CallMoves
    <2>2. CASE q # p
      BY <1>a, <2>2 DEF Whys
    <2> QED BY <2>1, <2>2
  <1>8. Count'
    BY <1>d, CountSame
  <1>9. OneHolderPerKey'
    BY <1>d, HoldersKept
  <1>10. Clears'
    <2> SUFFICES ASSUME NEW j \in Jobs, call'[j].pc = "clear"
                 PROVE  jobs'[call'[j].slot].status \in Terminal
      BY DEF Clears, Ended
    <2>1. j \in Sync /\ InSync(j)'
      BY <1>7, <1>e DEF Whys, WhyOf, InSync, Holding
    <2>2. InSync(j) /\ call'[j].slot = call[j].slot /\ call[j].slot \in Slots
      BY <1>c, <1>5, <2>1 DEF Waiters
    <2>3. Ended(call'[j].slot)
      <3>1. CASE j = p
        BY <3>1 DEF CallMoves
      <3>2. CASE j # p
        BY <1>a, <1>e, <3>2 DEF Clears
      <3> QED BY <3>1, <3>2
    <2>4. (jobs'[call'[j].slot].status \in Terminal) <=> (jobs[call'[j].slot].status \in Terminal)
      BY <1>d, <2>2 DEF Ended
    <2> QED BY <2>3, <2>4 DEF Ended
  <1> QED BY <1>1, <1>2, <1>3, <1>6, <1>7, <1>8, <1>9, <1>10

\* The record of slot s is replaced: in the other slots nothing changes.
SlotSet(s, r) == jobs' = [jobs EXCEPT ![s] = r]

LEMMA SlotSetEffect ==
  ASSUME SlotTypes, NEW s \in Slots, NEW r \in SlotRecs, SlotSet(s, r)
  PROVE  /\ SlotTypes' /\ jobs'[s] = r
         /\ \A t \in Slots : t # s => jobs'[t] = jobs[t]
  BY DEF SlotTypes, SlotSet

\* The holder of a slot is found through its submitter.
LEMMA OneHome ==
  ASSUME LuaInv, NEW j \in Jobs, NEW s \in Slots, jobs[s].job = j
  PROVE  s = call[j].slot /\ ~Unclaimed(j) /\ Used(s)
  BY DEF LuaInv, Table, Homes, Used

\* A submitter returns and leaves its slot behind, cleared or without waiter.
LEMMA SlotLeft ==
  ASSUME LuaInv, NEW j \in Jobs, NEW s \in Slots, jobs[s].job = j,
         CallTypes', OthersStay(j), call'[j].pc = "idle", call'[j].result # "none",
         call'[j].slot = call[j].slot, UNCHANGED <<sem, task>>,
         NEW r \in SlotRecs, SlotSet(s, r), ~r.waiter,
         \/ r = Unused /\ task[j] # "runs"
         \/ r.job = j /\ r.status = jobs[s].status
  PROVE  LuaTypes' /\ Table'
  <1> USE DEF LuaInv, Table
  <1>a. ASSUME NEW q \in Callers, q # j
        PROVE  /\ call'[q] = call[q]
               /\ Unclaimed(q)' <=> Unclaimed(q)
               /\ InSync(q)' <=> InSync(q)
               /\ WhyOf(q) => WhyOf(q)'
    <2>1. call'[q] = call[q]
      BY <1>a DEF OthersStay
    <2> QED BY <2>1 DEF Unclaimed, InSync, WhyOf
  <1>b. \A t \in Slots : Used(t) => jobs[t].job \in Jobs
    BY DEF LuaTypes, SlotTypes, SlotRecs, Used
  <1>c. Jobs \subseteq Callers /\ Sync \subseteq Jobs /\ j # None /\ j \notin Stoppers
    BY DEF Callers
  <1>d. ~Unclaimed(j)' /\ ~InSync(j)' /\ WhyOf(j)'
    BY <1>c DEF Unclaimed, InSync, WhyOf, Holding, Waits
  <1>e. SlotTypes' /\ jobs'[s] = r /\ \A t \in Slots : t # s => jobs'[t] = jobs[t]
    BY SlotSetEffect DEF LuaTypes
  <1>f. s = call[j].slot
    BY OneHome
  <1>g. ASSUME NEW t \in Slots, t # s
        PROVE  jobs[t].job # j
    BY <1>f, <1>g, OneHome
  <1>1. LuaTypes'
    <2>1. ASSUME NEW t \in Slots, ~Used(t)'
          PROVE  jobs'[t] = Unused
      <3>1. CASE t = s
        BY <1>c, <1>e, <2>1, <3>1 DEF Used
      <3>2. CASE t # s
        BY <1>e, <2>1, <3>2 DEF LuaTypes, Used
      <3> QED BY <3>1, <3>2
    <2> QED BY <1>e, <2>1 DEF LuaTypes
  <1>2. Homes'
    <2> SUFFICES ASSUME NEW t \in Slots, Used(t)'
                 PROVE  \E i \in Jobs : /\ jobs'[t].job = i /\ ~Unclaimed(i)'
                                        /\ call'[i].slot = t
      BY DEF Homes
    <2>1. CASE t = s
      <3>1. jobs'[s].job = j
        BY <1>e, <2>1 DEF Used, Unused
      <3> QED BY <1>d, <1>f, <2>1, <3>1
    <2>2. CASE t # s
      <3>1. jobs'[t] = jobs[t] /\ jobs[t].job \in Jobs /\ jobs[t].job # j /\ Used(t)
        BY <1>b, <1>e, <1>g, <2>2 DEF Used
      <3> QED BY <1>a, <1>c, <3>1 DEF Homes
    <2> QED BY <2>1, <2>2
  <1>3. ASSUME NEW i \in Jobs
        PROVE  /\ call'[i].pc \in {"spawn", "unspawn"} =>
                     /\ call'[i].slot \in Slots /\ jobs'[call'[i].slot].job = i
                     /\ jobs'[call'[i].slot].status = "queued" /\ task[i] = "none"
               /\ task[i] = "runs" =>
                     /\ call'[i].slot \in Slots /\ jobs'[call'[i].slot].job = i
                     /\ jobs'[call'[i].slot].status \notin Terminal
               /\ task[i] # "none" => ~Unclaimed(i)' /\ call'[i].slot \in Slots
               /\ call'[i].pc = "mark" => task[i] # "none"
    <2>1. CASE i = j
      BY <1>d, <1>e, <1>f, <2>1 DEF Runs, Tasks, Ended
    <2>2. CASE i # j
      <3>1. call'[i] = call[i] /\ (Unclaimed(i)' <=> Unclaimed(i))
        BY <1>a, <1>c, <2>2
      <3>2. \A t \in Slots : jobs[t].job = i => jobs'[t] = jobs[t]
        BY <1>e, <2>2
      <3> QED BY <3>1, <3>2 DEF Spawns, Runs, Tasks, Ended
    <2> QED BY <2>1, <2>2
  <1>4. Spawns' /\ Runs' /\ Tasks'
    BY <1>3 DEF Spawns, Runs, Tasks, Ended
  <1>5. Waiters'
    <2> SUFFICES ASSUME NEW i \in Sync, InSync(i)'
                 PROVE  /\ call'[i].slot \in Slots /\ jobs'[call'[i].slot].job = i
                        /\ jobs'[call'[i].slot].waiter
      BY DEF Waiters
    <2>1. i # j
      BY <1>d
    <2>2. call'[i] = call[i] /\ InSync(i)
      BY <1>a, <1>c, <2>1
    <2>3. \A t \in Slots : jobs[t].job = i => jobs'[t] = jobs[t]
      BY <1>e, <2>1
    <2> QED BY <2>2, <2>3 DEF Waiters
  <1>6. Waited'
    <2> SUFFICES ASSUME NEW t \in Slots, jobs'[t].waiter
                 PROVE  \E i \in Sync : jobs'[t].job = i /\ InSync(i)'
      BY DEF Waited
    <2>1. t # s /\ jobs'[t] = jobs[t]
      BY <1>e
    <2>2. jobs[t].job \in Sync /\ InSync(jobs[t].job) /\ jobs[t].job # j
      BY <1>g, <2>1 DEF Waited
    <2> QED BY <1>a, <1>c, <2>1, <2>2
  <1>7. Whys'
    <2> SUFFICES ASSUME NEW q \in Callers PROVE WhyOf(q)'
      BY DEF Whys
    <2> QED BY <1>a, <1>d DEF Whys
  <1>8. Clears'
    <2> SUFFICES ASSUME NEW i \in Jobs, call'[i].pc = "clear"
                 PROVE  jobs'[call'[i].slot].status \in Terminal
      BY DEF Clears, Ended
    <2>1. i # j
      OBVIOUS
    <2>2. call'[i] = call[i] /\ i \in Sync /\ InSync(i) /\ Ended(call[i].slot)
      BY <1>a, <1>c, <2>1 DEF Clears, Whys, WhyOf, InSync, Holding
    <2>3. call[i].slot \in Slots /\ jobs[call[i].slot].job = i
      BY <2>2 DEF Waiters
    <2>4. jobs'[call[i].slot] = jobs[call[i].slot]
      BY <1>e, <2>1, <2>3
    <2> QED BY <2>2, <2>4 DEF Ended
  <1> QED BY <1>1, <1>2, <1>4, <1>5, <1>6, <1>7, <1>8

-----------------------------------------------------------------------------
(* Each step keeps the invariant. *)

LEMMA LuaFacts ==
  ASSUME LuaInv, NEW j \in Jobs
  PROVE  /\ CallTypes /\ SlotTypes /\ Homes /\ Spawns /\ Runs /\ Tasks /\ Waiters /\ Waited
         /\ WhyOf(j) /\ Clears /\ Count /\ OneHolderPerKey
         /\ j \in Callers /\ j # None /\ j \notin Stoppers
         /\ Unused \in SlotRecs
  <1>1. Unused \in SlotRecs
    BY DEF Unused, SlotRecs, Statuses
  <1> QED BY <1>1 DEF LuaInv, Table, LuaTypes, Whys, Callers

\* A slot that may be claimed has no job that is active or waited for.
LEMMA ReusableIsFree ==
  ASSUME LuaInv, NEW s \in ReusableSlots
  PROVE  /\ s \in Slots /\ ~Active(s) /\ ~jobs[s].waiter
         /\ \A t \in Slots : Active(t) => t # s
  <1>1. s \in Slots /\ (~Used(s) \/ (Used(s) /\ Reusable(s)))
    BY DEF ReusableSlots
  <1>2. ~Used(s) => ~jobs[s].waiter
    BY <1>1 DEF LuaInv, LuaTypes, Unused
  <1> QED BY <1>1, <1>2 DEF Reusable, Active

LEMMA KeepsClaim ==
  ASSUME LuaInv, NEW j \in Jobs, At(j, "commit"), ~Full, ~ClashingAgain(j),
         NEW s \in ReusableSlots,
         SlotSet(s, [job |-> j, status |-> "queued", waiter |-> j \in Sync, stop |-> FALSE]),
         sem' = [sem EXCEPT ![s] = FALSE],
         call' = [call EXCEPT ![j].pc = "spawn", ![j].slot = s],
         running' = running + 1, task' = task
  PROVE  LuaInv'
  <1> DEFINE r == [job |-> j, status |-> "queued", waiter |-> j \in Sync, stop |-> FALSE]
  <1>a. /\ CallTypes /\ SlotTypes /\ Homes /\ Spawns /\ Runs /\ Tasks /\ Waiters /\ Waited
        /\ WhyOf(j) /\ Clears /\ Count /\ OneHolderPerKey
        /\ j \in Callers /\ j # None /\ j \notin Stoppers
    BY LuaFacts
  <1>b. s \in Slots /\ ~Active(s) /\ ~jobs[s].waiter
    BY ReusableIsFree
  <1>c. r \in SlotRecs
    BY DEF SlotRecs, Statuses
  <1>d. SlotTypes' /\ jobs'[s] = r /\ \A t \in Slots : t # s => jobs'[t] = jobs[t]
    BY <1>a, <1>b, <1>c, SlotSetEffect
  <1>e. /\ CallTypes' /\ OthersStay(j) /\ call'[j].pc = "spawn" /\ call'[j].slot = s
    BY <1>a, <1>b, ClaimsEffect
  <1>f. Jobs \subseteq Callers /\ Sync \subseteq Jobs
    BY DEF Callers
  <1>g. Unclaimed(j) /\ ~InSync(j) /\ task[j] = "none"
    BY <1>a DEF At, Unclaimed, InSync, Holding, Waits, Tasks
  <1>h. \A t \in Slots : jobs[t].job # j
    BY <1>g, OneHome
  <1>i. ~Unclaimed(j)' /\ InSync(j)' /\ WhyOf(j)'
    BY <1>a, <1>b, <1>e DEF Unclaimed, InSync, WhyOf, Holding, Waits
  <1>j. ASSUME NEW q \in Callers, q # j
        PROVE  /\ call'[q] = call[q]
               /\ Unclaimed(q)' <=> Unclaimed(q)
               /\ InSync(q)' <=> InSync(q)
               /\ WhyOf(q) => WhyOf(q)'
    <2>1. call'[q] = call[q]
      BY <1>e, <1>j DEF OthersStay
    <2> QED BY <2>1 DEF Unclaimed, InSync, WhyOf
  <1>k. \A t \in Slots : Used(t) => jobs[t].job \in Jobs
    BY <1>a DEF SlotTypes, SlotRecs, Used
  <1>l. jobs'[s].job = j /\ jobs'[s].status = "queued" /\ (jobs'[s].waiter <=> j \in Sync)
    <2>1. r.job = j /\ r.status = "queued" /\ r.waiter = (j \in Sync)
      OBVIOUS
    <2> HIDE DEF r
    <2> QED BY <1>d, <2>1
  <1> HIDE DEF r
  <1>m. Active(s)' /\ \A t \in Slots : t # s => (Active(t)' <=> Active(t))
    BY <1>a, <1>d, <1>l DEF Active, Used, Ended, Terminal
  <1>1. LuaTypes'
    <2>1. ASSUME NEW t \in Slots, ~Used(t)'
          PROVE  jobs'[t] = Unused
      <3>1. t # s
        BY <1>a, <1>l, <2>1 DEF Used
      <3> QED BY <1>d, <2>1, <3>1 DEF LuaInv, LuaTypes, Used
    <2>2. sem' \in [Slots -> BOOLEAN]
      BY DEF LuaInv, LuaTypes
    <2> QED BY <1>d, <1>e, <2>1, <2>2 DEF LuaInv, LuaTypes
  <1>2. Homes'
    <2> SUFFICES ASSUME NEW t \in Slots, Used(t)'
                 PROVE  \E i \in Jobs : /\ jobs'[t].job = i /\ ~Unclaimed(i)'
                                        /\ call'[i].slot = t
      BY DEF Homes
    <2>1. CASE t = s
      BY <1>e, <1>i, <1>l, <2>1
    <2>2. CASE t # s
      <3>1. jobs'[t] = jobs[t] /\ Used(t)
        BY <1>d, <2>2 DEF Used
      <3>2. PICK i \in Jobs : jobs[t].job = i
        BY <1>k, <3>1
      <3>3. i # j /\ ~Unclaimed(i) /\ call[i].slot = t
        BY <1>a, <1>h, <3>1, <3>2 DEF Homes
      <3>4. call'[i] = call[i] /\ ~Unclaimed(i)'
        BY <1>f, <1>j, <3>3
      <3> QED BY <3>1, <3>2, <3>3, <3>4
    <2> QED BY <2>1, <2>2
  <1>3. ASSUME NEW i \in Jobs
        PROVE  /\ call'[i].pc \in {"spawn", "unspawn"} =>
                     /\ call'[i].slot \in Slots /\ jobs'[call'[i].slot].job = i
                     /\ jobs'[call'[i].slot].status = "queued" /\ task[i] = "none"
               /\ task[i] = "runs" =>
                     /\ call'[i].slot \in Slots /\ jobs'[call'[i].slot].job = i
                     /\ jobs'[call'[i].slot].status \notin Terminal
               /\ task[i] # "none" => ~Unclaimed(i)' /\ call'[i].slot \in Slots
               /\ call'[i].pc = "mark" => task[i] # "none"
    <2>1. CASE i = j
      BY <1>b, <1>e, <1>g, <1>l, <2>1
    <2>2. CASE i # j
      <3>1. call'[i] = call[i] /\ (Unclaimed(i)' <=> Unclaimed(i))
        BY <1>f, <1>j, <2>2
      <3>2. \A t \in Slots : jobs[t].job = i /\ jobs[t].status \notin Terminal
                                => jobs'[t] = jobs[t]
        <4>1. i # None
          OBVIOUS
        <4>2. \A t \in Slots : jobs[t].job = i /\ jobs[t].status \notin Terminal => t # s
          BY <1>b, <4>1 DEF Active, Used, Ended
        <4> QED BY <1>d, <4>2
      <3>3. "queued" \notin Terminal
        BY DEF Terminal
      <3>4. call[i].pc \in {"spawn", "unspawn"} =>
               /\ call[i].slot \in Slots /\ jobs[call[i].slot].job = i
               /\ jobs[call[i].slot].status = "queued" /\ task[i] = "none"
        BY <1>a DEF Spawns
      <3>5. task[i] = "runs" =>
               /\ call[i].slot \in Slots /\ jobs[call[i].slot].job = i
               /\ jobs[call[i].slot].status \notin Terminal
        BY <1>a DEF Runs, Ended
      <3>6. /\ task[i] # "none" => ~Unclaimed(i) /\ call[i].slot \in Slots
            /\ call[i].pc = "mark" => task[i] # "none"
        BY <1>a DEF Tasks
      <3> HIDE DEF r
      <3> QED BY <3>1, <3>2, <3>3, <3>4, <3>5, <3>6
    <2> QED BY <2>1, <2>2
  <1>4. Spawns' /\ Runs' /\ Tasks'
    BY <1>3 DEF Spawns, Runs, Tasks, Ended
  <1>5. Waiters'
    <2> SUFFICES ASSUME NEW i \in Sync, InSync(i)'
                 PROVE  /\ call'[i].slot \in Slots /\ jobs'[call'[i].slot].job = i
                        /\ jobs'[call'[i].slot].waiter
      BY DEF Waiters
    <2>1. CASE i = j
      BY <1>b, <1>e, <1>l, <2>1
    <2>2. CASE i # j
      <3>1. call'[i] = call[i] /\ InSync(i)
        BY <1>f, <1>j, <2>2
      <3>2. call[i].slot \in Slots /\ jobs[call[i].slot].job = i /\ jobs[call[i].slot].waiter
        BY <1>a, <3>1 DEF Waiters
      <3>3. call[i].slot # s
        BY <1>b, <3>2
      <3> QED BY <1>d, <3>1, <3>2, <3>3
    <2> QED BY <2>1, <2>2
  <1>6. Waited'
    <2> SUFFICES ASSUME NEW t \in Slots, jobs'[t].waiter
                 PROVE  \E i \in Sync : jobs'[t].job = i /\ InSync(i)'
      BY DEF Waited
    <2>1. CASE t = s
      BY <1>i, <1>l, <2>1
    <2>2. CASE t # s
      <3>1. jobs'[t] = jobs[t]
        BY <1>d, <2>2
      <3>2. jobs[t].job \in Sync /\ InSync(jobs[t].job) /\ jobs[t].job # j
        BY <1>a, <1>h, <3>1 DEF Waited
      <3> QED BY <1>f, <1>j, <3>1, <3>2
    <2> QED BY <2>1, <2>2
  <1>7. Whys'
    <2> SUFFICES ASSUME NEW q \in Callers PROVE WhyOf(q)'
      BY DEF Whys
    <2> QED BY <1>i, <1>j DEF Whys, LuaInv, Table
  <1>8. Count'
    BY <1>a, <1>b, <1>m, CountMore
  <1>9. OneHolderPerKey'
    <2>1. \A t \in Slots : Active(t) => Keys[jobs[t].job] \cap Keys[j] = {}
      BY DEF ClashingAgain, Clashing
    <2>2. \A t \in Slots : Active(t)' /\ t # s => Active(t) /\ jobs'[t].job = jobs[t].job
      BY <1>d, <1>m
    <2> SUFFICES ASSUME NEW t \in Slots, NEW u \in Slots, t # u, Active(t)', Active(u)'
                 PROVE  Keys[jobs'[t].job] \cap Keys[jobs'[u].job] = {}
      BY DEF OneHolderPerKey
    <2>3. CASE t = s
      BY <1>l, <2>1, <2>2, <2>3
    <2>4. CASE u = s
      BY <1>l, <2>1, <2>2, <2>4
    <2>5. CASE t # s /\ u # s
      BY <1>a, <2>2, <2>5 DEF OneHolderPerKey
    <2> QED BY <2>3, <2>4, <2>5
  <1>10. Clears'
    <2> SUFFICES ASSUME NEW i \in Jobs, call'[i].pc = "clear"
                 PROVE  jobs'[call'[i].slot].status \in Terminal
      BY DEF Clears, Ended
    <2>1. i # j
      BY <1>e
    <2>2. call'[i] = call[i] /\ i \in Sync /\ InSync(i) /\ Ended(call[i].slot)
      BY <1>a, <1>f, <1>j, <2>1 DEF Clears, Whys, WhyOf, InSync, Holding, LuaInv, Table
    <2>3. call[i].slot \in Slots /\ jobs[call[i].slot].waiter
      BY <1>a, <2>2 DEF Waiters
    <2>4. jobs'[call[i].slot] = jobs[call[i].slot]
      BY <1>b, <1>d, <2>3
    <2> QED BY <2>2, <2>4 DEF Ended
  <1> QED BY <1>1, <1>2, <1>4, <1>5, <1>6, <1>7, <1>8, <1>9, <1>10 DEF LuaInv, Table

\* A submitter gives up and clears the free slot it had taken.
LEMMA SlotFreed ==
  ASSUME LuaInv, NEW p \in Callers, CallMoves(p), UNCHANGED <<running, task>>,
         sem' \in [Slots -> BOOLEAN], NEW s \in ReusableSlots, SlotSet(s, Unused)
  PROVE  LuaInv'
  <1>a. ASSUME NEW q \in Callers, q # p
        PROVE  /\ call'[q] = call[q]
               /\ Unclaimed(q)' <=> Unclaimed(q)
               /\ InSync(q)' <=> InSync(q)
               /\ WhyOf(q) => WhyOf(q)'
    <2>1. call'[q] = call[q]
      BY <1>a DEF CallMoves, OthersStay
    <2> QED BY <2>1 DEF Unclaimed, InSync, WhyOf
  <1>b. Jobs \subseteq Callers /\ Sync \subseteq Jobs /\ "queued" \notin Terminal
    BY DEF Callers, Terminal
  <1>c. ASSUME NEW j \in Jobs
        PROVE  /\ Unclaimed(j)' => Unclaimed(j)
               /\ ~Unclaimed(j) => call'[j].slot = call[j].slot
               /\ call'[j].pc \in {"spawn", "unspawn", "mark"} => call'[j] = call[j]
               /\ j \in Sync => (InSync(j)' <=> InSync(j))
    <2>1. CASE j = p
      BY <2>1 DEF CallMoves
    <2>2. CASE j # p
      BY <1>a, <1>b, <2>2
    <2> QED BY <2>1, <2>2
  <1>d. s \in Slots /\ ~Active(s) /\ ~jobs[s].waiter
    BY ReusableIsFree
  <1>e. /\ SlotTypes /\ SlotTypes' /\ jobs'[s] = Unused
        /\ \A t \in Slots : t # s => jobs'[t] = jobs[t]
    <2>1. SlotTypes /\ Unused \in SlotRecs
      BY DEF LuaInv, LuaTypes, Unused, SlotRecs, Statuses
    <2> QED BY <1>d, <2>1, SlotSetEffect
  <1>f. Unused.job = None /\ ~Unused.waiter
    BY DEF Unused
  <1>g. ~Used(s)' /\ ~Active(s)' /\ ~jobs'[s].waiter
    BY <1>e, <1>f DEF Used, Active
  <1>h. \A t \in Slots : t # s => (Active(t)' <=> Active(t)) /\ (Used(t)' <=> Used(t))
    BY <1>e DEF Active, Used, Ended
  <1>1. LuaTypes'
    <2>1. ASSUME NEW t \in Slots, ~Used(t)'
          PROVE  jobs'[t] = Unused
      <3>1. CASE t = s
        BY <1>e, <3>1
      <3>2. CASE t # s
        BY <1>e, <1>h, <2>1, <3>2 DEF LuaInv, LuaTypes
      <3> QED BY <3>1, <3>2
    <2> QED BY <1>e, <2>1 DEF LuaInv, LuaTypes, CallMoves
  <1>2. Homes'
    <2> SUFFICES ASSUME NEW t \in Slots, Used(t)'
                 PROVE  \E i \in Jobs : /\ jobs'[t].job = i /\ ~Unclaimed(i)'
                                        /\ call'[i].slot = t
      BY DEF Homes
    <2>1. t # s
      BY <1>g
    <2>2. Used(t) /\ jobs'[t] = jobs[t]
      BY <1>e, <1>h, <2>1
    <2>3. PICK i \in Jobs : jobs[t].job = i
      BY <1>e, <2>2 DEF SlotTypes, SlotRecs, Used
    <2>4. ~Unclaimed(i) /\ call[i].slot = t
      BY <2>2, <2>3 DEF LuaInv, Table, Homes
    <2> QED BY <1>c, <2>2, <2>3, <2>4
  <1>3. ASSUME NEW j \in Jobs
        PROVE  /\ call'[j].pc \in {"spawn", "unspawn"} =>
                     /\ call'[j].slot \in Slots /\ jobs'[call'[j].slot].job = j
                     /\ jobs'[call'[j].slot].status = "queued" /\ task[j] = "none"
               /\ task[j] = "runs" =>
                     /\ call'[j].slot \in Slots /\ jobs'[call'[j].slot].job = j
                     /\ jobs'[call'[j].slot].status \notin Terminal
               /\ task[j] # "none" => ~Unclaimed(j)' /\ call'[j].slot \in Slots
               /\ call'[j].pc = "mark" => task[j] # "none"
    <2>1. \A t \in Slots : jobs[t].job = j /\ jobs[t].status \notin Terminal
                              => jobs'[t] = jobs[t]
      BY <1>d, <1>e DEF Active, Used, Ended
    <2>2. call'[j].pc \in {"spawn", "unspawn", "mark"} => call'[j] = call[j]
      BY <1>c
    <2>3. task[j] # "none" => ~Unclaimed(j)' /\ call'[j].slot = call[j].slot
      BY <1>c DEF LuaInv, Table, Tasks
    <2>4. call[j].pc \in {"spawn", "unspawn"} =>
             /\ call[j].slot \in Slots /\ jobs[call[j].slot].job = j
             /\ jobs[call[j].slot].status = "queued" /\ task[j] = "none"
      BY DEF LuaInv, Table, Spawns
    <2>5. task[j] = "runs" =>
             /\ call[j].slot \in Slots /\ jobs[call[j].slot].job = j
             /\ jobs[call[j].slot].status \notin Terminal
      BY DEF LuaInv, Table, Runs, Ended
    <2>6. /\ task[j] # "none" => ~Unclaimed(j) /\ call[j].slot \in Slots
          /\ call[j].pc = "mark" => task[j] # "none"
      BY DEF LuaInv, Table, Tasks
    <2> QED BY <1>b, <2>1, <2>2, <2>3, <2>4, <2>5, <2>6
  <1>4. Spawns' /\ Runs' /\ Tasks'
    BY <1>3 DEF Spawns, Runs, Tasks, Ended
  <1>5. ASSUME NEW j \in Sync, InSync(j)'
        PROVE  /\ call'[j].slot = call[j].slot /\ call[j].slot \in Slots
               /\ jobs'[call[j].slot] = jobs[call[j].slot]
               /\ jobs[call[j].slot].job = j /\ jobs[call[j].slot].waiter
    <2>1. InSync(j) /\ ~Unclaimed(j)
      BY <1>b, <1>c, <1>5 DEF InSync, Unclaimed, Holding, Waits
    <2>2. /\ call[j].slot \in Slots
          /\ jobs[call[j].slot].job = j /\ jobs[call[j].slot].waiter
      BY <2>1 DEF LuaInv, Table, Waiters
    <2> QED BY <1>b, <1>c, <1>d, <1>e, <2>1, <2>2
  <1>6. Waiters'
    BY <1>5 DEF Waiters
  <1>7. Waited'
    <2> SUFFICES ASSUME NEW t \in Slots, jobs'[t].waiter
                 PROVE  \E i \in Sync : jobs'[t].job = i /\ InSync(i)'
      BY DEF Waited
    <2>1. t # s /\ jobs'[t] = jobs[t]
      BY <1>e, <1>g
    <2>2. PICK i \in Sync : jobs[t].job = i /\ InSync(i)
      BY <2>1 DEF LuaInv, Table, Waited
    <2> QED BY <1>b, <1>c, <2>1, <2>2
  <1>8. Whys'
    <2> SUFFICES ASSUME NEW q \in Callers PROVE WhyOf(q)'
      BY DEF Whys
    <2>1. CASE q = p
      BY <2>1 DEF CallMoves
    <2>2. CASE q # p
      BY <1>a, <2>2 DEF Whys, LuaInv, Table
    <2> QED BY <2>1, <2>2
  <1>9. Clears'
    <2> SUFFICES ASSUME NEW j \in Jobs, call'[j].pc = "clear"
                 PROVE  jobs'[call'[j].slot].status \in Terminal
      BY DEF Clears, Ended
    <2>1. j \in Sync /\ InSync(j)'
      BY <1>8, <1>b DEF Whys, WhyOf, InSync, Holding
    <2>2. Ended(call'[j].slot)
      <3>1. CASE j = p
        BY <3>1 DEF CallMoves
      <3>2. CASE j # p
        BY <1>a, <1>b, <3>2 DEF Clears, LuaInv, Table
      <3> QED BY <3>1, <3>2
    <2> QED BY <1>5, <2>1, <2>2 DEF Ended
  <1>10. Count'
    <2>1. \A t \in Slots : Active(t)' <=> Active(t)
      BY <1>d, <1>g, <1>h
    <2> QED BY <2>1, CountSame DEF LuaInv
  <1>11. OneHolderPerKey'
    <2>1. \A t \in Slots : Active(t)' => Active(t) /\ jobs'[t].job = jobs[t].job
      BY <1>e, <1>g, <1>h
    <2> QED BY <2>1, HoldersKept DEF LuaInv
  <1> QED BY <1>1, <1>2, <1>4, <1>6, <1>7, <1>8, <1>9, <1>10, <1>11 DEF LuaInv, Table

LEMMA StepCommit ==
  ASSUME LuaInv, NEW j \in Jobs, Commit(j)
  PROVE  LuaInv'
  <1>1. At(j, "commit") /\ task' = task /\ j \in Callers /\ sem \in [Slots -> BOOLEAN]
    BY DEF Commit, Callers, LuaInv, LuaTypes
  <1>2. CASE /\ UNCHANGED <<jobs, sem, running>>
             /\ \/ Returns(j, "refused")
                \/ call' = [call EXCEPT ![j].pc = "check", ![j].retried = TRUE]
    <2>1. CallMoves(j)
      BY <1>1, <1>2, SubmitMoves
    <2>2. sem' \in [Slots -> BOOLEAN]
      BY <1>1, <1>2
    <2> QED BY <1>1, <1>2, <2>1, <2>2, CallOnly
  <1>3. ASSUME ~Full, ~ClashingAgain(j), NEW s \in ReusableSlots,
               SlotSet(s, [job |-> j, status |-> "queued", waiter |-> j \in Sync,
                           stop |-> FALSE]),
               sem' = [sem EXCEPT ![s] = FALSE],
               call' = [call EXCEPT ![j].pc = "spawn", ![j].slot = s],
               running' = running + 1
        PROVE  LuaInv'
    BY <1>1, <1>3, KeepsClaim
  <1>4. ASSUME NEW s \in ReusableSlots, SlotSet(s, Unused), sem' = [sem EXCEPT ![s] = FALSE],
               Returns(j, "refused"), running' = running
        PROVE  LuaInv'
    <2>1. CallMoves(j)
      BY <1>1, <1>4, SubmitMoves
    <2>2. sem' \in [Slots -> BOOLEAN]
      BY <1>1, <1>4
    <2> QED BY <1>1, <1>4, <2>1, <2>2, SlotFreed
  <1> QED BY <1>2, <1>3, <1>4 DEF Commit, SlotSet

LEMMA StepSpawn ==
  ASSUME LuaInv, NEW j \in Jobs, Spawn(j)
  PROVE  LuaInv'
  <1>a. /\ CallTypes /\ Homes /\ Spawns /\ Runs /\ Tasks /\ Waiters /\ Waited /\ Clears
        /\ WhyOf(j) /\ j \in Callers /\ j \notin Stoppers
    BY LuaFacts
  <1>b. /\ call[j].pc = "spawn" /\ UNCHANGED <<jobs, sem, running>>
        /\ \/ task' = [task EXCEPT ![j] = "runs"] /\ Goes(j, "mark")
           \/ task' = task /\ Goes(j, "unspawn")
    BY DEF Spawn, At
  <1>c. {"mark", "unspawn"} \subseteq Pcs /\ Jobs \subseteq Callers /\ Sync \subseteq Jobs
    BY DEF Pcs, Holding, Callers
  <1>d. /\ CallTypes' /\ OthersStay(j) /\ call'[j].pc \in {"mark", "unspawn"}
        /\ call'[j].why = call[j].why /\ call'[j].slot = call[j].slot
    <2>1. PICK pc \in {"mark", "unspawn"} : Goes(j, pc)
      BY <1>b
    <2> QED BY <1>a, <1>c, <2>1, GoesEffect
  <1>e. task' \in [Jobs -> {"none", "runs", "signals", "ended"}]
    BY <1>b DEF LuaInv, LuaTypes
  <1>f. /\ call'[j].pc = "unspawn" => task'[j] = task[j]
        /\ call'[j].pc = "mark" => task'[j] = "runs"
        /\ \A i \in Jobs : i # j => task'[i] = task[i]
    <2>1. task \in [Jobs -> {"none", "runs", "signals", "ended"}]
      BY DEF LuaInv, LuaTypes
    <2>2. CASE task' = [task EXCEPT ![j] = "runs"] /\ Goes(j, "mark")
      <3>1. call'[j].pc = "mark"
        BY <1>a, <1>c, <2>2, GoesEffect
      <3> QED BY <2>1, <2>2, <3>1
    <2>3. CASE task' = task /\ Goes(j, "unspawn")
      <3>1. call'[j].pc = "unspawn"
        BY <1>a, <1>c, <2>3, GoesEffect
      <3> QED BY <2>3, <3>1
    <2> QED BY <1>b, <2>2, <2>3
  <1>g. /\ call[j].slot \in Slots /\ jobs[call[j].slot].job = j
        /\ jobs[call[j].slot].status = "queued" /\ task[j] = "none"
        /\ "queued" \notin Terminal
    BY <1>a, <1>b DEF Spawns, Terminal
  <1>h. ASSUME NEW q \in Callers
        PROVE  /\ q # j => call'[q] = call[q]
               /\ call'[q].slot = call[q].slot
               /\ q \in Jobs => (Unclaimed(q)' <=> Unclaimed(q))
               /\ q \in Sync => (InSync(q)' <=> InSync(q))
               /\ WhyOf(q) => WhyOf(q)'
    <2>1. CASE q = j
      BY <1>a, <1>b, <1>d, <2>1 DEF Unclaimed, InSync, WhyOf, Holding, Waits
    <2>2. CASE q # j
      <3>1. call'[q] = call[q]
        BY <1>d, <2>2 DEF OthersStay
      <3> QED BY <2>2, <3>1 DEF Unclaimed, InSync, WhyOf
    <2> QED BY <2>1, <2>2
  <1>i. \A t \in Slots : Used(t)' = Used(t) /\ Ended(t)' = Ended(t) /\ Active(t)' = Active(t)
    BY <1>b DEF Used, Ended, Active
  <1>1. LuaTypes'
    BY <1>b, <1>d, <1>e, <1>i DEF LuaInv, LuaTypes, SlotTypes
  <1>2. Homes'
    <2>1. \A t \in Slots : Used(t) => jobs[t].job \in Jobs
      BY DEF LuaInv, LuaTypes, SlotTypes, SlotRecs, Used
    <2> QED BY <1>a, <1>b, <1>c, <1>h, <1>i, <2>1 DEF Homes
  <1>3. ASSUME NEW i \in Jobs
        PROVE  /\ call'[i].pc \in {"spawn", "unspawn"} =>
                     /\ call'[i].slot \in Slots /\ jobs[call'[i].slot].job = i
                     /\ jobs[call'[i].slot].status = "queued" /\ task'[i] = "none"
               /\ task'[i] = "runs" =>
                     /\ call'[i].slot \in Slots /\ jobs[call'[i].slot].job = i
                     /\ jobs[call'[i].slot].status \notin Terminal
               /\ task'[i] # "none" => ~Unclaimed(i)' /\ call'[i].slot \in Slots
               /\ call'[i].pc = "mark" => task'[i] # "none"
               /\ call'[i].pc = "clear" => jobs[call'[i].slot].status \in Terminal
    <2>1. CASE i = j
      <3>1. ~Unclaimed(j)'
        BY <1>d DEF Unclaimed, Waits
      <3> QED BY <1>d, <1>f, <1>g, <2>1, <3>1
    <2>2. CASE i # j
      <3>1. call'[i] = call[i] /\ task'[i] = task[i] /\ (Unclaimed(i)' <=> Unclaimed(i))
        BY <1>c, <1>f, <1>h, <2>2
      <3> QED BY <1>a, <3>1 DEF Spawns, Runs, Tasks, Ended, Clears
    <2> QED BY <2>1, <2>2
  <1>4. Spawns' /\ Runs' /\ Tasks' /\ Clears'
    BY <1>b, <1>3 DEF Spawns, Runs, Tasks, Ended, Clears
  <1>5. Waiters' /\ Waited'
    BY <1>a, <1>b, <1>c, <1>h DEF Waiters, Waited
  <1>6. Whys'
    BY <1>h DEF Whys, LuaInv, Table
  <1>7. Count' /\ OneHolderPerKey'
    BY <1>b, <1>i DEF LuaInv, Count, RunningIsExact, OneHolderPerKey
  <1> QED BY <1>1, <1>2, <1>4, <1>5, <1>6, <1>7 DEF LuaInv, Table

LEMMA StepUnspawn ==
  ASSUME LuaInv, NEW j \in Jobs, Unspawn(j)
  PROVE  LuaInv'
  <1>1. /\ CallTypes /\ SlotTypes /\ Spawns /\ j \in Callers /\ Unused \in SlotRecs
        /\ Count /\ OneHolderPerKey /\ j # None
    BY LuaFacts
  <1>2. PICK s \in Slots : /\ s = call[j].slot /\ jobs[s].job = j
                           /\ jobs[s].status = "queued" /\ task[j] = "none"
    BY <1>1 DEF Spawns, Unspawn, At
  <1>3. SlotSet(s, Unused) /\ Returns(j, "refused") /\ running' = CountedOff /\ UNCHANGED <<sem, task>>
    BY <1>2 DEF Unspawn, SlotSet
  <1>4. /\ CallTypes' /\ OthersStay(j) /\ call'[j].pc = "idle" /\ call'[j].result = "refused"
        /\ call'[j].slot = call[j].slot
    <2>1. "refused" \in Results
      BY DEF Results
    <2> QED BY <1>1, <1>3, <2>1, ReturnsEffect
  <1>5. ~Unused.waiter /\ Unused.job = None
    BY DEF Unused
  <1>6. jobs'[s] = Unused /\ \A t \in Slots : t # s => jobs'[t] = jobs[t]
    BY <1>1, <1>2, <1>3, SlotSetEffect
  <1>7. LuaTypes' /\ Table'
    BY <1>1, <1>2, <1>3, <1>4, <1>5, SlotLeft
  <1>8. Active(s) /\ ~Active(s)'
    BY <1>1, <1>2, <1>5, <1>6 DEF Active, Used, Ended, Terminal
  <1>9. \A t \in Slots : t # s => (Active(t)' <=> Active(t))
    BY <1>6 DEF Active, Used, Ended
  <1>10. Count'
    BY <1>1, <1>2, <1>3, <1>8, <1>9, CountLess
  <1>11. OneHolderPerKey'
    <2>1. \A t \in Slots : Active(t)' => Active(t) /\ jobs'[t].job = jobs[t].job
      BY <1>6, <1>8, <1>9
    <2> QED BY <1>1, <2>1, HoldersKept
  <1> QED BY <1>7, <1>10, <1>11 DEF LuaInv

\* run_and_wait clears the slot it has the result of, or gives the job up.
LEMMA StepLeave ==
  ASSUME LuaInv, NEW j \in Jobs, Clear(j) \/ Release(j)
  PROVE  LuaInv'
  <1>1. /\ CallTypes /\ SlotTypes /\ Waiters /\ Runs /\ Clears /\ WhyOf(j) /\ j \in Callers
        /\ Unused \in SlotRecs /\ Count /\ OneHolderPerKey /\ j # None
    BY LuaFacts
  <1>2. j \in Sync /\ InSync(j)
    BY <1>1 DEF Clear, Release, At, WhyOf, InSync, Holding
  <1>3. PICK s \in Slots : s = call[j].slot /\ jobs[s].job = j
    BY <1>1, <1>2 DEF Waiters
  <1>4. PICK r \in {"collected", "timeout"} : Returns(j, r)
    BY DEF Clear, Release
  <1>5. /\ CallTypes' /\ OthersStay(j) /\ call'[j].pc = "idle" /\ call'[j].result # "none"
        /\ call'[j].slot = call[j].slot
    <2>1. r \in Results /\ r # "none"
      BY DEF Results
    <2> QED BY <1>1, <1>4, <2>1, ReturnsEffect
  <1>6. UNCHANGED <<sem, running, task>>
    BY DEF Clear, Release
  <1>7. PICK n \in SlotRecs : /\ SlotSet(s, n) /\ ~n.waiter
                              /\ \/ n = Unused /\ task[j] # "runs" /\ Ended(s)
                                 \/ n.job = j /\ n.status = jobs[s].status
    <2>1. CASE Clear(j)
      <3>1. SlotSet(s, Unused)
        BY <1>3, <2>1 DEF Clear, SlotSet
      <3>2. Ended(s) /\ task[j] # "runs"
        BY <1>1, <1>3, <2>1 DEF Clear, At, Clears, Runs
      <3>3. ~Unused.waiter
        BY DEF Unused
      <3> QED BY <1>1, <3>1, <3>2, <3>3
    <2>2. CASE Release(j)
      <3> DEFINE n == [jobs[s] EXCEPT !.waiter = FALSE]
      <3>1. n \in SlotRecs /\ ~n.waiter /\ n.job = j /\ n.status = jobs[s].status
        BY <1>1, <1>3 DEF SlotTypes, SlotRecs
      <3>2. SlotSet(s, n)
        BY <1>3, <2>2 DEF Release, SlotSet
      <3> HIDE DEF n
      <3> QED BY <3>1, <3>2
    <2> QED BY <2>1, <2>2
  <1>8. LuaTypes' /\ Table'
    BY <1>3, <1>5, <1>6, <1>7, SlotLeft
  <1>9. jobs'[s] = n /\ \A t \in Slots : t # s => jobs'[t] = jobs[t]
    BY <1>1, <1>7, SlotSetEffect
  <1>10. Unused.job = None
    BY DEF Unused
  <1>11. (Active(s)' <=> Active(s)) /\ (Active(s)' => jobs'[s].job = jobs[s].job)
    BY <1>3, <1>7, <1>9, <1>10 DEF Active, Used, Ended
  <1>12. \A t \in Slots : t # s => (Active(t)' <=> Active(t))
    BY <1>9 DEF Active, Used, Ended
  <1>13. \A t \in Slots : (Active(t)' <=> Active(t)) /\ (Active(t)' => jobs'[t].job = jobs[t].job)
    BY <1>9, <1>11, <1>12
  <1>14. Count'
    BY <1>1, <1>6, <1>13, CountSame
  <1>15. OneHolderPerKey'
    BY <1>1, <1>13, HoldersKept
  <1> QED BY <1>8, <1>14, <1>15 DEF LuaInv

\* One field of a slot's record changes.
LEMMA StatusEffect ==
  ASSUME SlotTypes, NEW s \in Slots, NEW o \in Statuses,
         jobs' = [jobs EXCEPT ![s].status = o]
  PROVE  /\ SlotTypes' /\ jobs'[s].status = o /\ jobs'[s].job = jobs[s].job
         /\ jobs'[s].waiter = jobs[s].waiter
         /\ \A t \in Slots : t # s => jobs'[t] = jobs[t]
  BY DEF SlotTypes, SlotRecs

LEMMA StopEffect ==
  ASSUME SlotTypes, NEW s \in Slots, jobs' = [jobs EXCEPT ![s].stop = TRUE]
  PROVE  /\ SlotTypes' /\ jobs'[s].status = jobs[s].status /\ jobs'[s].job = jobs[s].job
         /\ jobs'[s].waiter = jobs[s].waiter
         /\ \A t \in Slots : t # s => jobs'[t] = jobs[t]
  BY DEF SlotTypes, SlotRecs

LEMMA StepMark ==
  ASSUME LuaInv, NEW j \in Jobs, Mark(j)
  PROVE  LuaInv'
  <1>1. /\ CallTypes /\ SlotTypes /\ Tasks /\ WhyOf(j) /\ j \in Callers /\ j \notin Stoppers
        /\ j # None
    BY LuaFacts
  <1>2. call[j].pc = "mark" /\ call[j].slot \in Slots /\ ~Unclaimed(j)
    BY <1>1 DEF Mark, At, Tasks
  <1>3. CallMoves(j)
    <2>1. CASE j \in Sync /\ Goes(j, "locate")
      <3>1. "locate" \in Pcs
        BY DEF Pcs, Holding
      <3>2. /\ CallTypes' /\ OthersStay(j) /\ call'[j].pc = "locate"
            /\ call'[j].slot = call[j].slot
        BY <1>1, <2>1, <3>1, GoesEffect
      <3> QED BY <1>1, <1>2, <2>1, <3>2 DEF CallMoves, Unclaimed, InSync, WhyOf, Holding, Waits
    <2>2. CASE j \notin Sync /\ Returns(j, "submitted")
      <3>1. "submitted" \in Results
        BY DEF Results
      <3>2. /\ CallTypes' /\ OthersStay(j) /\ call'[j].pc = "idle"
            /\ call'[j].slot = call[j].slot /\ call'[j].result = "submitted"
        BY <1>1, <2>2, <3>1, ReturnsEffect
      <3> QED BY <1>1, <1>2, <2>2, <3>2 DEF CallMoves, Unclaimed, InSync, WhyOf, Holding, Waits
    <2> QED BY <2>1, <2>2 DEF Mark
  <1>4. UNCHANGED <<sem, running, task>> /\ sem' \in [Slots -> BOOLEAN]
    BY DEF Mark, LuaInv, LuaTypes
  <1>5. CASE jobs' = jobs
    BY <1>1, <1>3, <1>4, <1>5, CallOnly
  <1>6. CASE jobs' # jobs
    <2>1. PICK s \in Slots : s = call[j].slot
      BY <1>2
    <2>2. /\ jobs[s].job = j /\ jobs[s].status = "queued"
          /\ jobs' = [jobs EXCEPT ![s].status = "running"]
      BY <1>6, <2>1 DEF Mark, Marks
    <2>3. "running" \in Statuses /\ "running" \notin Terminal /\ "queued" \notin Terminal
      BY DEF Statuses, Terminal
    <2>4. /\ SlotTypes' /\ jobs'[s].status = "running" /\ jobs'[s].job = jobs[s].job
          /\ jobs'[s].waiter = jobs[s].waiter
          /\ \A t \in Slots : t # s => jobs'[t] = jobs[t]
      BY <1>1, <2>2, <2>3, StatusEffect
    <2>5. Used(s) /\ (Ended(s)' <=> Ended(s))
      BY <1>1, <2>2, <2>3, <2>4 DEF Used, Ended
    <2>6. call[jobs[s].job].pc \notin {"spawn", "unspawn"}
      BY <1>2, <2>2
    <2> QED BY <1>1, <1>3, <1>4, <2>4, <2>5, <2>6, SlotTouched
  <1> QED BY <1>5, <1>6

LEMMA StepRequestStop ==
  ASSUME LuaInv, NEW p \in Callers, RequestStop(p)
  PROVE  LuaInv'
  <1>1. /\ CallTypes /\ SlotTypes /\ WhyOf(p) /\ Jobs \cap Stoppers = {}
    BY DEF LuaInv, LuaTypes, Table, Whys
  <1>2. call[p].pc = "stopping" /\ call[p].pc \in Waits /\ "peek" \in Pcs /\ "peek" \in Waits
    BY DEF RequestStop, At, Waits, Pcs
  <1>3. call[p].slot \in Slots
    BY <1>1, <1>2 DEF WhyOf
  <1>4. UNCHANGED <<sem, running, task>> /\ sem' \in [Slots -> BOOLEAN]
    BY DEF RequestStop, LuaInv, LuaTypes
  <1>5. CASE Told(p, TRUE) /\ jobs' = jobs
    <2>1. CallMoves(p)
      BY <1>2, <1>5, ToldMoves
    <2> QED BY <1>4, <1>5, <2>1, CallOnly
  <1>6. ASSUME Active(call[p].slot), jobs' = [jobs EXCEPT ![call[p].slot].stop = TRUE],
               Goes(p, "peek")
        PROVE  LuaInv'
    <2>1. PICK s \in Slots : s = call[p].slot
      BY <1>3
    <2>2. /\ CallTypes' /\ OthersStay(p) /\ call'[p].pc = "peek"
          /\ call'[p].why = call[p].why /\ call'[p].slot = call[p].slot
      BY <1>1, <1>2, <1>6, GoesEffect
    <2>3. CallMoves(p)
      BY <1>1, <1>2, <2>2 DEF CallMoves, Unclaimed, InSync, WhyOf, Holding, Waits
    <2>4. /\ SlotTypes' /\ jobs'[s].status = jobs[s].status /\ jobs'[s].job = jobs[s].job
          /\ jobs'[s].waiter = jobs[s].waiter
          /\ \A t \in Slots : t # s => jobs'[t] = jobs[t]
      BY <1>1, <1>6, <2>1, StopEffect
    <2>5. Used(s) /\ (Ended(s)' <=> Ended(s))
      BY <1>6, <2>1, <2>4 DEF Active, Ended
    <2> QED BY <1>4, <2>3, <2>4, <2>5, SlotTouched
  <1> QED BY <1>5, <1>6 DEF RequestStop

\* A job's task records the outcome in the slot of its job.
LEMMA StepFinish ==
  ASSUME LuaInv, NEW j \in Jobs, Finish(j)
  PROVE  LuaInv'
  <1>a. /\ SlotTypes /\ Homes /\ Spawns /\ Runs /\ Tasks /\ Waiters /\ Waited /\ Clears
        /\ Count /\ OneHolderPerKey /\ j # None
    BY LuaFacts
  <1>b. task[j] = "runs" /\ UNCHANGED <<sem, call>> /\ running' = CountedOff
    BY DEF Finish
  <1>c. PICK s \in Slots : s = call[j].slot /\ jobs[s].job = j /\ ~Ended(s)
    BY <1>a, <1>b DEF Runs
  <1>d. PICK o \in Terminal : jobs' = [jobs EXCEPT ![s].status = o]
    <2>1. \A t \in Slots : jobs[t].job = j => t = s
      BY <1>c, OneHome
    <2> QED BY <2>1 DEF Finish, Terminal
  <1>e. /\ SlotTypes' /\ jobs'[s].status = o /\ jobs'[s].job = j
        /\ jobs'[s].waiter = jobs[s].waiter
        /\ \A t \in Slots : t # s => jobs'[t] = jobs[t]
    BY <1>a, <1>c, <1>d, StatusEffect, ZenonT(40) DEF Statuses
  <1>f. \A t \in Slots : jobs'[t].job = jobs[t].job /\ jobs'[t].waiter = jobs[t].waiter
    BY <1>c, <1>e
  <1>g. \A i \in Jobs : Unclaimed(i)' = Unclaimed(i) /\ InSync(i)' = InSync(i)
    BY <1>b DEF Unclaimed, InSync
  <1>h. /\ task' \in [Jobs -> {"none", "runs", "signals", "ended"}] /\ task'[j] = "signals"
        /\ \A i \in Jobs : i # j => task'[i] = task[i]
    BY DEF Finish, LuaInv, LuaTypes
  <1>i. Active(s) /\ ~Active(s)' /\ Used(s) /\ Ended(s)'
    BY <1>a, <1>c, <1>d, <1>e DEF Active, Used, Ended
  <1>j. \A t \in Slots : t # s => (Active(t)' <=> Active(t)) /\ (Used(t)' <=> Used(t))
    BY <1>e DEF Active, Used, Ended
  <1>k. Sync \subseteq Jobs
    OBVIOUS
  <1>1. LuaTypes'
    <2>1. ASSUME NEW t \in Slots, ~Used(t)'
          PROVE  jobs'[t] = Unused
      <3>1. t # s
        BY <1>a, <1>e, <2>1 DEF Used
      <3> QED BY <1>e, <1>j, <2>1, <3>1 DEF LuaInv, LuaTypes
    <2> QED BY <1>b, <1>e, <1>h, <2>1 DEF LuaInv, LuaTypes, CallTypes
  <1>2. Homes'
    <2> SUFFICES ASSUME NEW t \in Slots, Used(t)'
                 PROVE  \E i \in Jobs : /\ jobs'[t].job = i /\ ~Unclaimed(i)'
                                        /\ call'[i].slot = t
      BY DEF Homes
    <2>1. Used(t)
      BY <1>f DEF Used
    <2>2. PICK i \in Jobs : jobs[t].job = i
      BY <1>a, <2>1 DEF SlotTypes, SlotRecs, Used
    <2>3. ~Unclaimed(i) /\ call[i].slot = t
      BY <1>a, <2>1, <2>2 DEF Homes
    <2> QED BY <1>b, <1>f, <1>g, <2>2, <2>3
  <1>3. ASSUME NEW i \in Jobs
        PROVE  /\ call'[i].pc \in {"spawn", "unspawn"} =>
                     /\ call'[i].slot \in Slots /\ jobs'[call'[i].slot].job = i
                     /\ jobs'[call'[i].slot].status = "queued" /\ task'[i] = "none"
               /\ task'[i] = "runs" =>
                     /\ call'[i].slot \in Slots /\ jobs'[call'[i].slot].job = i
                     /\ jobs'[call'[i].slot].status \notin Terminal
               /\ task'[i] # "none" => ~Unclaimed(i)' /\ call'[i].slot \in Slots
               /\ call'[i].pc = "mark" => task'[i] # "none"
    <2>1. CASE i = j
      BY <1>a, <1>b, <1>c, <1>g, <1>h, <2>1 DEF Spawns, Tasks
    <2>2. CASE i # j
      <3>1. call'[i] = call[i] /\ task'[i] = task[i] /\ (Unclaimed(i)' <=> Unclaimed(i))
        BY <1>b, <1>g, <1>h, <2>2
      <3>2. \A t \in Slots : jobs[t].job = i => jobs'[t] = jobs[t]
        BY <1>c, <1>e, <2>2
      <3> QED BY <1>a, <3>1, <3>2 DEF Spawns, Runs, Tasks, Ended
    <2> QED BY <2>1, <2>2
  <1>4. Spawns' /\ Runs' /\ Tasks'
    BY <1>3 DEF Spawns, Runs, Tasks, Ended
  <1>5. Waiters' /\ Waited'
    BY <1>a, <1>b, <1>f, <1>g, <1>k DEF Waiters, Waited
  <1>6. Whys'
    BY <1>b DEF Whys, WhyOf, LuaInv, Table
  <1>7. Clears'
    <2>1. \A t \in Slots : Ended(t) => jobs'[t].status \in Terminal
      BY <1>d, <1>e DEF Ended
    <2> SUFFICES ASSUME NEW i \in Jobs, call[i].pc = "clear"
                 PROVE  jobs'[call[i].slot].status \in Terminal
      BY <1>b DEF Clears, Ended
    <2>2. i \in Callers /\ i \in Sync /\ InSync(i)
      BY DEF LuaInv, Table, Whys, WhyOf, InSync, Holding, Callers
    <2>3. call[i].slot \in Slots
      BY <1>a, <2>2 DEF Waiters
    <2> QED BY <1>a, <2>1, <2>3 DEF Clears
  <1>8. Count'
    BY <1>a, <1>b, <1>i, <1>j, CountLess
  <1>9. OneHolderPerKey'
    <2>1. \A t \in Slots : Active(t)' => Active(t) /\ jobs'[t].job = jobs[t].job
      BY <1>f, <1>i, <1>j
    <2> QED BY <1>a, <2>1, HoldersKept
  <1> QED BY <1>1, <1>2, <1>4, <1>5, <1>6, <1>7, <1>8, <1>9 DEF LuaInv, Table

LEMMA StepSignal ==
  ASSUME LuaInv, NEW j \in Jobs, Signal(j)
  PROVE  LuaInv'
  <1>1. /\ UNCHANGED <<jobs, running, call>> /\ sem' = [sem EXCEPT ![call[j].slot] = TRUE]
        /\ task[j] = "signals" /\ task' = [task EXCEPT ![j] = "ended"]
    BY DEF Signal
  <1>2. /\ task' \in [Jobs -> {"none", "runs", "signals", "ended"}]
        /\ \A i \in Jobs : /\ task'[i] = "none" <=> task[i] = "none"
                           /\ task'[i] = "runs" <=> task[i] = "runs"
    BY <1>1 DEF LuaInv, LuaTypes
  <1>3. sem' \in [Slots -> BOOLEAN]
    BY <1>1 DEF LuaInv, LuaTypes
  <1>4. \A t \in Slots : Used(t)' = Used(t) /\ Active(t)' = Active(t)
    BY <1>1 DEF Used, Ended, Active
  <1>5. LuaTypes'
    BY <1>1, <1>2, <1>3, <1>4 DEF LuaInv, LuaTypes, CallTypes, SlotTypes
  <1>6. \A i \in Jobs : Unclaimed(i)' = Unclaimed(i) /\ InSync(i)' = InSync(i)
    BY <1>1 DEF Unclaimed, InSync
  <1>7. Homes'
    <2>1. \A t \in Slots : Used(t) => jobs[t].job \in Jobs
      BY DEF LuaInv, LuaTypes, SlotTypes, SlotRecs, Used
    <2> QED BY <1>1, <1>4, <1>6, <2>1 DEF Homes, LuaInv, Table
  <1>8. Spawns' /\ Runs' /\ Tasks'
    BY <1>1, <1>2, <1>6 DEF LuaInv, Table, Spawns, Runs, Tasks, Ended
  <1>9. Waiters' /\ Waited' /\ Clears'
    BY <1>1, <1>6 DEF LuaInv, Table, Waiters, Waited, Clears, Ended
  <1>10. Whys'
    BY <1>1 DEF LuaInv, Table, Whys, WhyOf
  <1>11. Count' /\ OneHolderPerKey'
    BY <1>1, <1>4 DEF LuaInv, Count, RunningIsExact, OneHolderPerKey
  <1> QED BY <1>5, <1>7, <1>8, <1>9, <1>10, <1>11 DEF LuaInv, Table

LEMMA StepNothing ==
  ASSUME LuaInv, UNCHANGED vars
  PROVE  LuaInv'
  <1>1. UNCHANGED <<jobs, sem, running, call, task>>
    BY DEF vars
  <1>2. LuaTypes'
    BY <1>1 DEF LuaInv, LuaTypes, CallTypes, SlotTypes, Used
  <1>3. Homes' /\ Spawns' /\ Runs' /\ Tasks'
    BY <1>1 DEF LuaInv, Table, Homes, Spawns, Runs, Tasks, Used, Ended, Unclaimed
  <1>4. Waiters' /\ Waited' /\ Clears' /\ Whys'
    BY <1>1 DEF LuaInv, Table, Waiters, Waited, Clears, Whys, WhyOf, InSync, Ended
  <1>5. Count' /\ OneHolderPerKey'
    BY <1>1 DEF LuaInv, Count, RunningIsExact, OneHolderPerKey, Active, Used, Ended
  <1> QED BY <1>2, <1>3, <1>4, <1>5 DEF LuaInv, Table

LEMMA LuaStep == LuaInv /\ [Next]_vars => LuaInv'
  <1> SUFFICES ASSUME LuaInv, [Next]_vars PROVE LuaInv'
    OBVIOUS
  <1>1. ASSUME NEW p \in Callers, WaitStep(p)
        PROVE  LuaInv'
    <2>1. CASE RequestStop(p)
      BY <2>1, StepRequestStop
    <2>2. CASE Peek(p) \/ Woken(p) \/ Expire(p) \/ Verify(p)
      <3>1. CallMoves(p)
        BY <2>2, WaitMoves
      <3>2. UNCHANGED <<jobs, running, task>> /\ sem' \in [Slots -> BOOLEAN]
        BY <2>2 DEF Peek, Woken, Expire, Verify, LuaInv, LuaTypes
      <3> QED BY <3>1, <3>2, CallOnly
    <2> QED BY <1>1, <2>1, <2>2 DEF WaitStep
  <1>2. ASSUME NEW j \in Jobs, Submit(j) \/ Check(j) \/ Locate(j) \/ Collect(j)
        PROVE  LuaInv'
    <2>1. CallMoves(j)
      BY <1>2, SubmitMoves, SyncMoves
    <2>2. UNCHANGED <<jobs, sem, running, task>> /\ sem \in [Slots -> BOOLEAN] /\ j \in Callers
      BY <1>2 DEF Submit, Check, Locate, Collect, LuaInv, LuaTypes, Callers
    <2> QED BY <2>1, <2>2, CallOnly
  <1>3. ASSUME NEW p \in Stoppers, StopJob(p)
        PROVE  LuaInv'
    <2>1. CallMoves(p)
      BY <1>3, StopJobMoves
    <2>2. UNCHANGED <<jobs, sem, running, task>> /\ sem \in [Slots -> BOOLEAN] /\ p \in Callers
      BY <1>3 DEF StopJob, LuaInv, LuaTypes, Callers
    <2> QED BY <2>1, <2>2, CallOnly
  <1>4. ASSUME NEW j \in Jobs, Submit(j) \/ CallStep(j) \/ Finish(j) \/ Signal(j)
        PROVE  LuaInv'
    <2>1. \/ Submit(j) \/ Check(j) \/ Locate(j) \/ Collect(j)
          \/ Commit(j) \/ Spawn(j) \/ Unspawn(j) \/ Mark(j)
          \/ Clear(j) \/ Release(j) \/ Finish(j) \/ Signal(j)
      BY <1>4 DEF CallStep
    <2> QED BY <1>2, <2>1, StepCommit, StepSpawn, StepUnspawn, StepMark, StepLeave,
                StepFinish, StepSignal
  <1> QED BY <1>1, <1>3, <1>4, StepNothing DEF Next

\* The inductive invariant: every occupied slot belongs to one job, whose task or submitter
\* will give it back, holds in every reachable state.
THEOREM LuaInvariant == Spec => []LuaInv
  BY LuaInit, LuaStep, PTL DEF Spec

-----------------------------------------------------------------------------
(* What it gives. *)

\* The table, the semaphores, the count and the tasks stay within their types.
THEOREM LuaTypeCorrect == Spec => []TypeOK
  <1>1. LuaInv => TypeOK
    BY DEF LuaInv, LuaTypes, CallTypes, SlotTypes, CallRecs, SlotRecs, Count, TypeOK
  <1> QED BY <1>1, LuaInvariant, PTL

\* However a submission fails and a job ends, s_running_jobs is the number of
\* jobs in the table that have not ended.
THEOREM RunningIsCounted == Spec => []RunningIsExact
  <1>1. LuaInv => RunningIsExact
    BY DEF LuaInv, Count
  <1> QED BY <1>1, LuaInvariant, PTL

\* Jobs that claim a name or a group in common never run at once.
THEOREM KeysHaveOneHolder == Spec => []OneHolderPerKey
  <1>1. LuaInv => OneHolderPerKey
    BY DEF LuaInv
  <1> QED BY <1>1, LuaInvariant, PTL

\* A slot stays its job's while that job's script runs.
THEOREM TasksOwnTheirSlots == Spec => []RunningOwnsSlot
  <1>1. LuaInv => RunningOwnsSlot
    BY DEF LuaInv, Table, Runs, RunningOwnsSlot
  <1> QED BY <1>1, LuaInvariant, PTL

\* What run_and_wait waits for is still in its slot when it comes to collect it.
THEOREM ResultsAreKept == Spec => []ResultIsKept
  <1>1. ASSUME LuaInv, NEW j \in Sync,
               call[j].pc \in {"peek", "await", "verify", "collect"}, call[j].why = "sync"
        PROVE  jobs[call[j].slot].job = j
    <2>1. InSync(j)
      BY <1>1 DEF InSync, Waits, Holding
    <2> QED BY <1>1, <2>1 DEF LuaInv, Table, Waiters
  <1>2. LuaInv => ResultIsKept
    BY <1>1 DEF ResultIsKept
  <1> QED BY <1>2, LuaInvariant, PTL

\* When no call is under way, every slot whose job has ended can be claimed.
THEOREM SlotsAreGivenBack == Spec => []SlotsComeBack
  <1>1. ASSUME LuaInv, \A p \in Callers : call[p].pc = "idle", NEW s \in Slots, Ended(s)
        PROVE  Reusable(s)
    <2>1. \A j \in Sync : ~InSync(j)
      BY <1>1 DEF InSync, Waits, Holding, Callers
    <2>2. ~jobs[s].waiter
      BY <1>1, <2>1 DEF LuaInv, Table, Waited
    <2> QED BY <1>1, <2>2 DEF Reusable
  <1>2. LuaInv => SlotsComeBack
    BY <1>1 DEF SlotsComeBack
  <1> QED BY <1>2, LuaInvariant, PTL
=============================================================================
