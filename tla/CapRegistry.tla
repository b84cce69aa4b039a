---------------------------- MODULE CapRegistry ----------------------------
(***************************************************************************)
(* claw_cap: the registry of capability groups.  Tasks call capabilities   *)
(* while others register, enable, disable and unload the groups they       *)
(* belong to.  The registry's mutex covers each look at a slot; the        *)
(* lifecycle callbacks and the calls themselves run without it.            *)
(*                                                                         *)
(* The descriptors of a group change state together, so a slot stands for  *)
(* a group with its descriptors and their active_calls added up.  The      *)
(* tables are large enough: their growth is not modelled.  Callbacks are   *)
(* outside: each run of a group's start or stop hooks is one step.         *)
(***************************************************************************)
EXTENDS Naturals, FiniteSets

CONSTANTS Groups,       \* group ids
          Slots,        \* group_slots
          Managers,     \* tasks that register, enable, disable and unload groups
          Callers,      \* tasks that call capabilities
          NoGroup

ASSUME SlotsAssumption == /\ IsFiniteSet(Slots) /\ Slots = 1..Cardinality(Slots)
                          /\ IsFiniteSet(Callers)
                          /\ NoGroup \notin Groups

VARIABLES
    started,  \* s_runtime.started
    slots,    \* s_runtime.group_slots
    mgr,      \* per manager: where it is, its group_slot_index, what start_all
              \* has still to visit
    caller,   \* per caller: the group it executes a capability of, its slot
    live      \* external: what the group's hooks last did

capVars == <<started, slots, mgr, caller, live>>

Vacant == [group |-> NoGroup, state |-> "vacant", active |-> 0]
Available == {"registered", "started"}
Leaving == {"draining", "unloading"}
NoWork == [pc |-> "idle", slot |-> 0, scan |-> {}]
NoCall == [group |-> NoGroup, slot |-> 0]

\* The groups the application registers before anything else runs.
CapInit == /\ started = FALSE
           /\ \E G \in SUBSET Groups :
                 \E place \in [G -> Slots] :
                    /\ \A g, h \in G : place[g] = place[h] => g = h
                    /\ slots = [s \in Slots |->
                           IF \E g \in G : place[g] = s
                           THEN [group |-> CHOOSE g \in G : place[g] = s,
                                 state |-> "registered", active |-> 0]
                           ELSE Vacant]
           /\ mgr = [m \in Managers |-> NoWork]
           /\ caller = [c \in Callers |-> NoCall]
           /\ live = [g \in Groups |-> "down"]

Holds(s, g) == slots[s].group = g
Vacated(s) == Holds(s, NoGroup)    \* ~occupied
Turns(s, state) == slots' = [slots EXCEPT ![s].state = state]
MgrGoes(m, pc, s) == mgr' = [mgr EXCEPT ![m] = [pc |-> pc, slot |-> s, scan |-> mgr[m].scan]]
MgrReturns(m) == MgrGoes(m, IF mgr[m].scan = {} THEN "idle" ELSE "scan", 0)
MgrAt(m, pc) == mgr[m].pc = pc

-----------------------------------------------------------------------------
(* claw_cap_enable_group, and start_all, which enables every group.        *)

EnableSlotVariant(m, s) ==
    IF slots[s].state \in Leaving THEN MgrReturns(m) /\ UNCHANGED slots
    ELSE IF started THEN Turns(s, "started") /\ MgrGoes(m, "start", s)
    ELSE Turns(s, "registered") /\ MgrReturns(m)
EnableSlot(m, s) ==
    IF slots[s].state \in Leaving \cup {"started"} THEN MgrReturns(m) /\ UNCHANGED slots
    ELSE IF started THEN Turns(s, "started") /\ MgrGoes(m, "start", s)
    ELSE Turns(s, "registered") /\ MgrReturns(m)

Enable(m, g) == /\ MgrAt(m, "idle")
                /\ \E s \in Slots : Holds(s, g) /\ EnableSlot(m, s)
                /\ UNCHANGED <<started, caller, live>>

StartAll(m) == /\ MgrAt(m, "idle") /\ ~started
               /\ started' = TRUE
               /\ mgr' = [mgr EXCEPT ![m] = [pc |-> "scan", slot |-> 0, scan |-> Slots]]
               /\ UNCHANGED <<slots, caller, live>>

\* The next slot in order; a vacant or disabled one is passed over.
Scan(m) == /\ MgrAt(m, "scan")
           /\ \E s \in mgr[m].scan :
                 /\ \A j \in mgr[m].scan : s <= j
                 /\ mgr' = [mgr EXCEPT ![m] =
                       [pc |-> IF ~Vacated(s) /\ slots[s].state # "disabled" THEN "visit"
                               ELSE IF mgr[m].scan = {s} THEN "idle" ELSE "scan",
                        slot |-> s, scan |-> mgr[m].scan \ {s}]]
           /\ UNCHANGED <<started, slots, caller, live>>

Visit(m) == /\ MgrAt(m, "visit")
            /\ IF Vacated(mgr[m].slot) THEN MgrReturns(m) /\ UNCHANGED slots
               ELSE EnableSlot(m, mgr[m].slot)
            /\ UNCHANGED <<started, caller, live>>

\* claw_cap_start_group_callbacks, for whatever group the slot has now: all
\* of its hooks succeed, or one of them fails.
StartCallbacks(m) ==
    LET s == mgr[m].slot
    IN /\ MgrAt(m, "start")
       /\ IF Vacated(s) THEN MgrGoes(m, "startfailed", s) /\ UNCHANGED live
          ELSE \/ live' = [live EXCEPT ![slots[s].group] = "up"] /\ MgrGoes(m, "started", s)
               \/ live' = [live EXCEPT ![slots[s].group] = "partial"]
                  /\ MgrGoes(m, "startfailed", s)
       /\ UNCHANGED <<started, slots, caller>>

\* claw_cap_start_group_locked after the hooks.
Started(m) == LET s == mgr[m].slot
              IN /\ MgrAt(m, "started")
                 /\ slots' = IF Vacated(s) \/ slots[s].state \in Leaving THEN slots
                             ELSE [slots EXCEPT ![s].state = "started"]
                 /\ MgrReturns(m)
                 /\ UNCHANGED <<started, caller, live>>

StartFailedVariant(m) == MgrAt(m, "startfailed") /\ MgrReturns(m)
                         /\ UNCHANGED <<started, slots, caller, live>>
StartFailed(m) == LET s == mgr[m].slot
                  IN /\ MgrAt(m, "startfailed")
                     /\ slots' = IF Vacated(s) \/ slots[s].state \in Leaving THEN slots
                                 ELSE [slots EXCEPT ![s].state = "disabled"]
                     /\ MgrReturns(m)
                     /\ UNCHANGED <<started, caller, live>>

-----------------------------------------------------------------------------
(* claw_cap_disable_group.                                                 *)

Disable(m, g) == /\ MgrAt(m, "idle")
                 /\ \E s \in Slots : /\ Holds(s, g) /\ slots[s].state \in Available
                                     /\ Turns(s, "disabled")
                                     /\ MgrGoes(m, "stop", s)
                 /\ UNCHANGED <<started, caller, live>>

\* claw_cap_stop_group_callbacks; every hook runs, whatever they return.
StopHooks(s) == live' = IF Vacated(s) THEN live
                        ELSE [live EXCEPT ![slots[s].group] = "down"]

StopCallbacks(m) == /\ MgrAt(m, "stop")
                    /\ StopHooks(mgr[m].slot)
                    /\ MgrReturns(m)
                    /\ UNCHANGED <<started, slots, caller>>

-----------------------------------------------------------------------------
(* claw_cap_unregister_group.                                              *)

Unregister(m, g) == /\ MgrAt(m, "idle")
                    /\ \E s \in Slots : /\ Holds(s, g) /\ slots[s].state # "unloading"
                                        /\ Turns(s, "draining")
                                        /\ MgrGoes(m, "drain", s)
                    /\ UNCHANGED <<started, caller, live>>

\* One poll: no call is active, or the time is over.  A slot that another
\* unload has cleared has no active calls.
DrainedVariant(m) == /\ MgrAt(m, "drain")
                     /\ Turns(mgr[m].slot, "unloading")
                     /\ MgrGoes(m, "unload", mgr[m].slot)
                     /\ UNCHANGED <<started, caller, live>>
Drained(m) == LET s == mgr[m].slot
              IN /\ MgrAt(m, "drain") /\ slots[s].active = 0
                 /\ Turns(s, "unloading")
                 /\ MgrGoes(m, "unload", s)
                 /\ UNCHANGED <<started, caller, live>>

DrainTimeout(m) == /\ MgrAt(m, "drain") /\ slots[mgr[m].slot].active > 0
                   /\ MgrReturns(m)
                   /\ UNCHANGED <<started, slots, caller, live>>

UnloadCallbacks(m) == /\ MgrAt(m, "unload")
                      /\ StopHooks(mgr[m].slot)
                      /\ MgrGoes(m, "clear", mgr[m].slot)
                      /\ UNCHANGED <<started, slots, caller>>

ClearSlot(m) == /\ MgrAt(m, "clear")
                /\ slots' = [slots EXCEPT ![mgr[m].slot] = Vacant]
                /\ MgrReturns(m)
                /\ UNCHANGED <<started, caller, live>>

-----------------------------------------------------------------------------
(* claw_cap_register_group while the registry is in use.                   *)

\* The first free slot; group_init runs under the mutex and may fail.
Register(m, g) ==
    LET free == {s \in Slots : Vacated(s)}
    IN /\ MgrAt(m, "idle")
       /\ \A s \in Slots : ~Holds(s, g)
       /\ \E s \in free :
             /\ \A j \in free : s <= j
             /\ slots' = [slots EXCEPT ![s] = [group |-> g, state |-> "registered",
                                               active |-> 0]]
             /\ IF started THEN MgrGoes(m, "visit", s) ELSE UNCHANGED mgr
       /\ UNCHANGED <<started, caller, live>>

-----------------------------------------------------------------------------
(* claw_cap_call.                                                          *)

BeginCall(c, g) == /\ caller[c] = NoCall
                   /\ \E s \in Slots : /\ Holds(s, g) /\ slots[s].state \in Available
                                       /\ slots' = [slots EXCEPT ![s].active = @ + 1]
                                       /\ caller' = [caller EXCEPT ![c] = [group |-> g,
                                                                           slot |-> s]]
                   /\ UNCHANGED <<started, mgr, live>>

\* The call ends: it is counted off the slot it was counted on.
EndCall(c) == LET s == caller[c].slot
              IN /\ caller[c] # NoCall
                 /\ slots' = IF slots[s].active > 0
                             THEN [slots EXCEPT ![s].active = @ - 1] ELSE slots
                 /\ caller' = [caller EXCEPT ![c] = NoCall]
                 /\ UNCHANGED <<started, mgr, live>>

-----------------------------------------------------------------------------

ManagerStep(m) == \/ Scan(m) \/ Visit(m) \/ StartCallbacks(m) \/ Started(m) \/ StartFailed(m)
                  \/ StopCallbacks(m) \/ Drained(m) \/ DrainTimeout(m)
                  \/ UnloadCallbacks(m) \/ ClearSlot(m)

CapNext == \/ \E m \in Managers : StartAll(m) \/ ManagerStep(m)
           \/ \E m \in Managers, g \in Groups :
                 Enable(m, g) \/ Disable(m, g) \/ Unregister(m, g) \/ Register(m, g)
           \/ \E c \in Callers, g \in Groups : BeginCall(c, g)
           \/ \E c \in Callers : EndCall(c)

CapSpec == CapInit /\ [][CapNext]_capVars

-----------------------------------------------------------------------------
(* Properties.                                                             *)

\* The state stays within its types.
CapTypeOK ==
    /\ started \in BOOLEAN
    /\ slots \in [Slots -> [group : Groups \cup {NoGroup},
                            state : Available \cup Leaving \cup {"vacant", "disabled"},
                            active : 0..Cardinality(Callers)]]
    /\ mgr \in [Managers -> [pc : {"idle", "scan", "visit", "start", "started",
                                   "startfailed", "stop", "drain", "unload", "clear"},
                             slot : Slots \cup {0}, scan : SUBSET Slots]]
    /\ caller \in [Callers -> [group : Groups \cup {NoGroup}, slot : Slots \cup {0}]]
    /\ live \in [Groups -> {"down", "up", "partial"}]

\* No call ever executes code of a group that was unloaded under it:
\* unregister_group waits for active calls (claw-cap.mdx:61).
UnloadWaits == \A c \in Callers : caller[c] # NoCall => Holds(caller[c].slot, caller[c].group)

\* Once nobody is at work on it, a group that is listed as started has been
\* started, and not stopped or half started since.
StartedIsUp ==
    (\A m \in Managers : mgr[m].pc \in {"idle", "scan"}) =>
        \A s \in Slots : slots[s].state = "started" => live[slots[s].group] = "up"

\* The hooks of a group that is up are never started again.
NeverStartedTwice ==
    [][\A m \in Managers : MgrAt(m, "start") /\ mgr'[m].pc \in {"started", "startfailed"}
          /\ ~Vacated(mgr[m].slot) => live[slots[mgr[m].slot].group] # "up"]_capVars
=============================================================================
