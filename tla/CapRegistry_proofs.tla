------------------------- MODULE CapRegistry_proofs -------------------------
(***************************************************************************)
(* Proofs about CapRegistry, for any groups, slots and callers and for one *)
(* manager, as the product has it: groups are unloaded when no call is in  *)
(* them, and started and stopped in turn.                                  *)
(***************************************************************************)
EXTENDS CapRegistry, FiniteSetTheorems, TLAPS

USE SlotsAssumption

-----------------------------------------------------------------------------
(* The invariant.                                                          *)

\* With a second manager a slot can change its group between an unload's
\* callbacks and its last step, and be cleared under the other's calls.
OneManager == \A m, n \in Managers : m = n

CallsOn(s) == {c \in Callers : caller[c] # NoCall /\ caller[c].slot = s}
CallsCounted == \A s \in Slots : slots[s].active = Cardinality(CallsOn(s))
CallsHeld == \A c \in Callers : caller[c] # NoCall =>
                /\ caller[c].slot \in Slots /\ caller[c].group \in Groups
                /\ Holds(caller[c].slot, caller[c].group)
OneSlot == \A r, s \in Slots : slots[r].group = slots[s].group /\ ~Vacated(s) => r = s
VacantState == \A s \in Slots : Vacated(s) => slots[s].state = "vacant"

\* Where a manager is says how far its slot is: an unload has waited for the
\* calls, and the group that is being started was down.
AtWork(m) == mgr[m].pc \notin {"idle", "scan"}
WorksOn == \A m \in Managers :
    /\ AtWork(m) => mgr[m].slot \in Slots
    /\ MgrAt(m, "idle") => mgr[m].scan = {}
    /\ \A s \in Slots : s = mgr[m].slot =>
          /\ MgrAt(m, "drain") => slots[s].state = "draining"
          /\ mgr[m].pc \in {"unload", "clear"} =>
                slots[s].state = "unloading" /\ slots[s].active = 0
          /\ mgr[m].pc \in {"start", "started", "startfailed"} => slots[s].state = "started"
          /\ MgrAt(m, "stop") => slots[s].state = "disabled"
          /\ mgr[m].pc \in {"visit", "start", "started", "startfailed", "stop", "drain", "unload",
                            "clear"} => ~Vacated(s)

\* A group that is up has a slot, which is started or on its way down; one
\* that is started is up, but for the slot whose hooks run.
UpIsListed == \A g \in Groups : live[g] = "up" =>
    \E s \in Slots : /\ Holds(s, g)
                     /\ \/ slots[s].state \in {"started"} \cup Leaving
                        \/ \E m \in Managers : MgrAt(m, "stop") /\ mgr[m].slot = s
UpInTurn == \A s \in Slots : ~Vacated(s) =>
    /\ (\A m \in Managers : mgr[m].slot = s => mgr[m].pc \notin {"start", "startfailed"}) =>
          (slots[s].state = "started" => live[slots[s].group] = "up")
    /\ \A m \in Managers : mgr[m].slot = s =>
          /\ mgr[m].pc \in {"start", "startfailed", "clear"} => live[slots[s].group] # "up"
          /\ MgrAt(m, "started") => live[slots[s].group] = "up"

CallInv == CallsCounted /\ CallsHeld /\ OneSlot /\ VacantState /\ WorksOn
HookInv == UpIsListed /\ UpInTurn
CapInv == OneManager /\ CapTypeOK /\ CallInv /\ HookInv

Pcs == {"idle", "scan", "visit", "start", "started", "startfailed", "stop", "drain", "unload",
        "clear"}
States == Available \cup Leaving \cup {"vacant", "disabled"}
GroupSlots == [group : Groups \cup {NoGroup}, state : States, active : 0..Cardinality(Callers)]
Work == [pc : Pcs, slot : Slots \cup {0}, scan : SUBSET Slots]
Calls == [group : Groups \cup {NoGroup}, slot : Slots \cup {0}]
Hooks == {"down", "up", "partial"}

LEMMA TypesOf ==
    CapTypeOK <=> /\ started \in BOOLEAN /\ slots \in [Slots -> GroupSlots]
                  /\ mgr \in [Managers -> Work] /\ caller \in [Callers -> Calls]
                  /\ live \in [Groups -> Hooks]
BY DEF CapTypeOK, GroupSlots, Work, Calls, Hooks, Pcs, States

LEMMA CallersFinite == 0 \in 0..Cardinality(Callers) /\ Cardinality(Callers) \in Nat
BY FS_CardinalityType, SlotsAssumption

LEMMA SlotsArePositive == 0 \notin Slots
<1>1. Cardinality(Slots) \in Nat
  BY FS_CardinalityType, SlotsAssumption
<1>2. 0 \notin 1..Cardinality(Slots)
  BY <1>1
<1>3. QED  BY <1>2, SlotsAssumption

LEMMA CapInitInv == OneManager /\ CapInit => CapInv
<1> SUFFICES ASSUME OneManager, CapInit PROVE CapInv
  OBVIOUS
<1>g. PICK G \in SUBSET Groups :
         \E place \in [G -> Slots] :
            /\ \A g, h \in G : place[g] = place[h] => g = h
            /\ slots = [s \in Slots |->
                   IF \E g \in G : place[g] = s
                   THEN [group |-> CHOOSE g \in G : place[g] = s, state |-> "registered",
                         active |-> 0]
                   ELSE Vacant]
  BY DEF CapInit
<1>1. PICK place \in [G -> Slots] :
         /\ \A g, h \in G : place[g] = place[h] => g = h
         /\ slots = [s \in Slots |->
                IF \E g \in G : place[g] = s
                THEN [group |-> CHOOSE g \in G : place[g] = s, state |-> "registered",
                      active |-> 0]
                ELSE Vacant]
  BY <1>g
<1>2. \A s \in Slots : \/ slots[s] = Vacant
                       \/ \E g \in G : /\ place[g] = s /\ g # NoGroup
                                       /\ slots[s] = [group |-> g, state |-> "registered",
                                                      active |-> 0]
  <2>1. ASSUME NEW s \in Slots, \E g \in G : place[g] = s
        PROVE  \E g \in G : /\ place[g] = s /\ g # NoGroup
                            /\ slots[s] = [group |-> g, state |-> "registered", active |-> 0]
    <3>1. (CHOOSE g \in G : place[g] = s) \in G /\ place[CHOOSE g \in G : place[g] = s] = s
      BY <2>1
    <3>2. QED  BY <1>1, <2>1, <3>1, SlotsAssumption
  <2>2. QED  BY <1>1, <2>1
<1>3. slots \in [Slots -> GroupSlots]
  <2>1. Vacant \in GroupSlots
    BY CallersFinite DEF Vacant, GroupSlots, States
  <2>2. \A g \in G : [group |-> g, state |-> "registered", active |-> 0] \in GroupSlots
    BY CallersFinite DEF GroupSlots, States, Available
  <2>3. \A s \in Slots : slots[s] \in GroupSlots
    BY <1>2, <2>1, <2>2
  <2>4. QED  BY <1>1, <2>3
<1>4. CapTypeOK
  BY <1>3, TypesOf DEF CapInit, NoWork, NoCall, Work, Calls, Hooks, Pcs
<1>a. \A s \in Slots :
         /\ slots[s].active = 0
         /\ \/ slots[s].group = NoGroup /\ slots[s].state = "vacant"
            \/ /\ slots[s].state = "registered" /\ slots[s].group # NoGroup
               /\ slots[s].group \in G /\ place[slots[s].group] = s
  <2> SUFFICES ASSUME NEW s \in Slots
               PROVE  /\ slots[s].active = 0
                      /\ \/ slots[s].group = NoGroup /\ slots[s].state = "vacant"
                         \/ /\ slots[s].state = "registered" /\ slots[s].group # NoGroup
                            /\ slots[s].group \in G /\ place[slots[s].group] = s
    OBVIOUS
  <2>1. CASE slots[s] = Vacant
    BY <2>1 DEF Vacant
  <2>2. CASE slots[s] # Vacant
    <3>1. PICK g \in G : /\ place[g] = s /\ g # NoGroup
                         /\ slots[s] = [group |-> g, state |-> "registered", active |-> 0]
      BY <1>2, <2>2, Zenon
    <3>2. slots[s].group = g /\ slots[s].state = "registered" /\ slots[s].active = 0
      BY <3>1
    <3>3. QED  BY <3>1, <3>2
  <2>3. QED  BY <2>1, <2>2
<1>5. \A s \in Slots : slots[s].active = 0 /\ slots[s].state \in {"vacant", "registered"}
  BY <1>a
<1>6. CallsCounted
  <2>1. \A s \in Slots : CallsOn(s) = {}
    BY DEF CapInit, CallsOn
  <2>2. QED  BY <1>5, <2>1, FS_EmptySet DEF CallsCounted
<1>7. OneSlot /\ VacantState
  <2>1. \A s \in Slots : Vacated(s) <=> slots[s].state = "vacant"
    BY <1>a DEF Vacated, Holds
  <2>2. OneSlot
    BY <1>a DEF OneSlot, Vacated, Holds
  <2>3. QED  BY <2>1, <2>2 DEF VacantState
<1>8. CallsHeld /\ WorksOn
  BY DEF CapInit, CallsHeld, WorksOn, AtWork, MgrAt, NoWork
<1>9. HookInv
  BY <1>5 DEF CapInit, HookInv, UpIsListed, UpInTurn, NoWork, MgrAt
<1>10. QED  BY <1>4, <1>6, <1>7, <1>8, <1>9 DEF CapInv, CallInv

-----------------------------------------------------------------------------
(* What the steps' parts leave.                                            *)

LEMMA MgrTo ==
    ASSUME CapInv, NEW m \in Managers, NEW pc \in Pcs, NEW s \in Slots \cup {0},
           MgrGoes(m, pc, s)
    PROVE  /\ mgr' \in [Managers -> Work]
           /\ \A n \in Managers : mgr'[n].pc = pc /\ mgr'[n].slot = s /\ mgr'[n].scan = mgr[n].scan
<1>1. mgr \in [Managers -> Work] /\ \A n \in Managers : n = m
  BY TypesOf DEF CapInv, OneManager
<1>2. [pc |-> pc, slot |-> s, scan |-> mgr[m].scan] \in Work
  BY <1>1 DEF Work
<1>3. QED  BY <1>1, <1>2 DEF MgrGoes

LEMMA MgrReturnsTo ==
    ASSUME CapInv, NEW m \in Managers, MgrReturns(m)
    PROVE  /\ mgr' \in [Managers -> Work]
           /\ \A n \in Managers : /\ mgr'[n].pc = IF mgr[n].scan = {} THEN "idle" ELSE "scan"
                                  /\ mgr'[n].slot = 0 /\ mgr'[n].scan = mgr[n].scan
<1>1. \A n \in Managers : n = m
  BY DEF CapInv, OneManager
<1>2. CASE mgr[m].scan = {}
  <2>1. MgrGoes(m, "idle", 0) /\ "idle" \in Pcs
    BY <1>2 DEF MgrReturns, Pcs
  <2>2. QED  BY <1>1, <1>2, <2>1, MgrTo
<1>3. CASE mgr[m].scan # {}
  <2>1. MgrGoes(m, "scan", 0) /\ "scan" \in Pcs
    BY <1>3 DEF MgrReturns, Pcs
  <2>2. QED  BY <1>1, <1>3, <2>1, MgrTo
<1>4. QED  BY <1>2, <1>3

LEMMA TurnsTo ==
    ASSUME CapInv, NEW s \in Slots, NEW st \in States, Turns(s, st)
    PROVE  /\ slots' \in [Slots -> GroupSlots]
           /\ \A r \in Slots : /\ slots'[r].group = slots[r].group
                               /\ slots'[r].active = slots[r].active
                               /\ slots'[r].state = IF r = s THEN st ELSE slots[r].state
<1>1. slots \in [Slots -> GroupSlots]
  BY TypesOf DEF CapInv
<1>2. QED  BY <1>1 DEF Turns, GroupSlots

LEMMA ActiveTo ==
    ASSUME CapInv, NEW s \in Slots, NEW a \in 0..Cardinality(Callers),
           slots' = [slots EXCEPT ![s].active = a]
    PROVE  /\ slots' \in [Slots -> GroupSlots]
           /\ \A r \in Slots : /\ slots'[r].group = slots[r].group
                               /\ slots'[r].state = slots[r].state
                               /\ slots'[r].active = IF r = s THEN a ELSE slots[r].active
<1>1. slots \in [Slots -> GroupSlots]
  BY TypesOf DEF CapInv
<1>2. QED  BY <1>1 DEF GroupSlots

LEMMA SlotTo ==
    ASSUME CapInv, NEW s \in Slots, NEW x \in GroupSlots, slots' = [slots EXCEPT ![s] = x]
    PROVE  /\ slots' \in [Slots -> GroupSlots]
           /\ \A r \in Slots : slots'[r] = IF r = s THEN x ELSE slots[r]
<1>1. slots \in [Slots -> GroupSlots]
  BY TypesOf DEF CapInv
<1>2. QED  BY <1>1

LEMMA LiveTo ==
    ASSUME CapInv, NEW g \in Groups, NEW h \in Hooks, live' = [live EXCEPT ![g] = h]
    PROVE  /\ live' \in [Groups -> Hooks]
           /\ \A k \in Groups : live'[k] = IF k = g THEN h ELSE live[k]
<1>1. live \in [Groups -> Hooks]
  BY TypesOf DEF CapInv
<1>2. QED  BY <1>1

LEMMA GroupOf ==
    ASSUME CapInv, NEW s \in Slots, ~Vacated(s)
    PROVE  slots[s].group \in Groups
BY TypesOf DEF CapInv, Vacated, Holds, GroupSlots

\* A step that leaves groups, counts and calls leaves what is said of calls.
LEMMA CallsStay ==
    ASSUME CapInv, caller' = caller,
           \A r \in Slots : /\ slots'[r].group = slots[r].group
                            /\ slots'[r].active = slots[r].active
                            /\ Vacated(r) => slots'[r].state = slots[r].state
    PROVE  CallsCounted' /\ CallsHeld' /\ OneSlot' /\ VacantState'
<1>1. \A s \in Slots : CallsOn(s)' = CallsOn(s)
  BY DEF CallsOn
<1>2. CallsCounted'
  BY <1>1 DEF CapInv, CallInv, CallsCounted
<1>3. CallsHeld'
  BY DEF CapInv, CallInv, CallsHeld, Holds
<1>4. OneSlot'
  BY DEF CapInv, CallInv, OneSlot, Vacated, Holds
<1>5. VacantState'
  BY DEF CapInv, CallInv, VacantState, Vacated, Holds
<1>6. QED  BY <1>2, <1>3, <1>4, <1>5

-----------------------------------------------------------------------------
(* Enabling: the group is down whose hooks are about to be started.        *)

LEMMA EnableInv ==
    ASSUME CapInv, NEW m \in Managers, NEW s \in Slots, mgr[m].pc \in {"idle", "visit"},
           MgrAt(m, "visit") => s = mgr[m].slot, ~Vacated(s), EnableSlot(m, s),
           UNCHANGED <<started, caller, live>>
    PROVE  CapInv'
<1>a. \A n \in Managers : n = m
  BY DEF CapInv, OneManager
<1>1. CASE slots[s].state \in Leaving \cup {"started"}
  <2>1. MgrReturns(m) /\ slots' = slots
    BY <1>1 DEF EnableSlot
  <2>2. /\ mgr' \in [Managers -> Work]
        /\ \A n \in Managers : /\ mgr'[n].pc = IF mgr[n].scan = {} THEN "idle" ELSE "scan"
                               /\ mgr'[n].slot = 0 /\ mgr'[n].scan = mgr[n].scan
    BY <2>1, MgrReturnsTo
  <2>3. CapTypeOK'
    BY <2>1, <2>2 DEF CapInv, CapTypeOK, GroupSlots, States, Work, Pcs, Calls, Hooks
  <2>4. CallsCounted' /\ CallsHeld' /\ OneSlot' /\ VacantState'
    BY <2>1, CallsStay
  <2>5. WorksOn'
    BY <2>1, <2>2, SlotsArePositive DEF CapInv, CallInv, WorksOn, AtWork, MgrAt, Vacated, Holds
  <2>6. HookInv'
    BY <1>a, <2>1, <2>2, SlotsArePositive DEF CapInv, HookInv, UpIsListed, UpInTurn, MgrAt, Vacated, Holds
  <2>7. QED  BY <2>3, <2>4, <2>5, <2>6 DEF CapInv, CallInv, OneManager
<1>2. CASE slots[s].state \notin Leaving \cup {"started"}
  <2>a. slots[s].group \in Groups /\ live[slots[s].group] # "up"
    <3>1. slots[s].group \in Groups
      BY GroupOf
    <3>2. \A r \in Slots : Holds(r, slots[s].group) => r = s
      BY DEF CapInv, CallInv, OneSlot, Holds
    <3>3. ~\E n \in Managers : MgrAt(n, "stop")
      BY <1>a DEF MgrAt
    <3>4. QED  BY <1>2, <3>1, <3>2, <3>3 DEF CapInv, HookInv, UpIsListed
  <2>1. PICK st \in {"started", "registered"} :
           /\ Turns(s, st)
           /\ IF st = "started" THEN MgrGoes(m, "start", s) ELSE MgrReturns(m)
    BY <1>2, Zenon DEF EnableSlot
  <2>2. /\ slots' \in [Slots -> GroupSlots]
        /\ \A r \in Slots : /\ slots'[r].group = slots[r].group
                            /\ slots'[r].active = slots[r].active
                            /\ slots'[r].state = IF r = s THEN st ELSE slots[r].state
    BY <2>1, TurnsTo DEF States, Available
  <2>3. /\ mgr' \in [Managers -> Work]
        /\ \A n \in Managers : /\ mgr'[n].scan = mgr[n].scan
                               /\ IF st = "started" THEN mgr'[n].pc = "start" /\ mgr'[n].slot = s
                                  ELSE /\ mgr'[n].pc = IF mgr[n].scan = {} THEN "idle" ELSE "scan"
                                       /\ mgr'[n].slot = 0
    <3>1. CASE st = "started"
      <4>1. MgrGoes(m, "start", s) /\ "start" \in Pcs
        BY <2>1, <3>1 DEF Pcs
      <4>2. QED  BY <3>1, <4>1, MgrTo
    <3>2. CASE st # "started"
      BY <2>1, <3>2, MgrReturnsTo
    <3>3. QED  BY <3>1, <3>2
  <2>4. CapTypeOK'
    BY <2>2, <2>3 DEF CapInv, CapTypeOK, GroupSlots, States, Work, Pcs, Calls, Hooks
  <2>5. CallsCounted' /\ CallsHeld' /\ OneSlot' /\ VacantState'
    BY <2>2, CallsStay
  <2>6. WorksOn'
    BY <1>a, <2>2, <2>3, SlotsArePositive
       DEF CapInv, CallInv, WorksOn, AtWork, MgrAt, Vacated, Holds
  <2>7. UpIsListed'
    BY <1>a, <2>a, <2>2, <2>3
       DEF CapInv, HookInv, UpIsListed, MgrAt, Holds, Leaving
  <2>8. UpInTurn'
    BY <1>a, <2>a, <2>2, <2>3, SlotsArePositive
       DEF CapInv, HookInv, UpInTurn, MgrAt, Holds, Vacated
  <2>9. QED  BY <2>4, <2>5, <2>6, <2>7, <2>8 DEF CapInv, CallInv, HookInv, OneManager
<1>3. QED  BY <1>1, <1>2

-----------------------------------------------------------------------------
(* The other steps of a manager.                                           *)

LEMMA TypesStep ==
    ASSUME started' \in BOOLEAN, slots' \in [Slots -> GroupSlots], mgr' \in [Managers -> Work],
           caller' \in [Callers -> Calls], live' \in [Groups -> Hooks]
    PROVE  CapTypeOK'
BY DEF CapTypeOK, GroupSlots, States, Work, Pcs, Calls, Hooks

LEMMA WorkingSlot ==
    ASSUME CapInv, NEW m \in Managers, AtWork(m)
    PROVE  mgr[m].slot \in Slots /\ ~Vacated(mgr[m].slot) /\ slots[mgr[m].slot].group \in Groups
<1>1. mgr[m].slot \in Slots /\ mgr[m].pc \in Pcs
  BY TypesOf DEF CapInv, CallInv, WorksOn, Work
<1>2. ~Vacated(mgr[m].slot)
  BY <1>1 DEF CapInv, CallInv, WorksOn, AtWork, Pcs
<1>3. QED  BY <1>1, <1>2, GroupOf

\* Only the manager moves: it returns, or goes on with its slot.
LEMMA ScanInv ==
    ASSUME CapInv, NEW m \in Managers, StartAll(m) \/ Scan(m)
    PROVE  CapInv'
<1>a. (\A n \in Managers : n = m) /\ mgr \in [Managers -> Work]
  BY TypesOf DEF CapInv, OneManager
<1>1. PICK pc \in {"idle", "scan", "visit"}, s \in Slots \cup {0}, scan \in SUBSET Slots :
         /\ mgr' = [mgr EXCEPT ![m] = [pc |-> pc, slot |-> s, scan |-> scan]]
         /\ pc = "visit" => s \in Slots /\ ~Vacated(s)
         /\ pc = "idle" => scan = {}
  <2>1. CASE StartAll(m)
    BY <2>1, Zenon DEF StartAll
  <2>2. CASE Scan(m)
    <3>1. PICK s \in mgr[m].scan : mgr' = [mgr EXCEPT ![m] =
             [pc |-> IF ~Vacated(s) /\ slots[s].state # "disabled" THEN "visit"
                     ELSE IF mgr[m].scan = {s} THEN "idle" ELSE "scan",
              slot |-> s, scan |-> mgr[m].scan \ {s}]]
      BY <2>2 DEF Scan
    <3>2. s \in Slots /\ mgr[m].scan \ {s} \in SUBSET Slots
      BY <1>a DEF Work
    <3>3. PICK pc \in {"idle", "scan", "visit"} :
             /\ pc = IF ~Vacated(s) /\ slots[s].state # "disabled" THEN "visit"
                     ELSE IF mgr[m].scan = {s} THEN "idle" ELSE "scan"
             /\ pc = "visit" => ~Vacated(s)
             /\ pc = "idle" => mgr[m].scan \ {s} = {}
      OBVIOUS
    <3>4. QED  BY <3>1, <3>2, <3>3
  <2>3. QED  BY <2>1, <2>2
<1>2. [pc |-> pc, slot |-> s, scan |-> scan] \in Work
  BY DEF Work, Pcs
<1>3. /\ mgr' \in [Managers -> Work]
      /\ \A n \in Managers : mgr'[n].pc = pc /\ mgr'[n].slot = s /\ mgr'[n].scan = scan
  BY <1>a, <1>1, <1>2
<1>4. /\ slots' = slots /\ caller' = caller /\ live' = live /\ started' \in BOOLEAN
      /\ mgr[m].pc \in {"idle", "scan"}
  BY TypesOf DEF StartAll, Scan, CapInv, MgrAt
<1>5. CapTypeOK'
  BY <1>3, <1>4, TypesOf, TypesStep DEF CapInv
<1>6. CallsCounted' /\ CallsHeld' /\ OneSlot' /\ VacantState'
  BY <1>4, CallsStay
<1>7. WorksOn'
  BY <1>1, <1>3, <1>4 DEF CapInv, CallInv, WorksOn, AtWork, MgrAt, Vacated, Holds
<1>8. HookInv'
  BY <1>a, <1>3, <1>4 DEF CapInv, HookInv, UpIsListed, UpInTurn, MgrAt, Vacated, Holds
<1>9. QED  BY <1>5, <1>6, <1>7, <1>8 DEF CapInv, CallInv, OneManager

LEMMA StartInv ==
    ASSUME CapInv, NEW m \in Managers, StartCallbacks(m)
    PROVE  CapInv'
<1>a. /\ \A n \in Managers : n = m
      /\ mgr[m].pc = "start" /\ mgr[m].slot \in Slots /\ ~Vacated(mgr[m].slot)
      /\ slots[mgr[m].slot].group \in Groups
  BY WorkingSlot DEF CapInv, OneManager, StartCallbacks, AtWork, MgrAt
<1>1. PICK h \in {"up", "partial"} :
         /\ live' = [live EXCEPT ![slots[mgr[m].slot].group] = h]
         /\ MgrGoes(m, IF h = "up" THEN "started" ELSE "startfailed", mgr[m].slot)
  BY <1>a DEF StartCallbacks
<1>2. /\ mgr' \in [Managers -> Work]
      /\ \A n \in Managers : /\ mgr'[n].pc = IF h = "up" THEN "started" ELSE "startfailed"
                             /\ mgr'[n].slot = mgr[m].slot /\ mgr'[n].scan = mgr[n].scan
  <2>1. (IF h = "up" THEN "started" ELSE "startfailed") \in Pcs
    BY DEF Pcs
  <2>2. QED  BY <1>1, <1>a, <2>1, MgrTo
<1>3. /\ live' \in [Groups -> Hooks]
      /\ \A k \in Groups : live'[k] = IF k = slots[mgr[m].slot].group THEN h ELSE live[k]
  <2>1. h \in Hooks
    BY DEF Hooks
  <2>2. QED  BY <1>1, <1>a, <2>1, LiveTo
<1>4. slots' = slots /\ caller' = caller /\ started' = started
  BY DEF StartCallbacks
<1>5. CapTypeOK'
  BY <1>2, <1>3, <1>4, TypesOf, TypesStep DEF CapInv
<1>6. CallsCounted' /\ CallsHeld' /\ OneSlot' /\ VacantState'
  BY <1>4, CallsStay
<1>7. WorksOn'
  BY <1>a, <1>2, <1>4 DEF CapInv, CallInv, WorksOn, AtWork, MgrAt, Vacated, Holds
<1>8. UpIsListed'
  <2>1. slots[mgr[m].slot].state = "started"
    BY <1>a DEF CapInv, CallInv, WorksOn
  <2>2. QED  BY <1>a, <1>2, <1>3, <1>4, <2>1 DEF CapInv, HookInv, UpIsListed, MgrAt, Holds
<1>9. UpInTurn'
  <2>1. \A r \in Slots : slots[r].group = slots[mgr[m].slot].group => r = mgr[m].slot
    BY <1>a DEF CapInv, CallInv, OneSlot
  <2>2. \A r \in Slots : ~Vacated(r) => slots[r].group \in Groups
    BY GroupOf
  <2>3. QED
    BY <1>a, <1>2, <1>3, <1>4, <2>1, <2>2 DEF CapInv, HookInv, UpInTurn, MgrAt, Vacated, Holds
<1>10. QED  BY <1>5, <1>6, <1>7, <1>8, <1>9 DEF CapInv, CallInv, HookInv, OneManager

LEMMA EndStartInv ==
    ASSUME CapInv, NEW m \in Managers, Started(m) \/ StartFailed(m)
    PROVE  CapInv'
<1>a. /\ \A n \in Managers : n = m
      /\ mgr[m].pc \in {"started", "startfailed"}
      /\ mgr[m].slot \in Slots /\ ~Vacated(mgr[m].slot)
      /\ slots[mgr[m].slot].group \in Groups
  BY WorkingSlot DEF CapInv, OneManager, Started, StartFailed, AtWork, MgrAt
<1>b. slots[mgr[m].slot].state = "started"
  BY <1>a DEF CapInv, CallInv, WorksOn
<1>1. PICK st \in {"started", "disabled"} :
         /\ Turns(mgr[m].slot, st)
         /\ st = IF mgr[m].pc = "started" THEN "started" ELSE "disabled"
  BY <1>a, <1>b DEF Started, StartFailed, Turns, Leaving, MgrAt
<1>2. /\ mgr' \in [Managers -> Work]
      /\ \A n \in Managers : /\ mgr'[n].pc = IF mgr[n].scan = {} THEN "idle" ELSE "scan"
                             /\ mgr'[n].slot = 0 /\ mgr'[n].scan = mgr[n].scan
  BY MgrReturnsTo DEF Started, StartFailed
<1>3. /\ slots' \in [Slots -> GroupSlots]
      /\ \A r \in Slots : /\ slots'[r].group = slots[r].group
                          /\ slots'[r].active = slots[r].active
                          /\ slots'[r].state = IF r = mgr[m].slot THEN st ELSE slots[r].state
  BY <1>1, <1>a, TurnsTo DEF States, Available
<1>4. live' = live /\ caller' = caller /\ started' = started
  BY DEF Started, StartFailed
<1>5. CapTypeOK'
  BY <1>2, <1>3, <1>4, TypesOf, TypesStep DEF CapInv
<1>6. CallsCounted' /\ CallsHeld' /\ OneSlot' /\ VacantState'
  BY <1>a, <1>3, <1>4, CallsStay
<1>7. WorksOn'
  BY <1>2, SlotsArePositive DEF CapInv, CallInv, WorksOn, AtWork, MgrAt
<1>8. UpIsListed'
  <2>1. mgr[m].pc = "startfailed" => live[slots[mgr[m].slot].group] # "up"
    BY <1>a DEF CapInv, HookInv, UpInTurn
  <2>2. QED
    BY <1>a, <1>1, <1>2, <1>3, <1>4, <2>1 DEF CapInv, HookInv, UpIsListed, MgrAt, Holds
<1>9. UpInTurn'
  BY <1>a, <1>1, <1>2, <1>3, <1>4, SlotsArePositive
     DEF CapInv, HookInv, UpInTurn, MgrAt, Vacated, Holds
<1>10. QED  BY <1>5, <1>6, <1>7, <1>8, <1>9 DEF CapInv, CallInv, HookInv, OneManager

\* disable, unregister and the end of a drain: the slot's state says that the
\* group is on its way down, and the manager goes on with it.
LEMMA LeaveInv ==
    ASSUME CapInv, NEW m \in Managers, NEW s \in Slots, ~Vacated(s),
           NEW st \in {"disabled", "draining", "unloading"}, NEW pc \in {"stop", "drain", "unload"},
           Turns(s, st), MgrGoes(m, pc, s), UNCHANGED <<started, caller, live>>,
           mgr[m].pc \in {"idle", "drain"},
           pc = "stop" <=> st = "disabled", pc = "drain" <=> st = "draining",
           pc = "unload" => slots[s].active = 0
    PROVE  CapInv'
<1>a. \A n \in Managers : n = m
  BY DEF CapInv, OneManager
<1>2. /\ mgr' \in [Managers -> Work]
      /\ \A n \in Managers : /\ mgr'[n].pc = pc /\ mgr'[n].slot = s /\ mgr'[n].scan = mgr[n].scan
  BY MgrTo DEF Pcs
<1>3. /\ slots' \in [Slots -> GroupSlots]
      /\ \A r \in Slots : /\ slots'[r].group = slots[r].group
                          /\ slots'[r].active = slots[r].active
                          /\ slots'[r].state = IF r = s THEN st ELSE slots[r].state
  BY TurnsTo DEF States, Leaving
<1>5. CapTypeOK'
  BY <1>2, <1>3, TypesOf, TypesStep DEF CapInv
<1>6. CallsCounted' /\ CallsHeld' /\ OneSlot' /\ VacantState'
  BY <1>3, CallsStay
<1>7. WorksOn'
  BY <1>2, <1>3 DEF CapInv, CallInv, WorksOn, AtWork, MgrAt, Vacated, Holds
<1>8. UpIsListed'
  BY <1>a, <1>2, <1>3 DEF CapInv, HookInv, UpIsListed, MgrAt, Holds, Leaving
<1>9. UpInTurn'
  BY <1>a, <1>2, <1>3 DEF CapInv, HookInv, UpInTurn, MgrAt, Vacated, Holds
<1>10. QED  BY <1>5, <1>6, <1>7, <1>8, <1>9 DEF CapInv, CallInv, HookInv, OneManager

LEMMA DrainTimeoutInv ==
    ASSUME CapInv, NEW m \in Managers, DrainTimeout(m)
    PROVE  CapInv'
<1>a. (\A n \in Managers : n = m) /\ mgr[m].pc = "drain"
  BY DEF CapInv, OneManager, DrainTimeout, MgrAt
<1>1. /\ mgr' \in [Managers -> Work]
      /\ \A n \in Managers : /\ mgr'[n].pc = IF mgr[n].scan = {} THEN "idle" ELSE "scan"
                             /\ mgr'[n].slot = 0 /\ mgr'[n].scan = mgr[n].scan
  BY MgrReturnsTo DEF DrainTimeout
<1>2. slots' = slots /\ live' = live /\ caller' = caller /\ started' = started
  BY DEF DrainTimeout
<1>3. CapTypeOK'
  BY <1>1, <1>2, TypesOf, TypesStep DEF CapInv
<1>4. CallsCounted' /\ CallsHeld' /\ OneSlot' /\ VacantState'
  BY <1>2, CallsStay
<1>5. WorksOn'
  BY <1>1, SlotsArePositive DEF CapInv, CallInv, WorksOn, AtWork, MgrAt
<1>6. HookInv'
  BY <1>a, <1>1, <1>2, SlotsArePositive
     DEF CapInv, HookInv, UpIsListed, UpInTurn, MgrAt, Vacated, Holds
<1>7. QED  BY <1>3, <1>4, <1>5, <1>6 DEF CapInv, CallInv, OneManager

\* The hooks are stopped of a group that is being disabled or unloaded.
LEMMA StopInv ==
    ASSUME CapInv, NEW m \in Managers, StopCallbacks(m) \/ UnloadCallbacks(m)
    PROVE  CapInv'
<1>a. /\ \A n \in Managers : n = m
      /\ mgr[m].pc \in {"stop", "unload"}
      /\ mgr[m].slot \in Slots /\ ~Vacated(mgr[m].slot)
      /\ slots[mgr[m].slot].group \in Groups
  BY WorkingSlot DEF CapInv, OneManager, StopCallbacks, UnloadCallbacks, AtWork, MgrAt
<1>1. /\ live' \in [Groups -> Hooks]
      /\ \A k \in Groups : live'[k] = IF k = slots[mgr[m].slot].group THEN "down" ELSE live[k]
  <2>1. live' = [live EXCEPT ![slots[mgr[m].slot].group] = "down"] /\ "down" \in Hooks
    BY <1>a DEF StopCallbacks, UnloadCallbacks, StopHooks, Hooks
  <2>2. QED  BY <1>a, <2>1, LiveTo
<1>2. /\ mgr' \in [Managers -> Work]
      /\ \A n \in Managers :
            /\ mgr'[n].scan = mgr[n].scan
            /\ IF mgr[m].pc = "unload" THEN mgr'[n].pc = "clear" /\ mgr'[n].slot = mgr[m].slot
               ELSE /\ mgr'[n].pc = IF mgr[n].scan = {} THEN "idle" ELSE "scan"
                    /\ mgr'[n].slot = 0
  <2>1. CASE mgr[m].pc = "unload"
    <3>1. MgrGoes(m, "clear", mgr[m].slot) /\ "clear" \in Pcs
      BY <2>1 DEF StopCallbacks, UnloadCallbacks, MgrAt, Pcs
    <3>2. QED  BY <1>a, <2>1, <3>1, MgrTo
  <2>2. CASE mgr[m].pc = "stop"
    BY <2>2, MgrReturnsTo DEF StopCallbacks, UnloadCallbacks, MgrAt
  <2>3. QED  BY <1>a, <2>1, <2>2
<1>3. slots' = slots /\ caller' = caller /\ started' = started
  BY DEF StopCallbacks, UnloadCallbacks
<1>4. CapTypeOK'
  BY <1>1, <1>2, <1>3, TypesOf, TypesStep DEF CapInv
<1>5. CallsCounted' /\ CallsHeld' /\ OneSlot' /\ VacantState'
  BY <1>3, CallsStay
<1>6. WorksOn'
  BY <1>a, <1>2, <1>3, SlotsArePositive
     DEF CapInv, CallInv, WorksOn, AtWork, MgrAt, Vacated, Holds
<1>7. UpIsListed'
  <2>1. \A g \in Groups : live'[g] = "up" => live[g] = "up" /\ g # slots[mgr[m].slot].group
    BY <1>1
  <2>2. ASSUME NEW g \in Groups, live'[g] = "up"
        PROVE  \E s \in Slots : Holds(s, g) /\ slots[s].state \in {"started"} \cup Leaving
    <3>1. PICK s \in Slots : /\ Holds(s, g)
                             /\ \/ slots[s].state \in {"started"} \cup Leaving
                                \/ \E n \in Managers : MgrAt(n, "stop") /\ mgr[n].slot = s
      BY <2>1, <2>2 DEF CapInv, HookInv, UpIsListed
    <3>2. s # mgr[m].slot
      BY <2>1, <2>2, <3>1 DEF Holds
    <3>3. QED  BY <1>a, <3>1, <3>2
  <2>3. QED  BY <1>3, <2>2 DEF UpIsListed, Holds
<1>8. UpInTurn'
  <2>1. \A r \in Slots : slots[r].group = slots[mgr[m].slot].group => r = mgr[m].slot
    BY <1>a DEF CapInv, CallInv, OneSlot
  <2>2. \A r \in Slots : ~Vacated(r) => slots[r].group \in Groups
    BY GroupOf
  <2>3. slots[mgr[m].slot].state \in {"disabled", "unloading"}
    BY <1>a DEF CapInv, CallInv, WorksOn, MgrAt
  <2>4. QED
    BY <1>a, <1>1, <1>2, <1>3, <2>1, <2>2, <2>3, SlotsArePositive
       DEF CapInv, HookInv, UpInTurn, MgrAt, Vacated, Holds
<1>9. QED  BY <1>4, <1>5, <1>6, <1>7, <1>8 DEF CapInv, CallInv, HookInv, OneManager

\* A slot that is being cleared has no call on it, since nobody could begin
\* one after the drain.
LEMMA ClearInv ==
    ASSUME CapInv, NEW m \in Managers, ClearSlot(m)
    PROVE  CapInv'
<1>a. /\ \A n \in Managers : n = m
      /\ mgr[m].pc = "clear"
      /\ mgr[m].slot \in Slots /\ ~Vacated(mgr[m].slot)
      /\ slots[mgr[m].slot].group \in Groups
  BY WorkingSlot DEF CapInv, OneManager, ClearSlot, AtWork, MgrAt
<1>1. Vacant \in GroupSlots
  BY CallersFinite DEF Vacant, GroupSlots, States
<1>2. /\ slots' \in [Slots -> GroupSlots]
      /\ \A r \in Slots : slots'[r] = IF r = mgr[m].slot THEN Vacant ELSE slots[r]
  BY <1>1, <1>a, SlotTo DEF ClearSlot
<1>3. /\ mgr' \in [Managers -> Work]
      /\ \A n \in Managers : /\ mgr'[n].pc = IF mgr[n].scan = {} THEN "idle" ELSE "scan"
                             /\ mgr'[n].slot = 0 /\ mgr'[n].scan = mgr[n].scan
  BY MgrReturnsTo DEF ClearSlot
<1>4. live' = live /\ caller' = caller /\ started' = started
  BY DEF ClearSlot
<1>5. slots[mgr[m].slot].active = 0 /\ CallsOn(mgr[m].slot) = {}
  <2>1. slots[mgr[m].slot].active = 0
    BY <1>a DEF CapInv, CallInv, WorksOn
  <2>2. IsFiniteSet(CallsOn(mgr[m].slot))
    BY FS_Subset, SlotsAssumption DEF CallsOn
  <2>3. Cardinality(CallsOn(mgr[m].slot)) = 0
    BY <1>a, <2>1 DEF CapInv, CallInv, CallsCounted
  <2>4. QED  BY <2>1, <2>2, <2>3, FS_EmptySet
<1>6. CapTypeOK'
  BY <1>2, <1>3, <1>4, TypesOf, TypesStep DEF CapInv
<1>7. CallsCounted'
  <2>1. \A s \in Slots : CallsOn(s)' = CallsOn(s)
    BY <1>4 DEF CallsOn
  <2>2. \A s \in Slots : slots'[s].active = slots[s].active
    BY <1>2, <1>5 DEF Vacant
  <2>3. QED  BY <2>1, <2>2 DEF CapInv, CallInv, CallsCounted
<1>8. CallsHeld'
  BY <1>2, <1>4, <1>5 DEF CapInv, CallInv, CallsHeld, CallsOn, Holds
<1>9. OneSlot' /\ VacantState'
  BY <1>2 DEF CapInv, CallInv, OneSlot, VacantState, Vacated, Holds, Vacant
<1>10. WorksOn'
  BY <1>3, SlotsArePositive DEF CapInv, CallInv, WorksOn, AtWork, MgrAt
<1>11. UpIsListed'
  <2>1. live[slots[mgr[m].slot].group] # "up"
    BY <1>a DEF CapInv, HookInv, UpInTurn
  <2>2. \A r \in Slots : r # mgr[m].slot =>
           slots'[r].group = slots[r].group /\ slots'[r].state = slots[r].state
    BY <1>2
  <2>3. QED  BY <1>a, <1>4, <2>1, <2>2 DEF CapInv, HookInv, UpIsListed, MgrAt, Holds
<1>12. UpInTurn'
  BY <1>a, <1>2, <1>3, <1>4, SlotsArePositive
     DEF CapInv, HookInv, UpInTurn, MgrAt, Vacated, Holds, Vacant
<1>13. QED
  BY <1>6, <1>7, <1>8, <1>9, <1>10, <1>11, <1>12 DEF CapInv, CallInv, HookInv, OneManager

LEMMA RegisterInv ==
    ASSUME CapInv, NEW m \in Managers, NEW g \in Groups, Register(m, g)
    PROVE  CapInv'
<1>a. (\A n \in Managers : n = m) /\ mgr[m].pc = "idle" /\ mgr \in [Managers -> Work]
  BY TypesOf DEF CapInv, OneManager, Register, MgrAt
<1>1. PICK s \in Slots :
         /\ Vacated(s)
         /\ slots' = [slots EXCEPT ![s] = [group |-> g, state |-> "registered", active |-> 0]]
         /\ IF started THEN MgrGoes(m, "visit", s) ELSE UNCHANGED mgr
  BY DEF Register
<1>2. /\ slots' \in [Slots -> GroupSlots]
      /\ \A r \in Slots :
            slots'[r] = IF r = s THEN [group |-> g, state |-> "registered", active |-> 0]
                        ELSE slots[r]
  <2>1. [group |-> g, state |-> "registered", active |-> 0] \in GroupSlots
    BY CallersFinite DEF GroupSlots, States, Available
  <2>2. QED  BY <1>1, <2>1, SlotTo
<1>3. /\ mgr' \in [Managers -> Work]
      /\ \A n \in Managers :
            /\ mgr'[n].scan = mgr[n].scan
            /\ \/ mgr'[n].pc = "visit" /\ mgr'[n].slot = s
               \/ mgr'[n].pc = "idle"
  <2>1. CASE started
    <3>1. MgrGoes(m, "visit", s) /\ "visit" \in Pcs
      BY <1>1, <2>1 DEF Pcs
    <3>2. QED  BY <3>1, MgrTo
  <2>2. CASE ~started
    BY <1>a, <1>1, <2>2
  <2>3. QED  BY <2>1, <2>2
<1>4. live' = live /\ caller' = caller /\ started' = started
  BY DEF Register
<1>5. (\A r \in Slots : ~Holds(r, g)) /\ g # NoGroup
  BY SlotsAssumption DEF Register
<1>b. /\ slots'[s].group = g /\ slots'[s].state = "registered" /\ slots'[s].active = 0
      /\ \A r \in Slots : r # s => slots'[r] = slots[r]
  BY <1>2
<1>6. CapTypeOK'
  BY <1>2, <1>3, <1>4, TypesOf, TypesStep DEF CapInv
<1>7. CallsCounted'
  <2>1. \A r \in Slots : CallsOn(r)' = CallsOn(r)
    BY <1>4 DEF CallsOn
  <2>2. CallsOn(s) = {}
    BY <1>1, SlotsAssumption DEF CapInv, CallInv, CallsHeld, CallsOn, Vacated, Holds
  <2>3. \A r \in Slots : r # s => slots'[r].active = Cardinality(CallsOn(r))
    BY <1>b DEF CapInv, CallInv, CallsCounted
  <2>4. QED  BY <1>b, <2>1, <2>2, <2>3, FS_EmptySet DEF CallsCounted
<1>8. CallsHeld'
  <2>1. \A c \in Callers : caller[c] # NoCall => caller[c].slot # s
    BY <1>1, SlotsAssumption DEF CapInv, CallInv, CallsHeld, Vacated, Holds
  <2>2. QED  BY <1>b, <1>4, <2>1 DEF CapInv, CallInv, CallsHeld, Holds
<1>9. OneSlot' /\ VacantState'
  BY <1>b, <1>5 DEF CapInv, CallInv, OneSlot, VacantState, Vacated, Holds
<1>10. WorksOn'
  BY <1>a, <1>b, <1>3, <1>5 DEF CapInv, CallInv, WorksOn, AtWork, MgrAt, Vacated, Holds
<1>c. live[g] # "up"
  BY <1>5 DEF CapInv, HookInv, UpIsListed
<1>11. UpIsListed'
  <2>1. ASSUME NEW k \in Groups, live'[k] = "up"
        PROVE  \E r \in Slots : Holds(r, k)' /\ slots'[r].state \in {"started"} \cup Leaving
    <3>1. PICK r \in Slots : Holds(r, k) /\ slots[r].state \in {"started"} \cup Leaving
      BY <1>a, <1>4, <2>1 DEF CapInv, HookInv, UpIsListed, MgrAt
    <3>2. k # NoGroup
      BY SlotsAssumption
    <3>3. r # s
      BY <1>1, <3>1, <3>2 DEF Vacated, Holds
    <3>4. QED  BY <1>b, <3>1, <3>3 DEF Holds
  <2>2. QED  BY <2>1 DEF UpIsListed
<1>12. UpInTurn'
  BY <1>a, <1>b, <1>c, <1>3, <1>4
     DEF CapInv, HookInv, UpInTurn, MgrAt, Vacated, Holds
<1>13. QED
  BY <1>6, <1>7, <1>8, <1>9, <1>10, <1>11, <1>12 DEF CapInv, CallInv, HookInv, OneManager

-----------------------------------------------------------------------------
(* The callers.                                                            *)

\* Calls change only the counts of slots that nobody has drained.
LEMMA HooksStay ==
    ASSUME CapInv, UNCHANGED <<started, mgr, live>>,
           \A r \in Slots : /\ slots'[r].group = slots[r].group
                            /\ slots'[r].state = slots[r].state
                            /\ slots[r].state = "unloading" /\ slots[r].active = 0 =>
                                  slots'[r].active = 0
    PROVE  WorksOn' /\ HookInv' /\ OneSlot' /\ VacantState'
<1>1. WorksOn'
  BY DEF CapInv, CallInv, WorksOn, AtWork, MgrAt, Vacated, Holds
<1>2. UpIsListed'
  BY DEF CapInv, HookInv, UpIsListed, MgrAt, Holds
<1>3. UpInTurn'
  BY DEF CapInv, HookInv, UpInTurn, MgrAt, Vacated, Holds
<1>4. OneSlot' /\ VacantState'
  BY DEF CapInv, CallInv, OneSlot, VacantState, Vacated, Holds
<1>5. QED  BY <1>1, <1>2, <1>3, <1>4 DEF HookInv

LEMMA BeginInv ==
    ASSUME CapInv, NEW c \in Callers, NEW g \in Groups, BeginCall(c, g)
    PROVE  CapInv'
<1>1. PICK s \in Slots :
         /\ Holds(s, g) /\ slots[s].state \in Available
         /\ slots' = [slots EXCEPT ![s].active = slots[s].active + 1]
         /\ caller' = [caller EXCEPT ![c] = [group |-> g, slot |-> s]]
  BY DEF BeginCall
<1>2. caller[c] = NoCall /\ caller \in [Callers -> Calls]
  BY TypesOf DEF BeginCall, CapInv
<1>3. [group |-> g, slot |-> s] # NoCall /\ [group |-> g, slot |-> s] \in Calls
  BY SlotsAssumption DEF NoCall, Calls
<1>4. /\ caller' \in [Callers -> Calls]
      /\ \A d \in Callers : caller'[d] = IF d = c THEN [group |-> g, slot |-> s] ELSE caller[d]
  BY <1>1, <1>2, <1>3
<1>5. /\ c \notin CallsOn(s)
      /\ \A r \in Slots : CallsOn(r)' = IF r = s THEN CallsOn(r) \cup {c} ELSE CallsOn(r)
  BY <1>2, <1>3, <1>4 DEF CallsOn
<1>6. /\ slots[s].active + 1 \in 0..Cardinality(Callers)
      /\ Cardinality(CallsOn(s) \cup {c}) = slots[s].active + 1
  <2>1. CallsOn(s) \subseteq Callers /\ CallsOn(s) \cup {c} \subseteq Callers
    BY DEF CallsOn
  <2>2. /\ IsFiniteSet(CallsOn(s)) /\ IsFiniteSet(CallsOn(s) \cup {c})
        /\ Cardinality(CallsOn(s) \cup {c}) <= Cardinality(Callers)
    BY <2>1, FS_Subset, SlotsAssumption
  <2>3. /\ Cardinality(CallsOn(s) \cup {c}) = Cardinality(CallsOn(s)) + 1
        /\ Cardinality(CallsOn(s) \cup {c}) \in Nat
    BY <1>5, <2>2, FS_AddElement, FS_CardinalityType
  <2>4. Cardinality(CallsOn(s)) = slots[s].active
    BY DEF CapInv, CallInv, CallsCounted
  <2>5. QED  BY <2>2, <2>3, <2>4, CallersFinite
<1>7. /\ slots' \in [Slots -> GroupSlots]
      /\ \A r \in Slots : /\ slots'[r].group = slots[r].group
                          /\ slots'[r].state = slots[r].state
                          /\ slots'[r].active = IF r = s THEN slots[s].active + 1
                                                ELSE slots[r].active
  BY <1>1, <1>6, ActiveTo, ZenonT(30)
<1>8. UNCHANGED <<started, mgr, live>>
  BY DEF BeginCall
<1>9. CapTypeOK'
  BY <1>4, <1>7, <1>8, TypesOf, TypesStep DEF CapInv
<1>10. CallsCounted'
  <2>1. ASSUME NEW r \in Slots, r # s PROVE slots'[r].active = Cardinality(CallsOn(r)')
    <3>1. CallsOn(r)' = CallsOn(r) /\ slots'[r].active = slots[r].active
      BY <1>5, <1>7, <2>1
    <3>2. QED  BY <3>1 DEF CapInv, CallInv, CallsCounted
  <2>2. ASSUME NEW r \in Slots, r = s PROVE slots'[r].active = Cardinality(CallsOn(r)')
    <3>1. CallsOn(r)' = CallsOn(s) \cup {c} /\ slots'[r].active = slots[s].active + 1
      BY <1>5, <1>7, <2>2
    <3>2. QED  BY <1>6, <3>1
  <2>3. QED  BY <2>1, <2>2 DEF CallsCounted
<1>11. CallsHeld'
  <2>1. ASSUME NEW d \in Callers, d # c, caller'[d] # NoCall
        PROVE  /\ caller'[d].slot \in Slots /\ caller'[d].group \in Groups
               /\ slots'[caller'[d].slot].group = caller'[d].group
    <3>1. caller'[d] = caller[d]
      BY <1>4, <2>1
    <3>2. QED  BY <1>7, <2>1, <3>1 DEF CapInv, CallInv, CallsHeld, Holds
  <2>2. /\ caller'[c].slot = s /\ caller'[c].group = g
        /\ slots'[s].group = g
    BY <1>1, <1>4, <1>7 DEF Holds
  <2>3. QED  BY <2>1, <2>2 DEF CallsHeld, Holds
<1>12. WorksOn' /\ HookInv' /\ OneSlot' /\ VacantState'
  BY <1>1, <1>7, <1>8, HooksStay DEF Available
<1>13. QED  BY <1>9, <1>10, <1>11, <1>12 DEF CapInv, CallInv, OneManager

LEMMA EndInv ==
    ASSUME CapInv, NEW c \in Callers, EndCall(c)
    PROVE  CapInv'
<1> DEFINE s == caller[c].slot
<1>1. caller[c] # NoCall /\ s \in Slots /\ caller \in [Callers -> Calls]
  BY TypesOf DEF EndCall, CapInv, CallInv, CallsHeld
<1>2. NoCall \in Calls
  BY DEF NoCall, Calls
<1>3. /\ caller' \in [Callers -> Calls]
      /\ \A d \in Callers : caller'[d] = IF d = c THEN NoCall ELSE caller[d]
  BY <1>1, <1>2 DEF EndCall
<1>4. /\ c \in CallsOn(s)
      /\ \A r \in Slots : CallsOn(r)' = IF r = s THEN CallsOn(r) \ {c} ELSE CallsOn(r)
  BY <1>1, <1>3 DEF CallsOn
<1>5. /\ slots[s].active > 0 /\ slots[s].active - 1 \in 0..Cardinality(Callers)
      /\ Cardinality(CallsOn(s) \ {c}) = slots[s].active - 1
  <2>1. IsFiniteSet(CallsOn(s)) /\ Cardinality(CallsOn(s)) <= Cardinality(Callers)
    BY FS_Subset, SlotsAssumption DEF CallsOn
  <2>2. /\ Cardinality(CallsOn(s) \ {c}) = Cardinality(CallsOn(s)) - 1
        /\ Cardinality(CallsOn(s) \ {c}) \in Nat /\ Cardinality(CallsOn(s)) \in Nat
    BY <1>4, <2>1, FS_RemoveElement, FS_CardinalityType
  <2>3. Cardinality(CallsOn(s)) = slots[s].active
    BY <1>1 DEF CapInv, CallInv, CallsCounted
  <2>4. QED  BY <2>1, <2>2, <2>3, CallersFinite
<1>6. slots' = [slots EXCEPT ![s].active = slots[s].active - 1]
  BY <1>5 DEF EndCall
<1> HIDE DEF s
<1>7. /\ slots' \in [Slots -> GroupSlots]
      /\ \A r \in Slots : /\ slots'[r].group = slots[r].group
                          /\ slots'[r].state = slots[r].state
                          /\ slots'[r].active = IF r = s THEN slots[s].active - 1
                                                ELSE slots[r].active
  BY <1>1, <1>5, <1>6, ActiveTo, ZenonT(30)
<1>8. UNCHANGED <<started, mgr, live>>
  BY DEF EndCall
<1>9. CapTypeOK'
  BY <1>3, <1>7, <1>8, TypesOf, TypesStep DEF CapInv
<1>10. CallsCounted'
  <2>1. ASSUME NEW r \in Slots, r # s PROVE slots'[r].active = Cardinality(CallsOn(r)')
    <3>1. CallsOn(r)' = CallsOn(r) /\ slots'[r].active = slots[r].active
      BY <1>4, <1>7, <2>1
    <3>2. QED  BY <3>1 DEF CapInv, CallInv, CallsCounted
  <2>2. ASSUME NEW r \in Slots, r = s PROVE slots'[r].active = Cardinality(CallsOn(r)')
    <3>1. CallsOn(r)' = CallsOn(s) \ {c} /\ slots'[r].active = slots[s].active - 1
      BY <1>4, <1>7, <2>2
    <3>2. QED  BY <1>5, <3>1
  <2>3. QED  BY <2>1, <2>2 DEF CallsCounted
<1>11. CallsHeld'
  <2>1. ASSUME NEW d \in Callers, caller'[d] # NoCall
        PROVE  /\ caller'[d].slot \in Slots /\ caller'[d].group \in Groups
               /\ slots'[caller'[d].slot].group = caller'[d].group
    <3>1. caller'[d] = caller[d]
      BY <1>3, <2>1
    <3>2. QED  BY <1>7, <2>1, <3>1 DEF CapInv, CallInv, CallsHeld, Holds
  <2>2. QED  BY <2>1 DEF CallsHeld, Holds
<1>12. WorksOn' /\ HookInv' /\ OneSlot' /\ VacantState'
  BY <1>5, <1>7, <1>8, HooksStay
<1>13. QED  BY <1>9, <1>10, <1>11, <1>12 DEF CapInv, CallInv, OneManager

-----------------------------------------------------------------------------
(* Every step, and the theorems.                                           *)

LEMMA CapStep == CapInv /\ [CapNext]_capVars => CapInv'
<1> SUFFICES ASSUME CapInv, [CapNext]_capVars PROVE CapInv'
  OBVIOUS
<1>1. ASSUME NEW m \in Managers, NEW g \in Groups, Enable(m, g) PROVE CapInv'
  <2>1. PICK s \in Slots : Holds(s, g) /\ EnableSlot(m, s)
    BY <1>1 DEF Enable
  <2>2. ~Vacated(s) /\ mgr[m].pc = "idle" /\ UNCHANGED <<started, caller, live>>
    BY <1>1, <2>1, SlotsAssumption DEF Enable, MgrAt, Vacated, Holds
  <2>3. QED  BY <2>1, <2>2, EnableInv DEF MgrAt
<1>2. ASSUME NEW m \in Managers, Visit(m) PROVE CapInv'
  <2>1. mgr[m].slot \in Slots /\ ~Vacated(mgr[m].slot) /\ mgr[m].pc = "visit"
    BY <1>2, WorkingSlot DEF Visit, AtWork, MgrAt
  <2>2. QED  BY <1>2, <2>1, EnableInv DEF Visit
<1>3. ASSUME NEW m \in Managers, NEW g \in Groups, Disable(m, g) PROVE CapInv'
  <2>1. PICK s \in Slots : Holds(s, g) /\ Turns(s, "disabled") /\ MgrGoes(m, "stop", s)
    BY <1>3 DEF Disable
  <2>2. ~Vacated(s) /\ mgr[m].pc = "idle" /\ UNCHANGED <<started, caller, live>>
    BY <1>3, <2>1, SlotsAssumption DEF Disable, MgrAt, Vacated, Holds
  <2>3. QED  BY <2>1, <2>2, LeaveInv
<1>4. ASSUME NEW m \in Managers, NEW g \in Groups, Unregister(m, g) PROVE CapInv'
  <2>1. PICK s \in Slots : Holds(s, g) /\ Turns(s, "draining") /\ MgrGoes(m, "drain", s)
    BY <1>4 DEF Unregister
  <2>2. ~Vacated(s) /\ mgr[m].pc = "idle" /\ UNCHANGED <<started, caller, live>>
    BY <1>4, <2>1, SlotsAssumption DEF Unregister, MgrAt, Vacated, Holds
  <2>3. QED  BY <2>1, <2>2, LeaveInv
<1>5. ASSUME NEW m \in Managers, Drained(m) PROVE CapInv'
  <2>1. mgr[m].slot \in Slots /\ ~Vacated(mgr[m].slot) /\ mgr[m].pc = "drain"
    BY <1>5, WorkingSlot DEF Drained, AtWork, MgrAt
  <2>2. /\ Turns(mgr[m].slot, "unloading") /\ MgrGoes(m, "unload", mgr[m].slot)
        /\ slots[mgr[m].slot].active = 0 /\ UNCHANGED <<started, caller, live>>
    BY <1>5 DEF Drained
  <2>3. QED  BY <2>1, <2>2, LeaveInv
<1>6. CASE UNCHANGED capVars
  <2>1. /\ started' = started /\ slots' = slots /\ mgr' = mgr
        /\ caller' = caller /\ live' = live
    BY <1>6 DEF capVars
  <2>2. CapTypeOK'
    BY <2>1, TypesOf, TypesStep DEF CapInv
  <2>3. CallsCounted' /\ CallsHeld'
    BY <2>1, CallsStay
  <2>4. WorksOn' /\ HookInv' /\ OneSlot' /\ VacantState'
    BY <2>1, HooksStay
  <2>5. QED  BY <2>2, <2>3, <2>4 DEF CapInv, CallInv, OneManager
<1>7. ASSUME NEW m \in Managers, StartAll(m) \/ ManagerStep(m) PROVE CapInv'
  BY <1>2, <1>5, <1>7, ScanInv, StartInv, EndStartInv, StopInv, DrainTimeoutInv, ClearInv
     DEF ManagerStep
<1>8. QED
  BY <1>1, <1>3, <1>4, <1>6, <1>7, RegisterInv, BeginInv, EndInv DEF CapNext

LEMMA CapInvAlways == CapSpec /\ OneManager => []CapInv
BY CapInitInv, CapStep, PTL DEF CapSpec

\* The state stays within its types: no count of active calls exceeds the
\* callers there are.
THEOREM CapTypeCorrect == CapSpec /\ OneManager => []CapTypeOK
<1>1. CapInv => CapTypeOK
  BY DEF CapInv
<1>2. QED  BY CapInvAlways, <1>1, PTL

\* unregister_group clears no slot that a call is counted on: while one task
\* manages the groups, no call executes code of a group that is gone.
THEOREM UnloadsWait == CapSpec /\ OneManager => []UnloadWaits
<1>1. CapInv => UnloadWaits
  BY DEF CapInv, CallInv, CallsHeld, UnloadWaits
<1>2. QED  BY CapInvAlways, <1>1, PTL

\* Between the operations of the one manager, every group that the registry
\* lists as started has had its start hooks run and not its stop hooks.
THEOREM StartedAreUp == CapSpec /\ OneManager => []StartedIsUp
<1>1. CapInv => StartedIsUp
  <2> SUFFICES ASSUME CapInv, \A m \in Managers : mgr[m].pc \in {"idle", "scan"},
                      NEW s \in Slots, slots[s].state = "started"
               PROVE  live[slots[s].group] = "up"
    BY DEF StartedIsUp
  <2>1. ~Vacated(s)
    BY DEF CapInv, CallInv, VacantState
  <2>2. QED  BY <2>1 DEF CapInv, HookInv, UpInTurn
<1>2. QED  BY CapInvAlways, <1>1, PTL

\* An enable never runs the start hooks of a group that is up.
THEOREM NeverTwice == CapSpec /\ OneManager => NeverStartedTwice
<1>1. CapInv => \A m \in Managers : MgrAt(m, "start") =>
                   live[slots[mgr[m].slot].group] # "up"
  <2> SUFFICES ASSUME CapInv, NEW m \in Managers, MgrAt(m, "start")
               PROVE  live[slots[mgr[m].slot].group] # "up"
    OBVIOUS
  <2>1. mgr[m].slot \in Slots /\ ~Vacated(mgr[m].slot)
    BY WorkingSlot DEF AtWork, MgrAt
  <2>2. QED  BY <2>1 DEF CapInv, HookInv, UpInTurn, MgrAt
<1>2. CapInv /\ [CapNext]_capVars =>
        [\A m \in Managers : MgrAt(m, "start") /\ mgr'[m].pc \in {"started", "startfailed"}
            /\ ~Vacated(mgr[m].slot) => live[slots[mgr[m].slot].group] # "up"]_capVars
  BY <1>1
<1>3. QED  BY CapInvAlways, <1>2, PTL DEF CapSpec, NeverStartedTwice
=============================================================================
