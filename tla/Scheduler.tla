----------------------------- MODULE Scheduler ------------------------------
(***************************************************************************)
(* cap_scheduler: entries that publish an event at a time, once or again   *)
(* and again.  The definitions are kept in a file that is rewritten in     *)
(* place, the runtime state (status, next and last time, count of runs) in *)
(* an NVS blob that is replaced as a whole.  Every operation changes the   *)
(* entries and then makes its writes, all under one mutex; what it wrote   *)
(* is all that a reset leaves.                                             *)
(*                                                                         *)
(* The unit of time is the task's tick.  The clock of the device may have  *)
(* lost the time at a reset, until SNTP sets it; it never runs backwards   *)
(* otherwise.  A cron entry, whose next time is a function of the clock as *)
(* an entry's with a start is, is not modelled, nor is end_at.  The table  *)
(* is large enough.                                                        *)
(*                                                                         *)
(* Add, update, enable and resume read the clock just before they take the *)
(* mutex; here they read it with the mutex.  A plan made from such a       *)
(* reading is at most the wait for the mutex old.                          *)
(***************************************************************************)
EXTENDS Integers

CONSTANTS Ids,        \* ids of entries
          Items,      \* what a definition may be: [kind, start, interval, max]
          Epoch,      \* what the time is when the device is first switched on
          MaxTime,    \* bound: the time at which the model ends
          MaxRuns,    \* bound on trigger_now: runs of an entry
          MaxFaults,  \* bound on resets, failed writes and failed reads
          NoId

ASSUME SchedulerAssumption ==
    /\ NoId \notin Ids
    /\ Epoch \in Nat \ {0} /\ MaxTime \in Nat /\ MaxRuns \in Nat /\ MaxFaults \in Nat
    /\ Items \subseteq [kind : {"once", "interval"}, start : Nat, interval : Nat, max : Nat]
    /\ \A it \in Items : IF it.kind = "once" THEN it.start > 0 ELSE it.interval > 0

VARIABLES
    item,       \* external: the definition each id is added with
    real,       \* external: the time
    now,        \* cap_scheduler_now_ms
    mode,       \* "down", "loaded": init is done, "up": the task runs, "failed": init failed
    time_valid,
    entries,
    writes,     \* what the operation that holds the mutex has still to write
    defs,       \* the file of definitions; empty when there is none
    torn,       \* it was cut short: it does not parse
    state,      \* the NVS blob of the runtime state; empty when there is none
    fired,      \* history: how often the clock has fired an entry
    held,       \* history: entries whose pause was confirmed
    told,       \* history: the definitions as the callers were told
    unsure,     \* history: entries whose last change failed or was cut off
    faults,     \* history: resets, failed writes and failed reads
    lost,       \* history: a save of the runtime state failed or was cut off
    astray      \* history: an entry was triggered by hand while the clock was behind

schedVars == <<item, real, now, mode, time_valid, entries, writes, defs, torn, state, fired,
               held, told, unsure, faults, lost, astray>>
diskVars == <<defs, torn, state>>
clockVars == <<item, real, now>>
faultVars == <<faults, lost, astray>>
ghostVars == <<fired, held, told, unsure, faults, lost, astray>>

NoTime == -1
NoEntry == [enabled |-> "absent", status |-> "absent", next |-> NoTime, last |-> 0, runs |-> 0]
NoWrites == [op |-> "none", file |-> FALSE, id |-> NoId, undo |-> NoEntry]

Occupied(es) == {i \in Ids : es[i].enabled # "absent"}
Definitions(es) == [i \in Ids |-> es[i].enabled]
RuntimeState(es) == [i \in Ids |-> [es[i] EXCEPT !.enabled = "absent"]]
NoEntries == [i \in Ids |-> NoEntry]
NoDefinitions == Definitions(NoEntries)
NoState == RuntimeState(NoEntries)

\* The mutex is free and init has given the module a table.
Free == mode \in {"loaded", "up"} /\ writes = NoWrites

SchedInit == /\ item \in [Ids -> Items]
             /\ real = Epoch /\ now \in {1, Epoch}
             /\ mode = "down" /\ time_valid = FALSE
             /\ entries = NoEntries /\ writes = NoWrites
             /\ defs = NoDefinitions /\ torn = FALSE /\ state = NoState
             /\ fired = [i \in Ids |-> 0] /\ held = {}
             /\ told = NoDefinitions /\ unsure = {}
             /\ faults = 0 /\ lost = FALSE /\ astray = FALSE

-----------------------------------------------------------------------------
(* When an entry is due.                                                   *)

RequiresValidTime(i) == ~(item[i].kind = "interval" /\ item[i].start = 0)

NextFireVariant(i, anchor, runs) ==
    LET it == item[i]
    IN IF it.max > 0 /\ runs >= it.max THEN NoTime
       ELSE IF it.kind = "once" THEN IF anchor > it.start THEN NoTime ELSE it.start
       ELSE IF it.start = 0 THEN anchor + it.interval
       ELSE IF it.start > anchor THEN it.start
       ELSE it.start + ((anchor - it.start) \div it.interval + 1) * it.interval

\* cap_scheduler_compute_next_fire: strictly after the anchor.
NextFire(i, anchor, runs) ==
    LET it == item[i]
    IN IF it.max > 0 /\ runs >= it.max THEN NoTime
       ELSE IF it.kind = "once" THEN IF anchor >= it.start THEN NoTime ELSE it.start
       ELSE IF it.start = 0 THEN anchor + it.interval
       ELSE IF it.start > anchor THEN it.start
       ELSE it.start + ((anchor - it.start) \div it.interval + 1) * it.interval

\* cap_scheduler_refresh_entry_locked.
Refreshed(i, e, valid, anchor) ==
    LET next == NextFire(i, anchor, e.runs)
    IN IF e.enabled = "off" THEN [e EXCEPT !.status = "disabled", !.next = NoTime]
       ELSE IF e.status = "paused" THEN e
       ELSE IF ~valid /\ RequiresValidTime(i)
       THEN [e EXCEPT !.status = "scheduled", !.next = NoTime]
       ELSE [e EXCEPT !.next = next,
                      !.status = IF next = NoTime THEN "completed" ELSE "scheduled"]

\* cap_scheduler_publish_entry_locked: the entry after it, ok if the router
\* took the event.  The status is RUNNING when the next time is worked out, so
\* a paused entry that is triggered is scheduled again.
Published(i, e, ok, planned) ==
    LET ran == [e EXCEPT !.last = now, !.runs = @ + 1, !.status = "running"]
    IN IF ~ok THEN [e EXCEPT !.last = now, !.status = "error"]
       ELSE IF item[i].kind = "once" THEN [ran EXCEPT !.next = NoTime, !.status = "completed"]
       ELSE Refreshed(i, ran, time_valid, planned)

-----------------------------------------------------------------------------
(* The operations: the entries change, the writes are due.                 *)

Due(op, file, i, undo) == writes' = [op |-> op, file |-> file, id |-> i, undo |-> undo]

\* The task's tick, or one missed and made up for later: an entry that is more
\* than a tick late is passed over.
Ready(e) == e.enabled = "on" /\ e.status # "paused" /\ e.next > 0 /\ e.next <= now
Missed(e) == now > e.next + 1

FireDue ==
    LET due == {i \in Ids : Ready(entries[i])}
        late == {i \in due : Missed(entries[i])}
    IN /\ Free /\ mode = "up" /\ due # {}
       /\ \E ok \in SUBSET (due \ late) :
             /\ entries' = [i \in Ids |->
                   IF i \in late THEN Refreshed(i, entries[i], time_valid, now)
                   ELSE IF i \in due THEN Published(i, entries[i], i \in ok, entries[i].next)
                   ELSE entries[i]]
             /\ fired' = [i \in Ids |-> IF i \in ok /\ fired[i] < 2 THEN fired[i] + 1
                                        ELSE fired[i]]
       /\ Due("note", FALSE, NoId, NoEntry)
       /\ UNCHANGED <<clockVars, mode, time_valid, diskVars, held, told, unsure, faultVars>>

Add(i, enabled) ==
    LET e == [NoEntry EXCEPT !.enabled = enabled, !.status = "scheduled"]
    IN /\ Free /\ i \notin Occupied(entries)
       /\ entries' = [entries EXCEPT ![i] = Refreshed(i, e, time_valid, now)]
       /\ held' = held \ {i}
       /\ Due("store", TRUE, i, NoEntry)
       /\ UNCHANGED <<clockVars, mode, time_valid, diskVars, fired, told, unsure, faultVars>>

\* The definition is replaced; here it differs in enabled.
Update(i, enabled) ==
    LET e == [entries[i] EXCEPT !.enabled = enabled]
    IN /\ Free /\ i \in Occupied(entries)
       /\ entries' = [entries EXCEPT ![i] = IF e.status = "paused" THEN e
                                            ELSE Refreshed(i, e, time_valid, now)]
       /\ Due("store", TRUE, i, entries[i])
       /\ UNCHANGED <<clockVars, mode, time_valid, diskVars, ghostVars>>

RemoveVariant(i) ==
    /\ Free /\ i \in Occupied(entries)
    /\ entries' = [entries EXCEPT ![i] = NoEntry]
    /\ held' = held \ {i}
    /\ Due("store", FALSE, i, entries[i])
    /\ UNCHANGED <<clockVars, mode, time_valid, diskVars, fired, told, unsure, faultVars>>
Remove(i) ==
    /\ Free /\ i \in Occupied(entries)
    /\ entries' = [entries EXCEPT ![i] = NoEntry]
    /\ held' = held \ {i}
    /\ Due("store", TRUE, i, entries[i])
    /\ UNCHANGED <<clockVars, mode, time_valid, diskVars, fired, told, unsure, faultVars>>

Enable(i, enabled) ==
    LET e == [entries[i] EXCEPT !.enabled = enabled, !.status = "scheduled"]
    IN /\ Free /\ i \in Occupied(entries)
       /\ entries' = [entries EXCEPT ![i] = Refreshed(i, e, time_valid, now)]
       /\ held' = held \ {i}
       /\ Due("store", TRUE, i, entries[i])
       /\ UNCHANGED <<clockVars, mode, time_valid, diskVars, fired, told, unsure, faultVars>>

Pause(i) ==
    /\ Free /\ i \in Occupied(entries)
    /\ entries' = [entries EXCEPT ![i].status = "paused"]
    /\ Due("pause", FALSE, i, entries[i])
    /\ UNCHANGED <<clockVars, mode, time_valid, diskVars, ghostVars>>

Resume(i) ==
    /\ Free /\ i \in Occupied(entries)
    /\ entries' = [entries EXCEPT ![i] = Refreshed(i, @, time_valid, now)]
    /\ held' = held \ {i}
    /\ Due("resume", FALSE, i, entries[i])
    /\ UNCHANGED <<clockVars, mode, time_valid, diskVars, fired, told, unsure, faultVars>>

\* Whatever the entry's status is.
TriggerNow(i) ==
    /\ Free /\ i \in Occupied(entries) /\ entries[i].runs < MaxRuns
    /\ \E ok \in BOOLEAN : entries' = [entries EXCEPT ![i] = Published(i, @, ok, now)]
    /\ held' = held \ {i}
    /\ astray' = (astray \/ now # real)
    /\ Due("note", FALSE, NoId, NoEntry)
    /\ UNCHANGED <<clockVars, mode, time_valid, diskVars, fired, told, unsure, faults, lost>>

\* The first time SNTP answers after a start; it has set the clock before.
\* An interval counted on the clock of before begins anew.
HandleTimeSync ==
    /\ Free /\ mode = "up" /\ ~time_valid /\ now = real
    /\ time_valid' = TRUE
    /\ entries' = [i \in Ids |->
          IF i \notin Occupied(entries) THEN NoEntry
          ELSE LET e == IF RequiresValidTime(i) THEN entries[i]
                        ELSE [entries[i] EXCEPT !.last = 0, !.next = NoTime]
               IN IF e.status = "paused" THEN e ELSE Refreshed(i, e, TRUE, now)]
    /\ Due("note", FALSE, NoId, NoEntry)
    /\ UNCHANGED <<clockVars, mode, diskVars, ghostVars>>

-----------------------------------------------------------------------------
(* Loading: init and reload.                                               *)

Fault == faults < MaxFaults /\ faults' = faults + 1

Fresh(i) == [NoEntry EXCEPT !.enabled = defs[i],
                            !.status = IF defs[i] = "on" THEN "scheduled" ELSE "disabled"]

LoadedVariant(valid, readable) ==
    [i \in Ids |->
       IF defs[i] = "absent" THEN NoEntry
       ELSE LET e == IF ~readable \/ state[i].status = "absent" THEN Fresh(i)
                     ELSE [state[i] EXCEPT !.enabled = defs[i], !.status = Fresh(i).status]
            IN Refreshed(i, e, valid, IF e.last > 0 THEN e.last ELSE now)]

\* The entries of the file with what the blob says of them.  A blob that is
\* there but cannot be read or parsed is taken for none.
Loaded(valid, readable) ==
    [i \in Ids |->
       IF defs[i] = "absent" THEN NoEntry
       ELSE LET e == IF ~readable \/ state[i].status = "absent" THEN Fresh(i)
                     ELSE [state[i] EXCEPT !.enabled = defs[i]]
            IN IF e.status = "paused" THEN e
               ELSE Refreshed(i, e, valid, IF e.last > 0 THEN e.last ELSE now)]

\* cap_scheduler_load_from_disk_locked.  After a failed read of the blob every
\* entry begins anew, the paused ones too, and the save of the load makes it so.
Load(valid) ==
    /\ \/ entries' = Loaded(valid, TRUE) /\ UNCHANGED <<held, faults>>
       \/ entries' = Loaded(valid, FALSE) /\ held' = {} /\ Fault
    /\ Due("load", TRUE, NoId, NoEntry)
    /\ UNCHANGED <<fired, told, unsure, lost, astray>>

\* A file that does not parse, or cannot be read, ends init, and the
\* application's start with it.
BootFails == mode' = "failed" /\ UNCHANGED <<entries, writes, fired, held, told, unsure,
                                             lost, astray>>
Boot ==
    /\ mode = "down"
    /\ \/ torn /\ BootFails /\ UNCHANGED faults
       \/ ~torn /\ BootFails /\ Fault
       \/ ~torn /\ mode' = "loaded" /\ Load(FALSE)
    /\ UNCHANGED <<clockVars, time_valid, diskVars>>

StartTask == /\ Free /\ mode = "loaded"
             /\ mode' = "up"
             /\ UNCHANGED <<clockVars, time_valid, entries, writes, diskVars, ghostVars>>

\* When the file cannot be read nothing is changed.
Reload == /\ Free /\ ~torn
          /\ Load(time_valid)
          /\ UNCHANGED <<clockVars, mode, time_valid, diskVars>>

-----------------------------------------------------------------------------
(* The writes.                                                             *)

Undone == IF writes.op \in {"store", "pause", "resume"}
          THEN [entries EXCEPT ![writes.id] = writes.undo] ELSE entries

\* The file as it was, or cut short.
MayTear == \/ UNCHANGED <<defs, torn>>
           \/ defs' = NoDefinitions /\ torn' = TRUE

SaveItems ==
    /\ writes.file
    /\ defs' = Definitions(entries) /\ torn' = FALSE
    /\ writes' = [writes EXCEPT !.file = FALSE]
    /\ UNCHANGED <<clockVars, mode, time_valid, entries, state, ghostVars>>

\* What fclose says is not looked at: a file that the last flush cuts short
\* counts as saved.
SaveItemsCutShort ==
    /\ writes.file
    /\ defs' = NoDefinitions /\ torn' = TRUE
    /\ writes' = [writes EXCEPT !.file = FALSE]
    /\ Fault
    /\ UNCHANGED <<clockVars, mode, time_valid, entries, state, fired, held, told, unsure,
                   lost, astray>>

\* The file cannot be opened, or is cut short; a load goes on regardless.
SaveItemsFails ==
    /\ writes.file
    /\ MayTear
    /\ entries' = Undone
    /\ writes' = IF writes.op = "load" THEN [writes EXCEPT !.file = FALSE] ELSE NoWrites
    /\ unsure' = IF writes.op = "store" THEN unsure \cup {writes.id} ELSE unsure
    /\ Fault /\ UNCHANGED <<lost, astray>>
    /\ UNCHANGED <<clockVars, mode, time_valid, state, fired, held, told>>

SaveState ==
    /\ writes.op # "none" /\ ~writes.file
    /\ state' = RuntimeState(entries)
    /\ writes' = NoWrites
    /\ held' = IF writes.op = "pause" THEN held \cup {writes.id} ELSE held
    /\ IF writes.op = "store"
       THEN told' = [told EXCEPT ![writes.id] = entries[writes.id].enabled]
            /\ unsure' = unsure \ {writes.id}
       ELSE UNCHANGED <<told, unsure>>
    /\ UNCHANGED <<clockVars, mode, time_valid, entries, defs, torn, fired, faultVars>>

\* The blob is not written, or is not valid when read back and erased; or it is
\* there although its commit, or the read and the erasure after it, failed.
SaveStateFails ==
    /\ writes.op # "none" /\ ~writes.file
    /\ state' \in {state, NoState, RuntimeState(entries)}
    /\ entries' = Undone
    /\ writes' = NoWrites
    /\ held' = IF state' = NoState THEN {} ELSE held
    /\ unsure' = IF writes.op = "store" THEN unsure \cup {writes.id} ELSE unsure
    /\ Fault /\ lost' = TRUE
    /\ UNCHANGED <<clockVars, mode, time_valid, defs, torn, fired, told, astray>>

-----------------------------------------------------------------------------
(* The device: time passes, SNTP sets the clock, a reset.                  *)

Tick == /\ real < MaxTime
        /\ real' = real + 1 /\ now' = now + 1
        /\ UNCHANGED <<item, mode, time_valid, entries, writes, diskVars, ghostVars>>

SetClock == /\ mode = "up" /\ now # real
            /\ now' = real
            /\ UNCHANGED <<item, real, mode, time_valid, entries, writes, diskVars, ghostVars>>

\* In the middle of the write of the file it leaves the file cut short.  The
\* clock survives it, or begins again and it takes more than two ticks until
\* there is a network and SNTP has answered.
Reset == /\ mode # "down"
         /\ mode' = "down" /\ time_valid' = FALSE
         /\ \/ UNCHANGED clockVars
            \/ real + 2 <= MaxTime /\ real' = real + 2 /\ now' = 1 /\ UNCHANGED item
         /\ entries' = NoEntries /\ writes' = NoWrites
         /\ IF writes.file THEN MayTear ELSE UNCHANGED <<defs, torn>>
         /\ unsure' = IF writes.op = "store" THEN unsure \cup {writes.id} ELSE unsure
         /\ Fault /\ lost' = (lost \/ writes.op = "note")
         /\ UNCHANGED <<state, fired, held, told, astray>>

SchedNext ==
    \/ FireDue \/ HandleTimeSync \/ Boot \/ StartTask \/ Reload
    \/ SaveItems \/ SaveItemsCutShort \/ SaveItemsFails \/ SaveState \/ SaveStateFails
    \/ Tick \/ SetClock \/ Reset
    \/ \E i \in Ids : Remove(i) \/ Pause(i) \/ Resume(i) \/ TriggerNow(i)
    \/ \E i \in Ids, enabled \in {"on", "off"} :
          Add(i, enabled) \/ Update(i, enabled) \/ Enable(i, enabled)

SchedSpec == SchedInit /\ [][SchedNext]_schedVars

-----------------------------------------------------------------------------
(* Properties.                                                             *)

EntryType == [enabled : {"absent", "on", "off"}, next : Int, last : Nat, runs : Nat,
              status : {"absent", "scheduled", "disabled", "paused", "completed", "error"}]

\* The state stays within its types.
SchedTypeOK ==
    /\ item \in [Ids -> Items] /\ real \in Nat /\ now \in Nat /\ time_valid \in BOOLEAN
    /\ mode \in {"down", "loaded", "up", "failed"}
    /\ entries \in [Ids -> EntryType]
    /\ writes \in [op : {"none", "store", "pause", "resume", "note", "load"}, file : BOOLEAN,
                   id : Ids \cup {NoId}, undo : EntryType]
    /\ defs \in [Ids -> {"absent", "on", "off"}] /\ torn \in BOOLEAN
    /\ state \in [Ids -> EntryType]
    /\ fired \in [Ids -> 0..2] /\ held \in SUBSET Ids /\ unsure \in SUBSET Ids
    /\ told \in [Ids -> {"absent", "on", "off"}]

\* The clock fires an entry of kind once at most once, whatever is paused,
\* triggered, reloaded, removed and added again, and whatever resets there are
\* in between, unless the save of the fact was lost, or an entry was triggered
\* by hand while the clock was behind: its last time then lies before its
\* start, and the next load plans it again.
OnceFiresOnce == ~lost /\ ~astray => \A i \in Ids : item[i].kind = "once" => fired[i] <= 1

\* An entry whose pause was confirmed is not fired by the clock until it is
\* resumed, enabled, triggered or removed: not after a reset, a reload, a time
\* sync, an update or a failed write.  Two things forget it: a blob that cannot
\* be read or parsed on a reload or at a start (cap_scheduler.c:331), and one
\* that is erased because it does not read back.
PausedStaysQuiet == [][\A i \in held : fired'[i] = fired[i]]_schedVars

\* What the callers were told was stored is what the module has, and what the
\* file has while the module is not there to have it, after any resets, reloads
\* and failed writes and reads.  Two things are excepted.  An entry whose own
\* last change failed or was cut off may have the old definition or the new
\* one.  And no definition at all is left in a file that was cut short, in the
\* change of whichever entry or in a load: init then fails.
StoredIsLoaded ==
    \A i \in Ids \ unsure :
        /\ Free => entries[i].enabled = told[i]
        /\ mode \in {"down", "failed"} /\ ~torn => defs[i] = told[i]

\* What the documents say and the code does not keep.

\* The device resumes "after a reboot without losing or repeating tasks"
\* (cap-scheduler.mdx:34): a task that a caller was told is stored, and whose
\* own change was not cut off, is in the module or in the file.
NoTaskIsLost ==
    writes = NoWrites => \A i \in Ids \ unsure :
        told[i] # "absent" => defs[i] # "absent" \/ entries[i].enabled # "absent"

\* A resume that is confirmed leaves the entry not paused: scheduler_resume
\* answers with status "scheduled" (cap_scheduler.c:1395).
ResumeResumes ==
    [][writes.op = "resume" /\ writes' = NoWrites /\ state' = RuntimeState(entries)
          => entries'[writes.id].status # "paused"]_schedVars
=============================================================================
