----------------------------- MODULE ThreadSync ------------------------------
(***************************************************************************)
(* thread.sync: queues, semaphores and locks that Lua jobs share by name.  *)
(* An operation looks its object up and counts itself as a waiter under    *)
(* the registry's lock, uses the object without that lock, and counts      *)
(* itself off again; delete refuses while anyone is counted.               *)
(*                                                                         *)
(* A queue is its level and depth, a semaphore its count and maximum, a    *)
(* lock the semaphore that FreeRTOS makes a mutex of: level 0 is taken.    *)
(* An address of memory that is freed may be used again, and so may a      *)
(* task's handle: a job that ends with a lock leaves it to the next job of *)
(* that handle, or to nobody.                                              *)
(***************************************************************************)
EXTENDS FiniteSets, Naturals

CONSTANTS Jobs,      \* tasks of Lua jobs
          Names,
          Cells,     \* addresses of objects
          Room,      \* bound: depth of a queue, maximum of a semaphore
          NoCell, NoJob

ASSUME SyncAssumption == /\ NoCell \notin Cells /\ NoJob \notin Jobs
                         /\ Room \in Nat \ {0} /\ IsFiniteSet(Jobs)

VARIABLES
    objects,  \* s_objects: per name, the object's address
    cell,     \* per address, the object; of kind "freed" when there is none
    job,      \* per task: the operation it is in, and its object
    holder    \* external: per address, the task that FreeRTOS has as the
              \* mutex's holder

syncVars == <<objects, cell, job, holder>>

Kinds == {"queue", "sem", "lock"}
Freed == [kind |-> "freed", level |-> 0, waiters |-> 0, owner |-> NoJob]
NoOp == [op |-> "none", on |-> NoCell]

SyncInit == /\ objects = [n \in Names |-> NoCell]
            /\ cell = [o \in Cells |-> Freed]
            /\ job = [t \in Jobs |-> NoOp]
            /\ holder = [o \in Cells |-> NoJob]

Uses(t) == job[t].on
In(t, op) == job[t].op = op
JobGoes(t, op) == job' = [job EXCEPT ![t].op = op]
Level(o, l) == cell' = [cell EXCEPT ![o].level = l]

-----------------------------------------------------------------------------
(* create and delete, which lock the registry for all they look at.        *)

Create(t, n, kind) ==
    /\ In(t, "none") /\ objects[n] = NoCell
    /\ \E o \in Cells :
          /\ cell[o] = Freed
          /\ \E l \in IF kind = "sem" THEN 0..Room ELSE {IF kind = "lock" THEN 1 ELSE 0} :
                cell' = [cell EXCEPT ![o] = [kind |-> kind, level |-> l, waiters |-> 0,
                                             owner |-> NoJob]]
          /\ objects' = [objects EXCEPT ![n] = o]
    /\ UNCHANGED <<job, holder>>

Busy(o) == \/ cell[o].waiters > 0
           \/ cell[o].kind = "queue" /\ cell[o].level > 0
           \/ cell[o].kind = "lock" /\ cell[o].owner # NoJob

\* The object leaves the registry; it is freed after the registry's unlock.
Delete(t, n) == /\ In(t, "none") /\ objects[n] # NoCell /\ ~Busy(objects[n])
                /\ objects' = [objects EXCEPT ![n] = NoCell]
                /\ job' = [job EXCEPT ![t] = [op |-> "free", on |-> objects[n]]]
                /\ UNCHANGED <<cell, holder>>

FreeObject(t) == /\ In(t, "free")
                 /\ cell' = [cell EXCEPT ![Uses(t)] = Freed]
                 /\ holder' = [holder EXCEPT ![Uses(t)] = NoJob]
                 /\ job' = [job EXCEPT ![t] = NoOp]
                 /\ UNCHANGED objects

-----------------------------------------------------------------------------
(* The operations.                                                         *)

\* thread_sync_acquire.
AcquireVariant(t, n, op, kind) ==
    LET o == objects[n]
    IN /\ In(t, "none") /\ o # NoCell /\ cell[o].kind = kind
       /\ job' = [job EXCEPT ![t] = [op |-> op, on |-> o]]
       /\ UNCHANGED <<objects, cell, holder>>
Acquire(t, n, op, kind) ==
    LET o == objects[n]
    IN /\ In(t, "none") /\ o # NoCell /\ cell[o].kind = kind
       /\ cell' = [cell EXCEPT ![o].waiters = @ + 1]
       /\ job' = [job EXCEPT ![t] = [op |-> op, on |-> o]]
       /\ UNCHANGED <<objects, holder>>

Begin(t, n) == \/ Acquire(t, n, "send", "queue") \/ Acquire(t, n, "recv", "queue")
               \/ Acquire(t, n, "give", "sem") \/ Acquire(t, n, "take", "sem")
               \/ Acquire(t, n, "lock", "lock") \/ Acquire(t, n, "unlock", "lock")

\* thread_sync_release, whatever became of the operation.
Release(t) == /\ In(t, "done")
              /\ cell' = [cell EXCEPT ![Uses(t)].waiters = IF @ > 0 THEN @ - 1 ELSE @]
              /\ job' = [job EXCEPT ![t] = NoOp]
              /\ UNCHANGED <<objects, holder>>

Put(t) == /\ In(t, "send") \/ In(t, "give")
          /\ cell[Uses(t)].level < Room
          /\ Level(Uses(t), cell[Uses(t)].level + 1)
          /\ JobGoes(t, "done")
          /\ UNCHANGED <<objects, holder>>

Get(t) == /\ In(t, "recv") \/ In(t, "take")
          /\ cell[Uses(t)].level > 0
          /\ Level(Uses(t), cell[Uses(t)].level - 1)
          /\ JobGoes(t, "done")
          /\ UNCHANGED <<objects, holder>>

\* A lock's take; its owner is written under the registry's lock, later.
TakeLock(t) == /\ In(t, "lock") /\ cell[Uses(t)].level > 0
               /\ Level(Uses(t), 0)
               /\ holder' = [holder EXCEPT ![Uses(t)] = t]
               /\ JobGoes(t, "own")
               /\ UNCHANGED objects

Own(t) == /\ In(t, "own")
          /\ cell' = [cell EXCEPT ![Uses(t)].owner = t]
          /\ JobGoes(t, "done")
          /\ UNCHANGED <<objects, holder>>

\* No room or nothing there until the timeout or a stop of the job; a give
\* does not wait.
GiveUp(t) == /\ \/ \E op \in {"send", "recv", "take", "lock"} : In(t, op)
                \/ In(t, "give") /\ cell[Uses(t)].level = Room
             /\ JobGoes(t, "done")
             /\ UNCHANGED <<objects, cell, holder>>

DisownVariant(t) == /\ In(t, "unlock") /\ cell[Uses(t)].owner # NoJob
                    /\ cell' = [cell EXCEPT ![Uses(t)].owner = NoJob]
                    /\ JobGoes(t, "put")
                    /\ UNCHANGED <<objects, holder>>
\* unlock looks at the owner under the registry's lock.
Disown(t) == /\ In(t, "unlock") /\ cell[Uses(t)].owner = t
             /\ cell' = [cell EXCEPT ![Uses(t)].owner = NoJob]
             /\ JobGoes(t, "put")
             /\ UNCHANGED <<objects, holder>>

NotOwner(t) == /\ In(t, "unlock") /\ cell[Uses(t)].owner # t
               /\ JobGoes(t, "done")
               /\ UNCHANGED <<objects, cell, holder>>

\* xSemaphoreGive of a mutex.
PutLock(t) == /\ In(t, "put")
              /\ Level(Uses(t), 1)
              /\ holder' = [holder EXCEPT ![Uses(t)] = NoJob]
              /\ JobGoes(t, "done")
              /\ UNCHANGED objects

SyncStep(t) == \/ FreeObject(t) \/ Release(t) \/ Put(t) \/ Get(t) \/ TakeLock(t)
               \/ Own(t) \/ GiveUp(t) \/ Disown(t) \/ NotOwner(t) \/ PutLock(t)

SyncNext == \E t \in Jobs :
               \/ SyncStep(t)
               \/ \E n \in Names : \/ Delete(t, n) \/ Begin(t, n)
                                   \/ \E kind \in Kinds : Create(t, n, kind)

SyncSpec == SyncInit /\ [][SyncNext]_syncVars

-----------------------------------------------------------------------------
(* Properties.                                                             *)

\* The state stays within its types.
SyncTypeOK ==
    /\ objects \in [Names -> Cells \cup {NoCell}]
    /\ cell \in [Cells -> [kind : Kinds \cup {"freed"}, level : 0..(Room + 1),
                           waiters : 0..Cardinality(Jobs), owner : Jobs \cup {NoJob}]]
    /\ job \in [Jobs -> [op : {"none", "free", "send", "recv", "give", "take", "lock",
                               "own", "unlock", "put", "done"},
                         on : Cells \cup {NoCell}]]
    /\ holder \in [Cells -> Jobs \cup {NoJob}]

\* No job uses an object that has been freed, or that has since become
\* another: what a job is in an operation on is still in the registry.
UsedIsRegistered ==
    \A t \in Jobs : job[t].op \notin {"none", "free"} => \E n \in Names : objects[n] = Uses(t)

\* A lock is with one job: who is its owner holds the mutex, and when nobody
\* is, it is free, but for the job that has just taken it or is giving it.
\* So a lock that nobody owns is not deleted while a job holds it.
OwnerHoldsTheMutex ==
    \A o \in Cells : cell[o].kind = "lock" =>
        /\ cell[o].owner # NoJob => holder[o] = cell[o].owner
        /\ holder[o] # NoJob /\ cell[o].owner = NoJob =>
              job[holder[o]].op \in {"own", "put"} /\ Uses(holder[o]) = o
        /\ (cell[o].level = 0) = (holder[o] # NoJob)
=============================================================================
