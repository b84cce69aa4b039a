-------------------------- MODULE ThreadSync_proofs --------------------------
(***************************************************************************)
(* Proofs about ThreadSync, for any jobs, names, addresses and room: no    *)
(* operation uses an object that has left the registry, and a lock is with *)
(* the job that its owner names.                                           *)
(***************************************************************************)
EXTENDS ThreadSync, FiniteSetTheorems, TLAPS

USE SyncAssumption

-----------------------------------------------------------------------------
(* The invariant.  Delete looks only at the count of waiters, so what is   *)
(* in use stays registered because the count is exact (Counted), every     *)
(* address has one name (OneName), and an object that has left the         *)
(* registry is with the one task that frees it (Leavers).                  *)

Operating(t) == job[t].op \notin {"none", "free"}
Waiters(o) == {t \in Jobs : Operating(t) /\ Uses(t) = o}

Counted == \A o \in Cells : cell[o].waiters = Cardinality(Waiters(o))
OneName == \A n, m \in Names : objects[n] = objects[m] /\ objects[n] # NoCell => n = m
Listed == \A n \in Names : objects[n] # NoCell => cell[objects[n]].kind # "freed"
Used == \A t \in Jobs : Operating(t) => Uses(t) \in Cells /\ \E n \in Names : objects[n] = Uses(t)
Leavers == \A t \in Jobs : job[t].op = "free" =>
              /\ Uses(t) \in Cells /\ cell[Uses(t)].kind # "freed"
              /\ \A n \in Names : objects[n] # Uses(t)
              /\ \A u \in Jobs : job[u].op = "free" /\ Uses(u) = Uses(t) => u = t

RegistryInv == Counted /\ OneName /\ Listed /\ Used /\ Leavers

\* What the locks need besides: an operation is on an object of its kind, a
\* job that has taken a lock, or is giving it, is its holder while nobody owns
\* it, and memory that is free has no holder.
OpsOfKind == \A t \in Jobs :
    /\ job[t].op \in {"send", "recv"} => cell[Uses(t)].kind = "queue"
    /\ job[t].op \in {"give", "take"} => cell[Uses(t)].kind = "sem"
    /\ job[t].op \in {"lock", "own", "unlock", "put"} => cell[Uses(t)].kind = "lock"
Between == \A t \in Jobs : job[t].op \in {"own", "put"} =>
              holder[Uses(t)] = t /\ cell[Uses(t)].owner = NoJob
FreeHasNoHolder == \A o \in Cells : cell[o].kind = "freed" => holder[o] = NoJob

LockInv == OpsOfKind /\ Between /\ FreeHasNoHolder /\ OwnerHoldsTheMutex
SyncInv == SyncTypeOK /\ RegistryInv /\ LockInv

Objects == [kind : Kinds \cup {"freed"}, level : 0..(Room + 1),
            waiters : 0..Cardinality(Jobs), owner : Jobs \cup {NoJob}]
Ops == {"none", "free", "send", "recv", "give", "take", "lock", "own", "unlock", "put", "done"}
InOp == Ops \ {"none", "free"}
Operations == [op : Ops, on : Cells \cup {NoCell}]

LEMMA SyncInitInv == SyncInit => SyncInv
<1> SUFFICES ASSUME SyncInit PROVE SyncInv
  OBVIOUS
<1>1. Cardinality(Jobs) \in Nat
  BY FS_CardinalityType, SyncAssumption
<1>2. SyncTypeOK
  BY <1>1, SyncAssumption DEF SyncInit, SyncTypeOK, Freed, NoOp
<1>3. \A t \in Jobs : job[t].op = "none"
  BY DEF SyncInit, NoOp
<1>4. \A o \in Cells : /\ cell[o].kind = "freed" /\ cell[o].waiters = 0
                       /\ holder[o] = NoJob
  BY DEF SyncInit, Freed
<1>5. RegistryInv
  <2>1. \A o \in Cells : Waiters(o) = {}
    BY <1>3 DEF Waiters, Operating
  <2>2. Counted
    BY <1>4, <2>1, FS_EmptySet DEF Counted
  <2>3. QED
    BY <1>3, <2>2 DEF SyncInit, RegistryInv, OneName, Listed, Used, Leavers, Operating
<1>6. LockInv
  BY <1>3, <1>4
     DEF LockInv, OpsOfKind, Between, FreeHasNoHolder, OwnerHoldsTheMutex
<1>7. QED  BY <1>2, <1>5, <1>6 DEF SyncInv

-----------------------------------------------------------------------------
(* What the steps' parts leave of the operations and of the objects.       *)

LEMMA JobGoesTo ==
    ASSUME SyncTypeOK, NEW t \in Jobs, NEW op \in Ops, JobGoes(t, op)
    PROVE  /\ \A u \in Jobs : job'[u].op = IF u = t THEN op ELSE job[u].op
           /\ \A u \in Jobs : Uses(u)' = Uses(u)
           /\ job' \in [Jobs -> Operations]
BY DEF JobGoes, SyncTypeOK, Uses, Operations, Ops

LEMMA JobBecomes ==
    ASSUME SyncTypeOK, NEW t \in Jobs, NEW op \in Ops, NEW o \in Cells \cup {NoCell},
           job' = [job EXCEPT ![t] = [op |-> op, on |-> o]]
    PROVE  /\ \A u \in Jobs : job'[u].op = IF u = t THEN op ELSE job[u].op
           /\ \A u \in Jobs : Uses(u)' = IF u = t THEN o ELSE Uses(u)
           /\ job' \in [Jobs -> Operations]
BY DEF SyncTypeOK, Uses, Operations, Ops

LEMMA LevelTo ==
    ASSUME SyncTypeOK, NEW o \in Cells, NEW l \in 0..(Room + 1), Level(o, l)
    PROVE  /\ \A p \in Cells : /\ cell'[p].kind = cell[p].kind
                               /\ cell'[p].waiters = cell[p].waiters
                               /\ cell'[p].owner = cell[p].owner
                               /\ cell'[p].level = IF p = o THEN l ELSE cell[p].level
           /\ cell' \in [Cells -> Objects]
BY DEF SyncTypeOK, Level, Objects

LEMMA OwnerTo ==
    ASSUME SyncTypeOK, NEW o \in Cells, NEW t \in Jobs \cup {NoJob},
           cell' = [cell EXCEPT ![o].owner = t]
    PROVE  /\ \A p \in Cells : /\ cell'[p].kind = cell[p].kind
                               /\ cell'[p].waiters = cell[p].waiters
                               /\ cell'[p].owner = (IF p = o THEN t ELSE cell[p].owner)
                               /\ cell'[p].level = cell[p].level
           /\ cell' \in [Cells -> Objects]
BY DEF SyncTypeOK, Objects

LEMMA WaitersTo ==
    ASSUME SyncTypeOK, NEW o \in Cells, NEW w \in 0..Cardinality(Jobs),
           cell' = [cell EXCEPT ![o].waiters = w]
    PROVE  /\ \A p \in Cells : /\ cell'[p].kind = cell[p].kind
                               /\ cell'[p].waiters = IF p = o THEN w ELSE cell[p].waiters
                               /\ cell'[p].owner = cell[p].owner
                               /\ cell'[p].level = cell[p].level
           /\ cell' \in [Cells -> Objects]
BY DEF SyncTypeOK, Objects

LEMMA ObjectTo ==
    ASSUME SyncTypeOK, NEW o \in Cells, NEW x \in Objects, cell' = [cell EXCEPT ![o] = x]
    PROVE  /\ \A p \in Cells : cell'[p] = IF p = o THEN x ELSE cell[p]
           /\ cell' \in [Cells -> Objects]
BY DEF SyncTypeOK, Objects

-----------------------------------------------------------------------------
(* The registry.                                                           *)

\* An operation that goes on leaves names, kinds and counts as they are.
LEMMA GoingOn ==
    ASSUME SyncTypeOK, RegistryInv, NEW t \in Jobs, NEW op \in InOp, job[t].op \in InOp,
           JobGoes(t, op), objects' = objects,
           \A o \in Cells : cell'[o].kind = cell[o].kind /\ cell'[o].waiters = cell[o].waiters
    PROVE  RegistryInv'
<1>1. /\ \A u \in Jobs : job'[u].op = IF u = t THEN op ELSE job[u].op
      /\ \A u \in Jobs : Uses(u)' = Uses(u)
  BY JobGoesTo DEF InOp
<1>2. \A u \in Jobs : Operating(u)' <=> Operating(u)
  BY <1>1 DEF Operating, InOp
<1>3. \A o \in Cells : Waiters(o)' = Waiters(o)
  BY <1>1, <1>2 DEF Waiters
<1>4. Counted'
  BY <1>3 DEF RegistryInv, Counted
<1>5. OneName'
  BY DEF RegistryInv, OneName
<1>6. Listed'
  <2>1. objects \in [Names -> Cells \cup {NoCell}]
    BY DEF SyncTypeOK
  <2>2. QED  BY <2>1 DEF RegistryInv, Listed
<1>7. Used'
  BY <1>1, <1>2 DEF RegistryInv, Used
<1>8. Leavers'
  BY <1>1 DEF RegistryInv, Leavers, InOp
<1>9. QED  BY <1>4, <1>5, <1>6, <1>7, <1>8 DEF RegistryInv

LEMMA CreateRegistry ==
    ASSUME SyncInv, NEW t \in Jobs, NEW n \in Names, NEW kind \in Kinds, Create(t, n, kind)
    PROVE  RegistryInv' /\ cell' \in [Cells -> Objects]
<1>a. SyncTypeOK /\ RegistryInv
  BY DEF SyncInv
<1>b. 0 \in 0..Cardinality(Jobs)
  BY FS_CardinalityType, SyncAssumption
<1>1. PICK o \in Cells, l \in 0..Room :
         /\ cell[o] = Freed /\ objects' = [objects EXCEPT ![n] = o]
         /\ cell' = [cell EXCEPT ![o] = [kind |-> kind, level |-> l, waiters |-> 0,
                                         owner |-> NoJob]]
  <2>1. 0 \in 0..Room /\ 1 \in 0..Room
    BY SyncAssumption
  <2>2. QED  BY <2>1 DEF Create
<1>2. [kind |-> kind, level |-> l, waiters |-> 0, owner |-> NoJob] \in Objects
  BY <1>b, SyncAssumption DEF Objects
<1>3. /\ \A p \in Cells : cell'[p] = IF p = o THEN [kind |-> kind, level |-> l, waiters |-> 0,
                                                    owner |-> NoJob] ELSE cell[p]
      /\ cell' \in [Cells -> Objects]
  BY <1>a, <1>1, <1>2, ObjectTo
<1>4. /\ job' = job /\ \A u \in Jobs : (Operating(u)' <=> Operating(u)) /\ Uses(u)' = Uses(u)
  BY DEF Create, Operating, Uses
<1>5. cell[o].kind = "freed" /\ cell[o].waiters = 0 /\ kind # "freed"
  BY <1>1 DEF Freed, Kinds
<1>6. \A m \in Names : objects'[m] = IF m = n THEN o ELSE objects[m]
  BY <1>a, <1>1 DEF SyncTypeOK
<1>7. \A p \in Cells : Waiters(p)' = Waiters(p)
  BY <1>4 DEF Waiters
<1>8. \A m \in Names : objects[m] # o
  BY <1>a, <1>5, SyncAssumption DEF RegistryInv, Listed
<1>9. Counted'
  BY <1>a, <1>3, <1>5, <1>7 DEF RegistryInv, Counted
<1>10. OneName'
  BY <1>a, <1>6, <1>8 DEF RegistryInv, OneName
<1>11. Listed'
  BY <1>a, <1>3, <1>5, <1>6 DEF RegistryInv, Listed, SyncTypeOK
<1>12. Used'
  <2>1. \A u \in Jobs, m \in Names : Operating(u) /\ objects[m] = Uses(u) => m # n
    BY <1>a, SyncAssumption DEF Create, RegistryInv, Used
  <2>2. QED  BY <1>a, <1>4, <1>6, <2>1 DEF RegistryInv, Used
<1>13. Leavers'
  BY <1>a, <1>3, <1>4, <1>5, <1>6 DEF RegistryInv, Leavers
<1>14. QED  BY <1>3, <1>9, <1>10, <1>11, <1>12, <1>13 DEF RegistryInv

LEMMA DeleteRegistry ==
    ASSUME SyncInv, NEW t \in Jobs, NEW n \in Names, Delete(t, n)
    PROVE  RegistryInv' /\ job' \in [Jobs -> Operations]
<1>a. SyncTypeOK /\ RegistryInv
  BY DEF SyncInv
<1>1. objects[n] \in Cells /\ job[t].op = "none"
  BY <1>a DEF Delete, SyncTypeOK, In
<1>2. /\ \A u \in Jobs : job'[u].op = IF u = t THEN "free" ELSE job[u].op
      /\ \A u \in Jobs : Uses(u)' = IF u = t THEN objects[n] ELSE Uses(u)
      /\ job' \in [Jobs -> Operations]
  BY <1>a, <1>1, JobBecomes DEF Delete, Ops
<1>3. \A u \in Jobs : Operating(u)' <=> Operating(u)
  BY <1>1, <1>2 DEF Operating
<1>4. \A m \in Names : objects'[m] = IF m = n THEN NoCell ELSE objects[m]
  BY <1>a DEF Delete, SyncTypeOK
<1>5. \A p \in Cells : Waiters(p)' = Waiters(p)
  BY <1>1, <1>2, <1>3 DEF Waiters, Operating
<1>6. cell' = cell /\ Waiters(objects[n]) = {}
  <2>1. cell[objects[n]].waiters = 0
    BY <1>a, <1>1 DEF Delete, Busy, SyncTypeOK
  <2>2. IsFiniteSet(Waiters(objects[n]))
    BY FS_Subset, SyncAssumption DEF Waiters
  <2>3. Cardinality(Waiters(objects[n])) = 0
    BY <1>a, <1>1, <2>1 DEF RegistryInv, Counted
  <2>4. QED  BY <2>2, <2>3, FS_EmptySet DEF Delete
<1>7. Counted'
  BY <1>a, <1>5, <1>6 DEF RegistryInv, Counted
<1>8. OneName'
  BY <1>a, <1>4 DEF RegistryInv, OneName
<1>9. Listed'
  BY <1>a, <1>4, <1>6 DEF RegistryInv, Listed
<1>10. Used'
  <2>1. ASSUME NEW u \in Jobs, Operating(u) PROVE u # t /\ Uses(u) # objects[n]
    BY <1>1, <1>6, <2>1 DEF Waiters, Operating
  <2>2. QED  BY <1>a, <1>1, <1>2, <1>3, <1>4, <2>1 DEF RegistryInv, Used
<1>11. Leavers'
  <2>1. \A m \in Names : objects'[m] # objects[n]
    BY <1>a, <1>1, <1>4, SyncAssumption DEF RegistryInv, OneName
  <2>2. cell[objects[n]].kind # "freed"
    BY <1>a, <1>1, SyncAssumption DEF RegistryInv, Listed
  <2>3. \A u \in Jobs : job[u].op = "free" => Uses(u) # objects[n] /\ Uses(u) \in Cells
    BY <1>a DEF RegistryInv, Leavers
  <2>4. ASSUME NEW u \in Jobs, job'[u].op = "free"
        PROVE  /\ Uses(u)' \in Cells /\ cell'[Uses(u)'].kind # "freed"
               /\ \A m \in Names : objects'[m] # Uses(u)'
               /\ \A v \in Jobs : job'[v].op = "free" /\ Uses(v)' = Uses(u)' => v = u
    <3>1. CASE u = t
      BY <1>1, <1>2, <1>6, <2>1, <2>2, <2>3, <3>1
    <3>2. CASE u # t
      BY <1>a, <1>2, <1>4, <1>6, <2>3, <2>4, <3>2, SyncAssumption DEF RegistryInv, Leavers
    <3>3. QED  BY <3>1, <3>2
  <2>5. QED  BY <2>4 DEF Leavers
<1>12. QED  BY <1>2, <1>7, <1>8, <1>9, <1>10, <1>11 DEF RegistryInv

LEMMA FreeRegistry ==
    ASSUME SyncInv, NEW t \in Jobs, FreeObject(t)
    PROVE  RegistryInv' /\ job' \in [Jobs -> Operations] /\ cell' \in [Cells -> Objects]
<1>a. SyncTypeOK /\ RegistryInv
  BY DEF SyncInv
<1>b. Freed \in Objects
  BY FS_CardinalityType, SyncAssumption DEF Freed, Objects
<1>1. job[t].op = "free" /\ Uses(t) \in Cells
  BY <1>a DEF FreeObject, In, RegistryInv, Leavers
<1>2. /\ \A u \in Jobs : job'[u].op = IF u = t THEN "none" ELSE job[u].op
      /\ \A u \in Jobs : Uses(u)' = IF u = t THEN NoCell ELSE Uses(u)
      /\ job' \in [Jobs -> Operations]
  BY <1>a, JobBecomes DEF FreeObject, NoOp, Ops
<1>3. /\ \A p \in Cells : cell'[p] = IF p = Uses(t) THEN Freed ELSE cell[p]
      /\ cell' \in [Cells -> Objects]
  BY <1>a, <1>b, <1>1, ObjectTo DEF FreeObject
<1>4. \A u \in Jobs : Operating(u)' <=> Operating(u)
  BY <1>1, <1>2 DEF Operating
<1>5. \A p \in Cells : Waiters(p)' = Waiters(p)
  BY <1>1, <1>2, <1>4 DEF Waiters, Operating
<1>6. Waiters(Uses(t)) = {}
  BY <1>a, <1>1 DEF Waiters, RegistryInv, Used, Leavers
<1>7. Counted'
  BY <1>a, <1>3, <1>5, <1>6, FS_EmptySet DEF RegistryInv, Counted, Freed
<1>8. objects' = objects /\ \A m \in Names : objects[m] # Uses(t)
  BY <1>a, <1>1 DEF FreeObject, RegistryInv, Leavers
<1>9. OneName'
  BY <1>a, <1>8 DEF RegistryInv, OneName
<1>10. Listed'
  BY <1>a, <1>3, <1>8 DEF RegistryInv, Listed, SyncTypeOK
<1>11. Used'
  BY <1>a, <1>1, <1>2, <1>4, <1>8 DEF RegistryInv, Used, Operating
<1>12. Leavers'
  BY <1>a, <1>1, <1>2, <1>3, <1>8 DEF RegistryInv, Leavers
<1>13. QED  BY <1>2, <1>3, <1>7, <1>9, <1>10, <1>11, <1>12 DEF RegistryInv

LEMMA AcquireRegistry ==
    ASSUME SyncInv, NEW t \in Jobs, NEW n \in Names, NEW op \in InOp, NEW kind \in Kinds,
           Acquire(t, n, op, kind)
    PROVE  /\ RegistryInv' /\ job' \in [Jobs -> Operations] /\ cell' \in [Cells -> Objects]
           /\ \A u \in Jobs : job'[u].op = IF u = t THEN op ELSE job[u].op
           /\ \A u \in Jobs : Uses(u)' = IF u = t THEN objects[n] ELSE Uses(u)
           /\ \A p \in Cells : /\ cell'[p].kind = cell[p].kind
                               /\ cell'[p].owner = cell[p].owner
                               /\ cell'[p].level = cell[p].level
           /\ objects[n] \in Cells /\ cell[objects[n]].kind = kind
<1>a. SyncTypeOK /\ RegistryInv
  BY DEF SyncInv
<1>1. objects[n] \in Cells /\ job[t].op = "none" /\ cell[objects[n]].kind = kind /\ objects' = objects
  BY <1>a DEF Acquire, SyncTypeOK, In
<1>2. /\ \A u \in Jobs : job'[u].op = IF u = t THEN op ELSE job[u].op
      /\ \A u \in Jobs : Uses(u)' = IF u = t THEN objects[n] ELSE Uses(u)
      /\ job' \in [Jobs -> Operations]
  BY <1>a, <1>1, JobBecomes DEF Acquire, InOp
<1>3. \A u \in Jobs : Operating(u)' <=> u = t \/ Operating(u)
  BY <1>1, <1>2 DEF Operating, InOp
<1>4. /\ \A p \in Cells : Waiters(p)' = IF p = objects[n] THEN Waiters(p) \cup {t}
                                                             ELSE Waiters(p)
      /\ t \notin Waiters(objects[n])
  <2>1. ~Operating(t)
    BY <1>1 DEF Operating
  <2>2. QED  BY <1>1, <1>2, <1>3, <2>1 DEF Waiters
<1>5. /\ IsFiniteSet(Waiters(objects[n]))
      /\ Cardinality(Waiters(objects[n]) \cup {t}) = cell[objects[n]].waiters + 1
      /\ Cardinality(Waiters(objects[n]) \cup {t}) \in 0..Cardinality(Jobs)
  <2>1. Waiters(objects[n]) \cup {t} \subseteq Jobs /\ Waiters(objects[n]) \subseteq Jobs
    BY DEF Waiters
  <2>2. /\ IsFiniteSet(Waiters(objects[n])) /\ IsFiniteSet(Waiters(objects[n]) \cup {t})
        /\ Cardinality(Waiters(objects[n]) \cup {t}) <= Cardinality(Jobs)
    BY <2>1, FS_Subset, SyncAssumption
  <2>3. /\ Cardinality(Jobs) \in Nat
        /\ Cardinality(Waiters(objects[n]) \cup {t}) \in Nat
        /\ Cardinality(Waiters(objects[n]) \cup {t}) = Cardinality(Waiters(objects[n])) + 1
    BY <1>4, <2>2, FS_CardinalityType, FS_AddElement, SyncAssumption
  <2>4. QED  BY <1>a, <1>1, <2>2, <2>3 DEF RegistryInv, Counted
<1>6. /\ cell' = [cell EXCEPT ![objects[n]].waiters = cell[objects[n]].waiters + 1]
      /\ cell[objects[n]].waiters + 1 \in 0..Cardinality(Jobs)
  BY <1>5 DEF Acquire
<1>7. /\ \A p \in Cells : /\ cell'[p].kind = cell[p].kind
                          /\ cell'[p].waiters = (IF p = objects[n] THEN cell[objects[n]].waiters + 1
                                                 ELSE cell[p].waiters)
                          /\ cell'[p].owner = cell[p].owner
                          /\ cell'[p].level = cell[p].level
      /\ cell' \in [Cells -> Objects]
  BY <1>a, <1>1, <1>5, <1>6, WaitersTo, Zenon
<1>8. Counted'
  <2>1. ASSUME NEW p \in Cells, p # objects[n] PROVE cell'[p].waiters = Cardinality(Waiters(p)')
    <3>1. Waiters(p)' = Waiters(p) /\ cell'[p].waiters = cell[p].waiters
      BY <1>4, <1>7, <2>1
    <3>2. QED  BY <1>a, <3>1 DEF RegistryInv, Counted
  <2>2. ASSUME NEW p \in Cells, p = objects[n] PROVE cell'[p].waiters = Cardinality(Waiters(p)')
    <3>1. Waiters(p)' = Waiters(p) \cup {t} /\ cell'[p].waiters = cell[p].waiters + 1
      BY <1>4, <1>7, <2>2
    <3>2. QED  BY <1>5, <2>2, <3>1
  <2>3. QED  BY <2>1, <2>2 DEF Counted
<1>9. OneName'
  BY <1>a, <1>1 DEF RegistryInv, OneName
<1>10. Listed'
  BY <1>a, <1>1, <1>7 DEF RegistryInv, Listed, SyncTypeOK
<1>11. Used'
  BY <1>a, <1>1, <1>2, <1>3 DEF RegistryInv, Used
<1>12. Leavers'
  BY <1>a, <1>1, <1>2, <1>7 DEF RegistryInv, Leavers, InOp
<1>13. QED  BY <1>1, <1>2, <1>7, <1>8, <1>9, <1>10, <1>11, <1>12 DEF RegistryInv

LEMMA ReleaseRegistry ==
    ASSUME SyncInv, NEW t \in Jobs, Release(t)
    PROVE  /\ RegistryInv' /\ job' \in [Jobs -> Operations] /\ cell' \in [Cells -> Objects]
           /\ \A u \in Jobs : job'[u].op = IF u = t THEN "none" ELSE job[u].op
           /\ \A u \in Jobs : Uses(u)' = IF u = t THEN NoCell ELSE Uses(u)
           /\ \A p \in Cells : /\ cell'[p].kind = cell[p].kind
                               /\ cell'[p].owner = cell[p].owner
                               /\ cell'[p].level = cell[p].level
<1>a. SyncTypeOK /\ RegistryInv
  BY DEF SyncInv
<1>1. job[t].op = "done" /\ Operating(t) /\ Uses(t) \in Cells /\ objects' = objects
  BY <1>a DEF Release, In, Operating, RegistryInv, Used
<1>2. /\ \A u \in Jobs : job'[u].op = IF u = t THEN "none" ELSE job[u].op
      /\ \A u \in Jobs : Uses(u)' = IF u = t THEN NoCell ELSE Uses(u)
      /\ job' \in [Jobs -> Operations]
  BY <1>a, JobBecomes DEF Release, NoOp, Ops
<1>3. \A u \in Jobs : Operating(u)' <=> u # t /\ Operating(u)
  BY <1>1, <1>2 DEF Operating
<1>4. /\ \A p \in Cells : Waiters(p)' = IF p = Uses(t) THEN Waiters(p) \ {t} ELSE Waiters(p)
      /\ t \in Waiters(Uses(t))
  BY <1>1, <1>2, <1>3 DEF Waiters
<1>5. /\ cell[Uses(t)].waiters \in 0..Cardinality(Jobs) /\ cell[Uses(t)].waiters > 0
      /\ Cardinality(Waiters(Uses(t)) \ {t}) = cell[Uses(t)].waiters - 1
      /\ cell[Uses(t)].waiters - 1 \in 0..Cardinality(Jobs)
  <2>1. IsFiniteSet(Waiters(Uses(t)))
    BY FS_Subset, SyncAssumption DEF Waiters
  <2>2. /\ IsFiniteSet(Waiters(Uses(t)) \ {t})
        /\ Cardinality(Waiters(Uses(t)) \ {t}) = Cardinality(Waiters(Uses(t))) - 1
        /\ Cardinality(Waiters(Uses(t)) \ {t}) \in Nat
    BY <1>4, <2>1, FS_RemoveElement, FS_CardinalityType
  <2>3. cell[Uses(t)].waiters = Cardinality(Waiters(Uses(t)))
    BY <1>a, <1>1 DEF RegistryInv, Counted
  <2>4. cell[Uses(t)].waiters \in 0..Cardinality(Jobs) /\ Cardinality(Jobs) \in Nat
    BY <1>a, <1>1, FS_CardinalityType, SyncAssumption DEF SyncTypeOK
  <2>5. QED  BY <2>2, <2>3, <2>4
<1>6. cell' = [cell EXCEPT ![Uses(t)].waiters = cell[Uses(t)].waiters - 1]
  BY <1>5 DEF Release
<1>7. /\ \A p \in Cells : /\ cell'[p].kind = cell[p].kind
                          /\ cell'[p].waiters = (IF p = Uses(t) THEN cell[Uses(t)].waiters - 1
                                                 ELSE cell[p].waiters)
                          /\ cell'[p].owner = cell[p].owner
                          /\ cell'[p].level = cell[p].level
      /\ cell' \in [Cells -> Objects]
  BY <1>a, <1>1, <1>5, <1>6, WaitersTo, Zenon
<1>8. Counted'
  BY <1>a, <1>1, <1>4, <1>5, <1>7 DEF RegistryInv, Counted
<1>9. OneName'
  BY <1>a, <1>1 DEF RegistryInv, OneName
<1>10. Listed'
  BY <1>a, <1>1, <1>7 DEF RegistryInv, Listed, SyncTypeOK
<1>11. Used'
  BY <1>a, <1>1, <1>2, <1>3 DEF RegistryInv, Used
<1>12. Leavers'
  BY <1>a, <1>1, <1>2, <1>7 DEF RegistryInv, Leavers
<1>13. QED  BY <1>2, <1>7, <1>8, <1>9, <1>10, <1>11, <1>12 DEF RegistryInv

-----------------------------------------------------------------------------
(* The locks.                                                              *)

LEMMA OperatingUses ==
    ASSUME SyncInv, NEW t \in Jobs, job[t].op \in InOp
    PROVE  Uses(t) \in Cells /\ cell[Uses(t)].kind # "freed"
<1>1. Operating(t)
  BY DEF Operating, InOp
<1>2. PICK n \in Names : objects[n] = Uses(t) /\ Uses(t) \in Cells
  BY <1>1 DEF SyncInv, RegistryInv, Used
<1>3. QED  BY <1>2, SyncAssumption DEF SyncInv, RegistryInv, Listed

LEMMA CreateLocks ==
    ASSUME SyncInv, NEW t \in Jobs, NEW n \in Names, NEW kind \in Kinds, Create(t, n, kind)
    PROVE  LockInv'
<1>1. PICK o \in Cells, l \in 0..Room :
         /\ cell[o] = Freed /\ (kind = "lock" => l = 1)
         /\ cell' = [cell EXCEPT ![o] = [kind |-> kind, level |-> l, waiters |-> 0,
                                         owner |-> NoJob]]
  <2>1. 0 \in 0..Room /\ 1 \in 0..Room
    BY SyncAssumption
  <2>2. QED  BY <2>1 DEF Create
<1>2. \A p \in Cells : cell'[p] = IF p = o THEN [kind |-> kind, level |-> l, waiters |-> 0,
                                                 owner |-> NoJob] ELSE cell[p]
  BY <1>1 DEF SyncInv, SyncTypeOK
<1>3. job' = job /\ holder' = holder /\ \A u \in Jobs : Uses(u)' = Uses(u)
  BY DEF Create, Uses
<1>4. cell[o].kind = "freed" /\ kind # "freed" /\ holder[o] = NoJob
  BY <1>1 DEF Freed, Kinds, SyncInv, LockInv, FreeHasNoHolder
<1>5. \A u \in Jobs : job[u].op \in InOp => Uses(u) \in Cells /\ Uses(u) # o
  BY <1>4, OperatingUses
<1>6. OpsOfKind' /\ Between'
  <2>1. \A u \in Jobs : job[u].op \in InOp => cell'[Uses(u)] = cell[Uses(u)]
    BY <1>2, <1>5
  <2>2. OpsOfKind'
    BY <1>3, <2>1 DEF SyncInv, LockInv, OpsOfKind, InOp, Ops
  <2>3. Between'
    BY <1>3, <2>1 DEF SyncInv, LockInv, Between, InOp, Ops
  <2>4. QED  BY <2>2, <2>3
<1>7. FreeHasNoHolder'
  BY <1>2, <1>3, <1>4 DEF SyncInv, LockInv, FreeHasNoHolder
<1>8. OwnerHoldsTheMutex'
  <2>1. holder \in [Cells -> Jobs \cup {NoJob}]
    BY DEF SyncInv, SyncTypeOK
  <2>2. QED  BY <1>1, <1>2, <1>3, <1>4, <2>1 DEF SyncInv, LockInv, OwnerHoldsTheMutex
<1>9. QED  BY <1>6, <1>7, <1>8 DEF LockInv

\* Steps that change neither who holds nor what a lock is.
LEMMA SameLocks ==
    ASSUME SyncInv, NEW t \in Jobs, NEW op \in Ops, job[t].op \notin {"own", "put"},
           op \notin {"own", "put"}, holder' = holder,
           NEW o \in Cells \cup {NoCell},
           \A u \in Jobs : job'[u].op = IF u = t THEN op ELSE job[u].op,
           \A u \in Jobs : Uses(u)' = IF u = t THEN o ELSE Uses(u),
           \A p \in Cells : /\ cell'[p].kind = cell[p].kind
                            /\ cell'[p].owner = cell[p].owner
                            /\ cell[p].kind = "lock" => cell'[p].level = cell[p].level,
           op \in {"send", "recv"} => o \in Cells /\ cell[o].kind = "queue",
           op \in {"give", "take"} => o \in Cells /\ cell[o].kind = "sem",
           op \in {"lock", "unlock"} => o \in Cells /\ cell[o].kind = "lock"
    PROVE  LockInv'
<1>1. \A u \in Jobs : job[u].op \in InOp => Uses(u) \in Cells
  BY OperatingUses
<1>2. OpsOfKind' /\ Between'
  <2>1. ASSUME NEW u \in Jobs, u # t, job[u].op \in InOp
        PROVE  /\ job'[u].op = job[u].op /\ Uses(u)' = Uses(u) /\ Uses(u) \in Cells
               /\ cell'[Uses(u)].kind = cell[Uses(u)].kind
               /\ cell'[Uses(u)].owner = cell[Uses(u)].owner
    BY <1>1, <2>1
  <2>2. op \in {"send", "recv", "give", "take", "lock", "unlock"} =>
           job'[t].op = op /\ Uses(t)' = o /\ o \in Cells /\ cell'[o].kind = cell[o].kind
    OBVIOUS
  <2>3. OpsOfKind'
    BY <2>1, <2>2 DEF SyncInv, LockInv, OpsOfKind, InOp, Ops
  <2>4. Between'
    BY <2>1 DEF SyncInv, LockInv, Between, InOp, Ops
  <2>5. QED  BY <2>3, <2>4
<1>3. FreeHasNoHolder'
  BY DEF SyncInv, LockInv, FreeHasNoHolder
<1>4. OwnerHoldsTheMutex'
  <2>1. holder \in [Cells -> Jobs \cup {NoJob}]
    BY DEF SyncInv, SyncTypeOK
  <2>2. QED  BY <2>1, SyncAssumption DEF SyncInv, LockInv, OwnerHoldsTheMutex
<1>5. QED  BY <1>2, <1>3, <1>4 DEF LockInv

LEMMA FreeLocks == ASSUME SyncInv, NEW t \in Jobs, FreeObject(t) PROVE LockInv'
<1>1. job[t].op = "free" /\ Uses(t) \in Cells
  BY DEF FreeObject, In, SyncInv, RegistryInv, Leavers
<1>2. /\ \A u \in Jobs : job'[u].op = IF u = t THEN "none" ELSE job[u].op
      /\ \A u \in Jobs : Uses(u)' = IF u = t THEN NoCell ELSE Uses(u)
  BY JobBecomes DEF FreeObject, NoOp, Ops, SyncInv
<1>3. \A p \in Cells : /\ cell'[p] = IF p = Uses(t) THEN Freed ELSE cell[p]
                       /\ holder'[p] = IF p = Uses(t) THEN NoJob ELSE holder[p]
  BY <1>1 DEF FreeObject, SyncInv, SyncTypeOK
<1>4. \A u \in Jobs : job[u].op \in InOp => Uses(u) \in Cells /\ Uses(u) # Uses(t)
  <2>1. \A u \in Jobs : job[u].op \in InOp => \E n \in Names : objects[n] = Uses(u)
    BY DEF SyncInv, RegistryInv, Used, Operating, InOp
  <2>2. \A n \in Names : objects[n] # Uses(t)
    BY <1>1 DEF SyncInv, RegistryInv, Leavers
  <2>3. QED  BY <2>1, <2>2, OperatingUses
<1>5. OpsOfKind' /\ Between'
  BY <1>1, <1>2, <1>3, <1>4 DEF SyncInv, LockInv, OpsOfKind, Between, InOp, Ops
<1>6. FreeHasNoHolder'
  BY <1>3 DEF SyncInv, LockInv, FreeHasNoHolder
<1>7. OwnerHoldsTheMutex'
  <2>1. holder \in [Cells -> Jobs \cup {NoJob}] /\ Freed.kind # "lock"
    BY DEF SyncInv, SyncTypeOK, Freed
  <2>2. QED
    BY <1>1, <1>2, <1>3, <2>1, SyncAssumption DEF SyncInv, LockInv, OwnerHoldsTheMutex
<1>8. QED  BY <1>5, <1>6, <1>7 DEF LockInv

LEMMA TakeLocks == ASSUME SyncInv, NEW t \in Jobs, TakeLock(t) PROVE LockInv'
<1>1. /\ job[t].op = "lock" /\ Uses(t) \in Cells /\ cell[Uses(t)].kind = "lock"
      /\ cell[Uses(t)].level > 0
  <2>1. job[t].op = "lock" /\ job[t].op \in InOp
    BY DEF TakeLock, In, InOp, Ops
  <2>2. QED  BY <2>1, OperatingUses DEF TakeLock, SyncInv, LockInv, OpsOfKind
<1>2. /\ \A u \in Jobs : job'[u].op = IF u = t THEN "own" ELSE job[u].op
      /\ \A u \in Jobs : Uses(u)' = Uses(u)
  BY JobGoesTo DEF TakeLock, Ops, SyncInv
<1>3. \A p \in Cells : /\ cell'[p].kind = cell[p].kind
                       /\ cell'[p].owner = cell[p].owner
                       /\ cell'[p].level = IF p = Uses(t) THEN 0 ELSE cell[p].level
  BY <1>1, LevelTo, SyncAssumption DEF TakeLock, SyncInv
<1>4. \A p \in Cells : holder'[p] = IF p = Uses(t) THEN t ELSE holder[p]
  BY <1>1 DEF TakeLock, SyncInv, SyncTypeOK
<1>5. holder[Uses(t)] = NoJob /\ cell[Uses(t)].owner = NoJob
  <2>1. cell[Uses(t)].level # 0
    BY <1>1 DEF SyncInv, SyncTypeOK
  <2>2. QED  BY <1>1, <2>1 DEF SyncInv, LockInv, OwnerHoldsTheMutex
<1>6. \A u \in Jobs : job[u].op \in InOp => Uses(u) \in Cells
  BY OperatingUses
<1>7. OpsOfKind'
  BY <1>1, <1>2, <1>3, <1>6 DEF SyncInv, LockInv, OpsOfKind, InOp, Ops
<1>8. Between'
  BY <1>1, <1>2, <1>3, <1>4, <1>5, <1>6, SyncAssumption
     DEF SyncInv, LockInv, Between, InOp, Ops
<1>9. FreeHasNoHolder'
  BY <1>1, <1>3, <1>4 DEF SyncInv, LockInv, FreeHasNoHolder
<1>10. OwnerHoldsTheMutex'
  <2>1. holder \in [Cells -> Jobs \cup {NoJob}]
    BY DEF SyncInv, SyncTypeOK
  <2>2. QED
    BY <1>1, <1>2, <1>3, <1>4, <1>5, <2>1, SyncAssumption
       DEF SyncInv, LockInv, OwnerHoldsTheMutex
<1>11. QED  BY <1>7, <1>8, <1>9, <1>10 DEF LockInv

LEMMA OwnLocks == ASSUME SyncInv, NEW t \in Jobs, Own(t) PROVE LockInv'
<1>1. /\ job[t].op = "own" /\ Uses(t) \in Cells /\ cell[Uses(t)].kind = "lock"
      /\ holder[Uses(t)] = t
  <2>1. job[t].op = "own" /\ job[t].op \in InOp
    BY DEF Own, In, InOp, Ops
  <2>2. QED  BY <2>1, OperatingUses DEF SyncInv, LockInv, OpsOfKind, Between
<1>2. /\ \A u \in Jobs : job'[u].op = IF u = t THEN "done" ELSE job[u].op
      /\ \A u \in Jobs : Uses(u)' = Uses(u)
  BY JobGoesTo DEF Own, Ops, SyncInv
<1>3. \A p \in Cells : /\ cell'[p].kind = cell[p].kind
                       /\ cell'[p].owner = (IF p = Uses(t) THEN t ELSE cell[p].owner)
                       /\ cell'[p].level = cell[p].level
  BY <1>1, OwnerTo, ZenonT(40) DEF Own, SyncInv
<1>4. holder' = holder
  BY DEF Own
<1>5. \A u \in Jobs : job[u].op \in InOp => Uses(u) \in Cells
  BY OperatingUses
<1>6. OpsOfKind'
  BY <1>2, <1>3, <1>5 DEF SyncInv, LockInv, OpsOfKind, InOp, Ops
<1>7. Between'
  BY <1>1, <1>2, <1>3, <1>4, <1>5 DEF SyncInv, LockInv, Between, InOp, Ops
<1>8. FreeHasNoHolder'
  BY <1>3, <1>4 DEF SyncInv, LockInv, FreeHasNoHolder
<1>9. OwnerHoldsTheMutex'
  <2>1. holder \in [Cells -> Jobs \cup {NoJob}]
    BY DEF SyncInv, SyncTypeOK
  <2>2. QED
    BY <1>1, <1>2, <1>3, <1>4, <2>1, SyncAssumption DEF SyncInv, LockInv, OwnerHoldsTheMutex
<1>10. QED  BY <1>6, <1>7, <1>8, <1>9 DEF LockInv

LEMMA DisownLocks == ASSUME SyncInv, NEW t \in Jobs, Disown(t) PROVE LockInv'
<1>1. /\ job[t].op = "unlock" /\ Uses(t) \in Cells /\ cell[Uses(t)].kind = "lock"
      /\ cell[Uses(t)].owner = t /\ holder[Uses(t)] = t
  <2>1. job[t].op = "unlock" /\ job[t].op \in InOp
    BY DEF Disown, In, InOp, Ops
  <2>2. Uses(t) \in Cells /\ cell[Uses(t)].kind = "lock"
    BY <2>1, OperatingUses DEF SyncInv, LockInv, OpsOfKind
  <2>3. QED
    BY <2>1, <2>2, SyncAssumption DEF Disown, SyncInv, LockInv, OwnerHoldsTheMutex
<1>2. /\ \A u \in Jobs : job'[u].op = IF u = t THEN "put" ELSE job[u].op
      /\ \A u \in Jobs : Uses(u)' = Uses(u)
  BY JobGoesTo DEF Disown, Ops, SyncInv
<1>3. \A p \in Cells : /\ cell'[p].kind = cell[p].kind
                       /\ cell'[p].owner = (IF p = Uses(t) THEN NoJob ELSE cell[p].owner)
                       /\ cell'[p].level = cell[p].level
  BY <1>1, OwnerTo, ZenonT(40) DEF Disown, SyncInv
<1>4. holder' = holder
  BY DEF Disown
<1>5. \A u \in Jobs : job[u].op \in InOp => Uses(u) \in Cells
  BY OperatingUses
<1>6. OpsOfKind'
  BY <1>1, <1>2, <1>3, <1>5 DEF SyncInv, LockInv, OpsOfKind, InOp, Ops
<1>7. Between'
  BY <1>1, <1>2, <1>3, <1>4, <1>5 DEF SyncInv, LockInv, Between, InOp, Ops
<1>8. FreeHasNoHolder'
  BY <1>3, <1>4 DEF SyncInv, LockInv, FreeHasNoHolder
<1>9. OwnerHoldsTheMutex'
  <2>1. holder \in [Cells -> Jobs \cup {NoJob}]
    BY DEF SyncInv, SyncTypeOK
  <2>2. QED
    BY <1>1, <1>2, <1>3, <1>4, <2>1, SyncAssumption DEF SyncInv, LockInv, OwnerHoldsTheMutex
<1>10. QED  BY <1>6, <1>7, <1>8, <1>9 DEF LockInv

LEMMA PutLocks == ASSUME SyncInv, NEW t \in Jobs, PutLock(t) PROVE LockInv'
<1>1. /\ job[t].op = "put" /\ Uses(t) \in Cells /\ cell[Uses(t)].kind = "lock"
      /\ cell[Uses(t)].owner = NoJob /\ holder[Uses(t)] = t
  <2>1. job[t].op = "put" /\ job[t].op \in InOp
    BY DEF PutLock, In, InOp, Ops
  <2>2. QED  BY <2>1, OperatingUses DEF SyncInv, LockInv, OpsOfKind, Between
<1>2. /\ \A u \in Jobs : job'[u].op = IF u = t THEN "done" ELSE job[u].op
      /\ \A u \in Jobs : Uses(u)' = Uses(u)
  BY JobGoesTo DEF PutLock, Ops, SyncInv
<1>3. \A p \in Cells : /\ cell'[p].kind = cell[p].kind
                       /\ cell'[p].owner = cell[p].owner
                       /\ cell'[p].level = IF p = Uses(t) THEN 1 ELSE cell[p].level
  BY <1>1, LevelTo, SyncAssumption DEF PutLock, SyncInv
<1>4. \A p \in Cells : holder'[p] = IF p = Uses(t) THEN NoJob ELSE holder[p]
  BY <1>1 DEF PutLock, SyncInv, SyncTypeOK
<1>5. \A u \in Jobs : job[u].op \in InOp => Uses(u) \in Cells
  BY OperatingUses
<1>6. OpsOfKind'
  BY <1>2, <1>3, <1>5 DEF SyncInv, LockInv, OpsOfKind, InOp, Ops
<1>7. Between'
  BY <1>1, <1>2, <1>3, <1>4, <1>5 DEF SyncInv, LockInv, Between, InOp, Ops
<1>8. FreeHasNoHolder'
  BY <1>3, <1>4 DEF SyncInv, LockInv, FreeHasNoHolder
<1>9. OwnerHoldsTheMutex'
  <2>1. holder \in [Cells -> Jobs \cup {NoJob}]
    BY DEF SyncInv, SyncTypeOK
  <2>2. QED
    BY <1>1, <1>2, <1>3, <1>4, <2>1, SyncAssumption DEF SyncInv, LockInv, OwnerHoldsTheMutex
<1>10. QED  BY <1>6, <1>7, <1>8, <1>9 DEF LockInv

-----------------------------------------------------------------------------
(* Every step.                                                             *)

LEMMA RegistryStep == SyncInv /\ [SyncNext]_syncVars => RegistryInv' /\ SyncTypeOK'
<1> SUFFICES ASSUME SyncInv, [SyncNext]_syncVars PROVE RegistryInv' /\ SyncTypeOK'
  OBVIOUS
<1>a. /\ SyncTypeOK /\ RegistryInv
      /\ objects \in [Names -> Cells \cup {NoCell}] /\ cell \in [Cells -> Objects]
      /\ job \in [Jobs -> Operations] /\ holder \in [Cells -> Jobs \cup {NoJob}]
  BY DEF SyncInv, SyncTypeOK, Objects, Operations, Ops
<1>b. SUFFICES /\ RegistryInv'
               /\ objects' \in [Names -> Cells \cup {NoCell}] /\ cell' \in [Cells -> Objects]
               /\ job' \in [Jobs -> Operations] /\ holder' \in [Cells -> Jobs \cup {NoJob}]
  BY DEF SyncTypeOK, Objects, Operations, Ops
<1> DEFINE Goal == /\ RegistryInv
                   /\ objects \in [Names -> Cells \cup {NoCell}] /\ cell \in [Cells -> Objects]
                   /\ job \in [Jobs -> Operations] /\ holder \in [Cells -> Jobs \cup {NoJob}]
<1>1. ASSUME NEW t \in Jobs, FreeObject(t) PROVE Goal'
  BY <1>1, <1>a, FreeRegistry, SyncAssumption DEF FreeObject
<1>2. ASSUME NEW t \in Jobs, Release(t) PROVE Goal'
  BY <1>2, <1>a, ReleaseRegistry DEF Release
<1>3. ASSUME NEW t \in Jobs, NEW op \in InOp, NEW l \in 0..(Room + 1), job[t].op \in InOp,
             Level(Uses(t), l), JobGoes(t, op), UNCHANGED objects,
             holder' \in [Cells -> Jobs \cup {NoJob}]
      PROVE  Goal'
  <2>1. job' \in [Jobs -> Operations]
    BY <1>3, <1>a, JobGoesTo DEF InOp
  <2>2. /\ \A o \in Cells : cell'[o].kind = cell[o].kind /\ cell'[o].waiters = cell[o].waiters
        /\ cell' \in [Cells -> Objects]
    BY <1>3, <1>a, LevelTo, OperatingUses
  <2>3. RegistryInv'
    BY <1>3, <1>a, <2>2, GoingOn
  <2>4. QED  BY <1>3, <1>a, <2>1, <2>2, <2>3
<1>c. ASSUME NEW t \in Jobs, job[t].op \in InOp PROVE cell[Uses(t)].level \in 0..(Room + 1)
  BY <1>a, <1>c, OperatingUses DEF Objects
<1>d. "done" \in InOp /\ "own" \in InOp /\ "put" \in InOp
  BY DEF InOp, Ops
<1>4. ASSUME NEW t \in Jobs, Put(t) PROVE Goal'
  <2>1. job[t].op \in InOp /\ cell[Uses(t)].level < Room
    BY <1>4 DEF Put, In, InOp, Ops
  <2>2. cell[Uses(t)].level + 1 \in 0..(Room + 1)
    BY <1>c, <2>1, SyncAssumption
  <2>3. QED  BY <1>3, <1>4, <1>a, <1>d, <2>1, <2>2 DEF Put
<1>5. ASSUME NEW t \in Jobs, Get(t) PROVE Goal'
  <2>1. job[t].op \in InOp /\ cell[Uses(t)].level > 0
    BY <1>5 DEF Get, In, InOp, Ops
  <2>2. cell[Uses(t)].level - 1 \in 0..(Room + 1)
    BY <1>c, <2>1, SyncAssumption
  <2>3. QED  BY <1>3, <1>5, <1>a, <1>d, <2>1, <2>2 DEF Get
<1>6. ASSUME NEW t \in Jobs, TakeLock(t) PROVE Goal'
  <2>1. job[t].op \in InOp /\ 0 \in 0..(Room + 1)
    BY <1>6, SyncAssumption DEF TakeLock, In, InOp, Ops
  <2>2. holder' \in [Cells -> Jobs \cup {NoJob}]
    BY <1>6, <1>a DEF TakeLock
  <2>3. QED  BY <1>3, <1>6, <1>d, <2>1, <2>2 DEF TakeLock
<1>7. ASSUME NEW t \in Jobs, PutLock(t) PROVE Goal'
  <2>1. job[t].op \in InOp /\ 1 \in 0..(Room + 1)
    BY <1>7, SyncAssumption DEF PutLock, In, InOp, Ops
  <2>2. holder' \in [Cells -> Jobs \cup {NoJob}]
    BY <1>7, <1>a DEF PutLock
  <2>3. QED  BY <1>3, <1>7, <1>d, <2>1, <2>2 DEF PutLock
<1>8. ASSUME NEW t \in Jobs, NEW op \in InOp, NEW w \in Jobs \cup {NoJob}, job[t].op \in InOp,
             cell' = [cell EXCEPT ![Uses(t)].owner = w], JobGoes(t, op),
             UNCHANGED <<objects, holder>>
      PROVE  Goal'
  <2>1. job' \in [Jobs -> Operations]
    BY <1>8, <1>a, JobGoesTo DEF InOp
  <2>2. /\ \A o \in Cells : cell'[o].kind = cell[o].kind /\ cell'[o].waiters = cell[o].waiters
        /\ cell' \in [Cells -> Objects]
    BY <1>8, <1>a, OwnerTo, OperatingUses
  <2>3. RegistryInv'
    BY <1>8, <1>a, <2>2, GoingOn
  <2>4. QED  BY <1>8, <1>a, <2>1, <2>2, <2>3
<1>9. ASSUME NEW t \in Jobs, Own(t) PROVE Goal'
  BY <1>8, <1>9, <1>d DEF Own, In, InOp, Ops
<1>10. ASSUME NEW t \in Jobs, Disown(t) PROVE Goal'
  BY <1>8, <1>10, <1>d DEF Disown, In, InOp, Ops
<1>11. ASSUME NEW t \in Jobs, GiveUp(t) \/ NotOwner(t) PROVE Goal'
  <2>1. /\ job[t].op \in InOp /\ JobGoes(t, "done")
        /\ objects' = objects /\ cell' = cell /\ holder' = holder
    BY <1>11 DEF GiveUp, NotOwner, In, InOp, Ops
  <2>2. RegistryInv'
    BY <1>a, <1>d, <2>1, GoingOn
  <2>3. job' \in [Jobs -> Operations]
    BY <1>a, <2>1, JobGoesTo DEF Ops
  <2>4. QED  BY <1>a, <2>1, <2>2, <2>3
<1>12. ASSUME NEW t \in Jobs, NEW n \in Names, Delete(t, n) PROVE Goal'
  BY <1>12, <1>a, DeleteRegistry DEF Delete
<1>13. ASSUME NEW t \in Jobs, NEW n \in Names, Begin(t, n) PROVE Goal'
  <2>1. PICK op \in InOp, kind \in Kinds : Acquire(t, n, op, kind)
    BY <1>13 DEF Begin, InOp, Ops, Kinds
  <2>2. QED  BY <2>1, <1>a, AcquireRegistry DEF Acquire
<1>14. ASSUME NEW t \in Jobs, NEW n \in Names, NEW kind \in Kinds, Create(t, n, kind)
       PROVE  Goal'
  <2>1. objects' \in [Names -> Cells \cup {NoCell}] /\ job' = job /\ holder' = holder
    BY <1>14, <1>a DEF Create
  <2>2. QED  BY <1>14, <1>a, <2>1, CreateRegistry
<1>15. CASE UNCHANGED syncVars
  <2>1. \A o \in Cells : Waiters(o)' = Waiters(o)
    BY <1>15 DEF syncVars, Waiters, Operating, Uses
  <2>2. RegistryInv'
    BY <1>15, <1>a, <2>1
       DEF syncVars, RegistryInv, Counted, OneName, Listed, Used, Leavers, Operating, Uses
  <2>3. QED  BY <1>15, <1>a, <2>2 DEF syncVars
<1>16. QED
  BY <1>1, <1>2, <1>4, <1>5, <1>6, <1>7, <1>9, <1>10, <1>11, <1>12, <1>13, <1>14, <1>15
     DEF SyncNext, SyncStep

LEMMA LockStep == SyncInv /\ [SyncNext]_syncVars => LockInv'
<1> SUFFICES ASSUME SyncInv, [SyncNext]_syncVars PROVE LockInv'
  OBVIOUS
<1>a. /\ SyncTypeOK /\ OpsOfKind /\ "done" \in Ops /\ "none" \in Ops /\ "free" \in Ops
      /\ NoCell \in Cells \cup {NoCell}
  BY DEF SyncInv, LockInv, Ops
<1>1. ASSUME NEW t \in Jobs, job[t].op \in InOp, job[t].op \notin {"own", "put"},
             JobGoes(t, "done"), holder' = holder,
             \A p \in Cells : /\ cell'[p].kind = cell[p].kind
                              /\ cell'[p].owner = cell[p].owner
                              /\ cell[p].kind = "lock" => cell'[p].level = cell[p].level
      PROVE  LockInv'
  <2>1. /\ \A u \in Jobs : job'[u].op = IF u = t THEN "done" ELSE job[u].op
        /\ \A u \in Jobs : Uses(u)' = IF u = t THEN Uses(t) ELSE Uses(u)
    BY <1>1, <1>a, JobGoesTo
  <2>2. Uses(t) \in Cells \cup {NoCell}
    BY <1>1, OperatingUses
  <2>3. QED  BY <1>1, <1>a, <2>1, <2>2, SameLocks
<1>2. ASSUME NEW t \in Jobs, Put(t) \/ Get(t) PROVE LockInv'
  <2>1. job[t].op \in {"send", "recv", "give", "take"} /\ job[t].op \in InOp
    BY <1>2 DEF Put, Get, In, InOp, Ops
  <2>2. Uses(t) \in Cells /\ cell[Uses(t)].kind # "lock"
    BY <1>a, <2>1, OperatingUses DEF OpsOfKind
  <2>3. PICK l \in 0..(Room + 1) : Level(Uses(t), l)
    <3>1. cell[Uses(t)].level \in 0..(Room + 1)
      BY <1>a, <2>2 DEF SyncTypeOK
    <3>2. CASE Put(t)
      <4>1. cell[Uses(t)].level + 1 \in 0..(Room + 1)
        BY <3>1, <3>2, SyncAssumption DEF Put
      <4>2. QED  BY <3>2, <4>1 DEF Put
    <3>3. CASE Get(t)
      <4>1. cell[Uses(t)].level - 1 \in 0..(Room + 1)
        BY <3>1, <3>3, SyncAssumption DEF Get
      <4>2. QED  BY <3>3, <4>1 DEF Get
    <3>4. QED  BY <1>2, <3>2, <3>3
  <2>4. \A p \in Cells : /\ cell'[p].kind = cell[p].kind
                         /\ cell'[p].owner = cell[p].owner
                         /\ cell'[p].level = IF p = Uses(t) THEN l ELSE cell[p].level
    BY <1>a, <2>2, <2>3, LevelTo
  <2>5. JobGoes(t, "done") /\ holder' = holder
    BY <1>2 DEF Put, Get
  <2>6. QED  BY <1>1, <2>1, <2>2, <2>4, <2>5
<1>3. ASSUME NEW t \in Jobs, GiveUp(t) \/ NotOwner(t) PROVE LockInv'
  <2>1. /\ job[t].op \in InOp /\ job[t].op \notin {"own", "put"}
        /\ JobGoes(t, "done") /\ cell' = cell /\ holder' = holder
    BY <1>3 DEF GiveUp, NotOwner, In, InOp, Ops
  <2>2. QED  BY <1>1, <2>1
<1>4. ASSUME NEW t \in Jobs, Release(t) PROVE LockInv'
  <2>1. /\ \A u \in Jobs : job'[u].op = IF u = t THEN "none" ELSE job[u].op
        /\ \A u \in Jobs : Uses(u)' = IF u = t THEN NoCell ELSE Uses(u)
        /\ \A p \in Cells : /\ cell'[p].kind = cell[p].kind
                            /\ cell'[p].owner = cell[p].owner
                            /\ cell'[p].level = cell[p].level
    BY <1>4, ReleaseRegistry
  <2>2. job[t].op = "done" /\ holder' = holder
    BY <1>4 DEF Release, In
  <2>3. QED  BY <1>a, <2>1, <2>2, SameLocks
<1>5. ASSUME NEW t \in Jobs, NEW n \in Names, Delete(t, n) PROVE LockInv'
  <2>1. objects[n] \in Cells /\ job[t].op = "none" /\ cell' = cell /\ holder' = holder
    BY <1>5, <1>a DEF Delete, SyncTypeOK, In
  <2>2. /\ \A u \in Jobs : job'[u].op = IF u = t THEN "free" ELSE job[u].op
        /\ \A u \in Jobs : Uses(u)' = IF u = t THEN objects[n] ELSE Uses(u)
    BY <1>5, <1>a, <2>1, JobBecomes DEF Delete
  <2>3. QED  BY <1>a, <2>1, <2>2, SameLocks
<1>6. ASSUME NEW t \in Jobs, NEW n \in Names, NEW op \in InOp, NEW kind \in Kinds,
             Acquire(t, n, op, kind), op \notin {"own", "put"},
             op \in {"send", "recv"} => kind = "queue", op \in {"give", "take"} => kind = "sem",
             op \in {"lock", "unlock"} => kind = "lock"
      PROVE  LockInv'
  <2>1. /\ \A u \in Jobs : job'[u].op = IF u = t THEN op ELSE job[u].op
        /\ \A u \in Jobs : Uses(u)' = IF u = t THEN objects[n] ELSE Uses(u)
        /\ \A p \in Cells : /\ cell'[p].kind = cell[p].kind
                            /\ cell'[p].owner = cell[p].owner
                            /\ cell'[p].level = cell[p].level
        /\ objects[n] \in Cells /\ cell[objects[n]].kind = kind
    BY <1>6, AcquireRegistry
  <2>2. job[t].op = "none" /\ holder' = holder /\ op \in Ops
    BY <1>6 DEF Acquire, In, InOp
  <2>3. QED  BY <1>6, <2>1, <2>2, SameLocks
<1>7. ASSUME NEW t \in Jobs, NEW n \in Names, Begin(t, n) PROVE LockInv'
  BY <1>6, <1>7 DEF Begin, InOp, Ops, Kinds
<1>8. CASE UNCHANGED syncVars
  BY <1>8
     DEF SyncInv, syncVars, LockInv, OpsOfKind, Between, FreeHasNoHolder, OwnerHoldsTheMutex, Uses
<1>9. QED
  BY <1>2, <1>3, <1>4, <1>5, <1>7, <1>8, FreeLocks, TakeLocks, OwnLocks, DisownLocks, PutLocks,
     CreateLocks
     DEF SyncNext, SyncStep

-----------------------------------------------------------------------------
(* The theorems.                                                           *)

LEMMA SyncInvAlways == SyncSpec => []SyncInv
<1>1. SyncInv /\ [SyncNext]_syncVars => SyncInv'
  BY RegistryStep, LockStep DEF SyncInv
<1>2. QED  BY SyncInitInv, <1>1, PTL DEF SyncSpec

\* The state stays within its types: no count of waiters exceeds the number
\* of jobs, and no level the room of its object.
THEOREM SyncTypeCorrect == SyncSpec => []SyncTypeOK
<1>1. SyncInv => SyncTypeOK
  BY DEF SyncInv
<1>2. QED  BY SyncInvAlways, <1>1, PTL

\* delete takes no object from the registry that an operation is in: what a
\* send, receive, give, take, lock or unlock uses is not freed under it.
THEOREM UsedStaysRegistered == SyncSpec => []UsedIsRegistered
<1>1. SyncInv => UsedIsRegistered
  BY DEF SyncInv, RegistryInv, Used, Operating, UsedIsRegistered
<1>2. QED  BY SyncInvAlways, <1>1, PTL

\* The owner that thread_sync writes beside a mutex is its holder, but for the
\* moments between the mutex's operation and the write.
THEOREM OwnersHoldTheMutex == SyncSpec => []OwnerHoldsTheMutex
<1>1. SyncInv => OwnerHoldsTheMutex
  BY DEF SyncInv, LockInv
<1>2. QED  BY SyncInvAlways, <1>1, PTL
=============================================================================
