-------------------------- MODULE HttpReuse_proofs --------------------------
(***************************************************************************)
(* Proofs about HttpReuse, for any tasks, clients, endpoints and bound of  *)
(* the pool: a client always has exactly one owner, and the pool stays     *)
(* within its bound.                                                       *)
(***************************************************************************)
EXTENDS HttpReuse, FiniteSetTheorems, TLAPS

USE HttpAssumption

-----------------------------------------------------------------------------
(* The invariant.  That a client has one owner is not inductive: whether a *)
(* task still has a client depends on where the task is (Handed), and a    *)
(* client that leaves its task for the pool, or for good, must not be in   *)
(* the pool already (Detached).                                            *)

OneUser == \A t, u \in Apps : Client(t) = Client(u) /\ Client(t) # NoClient => t = u
Kept == \A t \in Apps : Client(t) # NoClient =>
            Client(t) \in open /\ Client(t) \notin IdleClients
Owned == \A c \in open : c \in IdleClients \/ \E t \in Apps : Client(t) = c
Handed == \A t \in Apps : app[t].pc \in {"idle", "new"} <=> Client(t) = NoClient
Detached == \A t \in Apps : app[t].pc \in {"track", "insert", "free"} => Client(t) \notin Pooled
Nodes == \A c \in Pooled : pool[c].host \in Hosts /\ c \in open
PoolBound == IsFiniteSet(Pooled) /\ Cardinality(Pooled) <= MaxPool

Ownership == OneUser /\ Kept /\ Owned /\ Handed /\ Detached /\ Nodes
HttpInv == HttpTypeOK /\ Ownership /\ PoolBound

LEMMA HttpInitInv == HttpInit => HttpInv
<1> SUFFICES ASSUME HttpInit PROVE HttpInv
  OBVIOUS
<1>1. Pooled = {}
  BY DEF HttpInit, Pooled
<1>2. PoolBound
  BY <1>1, FS_EmptySet DEF PoolBound
<1>3. HttpTypeOK
  BY DEF HttpInit, HttpTypeOK, NoNode, NoRequest
<1>4. Ownership
  BY <1>1 DEF HttpInit, Ownership, OneUser, Kept, Owned, Handed, Detached, Nodes, NoRequest,
              Client
<1>5. QED  BY <1>2, <1>3, <1>4 DEF HttpInv

-----------------------------------------------------------------------------
(* Type correctness.                                                       *)

Pcs == {"idle", "hit", "new", "track", "held", "send", "failed", "again", "insert", "free"}
PoolNodes == [host : Hosts \cup {NoHost}, leased : BOOLEAN, reused : BOOLEAN]
Requests == [pc : Pcs, client : Clients \cup {NoClient}]

\* What the helpers of the model leave of the types.
LEMMA AppGoesType ==
    ASSUME HttpTypeOK, NEW t \in Apps, NEW pc \in Pcs, AppGoes(t, pc)
    PROVE  app' \in [Apps -> Requests]
BY DEF AppGoes, HttpTypeOK, Pcs, Requests

LEMMA AppRestsType ==
    ASSUME HttpTypeOK, NEW t \in Apps, AppRests(t)
    PROVE  app' \in [Apps -> Requests]
<1>1. NoRequest \in Requests
  BY DEF NoRequest, Pcs, Requests
<1>2. QED  BY <1>1 DEF AppRests, HttpTypeOK, Pcs, Requests

LEMMA AppHasType ==
    ASSUME HttpTypeOK, NEW t \in Apps, NEW pc \in Pcs, NEW c \in Clients \cup {NoClient},
           AppHas(t, pc, c)
    PROVE  app' \in [Apps -> Requests]
BY DEF AppHas, HttpTypeOK, Pcs, Requests

LEMMA DroppedType ==
    ASSUME HttpTypeOK, NEW gone
    PROVE  Dropped(gone) \in [Clients -> PoolNodes]
BY DEF Dropped, NoNode, HttpTypeOK, PoolNodes

LEMMA NodeTypes ==
    ASSUME NEW p \in [Clients -> PoolNodes], NEW c, NEW leased \in BOOLEAN,
           NEW reused \in BOOLEAN, NEW h \in Hosts \cup {NoHost}
    PROVE  /\ [p EXCEPT ![c].reused = reused] \in [Clients -> PoolNodes]
           /\ [p EXCEPT ![c] = [host |-> h, leased |-> leased, reused |-> reused]]
                  \in [Clients -> PoolNodes]
<1>1. CASE c \in Clients
  <2>1. [p[c] EXCEPT !.reused = reused] \in PoolNodes
    BY <1>1 DEF PoolNodes
  <2>2. [host |-> h, leased |-> leased, reused |-> reused] \in PoolNodes
    BY DEF PoolNodes
  <2>3. QED  BY <1>1, <2>1, <2>2
<1>2. CASE c \notin Clients
  BY <1>2
<1>3. QED  BY <1>1, <1>2

LEMMA HttpTypeStep == HttpTypeOK /\ Handed /\ [HttpNext]_httpVars => HttpTypeOK'
<1> SUFFICES ASSUME HttpTypeOK, Handed, [HttpNext]_httpVars PROVE HttpTypeOK'
  OBVIOUS
<1> DEFINE Typed(p, l, o, a) == /\ p \in [Clients -> PoolNodes]
                                /\ l \in [Clients -> {"none", "fresh", "performed"}]
                                /\ o \subseteq Clients
                                /\ a \in [Apps -> Requests]
<1>a. Typed(pool, leases, open, app)
  BY DEF HttpTypeOK, PoolNodes, Pcs, Requests
<1>b. SUFFICES Typed(pool', leases', open', app')
  BY DEF HttpTypeOK, PoolNodes, Pcs, Requests
<1>1. ASSUME NEW t \in Apps, InitReset(t) PROVE Typed(pool', leases', open', app')
  <2>1. app' \in [Apps -> Requests]
    BY <1>1, AppGoesType, AppRestsType DEF InitReset, Pcs
  <2>2. QED  BY <1>1, <1>a, <2>1, DroppedType DEF InitReset, Drops
<1>2. ASSUME NEW t \in Apps, InitNew(t) PROVE Typed(pool', leases', open', app')
  <2>1. app' \in [Apps -> Requests]
    BY <1>2, AppHasType, AppRestsType DEF InitNew, Pcs
  <2>2. QED  BY <1>2, <1>a, <2>1 DEF InitNew
<1>3. ASSUME NEW t \in Apps, InitTrack(t) PROVE Typed(pool', leases', open', app')
  <2>1. app' \in [Apps -> Requests]
    BY <1>3, AppGoesType DEF InitTrack, Pcs
  <2>2. QED  BY <1>3, <1>a, <2>1 DEF InitTrack
<1>4. ASSUME NEW t \in Apps, Perform(t) PROVE Typed(pool', leases', open', app')
  <2>1. app' \in [Apps -> Requests]
    BY <1>4, AppGoesType DEF Perform, Pcs
  <2>2. QED  BY <1>4, <1>a, <2>1 DEF Perform
<1>5. ASSUME NEW t \in Apps, Send(t) \/ Resend(t) PROVE Typed(pool', leases', open', app')
  <2>1. app' \in [Apps -> Requests]
    BY <1>5, AppGoesType DEF Send, Resend, Pcs
  <2>2. QED  BY <1>5, <1>a, <2>1 DEF Send, Resend
<1>6. ASSUME NEW t \in Apps, Retry(t) PROVE Typed(pool', leases', open', app')
  <2>1. app' \in [Apps -> Requests]
    BY <1>6, AppGoesType DEF Retry, Pcs
  <2>2. [pool EXCEPT ![Client(t)].reused = FALSE] \in [Clients -> PoolNodes]
    BY <1>a, NodeTypes, Zenon
  <2>3. QED  BY <1>6, <1>a, <2>1, <2>2 DEF Retry
<1>7. ASSUME NEW t \in Apps, Insert(t) PROVE Typed(pool', leases', open', app')
  <2>1. app' \in [Apps -> Requests]
    BY <1>7, AppGoesType, AppRestsType DEF Insert, Pcs
  <2>2. ASSUME NEW gone, Adds(Client(t), gone) PROVE Typed(pool', leases, open', app)
    <3>1. PICK h \in Hosts : pool' = [Dropped(gone) EXCEPT ![Client(t)] =
                                         [host |-> h, leased |-> FALSE, reused |-> FALSE]]
      BY <2>2 DEF Adds
    <3>2. pool' \in [Clients -> PoolNodes]
      BY <3>1, DroppedType, NodeTypes, Zenon
    <3>3. QED  BY <1>a, <2>2, <3>2 DEF Adds
  <2>3. ASSUME NEW gone, Drops(gone) PROVE Typed(pool', leases, open', app)
    BY <1>a, <2>3, DroppedType DEF Drops
  <2>4. QED  BY <1>7, <1>a, <2>1, <2>2, <2>3 DEF Insert
<1>8. ASSUME NEW t \in Apps, FreeClient(t) PROVE Typed(pool', leases', open', app')
  BY <1>8, <1>a, AppRestsType DEF FreeClient
<1>9. ASSUME NEW t \in Apps, NEW c \in Clients, InitDirect(t, c)
      PROVE Typed(pool', leases', open', app')
  <2>1. app' \in [Apps -> Requests]
    BY <1>9, AppHasType DEF InitDirect, Pcs
  <2>2. QED  BY <1>9, <1>a, <2>1 DEF InitDirect
<1>10. ASSUME NEW t \in Apps, NEW keep \in BOOLEAN, Cleanup(t, keep)
       PROVE Typed(pool', leases', open', app')
  <2>1. app' \in [Apps -> Requests]
    BY <1>10, AppGoesType, AppRestsType DEF Cleanup, Pcs
  <2>2. pool' \in [Clients -> PoolNodes]
    <3>1. CASE pool[Client(t)] # NoNode /\ keep
      <4>1. [pool EXCEPT ![Client(t)] = [host |-> pool[Client(t)].host, leased |-> FALSE,
                                         reused |-> FALSE]] \in [Clients -> PoolNodes]
        <5>1. CASE Client(t) \in Clients
          <6>1. pool[Client(t)].host \in Hosts \cup {NoHost}
            BY <1>a, <5>1 DEF PoolNodes
          <6>2. QED  BY <1>a, <6>1, NodeTypes, Zenon
        <5>2. CASE Client(t) \notin Clients
          BY <1>a, <5>2
        <5>3. QED  BY <5>1, <5>2
      <4>2. QED  BY <1>10, <3>1, <4>1 DEF Cleanup
    <3>2. CASE ~(pool[Client(t)] # NoNode /\ keep)
      BY <1>10, <3>2, DroppedType DEF Cleanup
    <3>3. QED  BY <3>1, <3>2
  <2>3. QED  BY <1>10, <1>a, <2>1, <2>2 DEF Cleanup
<1>11. ASSUME NEW t \in Apps, NEW h \in Hosts, InitTake(t, h)
       PROVE Typed(pool', leases', open', app')
  <2>1. app' \in [Apps -> Requests]
    BY <1>11, AppHasType DEF InitTake, IdleClients, Pooled, Pcs
  <2>2. pool' \in [Clients -> PoolNodes] /\ open' \subseteq Clients
    <3>1. CASE \E gone : Drops(gone)
      BY <1>a, <3>1, DroppedType DEF Drops
    <3>2. ASSUME NEW late, NEW c, open' = open \ late,
                 pool' = [Dropped(late) EXCEPT ![c] = [host |-> h, leased |-> TRUE,
                                                       reused |-> TRUE]]
          PROVE  pool' \in [Clients -> PoolNodes] /\ open' \subseteq Clients
      <4>1. [Dropped(late) EXCEPT ![c] = [host |-> h, leased |-> TRUE, reused |-> TRUE]]
               \in [Clients -> PoolNodes]
        BY DroppedType, NodeTypes, Zenon
      <4>2. QED  BY <1>a, <3>2, <4>1
    <3>3. QED  BY <1>11, <3>1, <3>2, Zenon DEF InitTake
  <2>3. QED  BY <1>11, <1>a, <2>1, <2>2 DEF InitTake
<1>12. ASSUME Reap PROVE Typed(pool', leases', open', app')
  BY <1>12, <1>a, DroppedType DEF Reap, Drops
<1>13. CASE UNCHANGED httpVars
  BY <1>13, <1>a DEF httpVars
<1>14. QED
  BY <1>1, <1>2, <1>3, <1>4, <1>5, <1>6, <1>7, <1>8, <1>9, <1>10, <1>11, <1>12, <1>13
     DEF HttpNext

-----------------------------------------------------------------------------
(* What the helpers leave of the pool and of who has which client.         *)

LEMMA DroppedPool ==
    ASSUME HttpTypeOK, NEW gone, pool' = Dropped(gone)
    PROVE  /\ Pooled' = Pooled \ gone
           /\ IdleClients' = IdleClients \ gone
           /\ \A c \in Clients \ gone : pool'[c] = pool[c]
BY DEF Dropped, Pooled, IdleClients, HttpTypeOK

LEMMA SamePool ==
    ASSUME pool' = pool
    PROVE  Pooled' = Pooled /\ IdleClients' = IdleClients
BY DEF Pooled, IdleClients

\* A client enters the pool, or its node there changes.
LEMMA PutInPool ==
    ASSUME HttpTypeOK, NEW gone, NEW c \in Clients, NEW h \in Hosts, NEW leased \in BOOLEAN,
           NEW reused \in BOOLEAN,
           pool' = [Dropped(gone) EXCEPT ![c] = [host |-> h, leased |-> leased,
                                                 reused |-> reused]]
    PROVE  /\ Pooled' = (Pooled \ gone) \cup {c}
           /\ IdleClients' = ((IdleClients \ gone) \ {c}) \cup (IF leased THEN {} ELSE {c})
           /\ pool'[c].host = h
           /\ \A d \in Clients \ (gone \cup {c}) : pool'[d] = pool[d]
<1>1. \A d \in Clients : pool'[d] = IF d = c THEN [host |-> h, leased |-> leased,
                                                   reused |-> reused]
                                     ELSE IF d \in gone THEN NoNode ELSE pool[d]
  BY DEF Dropped
<1>2. [host |-> h, leased |-> leased, reused |-> reused] # NoNode
  BY DEF NoNode
<1>3. Pooled' = (Pooled \ gone) \cup {c}
  BY <1>1, <1>2 DEF Pooled
<1>4. QED  BY <1>1, <1>2, <1>3 DEF Pooled, IdleClients

\* The same with a node of its own host.
LEMMA KeepInPool ==
    ASSUME HttpTypeOK, Nodes, NEW c \in Pooled,
           pool' = [pool EXCEPT ![c] = [host |-> pool[c].host, leased |-> FALSE,
                                        reused |-> FALSE]]
    PROVE  /\ Pooled' = Pooled
           /\ IdleClients' = IdleClients \cup {c}
           /\ \A d \in Pooled : pool'[d].host = pool[d].host
<1>1. c \in Clients /\ pool[c].host \in Hosts
  BY DEF Pooled, Nodes
<1>2. \A d \in Clients : pool'[d] = IF d = c THEN [host |-> pool[c].host, leased |-> FALSE,
                                                   reused |-> FALSE]
                                     ELSE pool[d]
  BY DEF HttpTypeOK
<1>3. [host |-> pool[c].host, leased |-> FALSE, reused |-> FALSE] # NoNode
  BY <1>1 DEF NoNode
<1>4. Pooled' = Pooled
  BY <1>2, <1>3 DEF Pooled
<1>5. QED  BY <1>1, <1>2, <1>3, <1>4 DEF Pooled, IdleClients

LEMMA AppMoves ==
    ASSUME HttpTypeOK, NEW t \in Apps, NEW pc, AppGoes(t, pc)
    PROVE  /\ \A u \in Apps : Client(u)' = Client(u)
           /\ \A u \in Apps : app'[u].pc = IF u = t THEN pc ELSE app[u].pc
BY DEF AppGoes, Client, HttpTypeOK

LEMMA AppTakes ==
    ASSUME HttpTypeOK, NEW t \in Apps, NEW pc, NEW c, AppHas(t, pc, c)
    PROVE  /\ \A u \in Apps : Client(u)' = IF u = t THEN c ELSE Client(u)
           /\ \A u \in Apps : app'[u].pc = IF u = t THEN pc ELSE app[u].pc
BY DEF AppHas, Client, HttpTypeOK

LEMMA AppLeaves ==
    ASSUME HttpTypeOK, NEW t \in Apps, AppRests(t)
    PROVE  /\ \A u \in Apps : Client(u)' = IF u = t THEN NoClient ELSE Client(u)
           /\ \A u \in Apps : app'[u].pc = IF u = t THEN "idle" ELSE app[u].pc
BY DEF AppRests, NoRequest, Client, HttpTypeOK

-----------------------------------------------------------------------------
(* Each action leaves every client its owner.                              *)

LEMMA IdleIsPooled == HttpTypeOK => IdleClients \subseteq Pooled /\ Pooled \subseteq Clients
BY DEF IdleClients, Pooled

Busy == Pcs \ {"idle", "new"}

\* The tasks keep their clients; idle clients may go.
LEMMA MoveOwns ==
    ASSUME HttpInv, NEW t \in Apps, NEW pc \in Pcs, NEW gone \in SUBSET IdleClients,
           Pooled' \subseteq Pooled \ gone, IdleClients' = IdleClients \ gone,
           open' = open \ gone, \A c \in Pooled' : pool'[c].host = pool[c].host,
           AppGoes(t, pc), app[t].pc \in Busy, pc \in Busy,
           pc \in {"track", "insert", "free"} => Client(t) \notin Pooled'
    PROVE  Ownership'
<1>a. HttpTypeOK /\ Ownership
  BY DEF HttpInv
<1>1. /\ \A u \in Apps : Client(u)' = Client(u)
      /\ \A u \in Apps : app'[u].pc = IF u = t THEN pc ELSE app[u].pc
  BY <1>a, AppMoves
<1>2. OneUser'
  BY <1>a, <1>1 DEF Ownership, OneUser
<1>3. Kept'
  BY <1>a, <1>1 DEF Ownership, Kept
<1>4. Owned'
  BY <1>a, <1>1 DEF Ownership, Owned
<1>5. Handed'
  BY <1>a, <1>1 DEF Ownership, Handed, Busy, Pcs
<1>6. Detached'
  BY <1>a, <1>1 DEF Ownership, Detached
<1>7. Nodes'
  BY <1>a DEF Ownership, Nodes
<1>8. QED  BY <1>2, <1>3, <1>4, <1>5, <1>6, <1>7 DEF Ownership

LEMMA StayOwns ==
    ASSUME HttpInv, NEW t \in Apps, NEW pc \in Busy, pool' = pool, open' = open,
           AppGoes(t, pc), app[t].pc \in Busy,
           pc \in {"track", "insert", "free"} => Client(t) \notin Pooled
    PROVE  Ownership'
<1>1. Pooled' = Pooled \ {} /\ IdleClients' = IdleClients \ {} /\ open' = open \ {}
  BY SamePool
<1>2. pc \in Pcs /\ {} \in SUBSET IdleClients
  BY DEF Busy
<1>3. \A c \in Pooled' : pool'[c].host = pool[c].host
  OBVIOUS
<1>4. QED  BY <1>1, <1>2, <1>3, MoveOwns

\* A client is made for a task that has none.
LEMMA MakeOwns ==
    ASSUME HttpInv, NEW t \in Apps, NEW c \in Clients, c \notin open, NEW pc \in {"held", "track"},
           open' = open \cup {c}, pool' = pool, AppHas(t, pc, c),
           app[t].pc \in {"idle", "new"}
    PROVE  Ownership'
<1>a. HttpTypeOK /\ Ownership
  BY DEF HttpInv
<1>1. Pooled' = Pooled /\ IdleClients' = IdleClients
  BY SamePool
<1>2. c \notin Pooled /\ c # NoClient /\ Client(t) = NoClient
  BY <1>a, HttpAssumption DEF Ownership, Nodes, Handed
<1>3. /\ \A u \in Apps : Client(u)' = IF u = t THEN c ELSE Client(u)
      /\ \A u \in Apps : app'[u].pc = IF u = t THEN pc ELSE app[u].pc
  BY <1>a, AppTakes
<1>4. OneUser'
  BY <1>a, <1>3 DEF Ownership, OneUser, Kept
<1>5. Kept'
  BY <1>a, <1>1, <1>2, <1>3, IdleIsPooled DEF Ownership, Kept
<1>6. Owned'
  BY <1>a, <1>1, <1>2, <1>3, HttpAssumption DEF Ownership, Owned, HttpTypeOK
<1>7. Handed'
  BY <1>a, <1>2, <1>3 DEF Ownership, Handed
<1>8. Detached'
  BY <1>a, <1>1, <1>2, <1>3 DEF Ownership, Detached
<1>9. Nodes'
  BY <1>a, <1>1 DEF Ownership, Nodes
<1>10. QED  BY <1>4, <1>5, <1>6, <1>7, <1>8, <1>9 DEF Ownership

\* The task's client, if it has one, goes with the idle ones that go.
LEMMA GiveUpOwns ==
    ASSUME HttpInv, NEW t \in Apps, NEW pc \in {"idle", "new"},
           NEW gone \in SUBSET (IdleClients \cup {Client(t)}),
           Client(t) = NoClient \/ Client(t) \in gone,
           Pooled' = Pooled \ gone, IdleClients' = IdleClients \ gone, open' = open \ gone,
           \A c \in Pooled' : pool'[c].host = pool[c].host,
           \A u \in Apps : Client(u)' = IF u = t THEN NoClient ELSE Client(u),
           \A u \in Apps : app'[u].pc = IF u = t THEN pc ELSE app[u].pc
    PROVE  Ownership'
<1>a. HttpTypeOK /\ Ownership
  BY DEF HttpInv
<1>1. OneUser'
  BY <1>a DEF Ownership, OneUser
<1>2. Kept'
  BY <1>a DEF Ownership, Kept, OneUser
<1>3. Owned'
  BY <1>a, HttpAssumption DEF Ownership, Owned, HttpTypeOK
<1>4. Handed'
  BY <1>a DEF Ownership, Handed
<1>5. Detached'
  BY <1>a DEF Ownership, Detached
<1>6. Nodes'
  BY <1>a DEF Ownership, Nodes
<1>7. QED  BY <1>1, <1>2, <1>3, <1>4, <1>5, <1>6 DEF Ownership

\* A task is handed an idle client.
LEMMA HitOwns ==
    ASSUME HttpInv, NEW t \in Apps, app[t].pc = "idle", NEW gone \in SUBSET IdleClients,
           NEW c \in IdleClients \ gone,
           Pooled' = Pooled \ gone, IdleClients' = (IdleClients \ gone) \ {c},
           open' = open \ gone, \A d \in Pooled' : pool'[d].host = pool[d].host,
           AppHas(t, "hit", c)
    PROVE  Ownership'
<1>a. HttpTypeOK /\ Ownership
  BY DEF HttpInv
<1>1. c \in open /\ c # NoClient /\ Client(t) = NoClient
  BY <1>a, IdleIsPooled, HttpAssumption DEF Ownership, Nodes, Handed
<1>2. /\ \A u \in Apps : Client(u)' = IF u = t THEN c ELSE Client(u)
      /\ \A u \in Apps : app'[u].pc = IF u = t THEN "hit" ELSE app[u].pc
  BY <1>a, AppTakes
<1>3. OneUser'
  BY <1>a, <1>2 DEF Ownership, OneUser, Kept
<1>4. Kept'
  BY <1>a, <1>1, <1>2 DEF Ownership, Kept
<1>5. Owned'
  BY <1>a, <1>1, <1>2, HttpAssumption DEF Ownership, Owned, HttpTypeOK
<1>6. Handed'
  BY <1>a, <1>1, <1>2 DEF Ownership, Handed
<1>7. Detached'
  BY <1>a, <1>2 DEF Ownership, Detached
<1>8. Nodes'
  BY <1>a DEF Ownership, Nodes
<1>9. QED  BY <1>3, <1>4, <1>5, <1>6, <1>7, <1>8 DEF Ownership

\* A task's client becomes an idle one, others making room.
LEMMA ReturnOwns ==
    ASSUME HttpInv, NEW t \in Apps, app[t].pc \in Busy, NEW gone \in SUBSET IdleClients,
           Pooled' = (Pooled \ gone) \cup {Client(t)},
           IdleClients' = (IdleClients \ gone) \cup {Client(t)},
           open' = open \ gone, \A d \in Pooled' : pool'[d].host \in Hosts,
           AppRests(t)
    PROVE  Ownership'
<1>a. HttpTypeOK /\ Ownership
  BY DEF HttpInv
<1>1. Client(t) # NoClient /\ Client(t) \in open
  BY <1>a DEF Ownership, Handed, Kept, Busy
<1>2. /\ \A u \in Apps : Client(u)' = IF u = t THEN NoClient ELSE Client(u)
      /\ \A u \in Apps : app'[u].pc = IF u = t THEN "idle" ELSE app[u].pc
  BY <1>a, AppLeaves
<1>3. OneUser'
  BY <1>a, <1>2 DEF Ownership, OneUser
<1>4. Kept'
  BY <1>a, <1>1, <1>2 DEF Ownership, Kept, OneUser
<1>5. Owned'
  BY <1>a, <1>2 DEF Ownership, Owned
<1>6. Handed'
  BY <1>a, <1>2 DEF Ownership, Handed
<1>7. Detached'
  BY <1>a, <1>1, <1>2 DEF Ownership, Detached, OneUser, Handed
<1>8. Nodes'
  BY <1>a, <1>1, IdleIsPooled DEF Ownership, Nodes, Kept
<1>9. QED  BY <1>3, <1>4, <1>5, <1>6, <1>7, <1>8 DEF Ownership

LEMMA OwnershipStep == HttpInv /\ [HttpNext]_httpVars => Ownership'
<1> SUFFICES ASSUME HttpInv, [HttpNext]_httpVars PROVE Ownership'
  OBVIOUS
<1>a. HttpTypeOK /\ Ownership /\ IdleClients \subseteq Pooled /\ Pooled \subseteq Clients
  BY IdleIsPooled DEF HttpInv
<1>b. {"hit", "track", "held", "send", "failed", "again", "insert", "free"} = Busy
  BY DEF Busy, Pcs
<1>1. ASSUME NEW t \in Apps, InitReset(t) PROVE Ownership'
  <2>1. CASE AppGoes(t, "held") /\ UNCHANGED <<pool, open>>
    BY <1>1, <2>1, <1>b, StayOwns DEF InitReset, AppAt
  <2>2. CASE AppRests(t) /\ Drops({Client(t)})
    <3>1. app[t].pc = "hit" /\ Client(t) \in Clients
      BY <1>a, <1>1 DEF InitReset, AppAt, Ownership, Handed, Kept, HttpTypeOK
    <3>2. /\ \A u \in Apps : Client(u)' = IF u = t THEN NoClient ELSE Client(u)
          /\ \A u \in Apps : app'[u].pc = IF u = t THEN "idle" ELSE app[u].pc
      BY <1>a, <2>2, AppLeaves
    <3>3. /\ Pooled' = Pooled \ {Client(t)} /\ IdleClients' = IdleClients \ {Client(t)}
          /\ \A c \in Pooled' : pool'[c] = pool[c]
      BY <1>a, <2>2, DroppedPool DEF Drops
    <3>4. QED  BY <2>2, <3>2, <3>3, GiveUpOwns DEF Drops
  <2>3. QED  BY <1>1, <2>1, <2>2 DEF InitReset
<1>2. ASSUME NEW t \in Apps, InitNew(t) PROVE Ownership'
  <2>1. CASE \E c \in Clients \ open : open' = open \cup {c} /\ AppHas(t, "track", c)
    BY <1>2, <2>1, MakeOwns DEF InitNew, AppAt
  <2>2. CASE AppRests(t) /\ UNCHANGED open
    <3>1. Client(t) = NoClient
      BY <1>a, <1>2 DEF InitNew, AppAt, Ownership, Handed
    <3>2. /\ \A u \in Apps : Client(u)' = IF u = t THEN NoClient ELSE Client(u)
          /\ \A u \in Apps : app'[u].pc = IF u = t THEN "idle" ELSE app[u].pc
      BY <1>a, <2>2, AppLeaves
    <3>3. /\ Pooled' = Pooled \ {} /\ IdleClients' = IdleClients \ {} /\ open' = open \ {}
          /\ \A c \in Pooled' : pool'[c].host = pool[c].host
      BY <1>2, <2>2, SamePool DEF InitNew
    <3>4. {} \in SUBSET (IdleClients \cup {Client(t)})
      OBVIOUS
    <3>5. QED  BY <3>1, <3>2, <3>3, <3>4, GiveUpOwns
  <2>3. QED  BY <1>2, <2>1, <2>2 DEF InitNew
<1>3. ASSUME NEW t \in Apps, InitTrack(t) \/ Perform(t) \/ Resend(t) PROVE Ownership'
  <2>1. CASE InitTrack(t)
    BY <2>1, <1>b, StayOwns DEF InitTrack, AppAt
  <2>2. CASE Perform(t)
    BY <2>2, <1>b, StayOwns DEF Perform, AppAt
  <2>3. CASE Resend(t)
    BY <2>3, <1>b, StayOwns DEF Resend, AppAt
  <2>4. QED  BY <1>3, <2>1, <2>2, <2>3
<1>4. ASSUME NEW t \in Apps, Send(t) PROVE Ownership'
  <2>1. PICK pc \in {"held", "failed"} : AppGoes(t, pc)
    BY <1>4 DEF Send
  <2>2. QED  BY <1>4, <2>1, <1>b, StayOwns DEF Send, AppAt
<1>5. ASSUME NEW t \in Apps, Retry(t) PROVE Ownership'
  <2>1. CASE pool[Client(t)] # NoNode /\ pool[Client(t)].reused
    <3>1. Client(t) \in Pooled
      BY <1>a, <1>5, <2>1 DEF Retry, AppAt, Ownership, Handed, Kept, HttpTypeOK, Pooled
    <3>2. pool[Client(t)].host \in Hosts
      BY <1>a, <3>1 DEF Ownership, Nodes
    <3>3. pool' = [pool EXCEPT ![Client(t)].reused = FALSE] /\ AppGoes(t, "again")
      BY <1>5, <2>1 DEF Retry
    <3>4. \A d \in Clients : /\ pool'[d].host = pool[d].host
                             /\ pool'[d].leased = pool[d].leased
                             /\ d # Client(t) => pool'[d] = pool[d]
      BY <1>a, <3>3 DEF HttpTypeOK
    <3>5. Pooled' = Pooled
      BY <3>1, <3>2, <3>4, HttpAssumption DEF Pooled, NoNode
    <3>6. IdleClients' = IdleClients
      BY <1>a, <3>4, <3>5 DEF IdleClients
    <3>7. app[t].pc \in Busy /\ "again" \in Busy /\ "again" \in Pcs /\ open' = open \ {}
      BY <1>5 DEF Retry, AppAt, Busy, Pcs
    <3>8. /\ Pooled' \subseteq Pooled \ {} /\ IdleClients' = IdleClients \ {}
          /\ {} \in SUBSET IdleClients /\ \A d \in Pooled' : pool'[d].host = pool[d].host
      BY <1>a, <3>4, <3>5, <3>6
    <3>9. QED
      BY <3>3, <3>7, <3>8, MoveOwns
  <2>2. CASE ~(pool[Client(t)] # NoNode /\ pool[Client(t)].reused)
    BY <1>5, <2>2, <1>b, StayOwns DEF Retry, AppAt
  <2>3. QED  BY <2>1, <2>2
<1>6. ASSUME NEW t \in Apps, Insert(t) PROVE Ownership'
  <2>a. app[t].pc = "insert" /\ app[t].pc \in Busy
    BY <1>6 DEF Insert, AppAt, Busy, Pcs
  <2>b. Client(t) \in Clients /\ Client(t) \notin Pooled
    BY <1>a, <2>a DEF Ownership, Handed, Kept, Detached, HttpTypeOK
  <2>1. ASSUME NEW gone \in SUBSET IdleClients, Adds(Client(t), gone), AppRests(t)
        PROVE  Ownership'
    <3>1. PICK h \in Hosts : pool' = [Dropped(gone) EXCEPT ![Client(t)] =
                                         [host |-> h, leased |-> FALSE, reused |-> FALSE]]
      BY <2>1 DEF Adds
    <3>2. /\ Pooled' = (Pooled \ gone) \cup {Client(t)}
          /\ IdleClients' = ((IdleClients \ gone) \ {Client(t)}) \cup {Client(t)}
          /\ pool'[Client(t)].host = h
          /\ \A d \in Clients \ (gone \cup {Client(t)}) : pool'[d] = pool[d]
      BY <1>a, <2>b, <3>1, PutInPool
    <3>3. \A d \in Pooled' : pool'[d].host \in Hosts
      BY <1>a, <3>2 DEF Ownership, Nodes
    <3>4. QED  BY <2>1, <2>a, <3>2, <3>3, ReturnOwns DEF Adds
  <2>2. ASSUME NEW late \in SUBSET IdleClients, Drops(late), AppGoes(t, "free")
        PROVE  Ownership'
    <3>1. /\ Pooled' = Pooled \ late /\ IdleClients' = IdleClients \ late
          /\ \A c \in Pooled' : pool'[c] = pool[c]
      BY <1>a, <2>2, DroppedPool DEF Drops
    <3>2. "free" \in Busy /\ "free" \in Pcs /\ open' = open \ late
      BY <2>2 DEF Drops, Busy, Pcs
    <3>3. QED  BY <2>2, <2>a, <2>b, <3>1, <3>2, MoveOwns
  <2>3. CASE AppGoes(t, "free") /\ UNCHANGED <<pool, open>>
    BY <2>3, <2>a, <2>b, <1>b, StayOwns
  <2>4. ASSUME NEW late \in SUBSET IdleClients, NEW oldest \in IdleClients \ late,
               Adds(Client(t), late \cup {oldest}), AppRests(t)
        PROVE  Ownership'
    BY <2>1, <2>4
  <2>5. QED  BY <1>6, <2>1, <2>2, <2>3, <2>4 DEF Insert
<1>7. ASSUME NEW t \in Apps, FreeClient(t) PROVE Ownership'
  <2>1. app[t].pc = "free" /\ Client(t) \notin Pooled
    BY <1>a, <1>7 DEF FreeClient, AppAt, Ownership, Detached
  <2>2. /\ \A u \in Apps : Client(u)' = IF u = t THEN NoClient ELSE Client(u)
        /\ \A u \in Apps : app'[u].pc = IF u = t THEN "idle" ELSE app[u].pc
    BY <1>a, <1>7, AppLeaves DEF FreeClient
  <2>3. Pooled' = Pooled \ {Client(t)} /\ IdleClients' = IdleClients \ {Client(t)}
    BY <1>a, <1>7, <2>1, SamePool DEF FreeClient
  <2>4. QED  BY <1>7, <2>2, <2>3, GiveUpOwns DEF FreeClient
<1>8. ASSUME NEW t \in Apps, NEW c \in Clients, InitDirect(t, c) PROVE Ownership'
  BY <1>8, MakeOwns DEF InitDirect, AppAt
<1>9. ASSUME NEW t \in Apps, NEW keep \in BOOLEAN, Cleanup(t, keep) PROVE Ownership'
  <2>a. app[t].pc = "held" /\ app[t].pc \in Busy
    BY <1>9 DEF Cleanup, AppAt, Busy, Pcs
  <2>b. Client(t) \in Clients /\ Client(t) \notin IdleClients
    BY <1>a, <2>a DEF Ownership, Handed, Kept, HttpTypeOK
  <2>1. CASE pool[Client(t)] # NoNode /\ keep
    <3>1. Client(t) \in Pooled
      BY <2>b, <2>1 DEF Pooled
    <3>2. /\ pool' = [pool EXCEPT ![Client(t)] = [host |-> pool[Client(t)].host,
                                                  leased |-> FALSE, reused |-> FALSE]]
          /\ AppRests(t) /\ open' = open
      BY <1>9, <2>1 DEF Cleanup
    <3>3. /\ Pooled' = Pooled
          /\ IdleClients' = IdleClients \cup {Client(t)}
          /\ \A d \in Pooled : pool'[d].host = pool[d].host
      BY <1>a, <3>1, <3>2, KeepInPool DEF Ownership
    <3>4. \A d \in Pooled' : pool'[d].host \in Hosts
      BY <1>a, <3>3 DEF Ownership, Nodes
    <3>5. /\ Pooled' = (Pooled \ {}) \cup {Client(t)}
          /\ IdleClients' = (IdleClients \ {}) \cup {Client(t)}
          /\ open' = open \ {} /\ {} \in SUBSET IdleClients
      BY <3>1, <3>2, <3>3
    <3>6. AppRests(t)
      BY <3>2
    <3>7. QED  BY <2>a, <3>4, <3>5, <3>6, ReturnOwns
  <2>2. CASE ~(pool[Client(t)] # NoNode /\ keep)
    <3>1. PICK pc \in {"insert", "free"} : AppGoes(t, pc)
      BY <1>9, <2>2 DEF Cleanup
    <3>2. pool' = Dropped({Client(t)}) /\ open' = open
      BY <1>9, <2>2 DEF Cleanup
    <3>3. /\ Pooled' = Pooled \ {Client(t)} /\ IdleClients' = IdleClients
          /\ \A c \in Pooled' : pool'[c] = pool[c]
      BY <1>a, <2>b, <3>2, DroppedPool
    <3>4. pc \in Busy /\ pc \in Pcs /\ {} \in SUBSET IdleClients
      BY DEF Busy, Pcs
    <3>5. /\ Pooled' \subseteq Pooled \ {} /\ IdleClients' = IdleClients \ {}
          /\ open' = open \ {} /\ Client(t) \notin Pooled'
          /\ \A c \in Pooled' : pool'[c].host = pool[c].host
      BY <3>2, <3>3
    <3>6. QED  BY <2>a, <3>1, <3>4, <3>5, MoveOwns
  <2>3. QED  BY <2>1, <2>2
<1>10. ASSUME NEW t \in Apps, NEW h \in Hosts, InitTake(t, h) PROVE Ownership'
  <2>a. app[t].pc = "idle" /\ Client(t) = NoClient
    BY <1>a, <1>10 DEF InitTake, AppAt, Ownership, Handed
  <2>1. ASSUME NEW gone \in SUBSET IdleClients, Drops(gone), AppHas(t, "new", NoClient)
        PROVE  Ownership'
    <3>1. /\ \A u \in Apps : Client(u)' = IF u = t THEN NoClient ELSE Client(u)
          /\ \A u \in Apps : app'[u].pc = IF u = t THEN "new" ELSE app[u].pc
      BY <1>a, <2>1, AppTakes
    <3>2. /\ Pooled' = Pooled \ gone /\ IdleClients' = IdleClients \ gone
          /\ \A c \in Pooled' : pool'[c] = pool[c]
      BY <1>a, <2>1, DroppedPool DEF Drops
    <3>3. QED  BY <2>1, <2>a, <3>1, <3>2, GiveUpOwns DEF Drops
  <2>2. ASSUME NEW late \in SUBSET IdleClients, NEW c \in IdleClients \ late,
               pool[c].host = h, open' = open \ late, AppHas(t, "hit", c),
               pool' = [Dropped(late) EXCEPT ![c] = [host |-> h, leased |-> TRUE,
                                                     reused |-> TRUE]]
        PROVE  Ownership'
    <3>1. /\ Pooled' = (Pooled \ late) \cup {c}
          /\ IdleClients' = (IdleClients \ late) \ {c}
          /\ pool'[c].host = h
          /\ \A d \in Clients \ (late \cup {c}) : pool'[d] = pool[d]
      <4>1. c \in Clients /\ TRUE \in BOOLEAN
        BY <1>a
      <4>2. /\ Pooled' = (Pooled \ late) \cup {c}
            /\ IdleClients' = ((IdleClients \ late) \ {c}) \cup (IF TRUE THEN {} ELSE {c})
            /\ pool'[c].host = h
            /\ \A d \in Clients \ (late \cup {c}) : pool'[d] = pool[d]
        BY <1>a, <2>2, <4>1, PutInPool, ZenonT(30)
      <4>3. QED  BY <4>2
    <3>2. \A d \in Pooled' : pool'[d].host = pool[d].host
      <4>1. pool[c].host = h
        BY <2>2
      <4>2. QED  BY <1>a, <3>1, <4>1
    <3>3. Pooled' = Pooled \ late
      BY <1>a, <3>1
    <3>4. AppHas(t, "hit", c) /\ open' = open \ late
      BY <2>2
    <3>5. QED  BY <2>a, <3>1, <3>2, <3>3, <3>4, HitOwns
  <2>3. ASSUME NEW late \in SUBSET IdleClients, NEW c \in IdleClients \ late,
               Drops(late \cup {c}), AppHas(t, "new", NoClient)
        PROVE  Ownership'
    BY <2>1, <2>3
  <2>4. PICK late \in SUBSET IdleClients :
           LET left == {c \in IdleClients \ late : pool[c].host = h}
           IN \/ left = {} /\ Drops(late) /\ AppHas(t, "new", NoClient)
              \/ \E c \in left :
                    \/ Drops(late \cup {c}) /\ AppHas(t, "new", NoClient)
                    \/ /\ pool' = [Dropped(late) EXCEPT ![c] =
                                     [host |-> h, leased |-> TRUE, reused |-> TRUE]]
                       /\ open' = open \ late
                       /\ AppHas(t, "hit", c)
    BY <1>10, Zenon DEF InitTake
  <2>5. CASE Drops(late) /\ AppHas(t, "new", NoClient)
    BY <2>1, <2>5
  <2>6. ASSUME NEW c \in IdleClients \ late, pool[c].host = h,
               \/ Drops(late \cup {c}) /\ AppHas(t, "new", NoClient)
               \/ /\ pool' = [Dropped(late) EXCEPT ![c] =
                                [host |-> h, leased |-> TRUE, reused |-> TRUE]]
                  /\ open' = open \ late
                  /\ AppHas(t, "hit", c)
        PROVE  Ownership'
    BY <2>2, <2>3, <2>6
  <2>7. QED  BY <2>4, <2>5, <2>6
<1>11. ASSUME Reap PROVE Ownership'
  <2>1. PICK late \in SUBSET IdleClients : pool' = Dropped(late) /\ open' = open \ late
    BY <1>11 DEF Reap, Drops
  <2>2. /\ Pooled' = Pooled \ late /\ IdleClients' = IdleClients \ late
        /\ \A c \in Pooled' : pool'[c] = pool[c]
    BY <1>a, <2>1, DroppedPool
  <2>3. app' = app /\ \A u \in Apps : Client(u)' = Client(u)
    BY <1>11 DEF Reap, Client
  <2>4. QED
    BY <1>a, <2>1, <2>2, <2>3
       DEF Ownership, OneUser, Kept, Owned, Handed, Detached, Nodes
<1>12. CASE UNCHANGED httpVars
  <2>1. /\ Pooled' = Pooled /\ IdleClients' = IdleClients /\ open' = open /\ pool' = pool
        /\ app' = app /\ \A u \in Apps : Client(u)' = Client(u)
    BY <1>12, SamePool DEF httpVars, Client
  <2>2. QED
    BY <1>a, <2>1 DEF Ownership, OneUser, Kept, Owned, Handed, Detached, Nodes
<1>13. QED
  BY <1>1, <1>2, <1>3, <1>4, <1>5, <1>6, <1>7, <1>8, <1>9, <1>10, <1>11, <1>12 DEF HttpNext

-----------------------------------------------------------------------------
(* The pool stays within its bound.                                        *)

LEMMA SmallerPool == PoolBound /\ Pooled' \subseteq Pooled => PoolBound'
<1> SUFFICES ASSUME PoolBound, Pooled' \subseteq Pooled PROVE PoolBound'
  OBVIOUS
<1>1. /\ IsFiniteSet(Pooled') /\ Cardinality(Pooled') <= Cardinality(Pooled)
      /\ Cardinality(Pooled) \in Nat /\ Cardinality(Pooled') \in Nat
  BY FS_Subset, FS_CardinalityType DEF PoolBound
<1>2. QED  BY <1>1, HttpAssumption DEF PoolBound

\* A client enters where there is room.
LEMMA OneMore ==
    ASSUME PoolBound, NEW gone, NEW c, IsFiniteSet(Pooled \ gone),
           Cardinality(Pooled \ gone) < MaxPool, Pooled' = (Pooled \ gone) \cup {c}
    PROVE  PoolBound'
<1>1. /\ IsFiniteSet(Pooled')
      /\ Cardinality(Pooled') \in {Cardinality(Pooled \ gone), Cardinality(Pooled \ gone) + 1}
      /\ Cardinality(Pooled \ gone) \in Nat
  BY FS_AddElement, FS_CardinalityType
<1>2. QED  BY <1>1, HttpAssumption DEF PoolBound

LEMMA PoolStep == HttpInv /\ [HttpNext]_httpVars => PoolBound'
<1> SUFFICES ASSUME HttpInv, [HttpNext]_httpVars PROVE PoolBound'
  OBVIOUS
<1>a. /\ HttpTypeOK /\ Ownership /\ PoolBound
      /\ IdleClients \subseteq Pooled /\ Pooled \subseteq Clients
  BY IdleIsPooled DEF HttpInv
<1>b. ASSUME NEW gone, pool' = Dropped(gone) PROVE PoolBound'
  <2>1. Pooled' = Pooled \ gone
    BY <1>a, <1>b, DroppedPool
  <2>2. QED  BY <1>a, <2>1, SmallerPool
<1>c. ASSUME pool' = pool PROVE PoolBound'
  BY <1>a, <1>c, SamePool, SmallerPool
<1>1. ASSUME NEW t \in Apps, InitReset(t) PROVE PoolBound'
  BY <1>1, <1>b, <1>c DEF InitReset, Drops
<1>2. ASSUME NEW t \in Apps, Retry(t) PROVE PoolBound'
  <2>1. \A d \in Clients : pool[d] = NoNode => pool'[d] = NoNode
    BY <1>a, <1>2 DEF Retry, HttpTypeOK, NoNode
  <2>2. Pooled' \subseteq Pooled
    BY <2>1 DEF Pooled
  <2>3. QED  BY <1>a, <2>2, SmallerPool
<1>3. ASSUME NEW t \in Apps, NEW keep \in BOOLEAN, Cleanup(t, keep) PROVE PoolBound'
  <2>1. CASE pool[Client(t)] # NoNode /\ keep
    <3>1. \A d \in Clients : pool[d] = NoNode => pool'[d] = NoNode
      BY <1>a, <1>3, <2>1 DEF Cleanup, HttpTypeOK
    <3>2. Pooled' \subseteq Pooled
      BY <3>1 DEF Pooled
    <3>3. QED  BY <1>a, <3>2, SmallerPool
  <2>2. CASE ~(pool[Client(t)] # NoNode /\ keep)
    BY <1>3, <2>2, <1>b DEF Cleanup
  <2>3. QED  BY <2>1, <2>2
<1>4. ASSUME NEW t \in Apps, NEW h \in Hosts, InitTake(t, h) PROVE PoolBound'
  <2>1. ASSUME NEW late, NEW c \in IdleClients \ late,
               pool' = [Dropped(late) EXCEPT ![c] = [host |-> h, leased |-> TRUE,
                                                     reused |-> TRUE]]
        PROVE  PoolBound'
    <3>1. Pooled' = (Pooled \ late) \cup {c}
      <4>1. c \in Clients /\ TRUE \in BOOLEAN
        BY <1>a
      <4>2. QED  BY <1>a, <2>1, <4>1, PutInPool, Zenon
    <3>2. QED  BY <1>a, <3>1, SmallerPool
  <2>2. ASSUME NEW gone, Drops(gone) PROVE PoolBound'
    BY <1>b, <2>2 DEF Drops
  <2>3. QED  BY <1>4, <2>1, <2>2, Zenon DEF InitTake
<1>5. ASSUME NEW t \in Apps, Insert(t) PROVE PoolBound'
  <2>a. Client(t) \in Clients /\ Client(t) \notin Pooled
    BY <1>a, <1>5 DEF Insert, AppAt, Ownership, Handed, Kept, Detached, HttpTypeOK
  <2>1. ASSUME NEW gone, Adds(Client(t), gone) PROVE Pooled' = (Pooled \ gone) \cup {Client(t)}
    <3>1. PICK h \in Hosts : pool' = [Dropped(gone) EXCEPT ![Client(t)] =
                                         [host |-> h, leased |-> FALSE, reused |-> FALSE]]
      BY <2>1 DEF Adds
    <3>2. QED  BY <1>a, <2>a, <3>1, PutInPool
  <2>2. ASSUME NEW late \in SUBSET IdleClients, Cardinality(Pooled \ late) < MaxPool,
               Adds(Client(t), late)
        PROVE  PoolBound'
    <3>1. IsFiniteSet(Pooled \ late)
      BY <1>a, FS_Difference DEF PoolBound
    <3>2. QED  BY <1>a, <2>1, <2>2, <3>1, OneMore
  <2>3. ASSUME NEW late \in SUBSET IdleClients, NEW oldest \in IdleClients \ late,
               Adds(Client(t), late \cup {oldest})
        PROVE  PoolBound'
    <3>1. /\ IsFiniteSet(Pooled \ {oldest})
          /\ Cardinality(Pooled \ {oldest}) = Cardinality(Pooled) - 1
          /\ Cardinality(Pooled) \in Nat
      BY <1>a, FS_RemoveElement, FS_CardinalityType DEF PoolBound
    <3>2. /\ IsFiniteSet(Pooled \ (late \cup {oldest}))
          /\ Cardinality(Pooled \ (late \cup {oldest})) <= Cardinality(Pooled \ {oldest})
          /\ Cardinality(Pooled \ (late \cup {oldest})) \in Nat
      <4>1. Pooled \ (late \cup {oldest}) \subseteq Pooled \ {oldest}
        OBVIOUS
      <4>2. QED  BY <3>1, <4>1, FS_Subset, FS_CardinalityType
    <3>3. Cardinality(Pooled \ (late \cup {oldest})) < MaxPool
      BY <1>a, <3>1, <3>2, HttpAssumption DEF PoolBound
    <3>4. QED  BY <1>a, <2>1, <2>3, <3>2, <3>3, OneMore
  <2>4. ASSUME NEW gone, Drops(gone) PROVE PoolBound'
    BY <1>b, <2>4 DEF Drops
  <2>5. QED  BY <1>5, <1>c, <2>2, <2>3, <2>4 DEF Insert
<1>6. CASE pool' = pool
  BY <1>6, <1>c
<1>7. CASE Reap
  BY <1>7, <1>b DEF Reap, Drops
<1>8. QED
  BY <1>1, <1>2, <1>3, <1>4, <1>5, <1>6, <1>7
     DEF HttpNext, httpVars, InitNew, InitTrack, Perform, Send, Resend, FreeClient, InitDirect

-----------------------------------------------------------------------------
(* The theorems.                                                           *)

LEMMA HttpInvAlways == HttpSpec => []HttpInv
<1>1. HttpInv /\ [HttpNext]_httpVars => HttpInv'
  BY HttpTypeStep, OwnershipStep, PoolStep DEF HttpInv, Ownership
<1>2. QED  BY HttpInitInv, <1>1, PTL DEF HttpSpec

\* The state stays within its types.
THEOREM HttpTypeCorrect == HttpSpec => []HttpTypeOK
<1>1. HttpInv => HttpTypeOK
  BY DEF HttpInv
<1>2. QED  BY HttpInvAlways, <1>1, PTL

\* The wrapped init, perform and cleanup and the reaper never close a client a
\* task uses, hand one to two tasks or lose one, and keep the pool within
\* CONFIG_HTTP_REUSE_MAX_POOL.
THEOREM ClientsHaveOneOwner == HttpSpec => []ClientHasOneOwner
<1>1. HttpInv => ClientHasOneOwner
  <2> SUFFICES ASSUME HttpInv PROVE ClientHasOneOwner
    OBVIOUS
  <2>a. HttpTypeOK /\ Ownership
    BY DEF HttpInv
  <2>1. ASSUME NEW c \in Clients
        PROVE  Cardinality({t \in Apps : Client(t) = c})
                   + (IF c \in Pooled /\ ~pool[c].leased THEN 1 ELSE 0)
                   = (IF c \in open THEN 1 ELSE 0)
    <3> DEFINE users == {t \in Apps : Client(t) = c}
    <3>1. CASE users = {}
      <4>1. Cardinality(users) = 0
        BY <3>1, FS_EmptySet
      <4>2. c \in open <=> c \in IdleClients
        BY <2>a, <3>1, IdleIsPooled DEF Ownership, Owned, Nodes
      <4>3. QED  BY <4>1, <4>2 DEF IdleClients
    <3>2. CASE users # {}
      <4>1. PICK t \in Apps : Client(t) = c
        BY <3>2
      <4>2. c # NoClient /\ c \in open /\ c \notin IdleClients
        BY <2>a, <4>1, HttpAssumption DEF Ownership, Kept
      <4>3. users = {t}
        BY <2>a, <4>1, <4>2 DEF Ownership, OneUser
      <4>4. Cardinality(users) = 1
        BY <4>3, FS_Singleton
      <4>5. QED  BY <4>2, <4>4 DEF IdleClients
    <3>3. QED  BY <3>1, <3>2
  <2>2. QED  BY <2>1 DEF ClientHasOneOwner, HttpInv, PoolBound
<1>2. QED  BY HttpInvAlways, <1>1, PTL
=============================================================================
