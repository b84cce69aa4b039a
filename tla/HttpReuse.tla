------------------------------ MODULE HttpReuse ------------------------------
(***************************************************************************)
(* http_reuse: esp_http_client_init, _perform and _cleanup are wrapped, so *)
(* that a client whose connection may be used again goes to a pool when it *)
(* is cleaned up, and the next init of the same endpoint takes it from     *)
(* there.  The pool and the list of leases have one mutex; the requests,   *)
(* and the real cleanup of a client that goes, are made without it.        *)
(*                                                                         *)
(* A host stands for an endpoint.  Ticks are left out: any idle client may *)
(* have been idle too long, and any one be the least recently used.        *)
(***************************************************************************)
EXTENDS FiniteSets, Integers

CONSTANTS Apps,      \* tasks that make requests
          Clients,   \* handles of esp_http_client
          Hosts,
          MaxPool,   \* CONFIG_HTTP_REUSE_MAX_POOL
          NoClient, NoHost

ASSUME HttpAssumption == /\ NoClient \notin Clients /\ NoHost \notin Hosts
                         /\ MaxPool \in Nat \ {0}

VARIABLES
    pool,    \* s_pool: per client, its node; NoNode when it is not listed
    leases,  \* s_leases: per client "none", "fresh" or "performed"
    open,    \* external: the clients that exist
    app      \* per task: where it is, its client

httpVars == <<pool, leases, open, app>>

NoNode == [host |-> NoHost, leased |-> FALSE, reused |-> FALSE]
NoRequest == [pc |-> "idle", client |-> NoClient]

HttpInit == /\ pool = [c \in Clients |-> NoNode]
            /\ leases = [c \in Clients |-> "none"]
            /\ open = {}
            /\ app = [t \in Apps |-> NoRequest]

Pooled == {c \in Clients : pool[c] # NoNode}
IdleClientsVariant == Pooled
IdleClients == {c \in Pooled : ~pool[c].leased}
AppAt(t, pc) == app[t].pc = pc
AppGoes(t, pc) == app' = [app EXCEPT ![t].pc = pc]
AppRests(t) == app' = [app EXCEPT ![t] = NoRequest]
Client(t) == app[t].client
AppHas(t, pc, c) == app' = [app EXCEPT ![t] = [pc |-> pc, client |-> c]]

\* node_free with the client: off the list, and cleaned up.
Dropped(gone) == [c \in Clients |-> IF c \in gone THEN NoNode ELSE pool[c]]
Drops(gone) == pool' = Dropped(gone) /\ open' = open \ gone

-----------------------------------------------------------------------------
(* esp_http_client_init.                                                   *)

\* A config without keep-alive, or whose endpoint does not parse.
InitDirect(t, c) == /\ AppAt(t, "idle") /\ c \notin open
                    /\ open' = open \cup {c}
                    /\ AppHas(t, "held", c)
                    /\ UNCHANGED <<pool, leases>>

\* pool_take_locked, after the reaper: a client of the endpoint that is idle,
\* but for one whose errno is set, which is dropped.
InitTake(t, h) ==
    /\ AppAt(t, "idle")
    /\ \E late \in SUBSET IdleClients :
          LET left == {c \in IdleClients \ late : pool[c].host = h}
          IN \/ left = {} /\ Drops(late) /\ AppHas(t, "new", NoClient)
             \/ \E c \in left :
                   \/ Drops(late \cup {c}) /\ AppHas(t, "new", NoClient)
                   \/ /\ pool' = [Dropped(late) EXCEPT ![c] =
                                    [host |-> h, leased |-> TRUE, reused |-> TRUE]]
                      /\ open' = open \ late
                      /\ AppHas(t, "hit", c)
    /\ UNCHANGED <<leases>>

\* The client's request is set as a fresh one's would be; a set_url that
\* fails gives the client up, and init returns nothing.
InitReset(t) == /\ AppAt(t, "hit")
                /\ \/ AppGoes(t, "held") /\ UNCHANGED <<pool, open>>
                   \/ AppRests(t) /\ Drops({Client(t)})
                /\ UNCHANGED <<leases>>

InitNew(t) == /\ AppAt(t, "new")
              /\ \/ \E c \in Clients \ open : open' = open \cup {c} /\ AppHas(t, "track", c)
                 \/ AppRests(t) /\ UNCHANGED open
              /\ UNCHANGED <<pool, leases>>

\* lease_insert_locked; without memory the client is not tracked.
InitTrack(t) == /\ AppAt(t, "track")
                /\ leases' \in {leases, [leases EXCEPT ![Client(t)] = "fresh"]}
                /\ AppGoes(t, "held")
                /\ UNCHANGED <<pool, open>>

-----------------------------------------------------------------------------
(* esp_http_client_perform.                                                *)

Perform(t) == /\ AppAt(t, "held")
              /\ leases' = [leases EXCEPT ![Client(t)] = IF @ = "none" THEN @ ELSE "performed"]
              /\ AppGoes(t, "send")
              /\ UNCHANGED <<pool, open>>

\* The real perform, which may fail.
Send(t) == /\ AppAt(t, "send")
           /\ \E ok \in BOOLEAN : AppGoes(t, IF ok THEN "held" ELSE "failed")
           /\ UNCHANGED <<pool, leases, open>>

\* One retry per lease, and only of a client from the pool.
Retry(t) == LET c == Client(t)
            IN /\ AppAt(t, "failed")
               /\ IF pool[c] # NoNode /\ pool[c].reused
                  THEN pool' = [pool EXCEPT ![c].reused = FALSE] /\ AppGoes(t, "again")
                  ELSE AppGoes(t, "held") /\ UNCHANGED pool
               /\ UNCHANGED <<leases, open>>

Resend(t) == /\ AppAt(t, "again")
             /\ AppGoes(t, "held")
             /\ UNCHANGED <<pool, leases, open>>

-----------------------------------------------------------------------------
(* esp_http_client_cleanup.                                                *)

Adds(c, gone) == /\ open' = open \ gone
                 /\ \E h \in Hosts : pool' = [Dropped(gone) EXCEPT ![c] =
                        [host |-> h, leased |-> FALSE, reused |-> FALSE]]

\* keep: whether the connection is persistent.
Cleanup(t, keep) ==
    LET c == Client(t)
        pooled == pool[c] # NoNode
    IN /\ AppAt(t, "held")
       /\ leases' = [leases EXCEPT ![c] = "none"]
       /\ IF pooled /\ keep
          THEN /\ pool' = [pool EXCEPT ![c] =
                           [host |-> pool[c].host, leased |-> FALSE, reused |-> FALSE]]
               /\ AppRests(t)
          ELSE /\ pool' = Dropped({c})
               /\ AppGoes(t, IF ~pooled /\ keep /\ leases[c] = "performed" THEN "insert"
                          ELSE "free")
       /\ UNCHANGED open

\* pool_insert_locked, after the reaper: an idle client makes room if need be,
\* or the client is cleaned up; so it is when its URL cannot be had.  The host
\* is the URL's, to which a redirection may have led.
Insert(t) ==
    /\ AppAt(t, "insert")
    /\ \/ \E late \in SUBSET IdleClients :
             LET rest == IdleClients \ late
             IN IF Cardinality(Pooled \ late) < MaxPool
                THEN Adds(Client(t), late) /\ AppRests(t)
                ELSE IF rest # {}
                THEN (\E oldest \in rest : Adds(Client(t), late \cup {oldest})) /\ AppRests(t)
                ELSE Drops(late) /\ AppGoes(t, "free")
       \/ AppGoes(t, "free") /\ UNCHANGED <<pool, open>>
    /\ UNCHANGED <<leases>>

FreeClient(t) == /\ AppAt(t, "free")
                 /\ open' = open \ {Client(t)}
                 /\ AppRests(t)
                 /\ UNCHANGED <<pool, leases>>

\* The reaper's timer.
Reap == /\ \E late \in SUBSET IdleClients : late # {} /\ Drops(late)
        /\ UNCHANGED <<leases, app>>

HttpNext == \/ Reap
            \/ \E t \in Apps : \/ InitReset(t) \/ InitNew(t) \/ InitTrack(t)
                               \/ Perform(t) \/ Send(t) \/ Retry(t) \/ Resend(t)
                               \/ Insert(t) \/ FreeClient(t)
                               \/ \E c \in Clients : InitDirect(t, c)
                               \/ \E keep \in BOOLEAN : Cleanup(t, keep)
                               \/ \E h \in Hosts : InitTake(t, h)

HttpSpec == HttpInit /\ [][HttpNext]_httpVars

-----------------------------------------------------------------------------
(* Properties.                                                             *)

\* The state stays within its types.
HttpTypeOK ==
    /\ pool \in [Clients -> [host : Hosts \cup {NoHost}, leased : BOOLEAN, reused : BOOLEAN]]
    /\ leases \in [Clients -> {"none", "fresh", "performed"}]
    /\ open \subseteq Clients
    /\ app \in [Apps -> [pc : {"idle", "hit", "new", "track", "held", "send", "failed",
                               "again", "insert", "free"},
                         client : Clients \cup {NoClient}]]

\* Every client has one owner, the task that uses it or the pool it is idle
\* in, and exists as long: nothing is closed under a task by the reaper, by an
\* eviction or by another task's cleanup, none is given to two tasks, and none
\* is left that nobody would close; and the pool stays within its bound.
ClientHasOneOwner ==
    /\ \A c \in Clients :
          LET users == {t \in Apps : Client(t) = c}
          IN Cardinality(users) + (IF c \in Pooled /\ ~pool[c].leased THEN 1 ELSE 0)
                 = (IF c \in open THEN 1 ELSE 0)
    /\ Cardinality(Pooled) <= MaxPool
=============================================================================
