------------------------------ MODULE MCShared ------------------------------
(***************************************************************************)
(* Six pieces of state that several tasks share, five of them behind a     *)
(* lock of their own that nobody holds over the work itself: claw_core's   *)
(* responses, the capability groups, the HTTP clients, the objects of      *)
(* thread.sync and the display; the Wi-Fi manager has no lock at all.      *)
(* They share nothing, so a run of the model is a run of one of them; the  *)
(* others wait in their first state.                                       *)
(***************************************************************************)
EXTENDS ResponseQueue, CapRegistry, HttpReuse, ThreadSync, DisplayArbiter, WifiManager

CONSTANTS r1, r2, r3, c1, c2, files, light, task1, task2, conn1, conn2, conn3, conn4,
          host1, host2, lua1, lua2, lua3, mailbox, cell1, cell2

VARIABLE part

allVars == <<part, vars, capVars, httpVars, syncVars, displayVars, wifiVars>>

SharedInit == /\ part \in {"responses", "groups", "clients", "objects", "display", "wifi"}
              /\ Init /\ CapInit /\ HttpInit /\ SyncInit /\ DisplayInit /\ WifiInit
              /\ part # "groups" => \A s \in Slots : Vacated(s)
              /\ part # "wifi" => config = [sta |-> FALSE, close |-> FALSE]

SharedNext ==
    \/ /\ part = "responses" /\ Next
       /\ UNCHANGED <<part, capVars, httpVars, syncVars, displayVars, wifiVars>>
    \/ /\ part = "groups" /\ CapNext
       /\ UNCHANGED <<part, vars, httpVars, syncVars, displayVars, wifiVars>>
    \/ /\ part = "clients" /\ HttpNext
       /\ UNCHANGED <<part, vars, capVars, syncVars, displayVars, wifiVars>>
    \/ /\ part = "objects" /\ SyncNext
       /\ UNCHANGED <<part, vars, capVars, httpVars, displayVars, wifiVars>>
    \/ /\ part = "display" /\ DisplayNext
       /\ UNCHANGED <<part, vars, capVars, httpVars, syncVars, wifiVars>>
    \/ /\ part = "wifi" /\ WifiNext
       /\ UNCHANGED <<part, vars, capVars, httpVars, syncVars, displayVars>>

SharedSpec == SharedInit /\ [][SharedNext]_allVars /\ Fairness
=============================================================================
