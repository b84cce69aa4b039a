------------------------------ MODULE EventBus ------------------------------
(***************************************************************************)
(* What the event router promises the code that publishes to it, with no   *)
(* table, lock or task: an event is accepted or refused, accepted events   *)
(* are taken in the order they were accepted, each one once, and the only  *)
(* accepted events that are not processed are those a caller revoked.      *)
(***************************************************************************)
EXTENDS Sequences

CONSTANT Events

VARIABLES line,     \* the accepted events, in order
          outcome,  \* what became of each event
          revoked   \* the events a cancel or a purge named

vars == <<line, outcome, revoked>>

Init == line = <<>> /\ outcome = [e \in Events |-> "none"] /\ revoked = {}

Settle(e, o) == outcome' = [outcome EXCEPT ![e] = o]

Accept(e) == /\ outcome[e] = "none"
             /\ Settle(e, "accepted")
             /\ line' = Append(line, e)
             /\ UNCHANGED revoked

Refuse(e) == outcome[e] = "none" /\ Settle(e, "refused") /\ UNCHANGED <<line, revoked>>

Revoke(S) == revoked' = revoked \cup S /\ UNCHANGED <<line, outcome>>

Process == line # <<>> /\ Settle(Head(line), "processed") /\ line' = Tail(line)
           /\ UNCHANGED revoked

Skip == line # <<>> /\ Head(line) \in revoked /\ Settle(Head(line), "skipped")
        /\ line' = Tail(line) /\ UNCHANGED revoked

Next == \/ \E e \in Events : Accept(e) \/ Refuse(e)
        \/ \E S \in SUBSET Events : Revoke(S)
        \/ Process
        \/ Skip

Spec == Init /\ [][Next]_vars
=============================================================================
