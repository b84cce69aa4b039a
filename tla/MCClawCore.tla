---------------------------- MODULE MCClawCore -----------------------------
(***************************************************************************)
(* Small instances of ClawCore for TLC: a request, an interrupt of its     *)
(* session, and a request of another session or an interrupt of none.      *)
(***************************************************************************)
EXTENDS ClawCore

CONSTANTS r1, r2, r3, s1, s2

\* All requests in one session, or the third in a session of its own.
OneSession == [r \in Requests |-> s1]
TwoSessions == [r \in Requests |-> IF r = r3 THEN s2 ELSE s1]
=============================================================================
