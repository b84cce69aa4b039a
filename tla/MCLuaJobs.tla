----------------------------- MODULE MCLuaJobs ------------------------------
(***************************************************************************)
(* Small instances of LuaJobs for TLC: a and b claim the same name, b      *)
(* replaces its holder.  Job c competes for the slots alone; to keep the   *)
(* instance small, c is not submitted while the stopper is at work.        *)
(***************************************************************************)
EXTENDS LuaJobs

CONSTANTS a, b, c, name, stopper

SameName == [j \in Jobs |-> IF j \in {a, b} THEN {name} ELSE {}]

\* Bound: of c's submitter and the stopper one is in a call at a time.
OneOfTwo == call'[c] = NoCall \/ call'[stopper] = NoCall

\* FairSpec within the bound, which no step that fairness asks for can break.
MCSpec == /\ Init /\ [][Next /\ OneOfTwo]_vars
          /\ \A p \in Callers : WF_vars(WaitStep(p))
          /\ \A j \in Jobs : WF_vars(CallStep(j))
=============================================================================
