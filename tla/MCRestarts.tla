----------------------------- MODULE MCRestarts -----------------------------
(***************************************************************************)
(* The parts of the device that go on after a reset with what they wrote,  *)
(* or with what somebody else remembers: the scheduler, the router's file  *)
(* of rules, the Telegram gateway.  They share nothing, so a run of the    *)
(* model is a run of one of them; the others wait in their first state.    *)
(***************************************************************************)
EXTENDS MCScheduler, RuleStore, TelegramLink

CONSTANTS lua, console, greet, bot1, bot2

VARIABLE part

Init == /\ part \in {"scheduler", "rules", "telegram"}
        /\ SchedInit /\ RuleInit /\ LinkInit
        /\ part # "scheduler" => item = [i \in Ids |-> Once] /\ now = 1
        /\ part # "rules" => file = Missing
        /\ part # "telegram" => token = bot1

Next == \/ part = "scheduler" /\ SchedNext /\ UNCHANGED <<part, ruleVars, linkVars>>
        \/ part = "rules" /\ RuleNext /\ UNCHANGED <<part, schedVars, linkVars>>
        \/ part = "telegram" /\ LinkNext /\ UNCHANGED <<part, schedVars, ruleVars>>

Spec == Init /\ [][Next]_<<part, schedVars, ruleVars, linkVars>>
=============================================================================
