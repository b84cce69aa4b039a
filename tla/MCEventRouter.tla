--------------------------- MODULE MCEventRouter ---------------------------
(***************************************************************************)
(* Small instances of EventRouter for TLC.  e1, e2 and e3 come from two    *)
(* other tasks, e4 from an emit_event action, e5 from a script.            *)
(***************************************************************************)
EXTENDS EventRouter

CONSTANTS e1, e2, e3, e4, e5, im, cap

ByTask == [e \in Events |-> CASE e \in {e1, e2} -> im [] e = e3 -> cap
                              [] e = e4 -> Router [] e = e5 -> Script]
OwnId == [e \in Events |-> e]
\* e2 and e3 are made in the same millisecond, the script gives e5 no id.
Ids == [e \in Events |-> CASE e = e3 -> e2 [] e = e5 -> None [] OTHER -> e]

Do(kind, open) == [kind |-> kind, open |-> open]
RuleOf(match, consume, ack, acts) ==
    [match |-> match, consume |-> consume, ack |-> ack, acts |-> acts]

\* A rule that emits and then calls, behind one that drops what it consumes.
Emitting == {<<RuleOf({e2}, TRUE, TRUE, <<Do("drop", FALSE)>>),
               RuleOf({e1, e2}, FALSE, FALSE, <<Do("emit", TRUE), Do("call", FALSE)>>)>>}
\* The same, or nothing at all after a reload.
Reloading == Emitting \cup {<<>>}
\* A rule that runs a script, then emits, then reloads the rules.
Scripting == {<<RuleOf({e1, e3}, FALSE, TRUE,
                       <<Do("script", TRUE), Do("emit", FALSE), Do("reload", FALSE)>>)>>}
\* A rule that reloads the rules.
SelfReloading == {<<RuleOf(Events, TRUE, FALSE, <<Do("reload", FALSE), Do("call", FALSE)>>)>>}

AllOrOne == {Events, {e1}}

\* Bound: the device has the rule with the script, and then e2 is not published,
\* or the others; a reload does not change which.
OneKindOfRules ==
    /\ (rules \in Scripting) = (rules' \in Scripting)
    /\ rules \in Scripting => fate'[e2] = "unborn"

AllRules == Reloading \cup Scripting

\* FairSpec within the bound, which leaves each step that fairness asks for a way.
MCSpec == /\ Init /\ [][Next /\ OneKindOfRules]_vars
          /\ WF_vars(RouterStep) /\ \A t \in Tasks : WF_vars(PublishStep(t))
=============================================================================
