------------------------------ MODULE RuleStore ------------------------------
(***************************************************************************)
(* How claw_event_router changes its rules: add_rule, update_rule and      *)
(* delete_rule, called by the agent's tasks, Lua jobs and the console,     *)
(* each read the file of rules, write the changed rules to a second file   *)
(* of a fixed name, remove the first, rename the second and only then      *)
(* replace the rules in memory.  Only that last step is under the router's *)
(* lock; nothing keeps two changes apart.                                  *)
(*                                                                         *)
(* The file system is outside (FAT without locks of open files: rename     *)
(* refuses an existing target).  The table is large enough, and every rule *)
(* a caller passes is valid.                                               *)
(***************************************************************************)
EXTENDS Naturals

CONSTANTS Editors,    \* tasks that change or reload the rules
          Rules,      \* ids of rules
          Versions,   \* what a rule may say
          Absent, Missing, Torn, NoEditor

ASSUME RuleStoreAssumption ==
    /\ Absent \notin Versions
    /\ NoEditor \notin Editors
    /\ Missing \notin [Rules -> Versions \cup {Absent}]
    /\ Torn \notin [Rules -> Versions \cup {Absent}] \cup {Missing}

VARIABLES
    ruleMode,  \* "down", "up", "failed": init failed
    memory,    \* s_runtime->rules
    file,      \* rules_path: rules, Missing, or Torn
    tmp,       \* rules_path.tmp: what it holds, and who opened it last
    editor,    \* per task: where it is in a change, and the rules it works with
    rulesTold, \* history: the rules as the callers were told
    clean      \* history: no two operations ever overlapped, no rename failed,
               \* and no reset came between a remove and its rename

ruleVars == <<ruleMode, memory, file, tmp, editor, rulesTold, clean>>

RuleSets == [Rules -> Versions \cup {Absent}]
NoRules == [r \in Rules |-> Absent]
NoTmp == [rules |-> Missing, by |-> NoEditor]
AtRest == [pc |-> "idle", rules |-> NoRules]

RuleInit == /\ ruleMode = "down" /\ memory = NoRules
            /\ file \in {Missing, NoRules} /\ tmp = NoTmp
            /\ editor = [w \in Editors |-> AtRest]
            /\ rulesTold = NoRules /\ clean = TRUE

Working == {w \in Editors : editor[w].pc # "idle"}
Step(w, from, to) == /\ editor[w].pc = from
                     /\ editor' = [editor EXCEPT ![w].pc = to]
Fails(w, from) == /\ editor[w].pc = from
                  /\ editor' = [editor EXCEPT ![w] = AtRest]

\* load_rules_from_file: a file that cannot be opened is no rules.
Stored == IF file = Missing THEN NoRules ELSE file

\* load_rules_from_file when an operation begins; Torn does not parse.
Begins(w, pc, rules) ==
    /\ ruleMode = "up" /\ editor[w].pc = "idle" /\ file # Torn
    /\ editor' = [editor EXCEPT ![w] = [pc |-> pc, rules |-> rules]]
    /\ clean' = (clean /\ Working = {})
    /\ UNCHANGED <<ruleMode, memory, file, tmp, rulesTold>>

Changes(w, r, v) == Begins(w, "open", [Stored EXCEPT ![r] = v])
AddRule(w, r, v) == file # Torn /\ Stored[r] = Absent /\ Changes(w, r, v)
UpdateRule(w, r, v) == file # Torn /\ Stored[r] # Absent /\ Changes(w, r, v)
DeleteRule(w, r) == file # Torn /\ Stored[r] # Absent /\ Changes(w, r, Absent)
ReloadRules(w) == Begins(w, "reload", Stored)

-----------------------------------------------------------------------------
(* write_rules_json_file.                                                  *)

\* fopen "wb": the second file is there and empty.
OpenTmpVariant(w) == /\ Step(w, "open", "fill")
                     /\ tmp' = [rules |-> Torn, by |-> w] /\ file' = Missing
                     /\ UNCHANGED <<ruleMode, memory, rulesTold, clean>>
OpenTmp(w) == /\ Step(w, "open", "fill")
              /\ tmp' = [rules |-> Torn, by |-> w]
              /\ UNCHANGED <<ruleMode, memory, file, rulesTold, clean>>

\* The file is written and closed.  When another task has opened, removed or
\* renamed it since, what becomes of it is undefined.
FillTmp(w) == /\ Step(w, "fill", "remove")
              /\ IF tmp.by = w
                 THEN tmp' = [tmp EXCEPT !.rules = editor[w].rules] /\ UNCHANGED file
                 ELSE /\ tmp' \in {tmp} \cup {[tmp EXCEPT !.rules = c] :
                             c \in IF tmp = NoTmp THEN {} ELSE {editor[w].rules, Torn}}
                      /\ file' \in IF file = Missing THEN {file} ELSE {file, Torn}
              /\ UNCHANGED <<ruleMode, memory, rulesTold, clean>>

\* A step before the rename fails: the second file is removed.
WriteFails(w) == /\ \E pc \in {"open", "fill", "remove"} : Fails(w, pc)
                 /\ tmp' = IF editor[w].pc = "open" THEN tmp ELSE NoTmp
                 /\ UNCHANGED <<ruleMode, memory, file, rulesTold, clean>>

RemoveFile(w) == /\ Step(w, "remove", "rename")
                 /\ file' = Missing
                 /\ UNCHANGED <<ruleMode, memory, tmp, rulesTold, clean>>

RenameTmp(w) == /\ tmp # NoTmp /\ file = Missing
                /\ Step(w, "rename", "swap")
                /\ file' = tmp.rules /\ tmp' = NoTmp
                /\ UNCHANGED <<ruleMode, memory, rulesTold, clean>>

\* Another task has renamed the second file or put a file in place, or the
\* device fails: what is left of the second file is removed as well.
RenameFails(w) == /\ Fails(w, "rename")
                  /\ tmp' = NoTmp
                  /\ clean' = FALSE
                  /\ UNCHANGED <<ruleMode, memory, file, rulesTold>>

\* commit_rules and reload, under the lock: the rules in memory are replaced.
SwapRules(w) == /\ Step(w, "swap", "idle") \/ Step(w, "reload", "idle")
                /\ memory' = editor[w].rules
                /\ rulesTold' = IF editor[w].pc = "swap" THEN memory' ELSE rulesTold
                /\ UNCHANGED <<ruleMode, file, tmp, clean>>

-----------------------------------------------------------------------------
(* The device.                                                             *)

\* init reads the file; one that does not parse ends the application's start.
BootRules == /\ ruleMode = "down"
             /\ IF file = Torn THEN ruleMode' = "failed" /\ UNCHANGED memory
                ELSE ruleMode' = "up" /\ memory' = Stored
             /\ UNCHANGED <<file, tmp, editor, rulesTold, clean>>

\* A change that a reset cuts off is made or not made.
ResetRules == /\ ruleMode = "up"
              /\ ruleMode' = "down" /\ memory' = NoRules
              /\ editor' = [w \in Editors |-> AtRest]
              /\ clean' = (clean /\ \A w \in Editors : editor[w].pc # "rename")
              /\ rulesTold' = IF \E w \in Editors : editor[w].pc = "swap" /\ file = editor[w].rules
                         THEN file ELSE rulesTold
              /\ UNCHANGED <<file, tmp>>

EditorStep(w) == OpenTmp(w) \/ FillTmp(w) \/ WriteFails(w) \/ RemoveFile(w)
                 \/ RenameTmp(w) \/ RenameFails(w) \/ SwapRules(w)

RuleNext ==
    \/ \E w \in Editors :
          \/ \E r \in Rules : DeleteRule(w, r)
                              \/ \E v \in Versions : AddRule(w, r, v) \/ UpdateRule(w, r, v)
          \/ ReloadRules(w) \/ EditorStep(w)
    \/ BootRules \/ ResetRules

RuleSpec == RuleInit /\ [][RuleNext]_ruleVars

-----------------------------------------------------------------------------
(* Properties.                                                             *)

\* The state stays within its types.
RuleTypeOK ==
    /\ ruleMode \in {"down", "up", "failed"}
    /\ memory \in RuleSets /\ rulesTold \in RuleSets /\ clean \in BOOLEAN
    /\ file \in RuleSets \cup {Missing, Torn}
    /\ tmp \in [rules : RuleSets \cup {Missing, Torn}, by : Editors \cup {NoEditor}]
    /\ editor \in [Editors -> [pc : {"idle", "reload", "open", "fill", "remove", "rename",
                                     "swap"},
                               rules : RuleSets]]

\* As long as changes come one at a time, nothing that a caller was told is
\* stored is ever away: the file holds it, or holds the rules of the change at
\* work, or is away while the second file holds them whole; and once no change
\* is at work the router runs the rules of the file.  A reset at any point but
\* between remove and rename leaves it so.
RulesAreKept ==
    clean => /\ \/ Stored = rulesTold
                \/ \E w \in Editors : /\ editor[w].pc = "swap"
                                      /\ file = editor[w].rules
                \/ \E w \in Editors : /\ editor[w].pc = "rename" /\ file = Missing
                                      /\ tmp.rules = editor[w].rules
             /\ ruleMode = "up" /\ Working = {} => memory = rulesTold
=============================================================================
