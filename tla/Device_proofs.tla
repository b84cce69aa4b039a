---------------------------- MODULE Device_proofs ----------------------------
(***************************************************************************)
(* Proofs about five components of the device: the rules' store, the       *)
(* Telegram gateway, the scheduler, the display's arbiter and the Wi-Fi    *)
(* manager, for any ids, rules, bots and scripts, and any bounds.  Each    *)
(* has its inductive invariant, a lemma for every action, and the          *)
(* properties that follow; they share nothing but this module.             *)
(***************************************************************************)
EXTENDS RuleStore, TelegramLink, Scheduler, DisplayArbiter, WifiManager,
        FiniteSetTheorems, SequenceTheorems, TLAPS



-----------------------------------------------------------------------------
(* RuleStore.                                                              *)

Stages == {"idle", "reload", "open", "fill", "remove", "rename", "swap"}
Editings == [pc : Stages, rules : RuleSets]

\* Where the rules are while w's change is the only one at work.
InPlace(w) ==
    LET at == editor[w].pc
    IN /\ memory = rulesTold
       /\ at \in {"open", "fill", "remove", "reload"} => Stored = rulesTold
       /\ at = "reload" => editor[w].rules = rulesTold
       /\ at \in {"fill", "remove"} => tmp.by = w
       /\ at \in {"remove", "rename"} => tmp.rules = editor[w].rules
       /\ at = "rename" => file = Missing
       /\ at = "swap" => file = editor[w].rules

\* One change at a time, each where it can go on or be dropped.
OneChange ==
    clean => /\ \A v, w \in Working : v = w
             /\ \A w \in Working : InPlace(w)
             /\ Working = {} => Stored = rulesTold /\ (ruleMode = "up" => memory = rulesTold)

RuleInv == RuleTypeOK /\ (ruleMode # "up" => Working = {}) /\ OneChange

LEMMA RuleParts ==
  ASSUME RuleTypeOK
  PROVE  /\ ruleMode \in {"down", "up", "failed"} /\ memory \in RuleSets /\ rulesTold \in RuleSets
         /\ file \in RuleSets \cup {Missing, Torn}
         /\ tmp.rules \in RuleSets \cup {Missing, Torn} /\ tmp.by \in Editors \cup {NoEditor}
         /\ tmp = [rules |-> tmp.rules, by |-> tmp.by]
         /\ \A w \in Editors : editor[w].pc \in Stages /\ editor[w].rules \in RuleSets
  BY DEF RuleTypeOK, Stages

LEMMA StageEffect ==
  ASSUME RuleTypeOK, NEW w \in Editors, NEW q \in Stages, editor' = [editor EXCEPT ![w].pc = q]
  PROVE  /\ editor' \in [Editors -> Editings]
         /\ editor'[w].pc = q /\ editor'[w].rules = editor[w].rules
         /\ \A v \in Editors : v # w => editor'[v] = editor[v]
  BY DEF RuleTypeOK, Stages, Editings

LEMMA EditorEffect ==
  ASSUME RuleTypeOK, NEW w \in Editors, NEW e \in Editings, editor' = [editor EXCEPT ![w] = e]
  PROVE  /\ editor' \in [Editors -> Editings]
         /\ editor'[w] = e
         /\ \A v \in Editors : v # w => editor'[v] = editor[v]
  BY DEF RuleTypeOK, Stages, Editings

LEMMA RestIsEditing == AtRest \in Editings /\ AtRest.pc = "idle" /\ NoRules \in RuleSets
  BY DEF AtRest, Editings, Stages, NoRules, RuleSets

\* The steps of the type: the parts an action gives a new value keep theirs.
LEMMA RuleTypesMake ==
  ASSUME ruleMode' \in {"down", "up", "failed"}, memory' \in RuleSets, rulesTold' \in RuleSets,
         clean' \in BOOLEAN, file' \in RuleSets \cup {Missing, Torn},
         tmp' \in [rules : RuleSets \cup {Missing, Torn}, by : Editors \cup {NoEditor}],
         editor' \in [Editors -> Editings]
  PROVE  RuleTypeOK'
  BY DEF RuleTypeOK, Editings, Stages

LEMMA RuleInitInv == RuleInit => RuleInv
  <1> SUFFICES ASSUME RuleInit PROVE RuleInv
    OBVIOUS
  <1>1. RuleTypeOK
    BY RestIsEditing DEF RuleInit, RuleTypeOK, Editings, Stages, NoTmp
  <1>2. Working = {}
    BY DEF RuleInit, Working, AtRest
  <1>3. Stored = rulesTold
    BY DEF RuleInit, Stored
  <1> QED BY <1>1, <1>2, <1>3 DEF RuleInv, OneChange, RuleInit

LEMMA BeginsKeeps ==
  ASSUME RuleInv, NEW w \in Editors, NEW pc \in {"open", "reload"}, NEW rules \in RuleSets,
         pc = "reload" => rules = Stored, Begins(w, pc, rules)
  PROVE  RuleInv'
  <1>1. /\ ruleMode = "up" /\ editor[w].pc = "idle" /\ clean' = (clean /\ Working = {})
        /\ UNCHANGED <<ruleMode, memory, file, tmp, rulesTold>>
    BY DEF Begins
  <1>2. [pc |-> pc, rules |-> rules] \in Editings
    BY DEF Editings, Stages
  <1>3. /\ editor' \in [Editors -> Editings]
        /\ editor'[w].pc = pc /\ editor'[w].rules = rules
        /\ \A v \in Editors : v # w => editor'[v] = editor[v]
    BY <1>2, EditorEffect DEF Begins, RuleInv
  <1>4. RuleTypeOK'
    BY <1>1, <1>3, RuleTypesMake DEF RuleInv, RuleTypeOK
  <1>5. ASSUME clean'
        PROVE  OneChange'
    <2>1. clean /\ Working = {}
      BY <1>1, <1>5
    <2>2. memory = rulesTold /\ Stored = rulesTold
      BY <1>1, <2>1 DEF RuleInv, OneChange
    <2>3. Working' = {w}
      BY <1>3, <2>1 DEF Working
    <2>4. InPlace(w)'
      BY <1>1, <1>3, <2>2 DEF InPlace, Stored
    <2> QED BY <2>3, <2>4 DEF OneChange
  <1>6. OneChange'
    BY <1>5 DEF OneChange
  <1> QED BY <1>1, <1>4, <1>6 DEF RuleInv

\* A change goes one stage on.
LEMMA GoesOn ==
  ASSUME RuleInv, NEW w \in Editors, NEW from \in Stages \ {"idle"}, NEW to \in Stages \ {"idle"},
         Step(w, from, to), UNCHANGED <<ruleMode, memory, rulesTold, clean>>,
         file' \in RuleSets \cup {Missing, Torn},
         tmp' \in [rules : RuleSets \cup {Missing, Torn}, by : Editors \cup {NoEditor}],
         clean /\ InPlace(w) => InPlace(w)'
  PROVE  RuleInv'
  <1>1. /\ editor' \in [Editors -> Editings]
        /\ editor'[w].pc = to /\ editor'[w].rules = editor[w].rules
        /\ \A v \in Editors : v # w => editor'[v] = editor[v]
    BY StageEffect DEF Step, RuleInv
  <1>2. RuleTypeOK'
    BY <1>1, RuleTypesMake DEF RuleInv, RuleTypeOK
  <1>3. w \in Working /\ Working' = Working
    BY <1>1 DEF Working, Step
  <1>4. ASSUME clean'
        PROVE  OneChange'
    <2>1. clean
      BY <1>4
    <2>2. Working = {w} /\ InPlace(w)
      BY <1>3, <2>1 DEF RuleInv, OneChange
    <2>3. InPlace(w)'
      BY <2>1, <2>2
    <2> QED BY <1>3, <2>2, <2>3 DEF OneChange
  <1>5. OneChange'
    BY <1>4 DEF OneChange
  <1> QED BY <1>2, <1>3, <1>5 DEF RuleInv

\* A change is over, and the others are where they were.
LEMMA IsOver ==
  ASSUME RuleInv, NEW w \in Editors, editor[w].pc # "idle",
         editor' \in [Editors -> Editings], editor'[w].pc = "idle",
         \A v \in Editors : v # w => editor'[v] = editor[v],
         ruleMode' = ruleMode, memory' \in RuleSets, rulesTold' \in RuleSets,
         clean' \in BOOLEAN, clean' => clean,
         file' \in RuleSets \cup {Missing, Torn},
         tmp' \in [rules : RuleSets \cup {Missing, Torn}, by : Editors \cup {NoEditor}],
         clean' /\ InPlace(w) => memory' = rulesTold' /\ Stored' = rulesTold'
  PROVE  RuleInv'
  <1>1. RuleTypeOK'
    BY RuleTypesMake DEF RuleInv, RuleTypeOK
  <1>2. w \in Working /\ Working' = Working \ {w}
    BY DEF Working
  <1>3. ruleMode = "up"
    BY <1>2 DEF RuleInv
  <1>4. ASSUME clean'
        PROVE  OneChange'
    <2>1. Working = {w} /\ InPlace(w)
      BY <1>2, <1>4 DEF RuleInv, OneChange
    <2>2. memory' = rulesTold' /\ Stored' = rulesTold'
      BY <1>4, <2>1
    <2>3. Working' = {}
      BY <1>2, <2>1
    <2> QED BY <2>2, <2>3 DEF OneChange
  <1>5. OneChange'
    BY <1>4 DEF OneChange
  <1> QED BY <1>1, <1>3, <1>5 DEF RuleInv

LEMMA OpenTmpKeeps ==
  ASSUME RuleInv, NEW w \in Editors, OpenTmp(w)
  PROVE  RuleInv'
  <1>1. /\ Step(w, "open", "fill") /\ tmp' = [rules |-> Torn, by |-> w]
        /\ UNCHANGED <<ruleMode, memory, file, rulesTold, clean>>
    BY DEF OpenTmp
  <1>2. editor[w].pc = "open" /\ editor'[w].pc = "fill"
    BY <1>1, StageEffect DEF Step, RuleInv, Stages
  <1>3. InPlace(w) => InPlace(w)'
    BY <1>1, <1>2 DEF InPlace, Stored
  <1> QED BY <1>1, <1>3, GoesOn, RuleParts DEF RuleInv, Stages

LEMMA FillTmpKeeps ==
  ASSUME RuleInv, NEW w \in Editors, FillTmp(w)
  PROVE  RuleInv'
  <1>1. /\ Step(w, "fill", "remove") /\ UNCHANGED <<ruleMode, memory, rulesTold, clean>>
    BY DEF FillTmp
  <1>2. /\ editor[w].pc = "fill" /\ editor'[w].pc = "remove"
        /\ editor'[w].rules = editor[w].rules /\ editor[w].rules \in RuleSets
    BY <1>1, StageEffect, RuleParts DEF Step, RuleInv, Stages
  <1>3. CASE tmp.by = w
    <2>1. tmp'.rules = editor[w].rules /\ tmp'.by = w /\ file' = file
      BY <1>3, RuleParts DEF FillTmp, RuleInv
    <2>2. tmp' \in [rules : RuleSets \cup {Missing, Torn}, by : Editors \cup {NoEditor}]
      BY <1>2, <1>3 DEF FillTmp, RuleInv, RuleTypeOK
    <2>3. InPlace(w) => InPlace(w)'
      BY <1>1, <1>2, <2>1 DEF InPlace, Stored
    <2> QED BY <1>1, <2>1, <2>2, <2>3, GoesOn, RuleParts DEF RuleInv, Stages
  <1>4. CASE tmp.by # w
    <2>1. ~InPlace(w)
      BY <1>2, <1>4 DEF InPlace
    <2>2. /\ tmp' = tmp \/ \E c \in {editor[w].rules, Torn} : tmp' = [tmp EXCEPT !.rules = c]
          /\ file' \in {file, Torn}
      BY <1>4 DEF FillTmp
    <2>3. tmp' \in [rules : RuleSets \cup {Missing, Torn}, by : Editors \cup {NoEditor}]
      BY <1>2, <2>2 DEF RuleInv, RuleTypeOK
    <2> QED BY <1>1, <2>1, <2>2, <2>3, GoesOn, RuleParts DEF RuleInv, Stages
  <1> QED BY <1>3, <1>4

LEMMA RemoveFileKeeps ==
  ASSUME RuleInv, NEW w \in Editors, RemoveFile(w)
  PROVE  RuleInv'
  <1>1. /\ Step(w, "remove", "rename") /\ file' = Missing
        /\ UNCHANGED <<ruleMode, memory, tmp, rulesTold, clean>>
    BY DEF RemoveFile
  <1>2. /\ editor[w].pc = "remove" /\ editor'[w].pc = "rename"
        /\ editor'[w].rules = editor[w].rules
    BY <1>1, StageEffect DEF Step, RuleInv, Stages
  <1>3. InPlace(w) => InPlace(w)'
    BY <1>1, <1>2 DEF InPlace
  <1> QED BY <1>1, <1>3, GoesOn DEF RuleInv, RuleTypeOK, Stages

LEMMA RenameTmpKeeps ==
  ASSUME RuleInv, NEW w \in Editors, RenameTmp(w)
  PROVE  RuleInv'
  <1>1. /\ Step(w, "rename", "swap") /\ file' = tmp.rules /\ tmp' = NoTmp
        /\ UNCHANGED <<ruleMode, memory, rulesTold, clean>>
    BY DEF RenameTmp
  <1>2. /\ editor[w].pc = "rename" /\ editor'[w].pc = "swap"
        /\ editor'[w].rules = editor[w].rules
    BY <1>1, StageEffect DEF Step, RuleInv, Stages
  <1>3. InPlace(w) => InPlace(w)'
    BY <1>1, <1>2 DEF InPlace
  <1> QED BY <1>1, <1>3, GoesOn, RuleParts DEF RuleInv, Stages, NoTmp

LEMMA RuleFailures ==
  ASSUME RuleInv, NEW w \in Editors, WriteFails(w) \/ RenameFails(w)
  PROVE  RuleInv'
  <1>1. /\ editor' = [editor EXCEPT ![w] = AtRest]
        /\ editor[w].pc \in {"open", "fill", "remove", "rename"}
        /\ UNCHANGED <<ruleMode, memory, file, rulesTold>>
        /\ tmp' \in {tmp, NoTmp}
        /\ \/ clean' = FALSE
           \/ clean' = clean /\ editor[w].pc # "rename"
    BY DEF WriteFails, RenameFails, Fails
  <1>2. /\ editor' \in [Editors -> Editings] /\ editor'[w] = AtRest
        /\ \A v \in Editors : v # w => editor'[v] = editor[v]
    BY <1>1, EditorEffect, RestIsEditing DEF RuleInv
  <1>3. tmp' \in [rules : RuleSets \cup {Missing, Torn}, by : Editors \cup {NoEditor}]
    BY <1>1 DEF RuleInv, RuleTypeOK, NoTmp
  <1>4. clean' /\ InPlace(w) => memory' = rulesTold' /\ Stored' = rulesTold'
    BY <1>1 DEF InPlace, Stored
  <1>5. clean' \in BOOLEAN /\ (clean' => clean)
    <2>1. clean \in BOOLEAN
      BY DEF RuleInv, RuleTypeOK
    <2>2. CASE clean' = FALSE
      BY <2>2
    <2>3. CASE clean' = clean
      BY <2>1, <2>3
    <2> QED BY <1>1, <2>2, <2>3
  <1>6. /\ editor[w].pc # "idle" /\ editor'[w].pc = "idle"
        /\ memory' \in RuleSets /\ rulesTold' \in RuleSets
        /\ file' \in RuleSets \cup {Missing, Torn}
    BY <1>1, <1>2, RestIsEditing, RuleParts DEF RuleInv
  <1> QED BY <1>1, <1>2, <1>3, <1>4, <1>5, <1>6, IsOver

LEMMA SwapRulesKeeps ==
  ASSUME RuleInv, NEW w \in Editors, SwapRules(w)
  PROVE  RuleInv'
  <1>1. /\ Step(w, "swap", "idle") \/ Step(w, "reload", "idle")
        /\ memory' = editor[w].rules
        /\ UNCHANGED <<ruleMode, file, tmp, clean>>
    BY DEF SwapRules
  <1>2. /\ editor[w].pc \in {"swap", "reload"} /\ editor' = [editor EXCEPT ![w].pc = "idle"]
        /\ editor[w].pc = "swap" => rulesTold' = editor[w].rules
        /\ editor[w].pc = "reload" => rulesTold' = rulesTold
    BY DEF SwapRules, Step
  <1>3. /\ editor' \in [Editors -> Editings] /\ editor'[w].pc = "idle"
        /\ \A v \in Editors : v # w => editor'[v] = editor[v]
    BY <1>2, StageEffect DEF RuleInv, Stages
  <1>4. editor[w].rules \in RuleSets /\ rulesTold \in RuleSets
    BY RuleParts DEF RuleInv
  <1>5. InPlace(w) => memory' = rulesTold' /\ Stored' = rulesTold'
    <2>1. CASE editor[w].pc = "swap"
      BY <1>1, <1>2, <1>4, <2>1, RuleStoreAssumption DEF InPlace, Stored, RuleSets
    <2>2. CASE editor[w].pc = "reload"
      BY <1>1, <1>2, <2>2 DEF InPlace, Stored
    <2> QED BY <1>2, <2>1, <2>2
  <1>6. memory' \in RuleSets /\ rulesTold' \in RuleSets
    BY <1>1, <1>2, <1>4
  <1> QED BY <1>1, <1>2, <1>3, <1>5, <1>6, IsOver DEF RuleInv, RuleTypeOK

LEMMA BootRulesKeeps ==
  ASSUME RuleInv, BootRules
  PROVE  RuleInv'
  <1>1. /\ ruleMode = "down" /\ UNCHANGED <<file, tmp, editor, rulesTold, clean>>
        /\ file = Torn => ruleMode' = "failed" /\ memory' = memory
        /\ file # Torn => ruleMode' = "up" /\ memory' = Stored
    BY DEF BootRules
  <1>2. Working = {} /\ Working' = {}
    BY <1>1 DEF RuleInv, Working
  <1>3. memory' \in RuleSets /\ ruleMode' \in {"down", "up", "failed"}
    BY <1>1, RestIsEditing, RuleParts DEF RuleInv, Stored
  <1>4. RuleTypeOK'
    BY <1>1, <1>3 DEF RuleInv, RuleTypeOK
  <1>5. Stored' = Stored
    BY <1>1 DEF Stored
  <1>6. clean => Stored = rulesTold /\ file # Torn
    <2>1. clean => Stored = rulesTold
      BY <1>2 DEF RuleInv, OneChange
    <2>2. rulesTold # Torn /\ Missing # Torn
      BY RuleParts, RuleStoreAssumption DEF RuleInv, RuleSets
    <2> QED BY <2>1, <2>2 DEF Stored
  <1> QED BY <1>1, <1>2, <1>4, <1>5, <1>6 DEF RuleInv, OneChange

LEMMA ResetRulesKeeps ==
  ASSUME RuleInv, ResetRules
  PROVE  RuleInv'
  <1>1. /\ ruleMode' = "down" /\ memory' = NoRules
        /\ editor' = [w \in Editors |-> AtRest]
        /\ clean' = (clean /\ \A w \in Editors : editor[w].pc # "rename")
        /\ UNCHANGED <<file, tmp>>
    BY DEF ResetRules
  <1>2. Working' = {}
    BY <1>1, RestIsEditing DEF Working
  <1>3. /\ (\E w \in Editors : editor[w].pc = "swap" /\ file = editor[w].rules) => rulesTold' = file
        /\ ~(\E w \in Editors : editor[w].pc = "swap" /\ file = editor[w].rules)
              => rulesTold' = rulesTold
    BY DEF ResetRules
  <1>4. rulesTold' \in RuleSets
    BY <1>3, RuleParts DEF RuleInv
  <1>5. editor' \in [Editors -> Editings]
    BY <1>1, RestIsEditing
  <1>6. RuleTypeOK'
    BY <1>1, <1>4, <1>5, RestIsEditing, RuleTypesMake DEF RuleInv, RuleTypeOK
  <1>7. ASSUME clean'
        PROVE  Stored' = rulesTold'
    <2>1. clean /\ \A w \in Editors : editor[w].pc # "rename"
      BY <1>1, <1>7
    <2>2. CASE \E w \in Editors : editor[w].pc = "swap" /\ file = editor[w].rules
      <3>1. file \in RuleSets /\ rulesTold' = file
        BY <1>3, <2>2, RuleParts DEF RuleInv
      <3> QED BY <1>1, <3>1, RuleStoreAssumption DEF Stored, RuleSets
    <2>3. CASE ~\E w \in Editors : editor[w].pc = "swap" /\ file = editor[w].rules
      <3>1. Stored = rulesTold
        <4>1. CASE Working = {}
          BY <2>1, <4>1 DEF RuleInv, OneChange
        <4>2. CASE Working # {}
          <5>1. PICK w \in Editors : w \in Working
            BY <4>2 DEF Working
          <5>2. InPlace(w) /\ editor[w].pc \in Stages \ {"idle"}
            BY <2>1, <5>1, RuleParts DEF RuleInv, OneChange, Working
          <5>3. editor[w].pc # "rename" /\ (editor[w].pc = "swap" => file # editor[w].rules)
            BY <2>1, <2>3
          <5> QED BY <5>2, <5>3 DEF InPlace, Stages
        <4> QED BY <4>1, <4>2
      <3>2. rulesTold' = rulesTold
        BY <1>3, <2>3
      <3> QED BY <1>1, <3>1, <3>2 DEF Stored
    <2> QED BY <2>2, <2>3
  <1> QED BY <1>1, <1>2, <1>6, <1>7 DEF RuleInv, OneChange

LEMMA RuleStep ==
  ASSUME RuleInv, [RuleNext]_ruleVars
  PROVE  RuleInv'
  <1>1. ASSUME NEW w \in Editors, NEW r \in Rules, NEW v \in Versions \cup {Absent},
               Changes(w, r, v)
        PROVE  RuleInv'
    <2>1. [Stored EXCEPT ![r] = v] \in RuleSets
      <3>1. Stored \in RuleSets
        BY <1>1, RestIsEditing, RuleParts DEF Stored, RuleInv, Changes, Begins
      <3> QED BY <3>1 DEF RuleSets
    <2> QED BY <1>1, <2>1, BeginsKeeps DEF Changes
  <1>2. ASSUME NEW w \in Editors, ReloadRules(w)
        PROVE  RuleInv'
    <2>1. Stored \in RuleSets
      BY <1>2, RestIsEditing, RuleParts DEF Stored, RuleInv, ReloadRules, Begins
    <2> QED BY <1>2, <2>1, BeginsKeeps DEF ReloadRules
  <1>3. ASSUME NEW w \in Editors, EditorStep(w)
        PROVE  RuleInv'
    BY <1>3, OpenTmpKeeps, FillTmpKeeps, RuleFailures, RemoveFileKeeps, RenameTmpKeeps,
       SwapRulesKeeps DEF EditorStep
  <1>4. CASE UNCHANGED ruleVars
    BY <1>4 DEF ruleVars, RuleInv, RuleTypeOK, OneChange, Working, InPlace, Stored
  <1>5. CASE RuleNext
    <2>1. \/ \E w \in Editors : \/ \E r \in Rules, v \in Versions \cup {Absent} : Changes(w, r, v)
                                \/ ReloadRules(w) \/ EditorStep(w)
          \/ BootRules \/ ResetRules
      BY <1>5 DEF RuleNext, DeleteRule, AddRule, UpdateRule
    <2> QED BY <2>1, <1>1, <1>2, <1>3, BootRulesKeeps, ResetRulesKeeps
  <1> QED BY <1>4, <1>5

\* Nothing that a caller was told is stored is ever away, as long as changes
\* come one at a time.
THEOREM RuleInvariant == RuleSpec => []RuleInv
  <1>1. RuleInv /\ [RuleNext]_ruleVars => RuleInv'
    BY RuleStep
  <1> QED BY <1>1, RuleInitInv, PTL DEF RuleSpec

\* The state of the rules stays within its types.
THEOREM RuleTypeCorrect == RuleSpec => []RuleTypeOK
  <1>1. RuleInv => RuleTypeOK
    BY DEF RuleInv
  <1> QED BY <1>1, RuleInvariant, PTL

LEMMA PlacesKeep == RuleInv => RulesAreKept
  <1> SUFFICES ASSUME RuleInv, clean
               PROVE  /\ \/ Stored = rulesTold
                         \/ \E w \in Editors : /\ editor[w].pc = "swap"
                                               /\ file = editor[w].rules
                         \/ \E w \in Editors : /\ editor[w].pc = "rename" /\ file = Missing
                                               /\ tmp.rules = editor[w].rules
                      /\ ruleMode = "up" /\ Working = {} => memory = rulesTold
    BY DEF RulesAreKept
  <1>1. CASE Working = {}
    BY <1>1 DEF RuleInv, OneChange
  <1>2. CASE Working # {}
    <2>1. PICK w \in Editors : w \in Working
      BY <1>2 DEF Working
    <2>2. InPlace(w) /\ editor[w].pc \in Stages \ {"idle"}
      BY <2>1, RuleParts DEF RuleInv, OneChange, Working
    <2> QED BY <1>2, <2>2 DEF InPlace, Stages
  <1> QED BY <1>1, <1>2

\* What callers were told is stored is what the memory and the files have,
\* as long as changes come one at a time, whatever fails or is cut off.
THEOREM RulesStayKept == RuleSpec => []RulesAreKept
  BY PlacesKeep, RuleInvariant, PTL

-----------------------------------------------------------------------------
(* DisplayArbiter.                                                         *)

Steps == {"off", "bare", "create", "session", "present",
          "release", "tell", "destroy", "leave", "last"}
Taking == {"create", "session", "present", "release", "destroy", "leave"}

\* Scripts that took the display or are giving it back.
Takers == {s \in Scripts : step[s] \in Taking}

\* Lua owns the display as long as it is counted, and no more often than there
\* are scripts to give it back.
Counted == /\ owner = "lua" <=> lua_depth > 0
           /\ lua_depth <= Cardinality(Takers)

\* Emote owns the display: its picture is there, or about to be drawn.
Repaints == owner = "emote" => \/ screen = "emote" \/ overdrawn
                               \/ player.asked \/ player.paints
                               \/ \E s \in Scripts : step[s] \in {"tell", "last"}

DisplayInv == DisplayTypeOK /\ Counted /\ Repaints

LEMMA StepEffect ==
  ASSUME DisplayTypeOK, NEW s \in Scripts, NEW to \in Steps, step' = [step EXCEPT ![s] = to]
  PROVE  /\ step' \in [Scripts -> Steps] /\ step'[s] = to
         /\ \A r \in Scripts : r # s => step'[r] = step[r]
  BY DEF DisplayTypeOK, Steps

LEMMA ScriptsCount ==
  ASSUME NEW T \in SUBSET Scripts
  PROVE  /\ Cardinality(T) \in Nat
         /\ \A s \in Scripts : /\ s \notin T => Cardinality(T \cup {s}) = Cardinality(T) + 1
                               /\ s \in T => Cardinality(T \ {s}) = Cardinality(T) - 1
  <1>1. IsFiniteSet(T)
    BY ScriptsAssumption, FS_Subset
  <1> QED BY <1>1, FS_CardinalityType, FS_AddElement, FS_RemoveElement

LEMMA TakersAreScripts == Takers \in SUBSET Scripts /\ Takers' \in SUBSET Scripts
  BY DEF Takers

LEMMA DisplayInitInv == DisplayInit => DisplayInv
  <1> SUFFICES ASSUME DisplayInit PROVE DisplayInv
    OBVIOUS
  <1>1. DisplayTypeOK
    BY DEF DisplayInit, DisplayTypeOK
  <1>2. Counted
    BY TakersAreScripts, ScriptsCount DEF DisplayInit, Counted
  <1> QED BY <1>1, <1>2 DEF DisplayInv, DisplayInit, Repaints

\* A script moves on and the count stays: it is a taker after if it was before,
\* or becomes one.
LEMMA ScriptMoves ==
  ASSUME DisplayInv, NEW s \in Scripts, NEW to \in Steps, step' = [step EXCEPT ![s] = to],
         step[s] \in Taking => to \in Taking \/ lua_depth = 0, UNCHANGED <<owner, lua_depth>>
  PROVE  Counted'
  <1>1. step' \in [Scripts -> Steps] /\ step'[s] = to /\ \A r \in Scripts : r # s => step'[r] = step[r]
    BY StepEffect DEF DisplayInv
  <1>2. CASE lua_depth = 0
    <2>1. Cardinality(Takers') \in Nat
      BY TakersAreScripts, ScriptsCount
    <2> QED BY <1>2, <2>1 DEF DisplayInv, Counted
  <1>3. CASE lua_depth # 0
    <2>1. Takers' = Takers \/ (s \notin Takers /\ Takers' = Takers \cup {s})
      BY <1>1, <1>3 DEF Takers
    <2>2. Cardinality(Takers) \in Nat /\ Cardinality(Takers') \in Nat
      BY TakersAreScripts, ScriptsCount
    <2>3. Cardinality(Takers') >= Cardinality(Takers)
      BY <2>1, <2>2, TakersAreScripts, ScriptsCount
    <2> QED BY <2>2, <2>3 DEF DisplayInv, Counted, DisplayTypeOK
  <1> QED BY <1>2, <1>3

LEMMA GiveBackKeeps ==
  ASSUME DisplayInv, NEW s \in Scripts, NEW from \in {"release", "leave"},
         NEW telling \in {"tell", "last"}, NEW quiet \in {"bare", "off"},
         GiveBack(s, from, telling, quiet)
  PROVE  DisplayInv'
  <1> DEFINE to == IF lua_depth = 1 /\ owner = "lua" THEN telling ELSE quiet
  <1>1. /\ step[s] = from /\ step' = [step EXCEPT ![s] = to]
        /\ lua_depth' = IF lua_depth > 0 THEN lua_depth - 1 ELSE 0
        /\ owner' = IF lua_depth = 1 /\ owner = "lua" THEN "emote" ELSE owner
        /\ UNCHANGED <<hal_created, player, screen, overdrawn>>
    BY DEF GiveBack
  <1>2. to \in Steps /\ to \notin Taking
    BY DEF Steps, Taking
  <1> HIDE DEF to
  <1>3. step' \in [Scripts -> Steps] /\ step'[s] = to /\ \A r \in Scripts : r # s => step'[r] = step[r]
    BY <1>1, <1>2, StepEffect DEF DisplayInv
  <1>4. lua_depth \in Nat /\ owner \in {"emote", "lua"}
    BY DEF DisplayInv, DisplayTypeOK
  <1>5. DisplayTypeOK'
    BY <1>1, <1>3, <1>4 DEF DisplayInv, DisplayTypeOK, Steps
  <1>6. Counted'
    <2>1. s \in Takers /\ Takers' = Takers \ {s}
      BY <1>1, <1>2, <1>3 DEF Takers, Taking
    <2>2. Cardinality(Takers') = Cardinality(Takers) - 1 /\ Cardinality(Takers) \in Nat
      BY <2>1, TakersAreScripts, ScriptsCount
    <2>3. lua_depth <= Cardinality(Takers) /\ (owner = "lua" <=> lua_depth > 0)
      BY DEF DisplayInv, Counted
    <2>4. Cardinality(Takers') \in Nat
      BY TakersAreScripts, ScriptsCount
    <2>5. owner' = "lua" <=> lua_depth' > 0
      BY <1>1, <1>4, <2>3
    <2>6. lua_depth' <= Cardinality(Takers')
      BY <1>1, <1>4, <2>2, <2>3, <2>4
    <2> QED BY <2>5, <2>6 DEF Counted
  <1>7. Repaints'
    <2>1. CASE lua_depth = 1 /\ owner = "lua"
      BY <1>3, <2>1 DEF to, Repaints
    <2>2. CASE ~(lua_depth = 1 /\ owner = "lua")
      <3>1. owner' = owner
        BY <1>1, <2>2
      <3>2. \A r \in Scripts : step[r] \in {"tell", "last"} => step'[r] \in {"tell", "last"}
        BY <1>1, <1>3
      <3> QED BY <1>1, <3>1, <3>2 DEF DisplayInv, Repaints
    <2> QED BY <2>1, <2>2
  <1> QED BY <1>5, <1>6, <1>7 DEF DisplayInv

\* A script's own steps; the display stays whose it is.
LEMMA ScriptSteps ==
  ASSUME DisplayInv, NEW s \in Scripts,
         \/ ScriptStarts(s) \/ InitCreates(s) \/ InitFails(s) \/ Presents(s) \/ Drawn(s)
         \/ Deinit(s) \/ ScriptEnds(s) \/ Destroy(s)
         \/ Tell(s, "tell", "bare") \/ Tell(s, "last", "off")
  PROVE  DisplayInv'
  <1>1. PICK to \in Steps :
           /\ step' = [step EXCEPT ![s] = to]
           /\ step[s] \in Taking => to \in Taking \/ (owner # "lua" /\ step[s] = "session")
           /\ step[s] \in {"tell", "last"} => player'.asked
    <2>1. \/ /\ ScriptStarts(s) \/ InitCreates(s) \/ InitFails(s) \/ Presents(s) \/ Drawn(s)
                \/ Deinit(s) \/ Destroy(s)
             /\ \E to \in Taking \cup {"bare"} : Moves(s, step[s], to)
             /\ step[s] \notin {"tell", "last"}
             /\ step[s] = "off" \/ \E to \in Taking : Moves(s, step[s], to)
          \/ ScriptEnds(s)
          \/ Tell(s, "tell", "bare") \/ Tell(s, "last", "off")
      BY DEF ScriptStarts, InitCreates, InitFails, Presents, Drawn, Deinit, Destroy, Moves, Taking
    <2>2. CASE ScriptEnds(s)
      BY <2>2 DEF ScriptEnds, Steps, Taking
    <2>3. CASE Tell(s, "tell", "bare") \/ Tell(s, "last", "off")
      BY <2>3 DEF Tell, Moves, Steps, Taking, DisplayInv, DisplayTypeOK
    <2>4. CASE step[s] = "off" /\ step[s] \notin {"tell", "last"}
               /\ \E to \in Taking \cup {"bare"} : Moves(s, step[s], to)
      BY <2>4 DEF Moves, Steps, Taking
    <2>5. CASE step[s] \notin {"tell", "last"} /\ \E to \in Taking : Moves(s, step[s], to)
      BY <2>5 DEF Moves, Steps, Taking
    <2> QED BY <2>1, <2>2, <2>3, <2>4, <2>5
  <1>2. /\ UNCHANGED <<owner, lua_depth>> /\ hal_created' \in BOOLEAN
        /\ player' = player \/ player' = [player EXCEPT !.asked = TRUE]
        /\ \/ UNCHANGED <<screen, overdrawn>>
           \/ screen' = "lua" /\ overdrawn' = (owner # "lua")
    BY DEF ScriptStarts, InitCreates, InitFails, Presents, Drawn, Deinit, Destroy, ScriptEnds, Tell,
           DisplayInv, DisplayTypeOK
  <1>3. step' \in [Scripts -> Steps] /\ step'[s] = to /\ \A r \in Scripts : r # s => step'[r] = step[r]
    BY <1>1, StepEffect DEF DisplayInv
  <1>4. /\ player' \in [asked : BOOLEAN, paints : BOOLEAN] /\ player'.paints = player.paints
        /\ player.asked => player'.asked
    BY <1>2 DEF DisplayInv, DisplayTypeOK
  <1>5. screen' \in {"emote", "lua"}
    BY <1>2 DEF DisplayInv, DisplayTypeOK
  <1>6. DisplayTypeOK'
    BY <1>2, <1>3, <1>4, <1>5 DEF DisplayInv, DisplayTypeOK, Steps
  <1>7. Counted'
    <2>1. owner # "lua" => lua_depth = 0
      BY DEF DisplayInv, Counted, DisplayTypeOK
    <2> QED BY <1>1, <1>2, <2>1, ScriptMoves
  <1>8. Repaints'
    <2>1. CASE screen' = "lua" /\ overdrawn' = (owner # "lua")
      BY <1>2, <2>1 DEF Repaints
    <2>2. CASE UNCHANGED <<screen, overdrawn>>
      BY <1>1, <1>2, <1>3, <1>4, <2>2 DEF Repaints, DisplayInv
    <2> QED BY <1>2, <2>1, <2>2
  <1> QED BY <1>6, <1>7, <1>8 DEF DisplayInv

LEMMA InitAcquiresKeeps ==
  ASSUME DisplayInv, NEW s \in Scripts, InitAcquires(s)
  PROVE  DisplayInv'
  <1>1. /\ step[s] = "bare" /\ step' = [step EXCEPT ![s] = "create"]
        /\ lua_depth' = lua_depth + 1 /\ owner' = "lua"
        /\ UNCHANGED <<hal_created, player, screen, overdrawn>>
    BY DEF InitAcquires, Moves
  <1>2. step' \in [Scripts -> Steps] /\ step'[s] = "create" /\ \A r \in Scripts : r # s => step'[r] = step[r]
    BY <1>1, StepEffect DEF DisplayInv, Steps
  <1>3. DisplayTypeOK'
    BY <1>1, <1>2 DEF DisplayInv, DisplayTypeOK, Steps
  <1>4. Counted'
    <2>1. s \notin Takers /\ Takers' = Takers \cup {s}
      BY <1>1, <1>2 DEF Takers, Taking
    <2>2. Cardinality(Takers') = Cardinality(Takers) + 1 /\ Cardinality(Takers) \in Nat
      BY <2>1, TakersAreScripts, ScriptsCount
    <2> QED BY <1>1, <2>2 DEF DisplayInv, Counted, DisplayTypeOK
  <1> QED BY <1>1, <1>3, <1>4 DEF DisplayInv, Repaints

LEMMA EmoteSteps ==
  ASSUME DisplayInv, EmoteApplies \/ EmoteFlushes \/ EmotePaints
  PROVE  DisplayInv'
  <1>1. UNCHANGED <<owner, lua_depth, hal_created, step>>
    BY DEF EmoteApplies, EmoteFlushes, EmotePaints
  <1>2. Counted'
    BY <1>1 DEF DisplayInv, Counted, Takers
  <1>3. /\ player' \in [asked : BOOLEAN, paints : BOOLEAN]
        /\ \/ player'.asked /\ UNCHANGED <<screen, overdrawn>>
           \/ (owner = "emote" => player'.paints) /\ UNCHANGED <<screen, overdrawn>>
           \/ screen' = "emote" /\ overdrawn' = FALSE
    <2>1. player \in [asked : BOOLEAN, paints : BOOLEAN]
      BY DEF DisplayInv, DisplayTypeOK
    <2>2. CASE EmoteApplies
      BY <2>1, <2>2 DEF EmoteApplies
    <2>3. CASE EmoteFlushes
      <3>1. /\ player' = [asked |-> FALSE, paints |-> owner = "emote"]
            /\ UNCHANGED <<screen, overdrawn>>
        BY <2>3 DEF EmoteFlushes
      <3>2. (owner = "emote") \in BOOLEAN
        OBVIOUS
      <3> QED BY <3>1, <3>2
    <2>4. CASE EmotePaints
      BY <2>1, <2>4 DEF EmotePaints
    <2> QED BY <2>2, <2>3, <2>4
  <1>4. DisplayTypeOK'
    BY <1>1, <1>3 DEF DisplayInv, DisplayTypeOK
  <1>5. Repaints'
    BY <1>1, <1>3 DEF Repaints
  <1> QED BY <1>2, <1>4, <1>5 DEF DisplayInv

LEMMA DisplayStep ==
  ASSUME DisplayInv, [DisplayNext]_displayVars
  PROVE  DisplayInv'
  <1>1. CASE UNCHANGED displayVars
    BY <1>1 DEF displayVars, DisplayInv, DisplayTypeOK, Counted, Takers, Repaints
  <1>2. CASE EmoteApplies \/ EmoteFlushes \/ EmotePaints
    BY <1>2, EmoteSteps
  <1>3. ASSUME NEW s \in Scripts,
               GiveBack(s, "release", "tell", "bare") \/ GiveBack(s, "leave", "last", "off")
        PROVE  DisplayInv'
    BY <1>3, GiveBackKeeps
  <1> QED BY <1>1, <1>2, <1>3, ScriptSteps, InitAcquiresKeeps DEF DisplayNext

\* Lua owns the display exactly as long as scripts have to give it back, and
\* emote repaints what it takes back.
THEOREM DisplayInvariant == DisplaySpec => []DisplayInv
  <1>1. DisplayInv /\ [DisplayNext]_displayVars => DisplayInv'
    BY DisplayStep
  <1> QED BY <1>1, DisplayInitInv, PTL DEF DisplaySpec

\* The state of the display stays within its types.
THEOREM DisplayTypeCorrect == DisplaySpec => []DisplayTypeOK
  <1>1. DisplayInv => DisplayTypeOK
    BY DEF DisplayInv
  <1> QED BY <1>1, DisplayInvariant, PTL

LEMMA QuietIsBack == DisplayInv => EmoteComesBack
  <1> SUFFICES ASSUME DisplayInv, \A s \in Scripts : step[s] = "off",
                      player = [asked |-> FALSE, paints |-> FALSE]
               PROVE  owner = "emote" /\ (screen = "emote" \/ overdrawn)
    BY DEF EmoteComesBack
  <1>1. Takers = {}
    BY DEF Takers, Taking
  <1>2. lua_depth = 0
    BY <1>1, FS_EmptySet DEF DisplayInv, DisplayTypeOK, Counted
  <1>3. owner = "emote"
    BY <1>2 DEF DisplayInv, DisplayTypeOK, Counted
  <1> QED BY <1>3 DEF DisplayInv, Repaints

\* When no script is left and nothing is to be drawn, the display is emote's
\* and shows its picture, unless a script drew over it late.
THEOREM EmoteAlwaysComesBack == DisplaySpec => []EmoteComesBack
  BY QuietIsBack, DisplayInvariant, PTL

-----------------------------------------------------------------------------
(* TelegramLink.                                                           *)

Stations == {"none", "check", "ask", "wait", "handle"}
Gates == {"none", "start", "undo", "stop", "overdue"}
Updates == 1..MaxId
Polling == [pc : Stations, bot : Bots \cup {"none"}, offset : 0..(MaxId + 1),
            answer : Seq(Updates)]

ServerTypes == /\ sent \in [Bots -> 0..MaxId] /\ kept \in [Bots -> SUBSET Updates]
               /\ \A b \in Bots : \A u \in kept[b] : u <= sent[b]
PollTypes == /\ token \in Bots /\ offset \in 0..(MaxId + 1)
             /\ poll \in Polling /\ (poll.pc \in {"wait", "handle"} => poll.bot \in Bots)
             /\ mixed \in BOOLEAN /\ twice \in BOOLEAN
SeenTypes == seen \in Seq(Nat) /\ Len(seen) <= SeenSize
TaskTypes == /\ stopping \in BOOLEAN /\ saver \in BOOLEAN /\ late \in BOOLEAN
             /\ savers.waiting \in Nat /\ savers.busy \in Nat
             /\ savers = [waiting |-> savers.waiting, busy |-> savers.busy]
             /\ jobs \in -1..QueueSize /\ gate \in Gates
LinkTypes == ServerTypes /\ PollTypes /\ SeenTypes /\ TaskTypes

\* The updates of an answer come in order, and are some that were sent.
Sorted == poll.pc = "handle" =>
             /\ \A i, j \in DOMAIN poll.answer : i < j => poll.answer[i] < poll.answer[j]
             /\ \A i \in DOMAIN poll.answer : poll.answer[i] <= sent[poll.bot]

\* The offset passes nothing that was not handled; a poll under way asks from
\* it, of the same bot, and its answer leaves out nothing but what was handled.
Followed ==
    ~mixed =>
       /\ \A b \in Bots : \A u \in 1..sent[b] : u \in kept[b] \/ <<b, u>> \in handled
       /\ offset <= sent[token] + 1
       /\ \A u \in 1..sent[token] : u < offset => <<token, u>> \in handled
       /\ poll.pc \in {"ask", "wait"} => poll.offset = offset
       /\ poll.pc \in {"wait", "handle"} => poll.bot = token
       /\ poll.pc = "handle" => \A i \in DOMAIN poll.answer :
             /\ offset <= poll.answer[i]
             /\ \A u \in 1..poll.answer[i] : \/ <<token, u>> \in handled
                                             \/ \E j \in DOMAIN poll.answer : poll.answer[j] = u

\* What was published since the offset began lies before the offset.
OncePublished == ~mixed => /\ \A p \in published : \E u \in Updates : p = <<token, u>> /\ u < offset
                           /\ ~twice

\* As long as no start follows a stop that timed out, there is one attachment
\* task at most, with its queue, and none where a start begins.
Attended ==
    ~late => /\ savers.waiting + savers.busy <= 1
             /\ saver <=> savers.waiting + savers.busy > 0
             /\ saver => jobs # NoQueue
             /\ gate = "none" /\ poll.pc = "none" => ~saver
             /\ gate = "none" /\ poll.pc # "none" => ~stopping
             /\ gate = "start" => ~stopping /\ poll.pc = "none"
             /\ gate = "undo" => poll.pc = "none"

LinkInv == LinkTypes /\ Sorted /\ Followed /\ OncePublished /\ Attended

\* What the steps do to the polls.
PollKeeps == UNCHANGED <<serverVars, token, offset, seen, poll, handled, published, twice, mixed>>
TaskKeeps == UNCHANGED <<stopping, savers, saver, jobs, gate, late>>

LEMMA PollFields ==
  ASSUME PollTypes
  PROVE  /\ poll.pc \in Stations /\ poll.bot \in Bots \cup {"none"}
         /\ poll.offset \in 0..(MaxId + 1) /\ poll.answer \in Seq(Updates)
         /\ NoPoll \in Polling /\ NoPoll.pc = "none"
         /\ [NoPoll EXCEPT !.pc = "check"] \in Polling
         /\ [NoPoll EXCEPT !.pc = "check"].pc = "check"
         /\ [NoPoll EXCEPT !.pc = "check"].answer = <<>>
  <1>1. NoPoll \in Polling /\ NoPoll.answer = <<>> /\ NoPoll.pc = "none"
    BY LinkAssumption DEF NoPoll, Polling, Stations
  <1>2. [NoPoll EXCEPT !.pc = "check"] \in Polling
    BY <1>1 DEF Polling, Stations
  <1> QED BY <1>1, <1>2 DEF PollTypes, Polling

LEMMA LinkInitInv == LinkInit => LinkInv
  <1> SUFFICES ASSUME LinkInit PROVE LinkInv
    OBVIOUS
  <1>1. /\ sent = [b \in Bots |-> 0] /\ kept = [b \in Bots |-> {}] /\ token \in Bots
        /\ stopping = FALSE /\ offset = 0 /\ seen = <<>> /\ poll = NoPoll
        /\ savers = [waiting |-> 0, busy |-> 0] /\ saver = FALSE /\ jobs = -1 /\ gate = "none"
        /\ handled = {} /\ published = {} /\ twice = FALSE /\ mixed = FALSE /\ late = FALSE
    BY DEF LinkInit, NoQueue
  <1>2. NoPoll \in Polling /\ NoPoll.pc = "none"
    BY LinkAssumption DEF NoPoll, Polling, Stations
  <1>3. LinkTypes
    <2>1. ServerTypes
      <3>1. 0 \in 0..MaxId
        BY LinkAssumption
      <3>2. \A b \in Bots : kept[b] = {}
        BY <1>1
      <3>3. sent \in [Bots -> 0..MaxId] /\ kept \in [Bots -> SUBSET Updates]
        BY <1>1, <3>1
      <3> QED BY <3>2, <3>3 DEF ServerTypes
    <2>2. PollTypes
      <3>1. 0 \in 0..(MaxId + 1)
        BY LinkAssumption
      <3>2. poll.pc = "none"
        BY <1>1, <1>2
      <3> QED BY <1>1, <1>2, <3>1, <3>2 DEF PollTypes
    <2>3. SeenTypes
      <3>1. seen \in Seq(Nat) /\ Len(seen) = 0 /\ SeenSize \in Nat
        BY <1>1, LinkAssumption
      <3> QED BY <3>1 DEF SeenTypes
    <2>4. TaskTypes
      <3>1. -1 \in -1..QueueSize
        BY LinkAssumption
      <3>2. savers.waiting = 0 /\ savers.busy = 0
        BY <1>1
      <3> QED BY <1>1, <3>1, <3>2 DEF TaskTypes, Gates
    <2> QED BY <2>1, <2>2, <2>3, <2>4 DEF LinkTypes
  <1>4. Sorted /\ OncePublished
    BY <1>1, <1>2 DEF Sorted, OncePublished
  <1>5. Followed
    BY <1>1, <1>2 DEF Followed
  <1>6. Attended
    BY <1>1, <1>2 DEF Attended
  <1> QED BY <1>3, <1>4, <1>5, <1>6 DEF LinkInv

LEMMA InOrderSorts ==
  ASSUME NEW S \in SUBSET Updates, NEW s \in InOrder(S)
  PROVE  /\ s \in Seq(Updates)
         /\ \A i \in DOMAIN s : s[i] \in S
         /\ \A u \in S : \E i \in DOMAIN s : s[i] = u
         /\ \A i, j \in DOMAIN s : i < j => s[i] < s[j]
  <1>1. IsFiniteSet(Updates)
    BY LinkAssumption, FS_Interval DEF Updates
  <1>2. Cardinality(S) \in Nat
    BY <1>1, FS_Subset, FS_CardinalityType
  <1>3. s \in [1..Cardinality(S) -> S]
    BY DEF InOrder
  <1>4. s \in Seq(Updates)
    BY <1>2, <1>3
  <1> QED BY <1>3, <1>4 DEF InOrder

\* The tail of a sorted answer.
LEMMA TailSorts ==
  ASSUME NEW s \in Seq(Updates), s # <<>>,
         \A i, j \in DOMAIN s : i < j => s[i] < s[j]
  PROVE  /\ Tail(s) \in Seq(Updates) /\ Head(s) \in Updates
         /\ Head(s) = s[1] /\ 1 \in DOMAIN s
         /\ \A i \in DOMAIN Tail(s) : /\ i \in Nat \ {0} /\ i + 1 \in DOMAIN s
                                      /\ Tail(s)[i] = s[i + 1] /\ Head(s) < Tail(s)[i]
         /\ \A i, j \in DOMAIN Tail(s) : i < j => Tail(s)[i] < Tail(s)[j]
         /\ \A j \in DOMAIN s : s[j] = Head(s) \/ \E i \in DOMAIN Tail(s) : Tail(s)[i] = s[j]
  <1>1. /\ Tail(s) \in Seq(Updates) /\ Head(s) \in Updates /\ Head(s) = s[1]
        /\ Len(s) \in Nat \ {0} /\ DOMAIN s = 1..Len(s)
        /\ Len(Tail(s)) = Len(s) - 1 /\ DOMAIN Tail(s) = 1..Len(Tail(s))
        /\ \A i \in 1..Len(Tail(s)) : Tail(s)[i] = s[i + 1]
    BY HeadTailProperties, EmptySeq
  <1>2. \A i \in DOMAIN Tail(s) : /\ i \in Nat \ {0} /\ i + 1 \in DOMAIN s /\ 1 < i + 1
                                  /\ Tail(s)[i] = s[i + 1]
    BY <1>1
  <1>3. \A i \in DOMAIN Tail(s) : s[1] < s[i + 1]
    BY <1>1, <1>2
  <1>4. \A i, j \in DOMAIN Tail(s) : i < j => Tail(s)[i] < Tail(s)[j]
    <2> SUFFICES ASSUME NEW i \in DOMAIN Tail(s), NEW j \in DOMAIN Tail(s), i < j
                 PROVE  Tail(s)[i] < Tail(s)[j]
      OBVIOUS
    <2>1. i + 1 < j + 1
      BY <1>2
    <2> QED BY <1>2, <2>1
  <1>5. ASSUME NEW j \in DOMAIN s, j # 1
        PROVE  \E i \in DOMAIN Tail(s) : Tail(s)[i] = s[j]
    <2>1. j - 1 \in DOMAIN Tail(s) /\ (j - 1) + 1 = j
      BY <1>1, <1>5
    <2> QED BY <1>2, <2>1
  <1> QED BY <1>1, <1>2, <1>3, <1>4, <1>5

\* The steps that say where the poll is and change nothing it has handled.
LEMMA PollBeginsKeeps ==
  ASSUME LinkInv, PollBegins \/ PollEnds \/ Handled
  PROVE  LinkInv'
  <1>1. /\ UNCHANGED <<serverVars, token, offset, seen, linkTasks, linkGhosts>>
        /\ \/ poll.pc = "check" /\ ~stopping /\ poll' = [poll EXCEPT !.pc = "ask", !.offset = offset]
           \/ poll.pc = "check" /\ stopping /\ poll' = NoPoll
           \/ poll.pc = "handle" /\ poll' = [NoPoll EXCEPT !.pc = "check"]
    BY DEF PollBegins, PollEnds, Handled, Polls
  <1>2. /\ poll' \in Polling
        /\ \/ poll.pc = "check" /\ ~stopping /\ poll'.pc = "ask" /\ poll'.offset = offset
           \/ poll.pc = "check" /\ stopping /\ poll'.pc = "none"
           \/ poll.pc = "handle" /\ poll'.pc = "check"
    <2>1. PollTypes
      BY DEF LinkInv, LinkTypes
    <2>2. CASE poll' = [poll EXCEPT !.pc = "ask", !.offset = offset] /\ poll.pc = "check" /\ ~stopping
      BY <2>1, <2>2 DEF PollTypes, Polling, Stations
    <2> QED BY <1>1, <2>1, <2>2, PollFields
  <1>3. /\ UNCHANGED <<sent, kept, token, offset, seen, stopping, savers, saver, jobs, gate,
                       handled, published, twice, mixed, late>>
    BY <1>1 DEF serverVars, linkTasks, linkGhosts
  <1>4. LinkTypes'
    BY <1>2, <1>3 DEF LinkInv, LinkTypes, ServerTypes, PollTypes, SeenTypes, TaskTypes
  <1>5. Sorted' /\ OncePublished'
    BY <1>2, <1>3 DEF LinkInv, Sorted, OncePublished
  <1>6. Followed'
    BY <1>2, <1>3 DEF LinkInv, Followed
  <1>7. Attended'
    BY <1>2, <1>3 DEF LinkInv, Attended
  <1> QED BY <1>4, <1>5, <1>6, <1>7 DEF LinkInv

LEMMA AskKeeps ==
  ASSUME LinkInv, Ask
  PROVE  LinkInv'
  <1>1. /\ poll.pc = "ask" /\ UNCHANGED <<sent, token, offset, seen, stopping, savers, saver, jobs,
                                          gate, handled, published, twice, mixed, late>>
        /\ \/ /\ poll' = [poll EXCEPT !.pc = "wait", !.bot = token]
              /\ kept' = [kept EXCEPT ![token] = {u \in @ : u >= poll.offset}]
           \/ poll' = [NoPoll EXCEPT !.pc = "check"] /\ kept' = kept
    BY DEF Ask, Polls, linkTasks, linkGhosts
  <1>2. ServerTypes /\ PollTypes /\ token \in Bots
    BY DEF LinkInv, LinkTypes, PollTypes
  <1>3. /\ poll' \in Polling
        /\ \/ poll'.pc = "wait" /\ poll'.bot = token /\ poll'.offset = poll.offset
           \/ poll'.pc = "check" /\ kept' = kept
    <2>1. CASE poll' = [poll EXCEPT !.pc = "wait", !.bot = token]
      BY <1>2, <2>1 DEF PollTypes, Polling, Stations
    <2>2. CASE poll' = [NoPoll EXCEPT !.pc = "check"] /\ kept' = kept
      BY <1>2, <2>2, PollFields
    <2> QED BY <1>1, <2>1, <2>2
  <1>4. /\ kept' \in [Bots -> SUBSET Updates]
        /\ \A b \in Bots : kept'[b] \subseteq kept[b]
        /\ \A b \in Bots : \A u \in kept[b] : u \in kept'[b] \/ (b = token /\ ~(u >= poll.offset))
    BY <1>1, <1>2 DEF ServerTypes
  <1>5. LinkTypes'
    <2>1. ServerTypes'
      BY <1>1, <1>2, <1>4 DEF ServerTypes
    <2>2. PollTypes'
      BY <1>1, <1>2, <1>3 DEF PollTypes
    <2>3. SeenTypes' /\ TaskTypes'
      BY <1>1 DEF LinkInv, LinkTypes, SeenTypes, TaskTypes
    <2> QED BY <2>1, <2>2, <2>3 DEF LinkTypes
  <1>6. Sorted' /\ OncePublished'
    BY <1>1, <1>3 DEF LinkInv, Sorted, OncePublished
  <1>7. ASSUME ~mixed
        PROVE  Followed'
    <2>1. /\ \A b \in Bots : \A u \in 1..sent[b] : u \in kept[b] \/ <<b, u>> \in handled
          /\ \A u \in 1..sent[token] : u < offset => <<token, u>> \in handled
          /\ offset <= sent[token] + 1 /\ poll.offset = offset
      BY <1>1, <1>7 DEF LinkInv, Followed
    <2>2. offset \in Nat
      BY <1>2, LinkAssumption DEF PollTypes
    <2>3. ASSUME NEW b \in Bots, NEW u \in 1..sent[b]
          PROVE  u \in kept'[b] \/ <<b, u>> \in handled
      <3>1. u \in Nat
        BY <1>2, LinkAssumption DEF ServerTypes
      <3> QED BY <1>4, <2>1, <2>2, <3>1
    <2> QED BY <1>1, <1>3, <2>1, <2>3 DEF Followed
  <1>8. Followed'
    BY <1>1, <1>7 DEF Followed
  <1>9. Attended'
    BY <1>1, <1>3 DEF LinkInv, Attended
  <1> QED BY <1>5, <1>6, <1>8, <1>9 DEF LinkInv

LEMMA AnswerKeeps ==
  ASSUME LinkInv, Answer
  PROVE  LinkInv'
  <1> DEFINE new == {u \in kept[poll.bot] : u >= poll.offset}
  <1>1. /\ poll.pc = "wait" /\ UNCHANGED <<sent, kept, token, offset, seen, stopping, savers, saver,
                                           jobs, gate, handled, published, twice, mixed, late>>
        /\ \/ poll' = [NoPoll EXCEPT !.pc = "check"]
           \/ \E answer \in InOrder(new) : poll' = [poll EXCEPT !.pc = "handle", !.answer = answer]
    BY DEF Answer, Polls, serverVars, linkTasks, linkGhosts
  <1>2. ServerTypes /\ PollTypes /\ token \in Bots /\ poll.bot \in Bots
    BY <1>1 DEF LinkInv, LinkTypes, PollTypes
  <1>3. new \in SUBSET Updates
    BY <1>2 DEF ServerTypes
  <1>4. SeenTypes' /\ TaskTypes' /\ ServerTypes' /\ OncePublished'
    BY <1>1 DEF LinkInv, LinkTypes, SeenTypes, TaskTypes, ServerTypes, OncePublished
  <1>5. CASE poll' = [NoPoll EXCEPT !.pc = "check"]
    <2>1. poll' \in Polling /\ poll'.pc = "check"
      BY <1>2, <1>5, PollFields
    <2>2. LinkTypes'
      BY <1>1, <1>2, <1>4, <2>1 DEF LinkTypes, PollTypes
    <2>3. Sorted' /\ Followed' /\ Attended'
      BY <1>1, <2>1 DEF LinkInv, Sorted, Followed, Attended
    <2> QED BY <1>4, <2>2, <2>3 DEF LinkInv
  <1>6. ASSUME NEW answer \in InOrder(new), poll' = [poll EXCEPT !.pc = "handle", !.answer = answer]
        PROVE  LinkInv'
    <2>1. /\ answer \in Seq(Updates)
          /\ \A i \in DOMAIN answer : answer[i] \in new
          /\ \A u \in new : \E i \in DOMAIN answer : answer[i] = u
          /\ \A i, j \in DOMAIN answer : i < j => answer[i] < answer[j]
      <3> HIDE DEF new
      <3> QED BY <1>3, InOrderSorts
    <2>2. poll' \in Polling /\ poll'.pc = "handle" /\ poll'.answer = answer /\ poll'.bot = poll.bot
      BY <1>2, <1>6, <2>1 DEF PollTypes, Polling, Stations
    <2>3. LinkTypes'
      BY <1>1, <1>2, <1>4, <2>2 DEF LinkTypes, PollTypes
    <2>4. Sorted'
      BY <1>1, <1>2, <2>1, <2>2 DEF Sorted, ServerTypes
    <2>5. ASSUME ~mixed
          PROVE  Followed'
      <3>1. /\ \A b \in Bots : \A u \in 1..sent[b] : u \in kept[b] \/ <<b, u>> \in handled
            /\ \A u \in 1..sent[token] : u < offset => <<token, u>> \in handled
            /\ offset <= sent[token] + 1 /\ poll.offset = offset /\ poll.bot = token
        BY <1>1, <2>5 DEF LinkInv, Followed
      <3>2. offset \in Nat /\ sent[token] \in Nat
        BY <1>2, LinkAssumption DEF PollTypes, ServerTypes
      <3>3. ASSUME NEW i \in DOMAIN answer
            PROVE  /\ offset <= answer[i]
                   /\ \A u \in 1..answer[i] : \/ <<token, u>> \in handled
                                              \/ \E j \in DOMAIN answer : answer[j] = u
        <4>1. answer[i] \in kept[token] /\ answer[i] >= offset
          BY <2>1, <3>1
        <4>2. answer[i] \in Nat /\ answer[i] <= sent[token]
          BY <1>2, <4>1, LinkAssumption DEF ServerTypes, Updates
        <4>3. ASSUME NEW u \in 1..answer[i], <<token, u>> \notin handled
              PROVE  \E j \in DOMAIN answer : answer[j] = u
          <5>1. u \in Nat /\ u \in 1..sent[token]
            BY <3>2, <4>2
          <5>2. u \in kept[token]
            BY <1>2, <3>1, <4>3, <5>1
          <5>3. u >= offset
            BY <3>1, <3>2, <4>3, <5>1
          <5> QED BY <2>1, <3>1, <5>2, <5>3
        <4> QED BY <3>2, <4>1, <4>2, <4>3
      <3> QED BY <1>1, <2>2, <3>1, <3>3 DEF Followed
    <2>6. Followed'
      BY <1>1, <2>5 DEF Followed
    <2>7. Attended'
      BY <1>1, <2>2 DEF LinkInv, Attended
    <2> QED BY <1>4, <2>3, <2>4, <2>6, <2>7 DEF LinkInv
  <1> QED BY <1>1, <1>5, <1>6

\* The ids remembered: the latest first, and no more than there is room for.
LEMMA SeenBounded ==
  ASSUME NEW s \in Seq(Nat), Len(s) <= SeenSize, NEW u \in Nat, NEW n,
         n = IF Len(s) < SeenSize THEN Len(s) + 1 ELSE SeenSize
  PROVE  /\ SubSeq(<<u>> \o s, 1, n) \in Seq(Nat)
         /\ Len(SubSeq(<<u>> \o s, 1, n)) <= SeenSize
  <1>1. <<u>> \o s \in Seq(Nat) /\ Len(<<u>> \o s) = Len(s) + 1 /\ Len(s) \in Nat
    OBVIOUS
  <1>2. n \in Nat /\ n <= SeenSize /\ n <= Len(s) + 1 /\ n >= 1
    BY <1>1, LinkAssumption
  <1> QED BY <1>1, <1>2, SubSeqProperties

LEMMA HandleKeeps ==
  ASSUME LinkInv, Handle
  PROVE  LinkInv'
  <1> DEFINE u == Head(poll.answer)
             rest == Tail(poll.answer)
             known == \E i \in 1..Len(seen) : seen[i] = u
  <1>1. /\ poll.pc = "handle" /\ poll.answer # <<>>
        /\ poll' = [poll EXCEPT !.answer = Tail(@)]
        /\ offset' = Moved(u)
        /\ seen' = IF known THEN seen
                   ELSE SubSeq(<<u>> \o seen, 1, IF Len(seen) < SeenSize THEN Len(seen) + 1 ELSE SeenSize)
        /\ handled' = handled \cup {<<poll.bot, u>>}
        /\ jobs' = jobs \/ Queued
        /\ \/ /\ twice' = (twice \/ <<poll.bot, u>> \in published)
              /\ published' = published \cup {<<poll.bot, u>>}
           \/ UNCHANGED <<twice, published>>
        /\ UNCHANGED <<sent, kept, token, stopping, savers, saver, gate, mixed, late>>
    BY DEF Handle, Polls, serverVars
  <1>2. ServerTypes /\ PollTypes /\ token \in Bots /\ poll.bot \in Bots /\ poll.answer \in Seq(Updates)
    BY <1>1, PollFields DEF LinkInv, LinkTypes, PollTypes
  <1>3. \A i, j \in DOMAIN poll.answer : i < j => poll.answer[i] < poll.answer[j]
    BY <1>1 DEF LinkInv, Sorted
  <1>4. /\ rest \in Seq(Updates) /\ u \in Updates /\ u = poll.answer[1] /\ 1 \in DOMAIN poll.answer
        /\ \A i \in DOMAIN rest : /\ i \in Nat \ {0} /\ i + 1 \in DOMAIN poll.answer
                                  /\ rest[i] = poll.answer[i + 1] /\ u < rest[i]
        /\ \A i, j \in DOMAIN rest : i < j => rest[i] < rest[j]
        /\ \A j \in DOMAIN poll.answer : poll.answer[j] = u \/ \E i \in DOMAIN rest : rest[i] = poll.answer[j]
    BY <1>1, <1>2, <1>3, TailSorts
  <1>5. /\ poll' \in Polling /\ poll'.pc = "handle" /\ poll'.answer = rest /\ poll'.bot = poll.bot
    BY <1>1, <1>2, <1>4 DEF PollTypes, Polling
  <1> HIDE DEF u, rest, known
  <1>6. u \in 1..MaxId /\ u \in Nat /\ offset \in Nat /\ offset <= MaxId + 1
    BY <1>2, <1>4, LinkAssumption DEF Updates, PollTypes
  <1>7. LinkTypes'
    <2>1. offset' \in 0..(MaxId + 1)
      BY <1>1, <1>6, LinkAssumption DEF Moved
    <2>2. twice' \in BOOLEAN
      BY <1>1, <1>2 DEF PollTypes
    <2>3. PollTypes'
      BY <1>1, <1>2, <1>5, <2>1, <2>2 DEF PollTypes
    <2>4. SeenTypes'
      <3>1. seen \in Seq(Nat) /\ Len(seen) <= SeenSize
        BY DEF LinkInv, LinkTypes, SeenTypes
      <3> QED BY <1>1, <1>6, <3>1, SeenBounded DEF SeenTypes
    <2>5. TaskTypes'
      BY <1>1, LinkAssumption DEF LinkInv, LinkTypes, TaskTypes, Queued, NoQueue
    <2>6. ServerTypes'
      BY <1>1, <1>2 DEF ServerTypes
    <2> QED BY <2>3, <2>4, <2>5, <2>6 DEF LinkTypes
  <1>8. Sorted'
    BY <1>1, <1>4, <1>5 DEF LinkInv, Sorted
  <1>9. ASSUME ~mixed
        PROVE  /\ poll.bot = token
               /\ offset <= u /\ offset' = u + 1
               /\ \A v \in 1..u : v = u \/ <<token, v>> \in handled
    <2>1. /\ poll.bot = token /\ offset <= u
          /\ \A v \in 1..u : \/ <<token, v>> \in handled
                             \/ \E j \in DOMAIN poll.answer : poll.answer[j] = v
      BY <1>1, <1>4, <1>9 DEF LinkInv, Followed
    <2>2. offset' = u + 1
      BY <1>1, <1>6, <2>1 DEF Moved
    <2>3. ASSUME NEW v \in 1..u, v # u, <<token, v>> \notin handled
          PROVE  FALSE
      <3>1. v \in Nat /\ v < u
        BY <1>6, <2>3
      <3>2. PICK j \in DOMAIN poll.answer : poll.answer[j] = v
        BY <2>1, <2>3
      <3>3. PICK i \in DOMAIN rest : rest[i] = v
        BY <1>4, <2>3, <3>2
      <3>4. u < v
        BY <1>4, <3>3
      <3> QED BY <1>6, <3>1, <3>4
    <2> QED BY <2>1, <2>2, <2>3
  <1>10. ASSUME ~mixed
         PROVE  Followed'
    <2>1. /\ \A b \in Bots : \A v \in 1..sent[b] : v \in kept[b] \/ <<b, v>> \in handled
          /\ \A i \in DOMAIN poll.answer :
                \A v \in 1..poll.answer[i] : \/ <<token, v>> \in handled
                                             \/ \E j \in DOMAIN poll.answer : poll.answer[j] = v
      BY <1>1, <1>10 DEF LinkInv, Followed
    <2>2. u <= sent[token] /\ sent[token] \in Nat
      BY <1>1, <1>2, <1>4, <1>9, <1>10, LinkAssumption DEF LinkInv, Sorted, ServerTypes
    <2>3. ASSUME NEW v \in 1..sent[token], v < u + 1
          PROVE  <<token, v>> \in handled'
      <3>1. v \in 1..u
        BY <1>6, <2>2, <2>3
      <3> QED BY <1>1, <1>9, <1>10, <3>1
    <2>4. ASSUME NEW i \in DOMAIN rest
          PROVE  /\ u + 1 <= rest[i]
                 /\ \A v \in 1..rest[i] : \/ <<token, v>> \in handled'
                                          \/ \E j \in DOMAIN rest : rest[j] = v
      <3>1. rest[i] \in Nat /\ u < rest[i]
        BY <1>4, <2>4, LinkAssumption DEF Updates
      <3>2. ASSUME NEW v \in 1..rest[i], <<token, v>> \notin handled'
            PROVE  \E j \in DOMAIN rest : rest[j] = v
        <4>1. v # u /\ <<token, v>> \notin handled
          BY <1>1, <1>9, <1>10, <3>2
        <4>2. PICK j \in DOMAIN poll.answer : poll.answer[j] = v
          BY <1>4, <2>1, <2>4, <3>2, <4>1
        <4> QED BY <1>4, <4>1, <4>2
      <3> QED BY <1>6, <3>1, <3>2
    <2>5. \A b \in Bots : \A v \in 1..sent'[b] : v \in kept'[b] \/ <<b, v>> \in handled'
      BY <1>1, <2>1
    <2>6. /\ offset' <= sent'[token'] + 1
          /\ \A v \in 1..sent'[token'] : v < offset' => <<token', v>> \in handled'
      BY <1>1, <1>6, <1>9, <1>10, <2>2, <2>3
    <2>7. poll'.pc = "handle" /\ poll'.bot = token' /\ poll'.answer = rest
      BY <1>1, <1>5, <1>9, <1>10
    <2>8. \A i \in DOMAIN poll'.answer :
             /\ offset' <= poll'.answer[i]
             /\ \A v \in 1..poll'.answer[i] :
                   \/ <<token', v>> \in handled'
                   \/ \E j \in DOMAIN poll'.answer : poll'.answer[j] = v
      BY <1>1, <1>9, <1>10, <2>4, <2>7, ZenonT(40)
    <2> QED BY <2>5, <2>6, <2>7, <2>8 DEF Followed
  <1>11. Followed'
    BY <1>1, <1>10 DEF Followed
  <1>12. ASSUME ~mixed
         PROVE  OncePublished'
    <2>1. (\A p \in published : \E v \in Updates : p = <<token, v>> /\ v < offset) /\ ~twice
      BY <1>12 DEF LinkInv, OncePublished
    <2>2. <<token, u>> \notin published
      <3>1. ASSUME NEW v \in Updates, <<token, u>> = <<token, v>>, v < offset
            PROVE  FALSE
        BY <1>6, <1>9, <1>12, <3>1
      <3> QED BY <2>1, <3>1
    <2>3. ASSUME NEW p \in published'
          PROVE  \E v \in Updates : p = <<token, v>> /\ v < u + 1
      <3>1. CASE p = <<token, u>>
        BY <1>4, <1>6, <3>1
      <3>2. CASE p \in published
        <4>1. PICK v \in Updates : p = <<token, v>> /\ v < offset
          BY <2>1, <3>2
        <4>2. v < u + 1
          BY <1>6, <1>9, <1>12, <4>1, LinkAssumption DEF Updates
        <4> QED BY <4>1, <4>2
      <3> QED BY <1>1, <1>9, <1>12, <2>3, <3>1, <3>2
    <2>4. ~twice'
      BY <1>1, <1>9, <1>12, <2>1, <2>2
    <2> QED BY <1>1, <1>9, <1>12, <2>3, <2>4 DEF OncePublished
  <1>13. OncePublished'
    BY <1>1, <1>12 DEF OncePublished
  <1>14. Attended'
    <2>1. jobs # NoQueue => jobs' # NoQueue
      BY <1>1 DEF Queued, NoQueue, LinkInv, LinkTypes, TaskTypes
    <2> QED BY <1>1, <1>5, <2>1 DEF LinkInv, Attended
  <1> QED BY <1>7, <1>8, <1>11, <1>13, <1>14 DEF LinkInv

\* The steps that leave the polls alone.
LEMMA TasksOnly ==
  ASSUME LinkInv, PollKeeps, TaskTypes', Attended'
  PROVE  LinkInv'
  <1>1. UNCHANGED <<sent, kept, token, offset, seen, poll, handled, published, twice, mixed>>
    BY DEF PollKeeps, serverVars
  <1>2. LinkTypes'
    BY <1>1 DEF LinkInv, LinkTypes, ServerTypes, PollTypes, SeenTypes
  <1>3. Sorted' /\ Followed' /\ OncePublished'
    BY <1>1 DEF LinkInv, Sorted, Followed, OncePublished
  <1> QED BY <1>2, <1>3 DEF LinkInv

LEMMA SaverKeeps ==
  ASSUME LinkInv, SaverTakes \/ SaverSaves \/ SaverEnds
  PROVE  LinkInv'
  <1>1. PollKeeps /\ UNCHANGED <<stopping, gate, late>>
    BY DEF SaverTakes, SaverSaves, SaverEnds, PollKeeps, linkGhosts
  <1>2. TaskTypes /\ Attended /\ poll' = poll
    BY <1>1 DEF LinkInv, LinkTypes, PollKeeps
  <1>3. /\ savers.waiting \in Nat /\ savers.busy \in Nat /\ jobs \in -1..QueueSize
        /\ savers = [waiting |-> savers.waiting, busy |-> savers.busy]
    BY <1>2 DEF TaskTypes
  <1>4. CASE SaverTakes \/ SaverSaves
    <2>1. /\ savers'.waiting \in Nat /\ savers'.busy \in Nat
          /\ savers' = [waiting |-> savers'.waiting, busy |-> savers'.busy]
          /\ savers'.waiting + savers'.busy = savers.waiting + savers.busy
          /\ saver' = saver /\ jobs' \in -1..QueueSize /\ (jobs # NoQueue => jobs' # NoQueue)
      <3>1. CASE SaverTakes
        <4>1. /\ savers.waiting > 0 /\ jobs > 0 /\ jobs' = jobs - 1 /\ saver' = saver
              /\ savers' = [waiting |-> savers.waiting - 1, busy |-> savers.busy + 1]
          BY <3>1 DEF SaverTakes
        <4> QED BY <1>3, <4>1, LinkAssumption DEF NoQueue
      <3>2. CASE SaverSaves
        <4>1. /\ savers.busy > 0 /\ jobs' = jobs /\ saver' = saver
              /\ savers' = [waiting |-> savers.waiting + 1, busy |-> savers.busy - 1]
          BY <3>2 DEF SaverSaves
        <4> QED BY <1>3, <4>1
      <3> QED BY <1>4, <3>1, <3>2
    <2>2. TaskTypes'
      BY <1>1, <1>2, <2>1 DEF TaskTypes
    <2>3. Attended'
      BY <1>1, <1>2, <2>1 DEF Attended
    <2> QED BY <1>1, <2>2, <2>3, TasksOnly
  <1>5. CASE SaverEnds
    <2>1. /\ savers.waiting > 0 /\ stopping /\ savers' = [savers EXCEPT !.waiting = @ - 1]
          /\ saver' = FALSE /\ jobs' = jobs
      BY <1>5 DEF SaverEnds
    <2>2. /\ savers'.waiting = savers.waiting - 1 /\ savers'.busy = savers.busy
          /\ savers' = [waiting |-> savers'.waiting, busy |-> savers'.busy]
          /\ savers'.waiting \in Nat
      BY <1>3, <2>1
    <2>3. TaskTypes'
      BY <1>1, <1>2, <1>3, <2>1, <2>2 DEF TaskTypes
    <2>4. Attended'
      BY <1>1, <1>2, <1>3, <2>1, <2>2 DEF Attended
    <2> QED BY <1>1, <2>3, <2>4, TasksOnly
  <1> QED BY <1>4, <1>5

LEMMA StartKeeps ==
  ASSUME LinkInv, Start
  PROVE  LinkInv'
  <1>1. /\ gate \in {"none", "overdue"} /\ poll.pc = "none" /\ stopping' = FALSE
        /\ late' = (late \/ gate = "overdue") /\ PollKeeps
    BY DEF Start, Polls, PollKeeps
  <1>2. TaskTypes /\ Attended /\ poll' = poll
    BY <1>1 DEF LinkInv, LinkTypes, PollKeeps
  <1>3. /\ savers.waiting \in Nat /\ savers.busy \in Nat /\ jobs \in -1..QueueSize
        /\ savers = [waiting |-> savers.waiting, busy |-> savers.busy] /\ late' \in BOOLEAN
    BY <1>1, <1>2 DEF TaskTypes
  <1>4. ~late' => ~saver /\ savers.waiting = 0 /\ savers.busy = 0
    <2>1. ~late' => ~late /\ gate = "none"
      BY <1>1
    <2>2. ~late' => ~saver /\ ~(savers.waiting + savers.busy > 0)
      BY <1>1, <1>2, <2>1 DEF Attended
    <2> QED BY <1>3, <2>2
  <1>5. CASE /\ jobs' = IF jobs = NoQueue THEN 0 ELSE jobs
             /\ savers' = [savers EXCEPT !.waiting = @ + 1] /\ saver' = TRUE /\ gate' = "start"
    <2>1. /\ savers'.waiting = savers.waiting + 1 /\ savers'.busy = savers.busy
          /\ savers' = [waiting |-> savers'.waiting, busy |-> savers'.busy]
      BY <1>3, <1>5
    <2>2. jobs' # NoQueue /\ jobs' \in -1..QueueSize
      BY <1>3, <1>5, LinkAssumption DEF NoQueue
    <2>3. TaskTypes'
      <3>1. savers'.waiting \in Nat /\ savers'.busy \in Nat
        BY <1>3, <2>1
      <3>2. stopping' \in BOOLEAN /\ saver' \in BOOLEAN /\ gate' \in Gates
        BY <1>1, <1>5 DEF Gates
      <3> QED BY <1>3, <2>1, <2>2, <3>1, <3>2 DEF TaskTypes
    <2>4. Attended'
      BY <1>1, <1>2, <1>4, <1>5, <2>1, <2>2 DEF Attended
    <2> QED BY <1>1, <2>3, <2>4, TasksOnly
  <1>6. CASE jobs' = NoQueue /\ saver' = FALSE /\ gate' = "none" /\ savers' = savers
    <2>1. jobs' \in -1..QueueSize
      BY <1>6, LinkAssumption DEF NoQueue
    <2>2. TaskTypes'
      BY <1>1, <1>3, <1>6, <2>1 DEF TaskTypes, Gates
    <2>3. Attended'
      BY <1>1, <1>2, <1>4, <1>6 DEF Attended
    <2> QED BY <1>1, <2>2, <2>3, TasksOnly
  <1> QED BY <1>5, <1>6 DEF Start

LEMMA GateKeeps ==
  ASSUME LinkInv, UndoStart \/ Stop \/ StopTimesOut \/ Stopped
  PROVE  LinkInv'
  <1>1. /\ PollKeeps /\ UNCHANGED <<savers, saver, late>>
        /\ \/ /\ gate = "undo" \/ (gate = "stop" /\ poll.pc = "none")
              /\ ~saver /\ jobs' = NoQueue /\ gate' = "none" /\ stopping' = stopping
           \/ gate' \in {"stop", "overdue"} /\ jobs' = jobs /\ stopping' \in {stopping, TRUE}
    BY DEF UndoStart, Stop, StopTimesOut, Stopped, Polls, PollKeeps, linkGhosts
  <1>2. TaskTypes /\ Attended /\ poll' = poll
    BY <1>1 DEF LinkInv, LinkTypes, PollKeeps
  <1>3. jobs' \in -1..QueueSize /\ gate' \in Gates
    <2>1. NoQueue \in -1..QueueSize
      BY LinkAssumption DEF NoQueue
    <2>2. jobs' = NoQueue \/ jobs' = jobs
      BY <1>1
    <2>3. gate' \in Gates
      BY <1>1 DEF Gates
    <2> QED BY <1>2, <2>1, <2>2, <2>3 DEF TaskTypes
  <1>4. stopping' \in BOOLEAN
    <2>1. stopping' = stopping \/ stopping' = TRUE
      BY <1>1
    <2>2. stopping \in BOOLEAN
      BY <1>2 DEF TaskTypes
    <2> QED BY <2>1, <2>2
  <1>5. TaskTypes'
    BY <1>1, <1>2, <1>3, <1>4 DEF TaskTypes
  <1>6. Attended'
    <2>1. CASE gate' = "none" /\ ~saver /\ (gate = "undo" \/ poll.pc = "none")
      BY <1>1, <1>2, <2>1 DEF Attended
    <2>2. CASE gate' \in {"stop", "overdue"} /\ jobs' = jobs
      BY <1>1, <1>2, <2>2 DEF Attended
    <2> QED BY <1>1, <2>1, <2>2
  <1> QED BY <1>1, <1>5, <1>6, TasksOnly

LEMMA StartPollKeeps ==
  ASSUME LinkInv, StartPoll
  PROVE  LinkInv'
  <1>1. /\ gate = "start"
        /\ UNCHANGED <<sent, kept, token, offset, seen, savers, saver, jobs,
                       handled, published, twice, mixed, late>>
        /\ \/ poll' = [NoPoll EXCEPT !.pc = "check"] /\ gate' = "none" /\ stopping' = stopping
           \/ stopping' = TRUE /\ gate' = "undo" /\ poll' = poll
    BY DEF StartPoll, serverVars, linkGhosts
  <1>2. PollTypes /\ TaskTypes /\ Attended
    BY DEF LinkInv, LinkTypes
  <1>3. /\ poll' \in Polling
        /\ \/ poll'.pc = "check" /\ gate' = "none" /\ stopping' = stopping
           \/ stopping' = TRUE /\ gate' = "undo" /\ poll' = poll
    BY <1>1, <1>2, PollFields DEF PollTypes
  <1>4. PollTypes' /\ TaskTypes'
    <2>1. stopping' \in BOOLEAN
      BY <1>2, <1>3 DEF TaskTypes
    <2> QED BY <1>1, <1>2, <1>3, <2>1 DEF PollTypes, TaskTypes, Gates
  <1>5. LinkTypes'
    BY <1>1, <1>4 DEF LinkInv, LinkTypes, ServerTypes, SeenTypes
  <1>6. Sorted' /\ Followed' /\ OncePublished'
    BY <1>1, <1>3 DEF LinkInv, Sorted, Followed, OncePublished
  <1>7. Attended'
    BY <1>1, <1>2, <1>3 DEF Attended
  <1> QED BY <1>5, <1>6, <1>7 DEF LinkInv

LEMMA SetTokenKeeps ==
  ASSUME LinkInv, NEW b \in Bots, SetToken(b)
  PROVE  LinkInv'
  <1>1. /\ token' = b /\ offset' = 0 /\ seen' = <<>> /\ published' = {}
        /\ mixed' = (mixed \/ poll.pc \in {"ask", "wait", "handle"})
        /\ UNCHANGED <<sent, kept, poll, stopping, savers, saver, jobs, gate, handled, twice, late>>
    BY DEF SetToken, serverVars, linkTasks
  <1>2. ServerTypes /\ PollTypes /\ TaskTypes /\ Followed /\ OncePublished
    BY DEF LinkInv, LinkTypes
  <1>3. ~mixed' => ~mixed /\ poll.pc \notin {"ask", "wait", "handle"}
    BY <1>1
  <1>4. LinkTypes'
    <2>1. seen' \in Seq(Nat) /\ Len(seen') = 0 /\ SeenSize \in Nat
      BY <1>1, LinkAssumption
    <2>2. mixed' \in BOOLEAN
      BY <1>1
    <2>3. offset' \in 0..(MaxId + 1)
      BY <1>1, LinkAssumption
    <2>4. PollTypes'
      BY <1>1, <1>2, <2>2, <2>3 DEF PollTypes
    <2>5. SeenTypes'
      BY <2>1 DEF SeenTypes
    <2> QED BY <1>1, <1>2, <2>4, <2>5 DEF LinkTypes, ServerTypes, TaskTypes
  <1>5. Sorted' /\ Attended'
    BY <1>1 DEF LinkInv, Sorted, Attended
  <1>6. OncePublished'
    BY <1>1, <1>2, <1>3 DEF OncePublished
  <1>7. ASSUME ~mixed'
        PROVE  Followed'
    <2>1. \A c \in Bots : \A u \in 1..sent[c] : u \in kept[c] \/ <<c, u>> \in handled
      BY <1>2, <1>3, <1>7 DEF Followed
    <2>2. sent[b] \in Nat
      BY <1>2, LinkAssumption DEF ServerTypes
    <2>3. offset' <= sent[b] + 1 /\ \A u \in 1..sent[b] : ~(u < offset')
      BY <1>1, <2>2
    <2> QED BY <1>1, <1>3, <1>7, <2>1, <2>3 DEF Followed
  <1>8. Followed'
    BY <1>7 DEF Followed
  <1> QED BY <1>4, <1>5, <1>6, <1>8 DEF LinkInv

LEMMA ArrivesKeeps ==
  ASSUME LinkInv, NEW b \in Bots, Arrives(b)
  PROVE  LinkInv'
  <1>1. /\ sent[b] < MaxId /\ sent' = [sent EXCEPT ![b] = @ + 1]
        /\ kept' = [kept EXCEPT ![b] = @ \cup {sent[b] + 1}]
        /\ UNCHANGED <<token, offset, seen, poll, stopping, savers, saver, jobs, gate, handled,
                       published, twice, mixed, late>>
    BY DEF Arrives, linkTasks, linkGhosts
  <1>2. ServerTypes /\ PollTypes /\ TaskTypes /\ SeenTypes
    BY DEF LinkInv, LinkTypes
  <1>3. \A c \in Bots : sent[c] \in Nat /\ sent[c] <= MaxId /\ kept[c] \subseteq Updates
    BY <1>2, LinkAssumption DEF ServerTypes
  <1>4. /\ sent' \in [Bots -> 0..MaxId] /\ sent'[b] = sent[b] + 1
        /\ \A c \in Bots : c # b => sent'[c] = sent[c]
    BY <1>1, <1>2, <1>3, LinkAssumption DEF ServerTypes
  <1>5. sent[b] + 1 \in Updates
    BY <1>1, <1>3, LinkAssumption DEF Updates
  <1>6. /\ kept' \in [Bots -> SUBSET Updates] /\ kept'[b] = kept[b] \cup {sent[b] + 1}
        /\ \A c \in Bots : c # b => kept'[c] = kept[c]
    BY <1>1, <1>2, <1>3, <1>5 DEF ServerTypes
  <1>7. LinkTypes'
    <2>1. ASSUME NEW c \in Bots, NEW u \in kept'[c]
          PROVE  u <= sent'[c]
      <3>1. CASE c = b
        <4>1. CASE u = sent[b] + 1
          BY <1>3, <1>4, <3>1, <4>1
        <4>2. CASE u \in kept[b]
          <5>1. u \in Nat /\ u <= sent[b]
            BY <1>2, <1>3, <4>2, LinkAssumption DEF ServerTypes, Updates
          <5> QED BY <1>3, <1>4, <3>1, <5>1
        <4> QED BY <1>6, <2>1, <3>1, <4>1, <4>2
      <3>2. CASE c # b
        BY <1>2, <1>4, <1>6, <2>1, <3>2 DEF ServerTypes
      <3> QED BY <3>1, <3>2
    <2>2. ServerTypes'
      BY <1>4, <1>6, <2>1 DEF ServerTypes
    <2> QED BY <1>1, <1>2, <2>2 DEF LinkTypes, PollTypes, SeenTypes, TaskTypes
  <1>8. \A c \in Bots : sent[c] <= sent'[c]
    BY <1>3, <1>4
  <1>9. Sorted'
    <2>1. ASSUME poll.pc = "handle", NEW i \in DOMAIN poll.answer
          PROVE  poll.answer[i] <= sent'[poll.bot]
      <3>1. poll.bot \in Bots /\ poll.answer[i] <= sent[poll.bot] /\ poll.answer[i] \in Nat
        BY <1>2, <2>1, PollFields, LinkAssumption DEF LinkInv, Sorted, PollTypes, Updates
      <3>2. sent[poll.bot] <= sent'[poll.bot] /\ sent[poll.bot] \in Nat /\ sent'[poll.bot] \in Nat
        BY <1>3, <1>4, <1>8, <3>1, LinkAssumption
      <3> QED BY <3>1, <3>2
    <2> QED BY <1>1, <2>1 DEF LinkInv, Sorted
  <1>10. OncePublished' /\ Attended'
    BY <1>1 DEF LinkInv, OncePublished, Attended
  <1>11. ASSUME ~mixed
         PROVE  Followed'
    <2>1. /\ \A c \in Bots : \A u \in 1..sent[c] : u \in kept[c] \/ <<c, u>> \in handled
          /\ offset <= sent[token] + 1
          /\ \A u \in 1..sent[token] : u < offset => <<token, u>> \in handled
      BY <1>11 DEF LinkInv, Followed
    <2>2. token \in Bots /\ offset \in Nat
      BY <1>2, LinkAssumption DEF PollTypes
    <2>3. ASSUME NEW c \in Bots, NEW u \in 1..sent'[c]
          PROVE  u \in kept'[c] \/ <<c, u>> \in handled
      <3>1. CASE c = b /\ u = sent[b] + 1
        BY <1>6, <3>1
      <3>2. CASE ~(c = b /\ u = sent[b] + 1)
        <4>1. u \in 1..sent[c]
          BY <1>3, <1>4, <3>2
        <4> QED BY <1>6, <2>1, <4>1
      <3> QED BY <3>1, <3>2
    <2>4. offset <= sent'[token] + 1
      BY <1>3, <1>4, <1>8, <2>1, <2>2, LinkAssumption
    <2>5. ASSUME NEW u \in 1..sent'[token], u < offset
          PROVE  <<token, u>> \in handled
      <3>1. u \in 1..sent[token]
        BY <1>3, <1>4, <2>1, <2>2, <2>5
      <3> QED BY <2>1, <2>5, <3>1
    <2> QED BY <1>1, <1>11, <2>3, <2>4, <2>5 DEF LinkInv, Followed
  <1>12. Followed'
    BY <1>1, <1>11 DEF Followed
  <1> QED BY <1>7, <1>9, <1>10, <1>12 DEF LinkInv

LEMMA LinkResetKeeps ==
  ASSUME LinkInv, LinkReset
  PROVE  LinkInv'
  <1>1. /\ stopping' = FALSE /\ offset' = 0 /\ seen' = <<>> /\ poll' = NoPoll
        /\ savers' = [waiting |-> 0, busy |-> 0] /\ saver' = FALSE /\ jobs' = -1 /\ gate' = "none"
        /\ published' = {}
        /\ UNCHANGED <<sent, kept, token, handled, twice, mixed, late>>
    BY DEF LinkReset, serverVars, NoQueue
  <1>2. ServerTypes /\ PollTypes /\ TaskTypes /\ Followed /\ OncePublished
    BY DEF LinkInv, LinkTypes
  <1>3. poll' \in Polling /\ poll'.pc = "none"
    BY <1>1, <1>2, PollFields
  <1>4. savers'.waiting = 0 /\ savers'.busy = 0
    BY <1>1
  <1>5. LinkTypes'
    <2>1. seen' \in Seq(Nat) /\ Len(seen') = 0 /\ SeenSize \in Nat
      BY <1>1, LinkAssumption
    <2>2. offset' \in 0..(MaxId + 1) /\ jobs' \in -1..QueueSize
      BY <1>1, LinkAssumption
    <2>3. PollTypes'
      BY <1>1, <1>2, <1>3, <2>2 DEF PollTypes
    <2>4. SeenTypes'
      BY <2>1 DEF SeenTypes
    <2>5. TaskTypes'
      BY <1>1, <1>2, <1>4, <2>2 DEF TaskTypes, Gates
    <2> QED BY <1>1, <1>2, <2>3, <2>4, <2>5 DEF LinkTypes, ServerTypes
  <1>6. Sorted' /\ Attended'
    BY <1>1, <1>3, <1>4 DEF Sorted, Attended
  <1>7. OncePublished'
    BY <1>1, <1>2 DEF OncePublished
  <1>8. ASSUME ~mixed
        PROVE  Followed'
    <2>1. \A c \in Bots : \A u \in 1..sent[c] : u \in kept[c] \/ <<c, u>> \in handled
      BY <1>2, <1>8 DEF Followed
    <2>2. token \in Bots /\ sent[token] \in Nat
      BY <1>2, LinkAssumption DEF ServerTypes, PollTypes
    <2>3. offset' <= sent[token] + 1 /\ \A u \in 1..sent[token] : ~(u < offset')
      BY <1>1, <2>2
    <2> QED BY <1>1, <1>3, <2>1, <2>3 DEF Followed
  <1>9. Followed'
    BY <1>1, <1>8 DEF Followed
  <1> QED BY <1>5, <1>6, <1>7, <1>9 DEF LinkInv

LEMMA LinkStep ==
  ASSUME LinkInv, [LinkNext]_linkVars
  PROVE  LinkInv'
  <1>1. CASE UNCHANGED linkVars
    <2>1. PollKeeps /\ TaskKeeps
      BY <1>1 DEF linkVars, PollKeeps, TaskKeeps, serverVars
    <2>2. TaskTypes' /\ Attended'
      BY <2>1 DEF LinkInv, LinkTypes, TaskTypes, Attended, PollKeeps, TaskKeeps
    <2> QED BY <2>1, <2>2, TasksOnly
  <1> QED BY <1>1, PollBeginsKeeps, AskKeeps, AnswerKeeps, HandleKeeps, SaverKeeps, StartKeeps,
             StartPollKeeps, GateKeeps, SetTokenKeeps, ArrivesKeeps, LinkResetKeeps DEF LinkNext

\* What is handled is forgotten only after it, in order, and the tasks of the
\* gateway find what they use.
THEOREM LinkInvariant == LinkSpec => []LinkInv
  <1>1. LinkInv /\ [LinkNext]_linkVars => LinkInv'
    BY LinkStep
  <1> QED BY <1>1, LinkInitInv, PTL DEF LinkSpec

\* The state of the gateway stays within its types.
THEOREM LinkTypeCorrect == LinkSpec => []LinkTypeOK
  <1>1. LinkInv => LinkTypeOK
    <2> SUFFICES ASSUME LinkInv PROVE LinkTypeOK
      OBVIOUS
    <2>1. ServerTypes /\ PollTypes /\ SeenTypes /\ TaskTypes
      BY DEF LinkInv, LinkTypes
    <2>2. \A b \in Bots : sent[b] <= MaxId /\ kept[b] \subseteq 1..sent[b]
      BY <2>1, LinkAssumption DEF ServerTypes, Updates
    <2>3. offset \in 0..(MaxId + 2)
      BY <2>1, LinkAssumption DEF PollTypes
    <2>4. savers \in [waiting : Nat, busy : Nat]
      BY <2>1 DEF TaskTypes
    <2> QED BY <2>1, <2>2, <2>3, <2>4, PollFields
            DEF LinkTypeOK, PollTypes, SeenTypes, TaskTypes, Stations, Gates
  <1> QED BY <1>1, LinkInvariant, PTL

\* What the server was told to forget was handled.
THEOREM NothingIsLost == LinkSpec => []ForgottenWasHandled
  <1>1. LinkInv => ForgottenWasHandled
    BY DEF LinkInv, Followed, ForgottenWasHandled
  <1> QED BY <1>1, LinkInvariant, PTL

\* No update is published twice between two resets.
THEOREM NothingComesTwice == LinkSpec => []PublishedOnce
  <1>1. LinkInv => PublishedOnce
    BY DEF LinkInv, OncePublished, PublishedOnce
  <1> QED BY <1>1, LinkInvariant, PTL

\* The queue of the attachments is there as long as a task may use it.
THEOREM QueueIsThere == LinkSpec => []QueueOutlivesItsTask
  <1>1. LinkInv => QueueOutlivesItsTask
    BY DEF LinkInv, LinkTypes, TaskTypes, Attended, QueueOutlivesItsTask, Works
  <1> QED BY <1>1, LinkInvariant, PTL

-----------------------------------------------------------------------------
(* Scheduler.                                                              *)

Ops == {"none", "store", "pause", "resume", "note", "load"}
Undoes == {"store", "pause", "resume"}

Paused(e) == e.status = "paused" /\ e.enabled # "absent"

\* Nothing is at work while the module is down; what a write has still to do.
Pending ==
    /\ mode \in {"down", "failed"} => writes = NoWrites /\ entries = NoEntries
    /\ writes.op = "none" => writes = NoWrites
    /\ writes.op \in Undoes <=> writes.id \in Ids
    /\ writes.op \in {"pause", "resume", "note"} => ~writes.file
    /\ writes.op = "store" /\ ~writes.file /\ ~torn => defs = Definitions(entries)
    /\ writes.op \in {"pause", "resume"} =>
          writes.undo.enabled = entries[writes.id].enabled
    /\ writes.op = "pause" => Paused(entries[writes.id])

\* A held entry is paused in the table and in the blob, or it is in neither the
\* table nor the file; what undoes a change leaves it so.
HeldPaused ==
    \A i \in held :
       /\ state[i].status = "paused" \/ defs[i] = "absent"
       /\ mode \in {"loaded", "up"} =>
             \/ Paused(entries[i]) /\ state[i].status = "paused"
             \/ entries[i] = NoEntry /\ defs[i] = "absent"
       /\ writes.id = i => /\ Paused(entries[i]) /\ Paused(writes.undo)
                           /\ state[i].status = "paused"

\* The file and the table agree with what was told, but for the entry whose
\* change is still to be stored.
ToldStored ==
    \A i \in Ids \ unsure : \/ writes.op = "store" /\ writes.id = i
                            \/ /\ ~torn => defs[i] = told[i]
                               /\ mode \in {"loaded", "up"} => entries[i].enabled = told[i]

\* A once entry is planned for its start or not at all, and once it was fired
\* it is not planned and its last time does not lead back before the start.
Planned(i, e) == item[i].kind = "once" => e.next \in {NoTime, item[i].start}
Spent(i, e) == e.next = NoTime /\ (e.last = 0 \/ e.last >= item[i].start)

Clocks == now <= real /\ (time_valid => now = real)
Plans == \A i \in Ids : /\ Planned(i, entries[i]) /\ Planned(i, state[i])
                        /\ writes.id = i => Planned(i, writes.undo)
Over == ~lost /\ ~astray =>
           \A i \in Ids : item[i].kind = "once" /\ fired[i] > 0 =>
              /\ fired[i] = 1 /\ real >= item[i].start
              /\ Spent(i, entries[i])
              /\ writes.op = "note" \/ Spent(i, state[i])
              /\ writes.id = i => Spent(i, writes.undo)

SchedInv == /\ SchedTypeOK /\ lost \in BOOLEAN /\ astray \in BOOLEAN
            /\ Pending /\ HeldPaused /\ ToldStored /\ Clocks /\ Plans /\ Over

\* An entry at work: its status is also "running" (cap_scheduler_publish_entry_locked).
LooseEntry == [enabled : {"absent", "on", "off"}, next : Int, last : Nat, runs : Nat,
               status : {"absent", "scheduled", "disabled", "paused", "completed", "error",
                         "running"}]

LEMMA EntryFields ==
  ASSUME NEW e \in LooseEntry
  PROVE  /\ e.enabled \in {"absent", "on", "off"} /\ e.next \in Int /\ e.last \in Nat /\ e.runs \in Nat
         /\ e.status # "running" => e \in EntryType
  <1>1. /\ e.enabled \in {"absent", "on", "off"} /\ e.next \in Int /\ e.last \in Nat /\ e.runs \in Nat
        /\ e.status \in {"absent", "scheduled", "disabled", "paused", "completed", "error", "running"}
        /\ e = [enabled |-> e.enabled, next |-> e.next, last |-> e.last, runs |-> e.runs,
                status |-> e.status]
    BY DEF LooseEntry
  <1> QED BY <1>1 DEF EntryType

LEMMA EntryIsLoose == EntryType \subseteq LooseEntry
  BY DEF EntryType, LooseEntry

LEMMA NoEntryIs ==
  /\ NoEntry \in EntryType /\ NoEntry.enabled = "absent" /\ NoEntry.status = "absent"
  /\ NoEntry.next = NoTime /\ NoEntry.last = 0 /\ NoEntry.runs = 0 /\ NoTime \in Int
  BY DEF NoEntry, NoTime, EntryType

LEMMA ItemFields ==
  ASSUME SchedTypeOK, NEW i \in Ids
  PROVE  /\ item[i].kind \in {"once", "interval"}
         /\ item[i].start \in Nat /\ item[i].interval \in Nat /\ item[i].max \in Nat
         /\ item[i].kind = "once" => item[i].start > 0
         /\ item[i].kind # "once" => item[i].interval > 0
  BY SchedulerAssumption DEF SchedTypeOK

\* When an entry is due next: strictly after the anchor if it is due once.
LEMMA NextFireIs ==
  ASSUME SchedTypeOK, NEW i \in Ids, NEW anchor \in Int, NEW runs \in Nat
  PROVE  /\ NextFire(i, anchor, runs) \in Int
         /\ item[i].kind = "once" =>
               /\ NextFire(i, anchor, runs) \in {NoTime, item[i].start}
               /\ anchor >= item[i].start => NextFire(i, anchor, runs) = NoTime
  <1>1. /\ item[i].kind \in {"once", "interval"} /\ item[i].start \in Nat /\ item[i].interval \in Nat
        /\ item[i].kind # "once" => item[i].interval > 0
    BY ItemFields
  <1>2. CASE item[i].kind = "once"
    BY <1>1, <1>2, NoEntryIs DEF NextFire
  <1>3. CASE item[i].kind # "once"
    <2> DEFINE q == (anchor - item[i].start) \div item[i].interval
    <2>1. q \in Int
      BY <1>1, <1>3
    <2>2. item[i].start + (q + 1) * item[i].interval \in Int
      <3> HIDE DEF q
      <3> QED BY <1>1, <2>1
    <2>3. anchor + item[i].interval \in Int /\ item[i].start \in Int
      BY <1>1
    <2> QED BY <1>3, <2>2, <2>3, NoEntryIs DEF NextFire
  <1> QED BY <1>2, <1>3

LEMMA RefreshedIs ==
  ASSUME SchedTypeOK, NEW i \in Ids, NEW e \in LooseEntry, NEW valid, NEW anchor \in Int,
         NEW r, r = Refreshed(i, e, valid, anchor)
  PROVE  /\ r \in EntryType
         /\ r.enabled = e.enabled /\ r.last = e.last /\ r.runs = e.runs
         /\ Planned(i, e) => Planned(i, r)
         /\ item[i].kind = "once" /\ e.next = NoTime /\ (valid => anchor >= item[i].start)
               => r.next = NoTime
  <1> DEFINE next == NextFire(i, anchor, e.runs)
  <1>1. /\ e.enabled \in {"absent", "on", "off"} /\ e.next \in Int /\ e.last \in Nat /\ e.runs \in Nat
        /\ e.status # "running" => e \in EntryType
    BY EntryFields
  <1>2. /\ next \in Int
        /\ item[i].kind = "once" =>
              /\ next \in {NoTime, item[i].start}
              /\ anchor >= item[i].start => next = NoTime
    BY <1>1, NextFireIs
  <1>3. item[i].kind = "once" => RequiresValidTime(i)
    BY DEF RequiresValidTime
  <1> HIDE DEF next
  <1>4. CASE e.enabled = "off"
    <2>1. r = [e EXCEPT !.status = "disabled", !.next = NoTime]
      BY <1>4 DEF Refreshed
    <2>2. r \in LooseEntry /\ r.status = "disabled" /\ r.next = NoTime
          /\ r.enabled = e.enabled /\ r.last = e.last /\ r.runs = e.runs
      BY <2>1, NoEntryIs DEF LooseEntry
    <2> QED BY <2>2, EntryFields DEF Planned
  <1>5. CASE e.enabled # "off" /\ e.status = "paused"
    <2>1. r = e
      BY <1>5 DEF Refreshed
    <2> QED BY <1>1, <1>5, <2>1
  <1>6. CASE e.enabled # "off" /\ e.status # "paused" /\ ~valid /\ RequiresValidTime(i)
    <2>1. r = [e EXCEPT !.status = "scheduled", !.next = NoTime]
      BY <1>6 DEF Refreshed
    <2>2. r \in LooseEntry /\ r.status = "scheduled" /\ r.next = NoTime
          /\ r.enabled = e.enabled /\ r.last = e.last /\ r.runs = e.runs
      BY <2>1, NoEntryIs DEF LooseEntry
    <2> QED BY <2>2, EntryFields DEF Planned
  <1>7. CASE e.enabled # "off" /\ e.status # "paused" /\ ~(~valid /\ RequiresValidTime(i))
    <2>1. r = [e EXCEPT !.next = next, !.status = IF next = NoTime THEN "completed" ELSE "scheduled"]
      BY <1>7 DEF Refreshed, next
    <2>2. r \in LooseEntry /\ r.status \in {"completed", "scheduled"} /\ r.next = next
          /\ r.enabled = e.enabled /\ r.last = e.last /\ r.runs = e.runs
      BY <1>2, <2>1 DEF LooseEntry
    <2> QED BY <1>2, <1>3, <1>7, <2>2, EntryFields DEF Planned
  <1> QED BY <1>4, <1>5, <1>6, <1>7

LEMMA PublishedIs ==
  ASSUME SchedTypeOK, NEW i \in Ids, NEW e \in EntryType, NEW ok \in BOOLEAN, NEW planned \in Int,
         NEW r, r = Published(i, e, ok, planned)
  PROVE  /\ r \in EntryType /\ r.enabled = e.enabled
         /\ Planned(i, e) => Planned(i, r)
         /\ item[i].kind = "once" => /\ r.last = now
                                     /\ ok => r.next = NoTime
                                     /\ e.next = NoTime => r.next = NoTime
  <1> DEFINE ran == [e EXCEPT !.last = now, !.runs = @ + 1, !.status = "running"]
  <1>1. now \in Nat
    BY DEF SchedTypeOK
  <1>2. CASE ~ok
    <2>1. r = [e EXCEPT !.last = now, !.status = "error"]
      BY <1>2 DEF Published
    <2>2. r \in EntryType /\ r.enabled = e.enabled /\ r.next = e.next /\ r.last = now
      BY <1>1, <2>1 DEF EntryType
    <2> QED BY <1>2, <2>2 DEF Planned
  <1>3. ran \in LooseEntry /\ ran.enabled = e.enabled /\ ran.last = now /\ ran.next = e.next
    <2>1. e.runs + 1 \in Nat
      BY DEF EntryType
    <2>2. ran = [e EXCEPT !.last = now, !.runs = e.runs + 1, !.status = "running"]
      OBVIOUS
    <2> HIDE DEF ran
    <2>3. ran \in LooseEntry
      BY <1>1, <2>1, <2>2 DEF EntryType, LooseEntry
    <2>4. ran.enabled = e.enabled /\ ran.last = now /\ ran.next = e.next
      BY <2>2 DEF EntryType
    <2> QED BY <2>3, <2>4
  <1>4. CASE ok /\ item[i].kind = "once"
    <2>1. r = [ran EXCEPT !.next = NoTime, !.status = "completed"]
      BY <1>4 DEF Published
    <2> HIDE DEF ran
    <2>2. r \in LooseEntry /\ r.status = "completed" /\ r.next = NoTime /\ r.enabled = ran.enabled
          /\ r.last = ran.last
      BY <1>3, <2>1, NoEntryIs DEF LooseEntry
    <2> QED BY <1>3, <2>2, EntryFields DEF Planned
  <1>5. CASE ok /\ item[i].kind # "once"
    <2>1. r = Refreshed(i, ran, time_valid, planned)
      BY <1>5 DEF Published
    <2> HIDE DEF ran
    <2>2. r \in EntryType /\ r.enabled = ran.enabled
      BY <1>3, <2>1, RefreshedIs
    <2> QED BY <1>3, <1>5, <2>2 DEF Planned
  <1> QED BY <1>2, <1>4, <1>5

LEMMA SchedParts ==
  ASSUME SchedInv
  PROVE  /\ SchedTypeOK /\ Pending /\ HeldPaused /\ ToldStored /\ Clocks /\ Plans /\ Over
         /\ lost \in BOOLEAN /\ astray \in BOOLEAN /\ time_valid \in BOOLEAN
         /\ entries \in [Ids -> EntryType] /\ state \in [Ids -> EntryType]
         /\ defs \in [Ids -> {"absent", "on", "off"}] /\ told \in [Ids -> {"absent", "on", "off"}]
         /\ fired \in [Ids -> 0..2] /\ held \in SUBSET Ids /\ unsure \in SUBSET Ids
         /\ now \in Nat /\ real \in Nat /\ torn \in BOOLEAN
         /\ writes.op \in Ops /\ writes.file \in BOOLEAN /\ writes.id \in Ids \cup {NoId}
         /\ writes.undo \in EntryType
  BY DEF SchedInv, SchedTypeOK, Ops

LEMMA NoWritesIs ==
  /\ NoWrites.op = "none" /\ NoWrites.file = FALSE /\ NoWrites.id = NoId
  /\ NoWrites.undo = NoEntry
  BY DEF NoWrites

LEMMA WritesAre ==
  ASSUME NEW op \in Ops, NEW both \in BOOLEAN, NEW id \in Ids \cup {NoId}, NEW undo \in EntryType,
         writes' = [op |-> op, file |-> both, id |-> id, undo |-> undo]
  PROVE  /\ writes' \in [op : Ops, file : BOOLEAN, id : Ids \cup {NoId}, undo : EntryType]
         /\ writes'.op = op /\ writes'.file = both /\ writes'.id = id /\ writes'.undo = undo
  OBVIOUS

\* An operation takes the mutex and changes the table; what it has to write is due.
LEMMA EditKeeps ==
  ASSUME SchedInv, writes = NoWrites, mode' \in {"loaded", "up"}, entries' \in [Ids -> EntryType],
         UNCHANGED <<item, real, now, defs, torn, state, told, unsure, lost>>,
         time_valid' \in BOOLEAN, time_valid' => now = real,
         held' \subseteq held, fired' \in [Ids -> 0..2], astray' \in BOOLEAN,
         NEW op \in Ops \ {"none"}, NEW id \in Ids \cup {NoId}, NEW undo \in EntryType,
         NEW both \in BOOLEAN, both <=> op \in {"store", "load"},
         writes' = [op |-> op, file |-> both, id |-> id, undo |-> undo],
         op \in Undoes <=> id \in Ids,
         op \in {"pause", "resume"} => undo.enabled = entries'[id].enabled,
         op = "pause" => Paused(entries'[id]),
         \A j \in held' : /\ \/ Paused(entries'[j]) /\ state[j].status = "paused"
                             \/ entries'[j] = NoEntry /\ defs[j] = "absent"
                          /\ id = j => /\ Paused(entries'[j]) /\ Paused(undo)
                                       /\ state[j].status = "paused",
         \A j \in Ids : \/ mode \in {"loaded", "up"} /\ entries'[j].enabled = entries[j].enabled
                        \/ op = "store" /\ id = j
                        \/ ~torn /\ entries'[j].enabled = defs[j],
         \A j \in Ids : Planned(j, entries'[j]) /\ (id = j => Planned(j, undo)),
         ~lost /\ ~astray' => \A j \in Ids : item[j].kind = "once" /\ fired'[j] > 0 =>
              /\ fired'[j] = 1 /\ real >= item[j].start
              /\ Spent(j, entries'[j])
              /\ op = "note" \/ Spent(j, state[j])
              /\ id = j => Spent(j, undo)
  PROVE  SchedInv'
  <1>1. /\ writes' \in [op : Ops, file : BOOLEAN, id : Ids \cup {NoId}, undo : EntryType]
        /\ writes'.op = op /\ writes'.file = both /\ writes'.id = id /\ writes'.undo = undo
    BY WritesAre
  <1>2. SchedTypeOK'
    <2>1. held' \in SUBSET Ids /\ mode' \in {"down", "loaded", "up", "failed"}
      BY SchedParts
    <2> QED BY <1>1, <2>1, SchedParts DEF SchedTypeOK, Ops
  <1>3. Pending'
    BY <1>1 DEF Pending, Undoes, Paused
  <1>4. HeldPaused'
    <2>1. \A j \in held' : state'[j].status = "paused" \/ defs'[j] = "absent"
      BY SchedParts DEF HeldPaused
    <2> QED BY <1>1, <2>1 DEF HeldPaused, Paused
  <1>5. ToldStored'
    <2> SUFFICES ASSUME NEW j \in Ids \ unsure', ~(op = "store" /\ id = j)
                 PROVE  /\ ~torn' => defs'[j] = told'[j]
                        /\ entries'[j].enabled = told'[j]
      BY <1>1 DEF ToldStored
    <2>1. /\ ~torn => defs[j] = told[j]
          /\ mode \in {"loaded", "up"} => entries[j].enabled = told[j]
      BY SchedParts, NoWritesIs DEF ToldStored
    <2> QED BY <2>1
  <1>6. Clocks'
    BY SchedParts DEF Clocks
  <1>7. Plans'
    BY <1>1, SchedParts DEF Plans, Planned
  <1>8. Over'
    BY <1>1 DEF Over, Spent
  <1> QED BY <1>2, <1>3, <1>4, <1>5, <1>6, <1>7, <1>8, SchedParts DEF SchedInv

\* An operation on one entry.
LEMMA EditOne ==
  ASSUME SchedInv, Free, NEW i \in Ids, NEW r \in EntryType, entries' = [entries EXCEPT ![i] = r],
         UNCHANGED <<item, real, now, mode, time_valid, defs, torn, state, fired, told, unsure, lost>>,
         NEW op \in {"store", "pause", "resume", "note"}, NEW undo \in {entries[i], NoEntry},
         NEW both \in BOOLEAN, both <=> op = "store",
         NEW id \in {i, NoId}, id = NoId <=> op = "note",
         writes' = [op |-> op, file |-> both, id |-> id, undo |-> undo],
         astray' \in BOOLEAN, astray => astray',
         \/ held' = held \ {i}
         \/ /\ held' = held /\ entries[i].enabled # "absent" /\ undo = entries[i]
            /\ Paused(entries[i]) => Paused(r),
         op # "store" => r.enabled = entries[i].enabled,
         op \in {"pause", "resume"} => undo = entries[i],
         op = "pause" => Paused(r),
         Planned(i, entries[i]) => Planned(i, r),
         ~astray' /\ item[i].kind = "once" /\ real >= item[i].start /\ Spent(i, entries[i])
            => Spent(i, r)
  PROVE  SchedInv'
  <1>1. /\ entries' \in [Ids -> EntryType] /\ entries'[i] = r
        /\ \A j \in Ids : j # i => entries'[j] = entries[j]
    BY SchedParts
  <1>2. undo \in EntryType /\ writes = NoWrites /\ mode \in {"loaded", "up"}
    BY SchedParts, NoEntryIs DEF Free
  <1>3. id \in Ids \cup {NoId} /\ (op \in Undoes <=> id \in Ids) /\ NoId \notin Ids
    BY SchedulerAssumption DEF Undoes
  <1>4. held' \subseteq held /\ held' \in SUBSET Ids
    BY SchedParts
  <1>5. ASSUME NEW j \in held'
        PROVE  /\ \/ Paused(entries'[j]) /\ state[j].status = "paused"
                  \/ entries'[j] = NoEntry /\ defs[j] = "absent"
               /\ id = j => /\ Paused(entries'[j]) /\ Paused(undo)
                            /\ state[j].status = "paused"
    <2>1. /\ j \in Ids /\ j \in held
          /\ \/ Paused(entries[j]) /\ state[j].status = "paused"
             \/ entries[j] = NoEntry /\ defs[j] = "absent"
      BY <1>2, <1>4, <1>5, SchedParts DEF HeldPaused
    <2>2. CASE j # i
      BY <1>1, <1>3, <2>1, <2>2
    <2>3. CASE j = i
      <3>1. /\ entries[i].enabled # "absent" /\ undo = entries[i]
            /\ Paused(entries[i]) => Paused(r)
        BY <1>5, <2>3
      <3>2. Paused(entries[i]) /\ state[i].status = "paused"
        BY <2>1, <2>3, <3>1, NoEntryIs
      <3> QED BY <1>1, <2>3, <3>1, <3>2
    <2> QED BY <2>2, <2>3
  <1>6. \A j \in Ids : \/ entries'[j].enabled = entries[j].enabled
                       \/ op = "store" /\ id = j
    BY <1>1
  <1>7. \A j \in Ids : Planned(j, entries'[j]) /\ (id = j => Planned(j, undo))
    <2>1. \A j \in Ids : Planned(j, entries[j]) /\ Planned(j, NoEntry)
      BY SchedParts, NoEntryIs DEF Plans, Planned
    <2> QED BY <1>1, <1>3, <2>1
  <1>8. ASSUME ~lost, ~astray', NEW j \in Ids, item[j].kind = "once", fired'[j] > 0
        PROVE  /\ fired'[j] = 1 /\ real >= item[j].start
               /\ Spent(j, entries'[j])
               /\ op = "note" \/ Spent(j, state[j])
               /\ id = j => Spent(j, undo)
    <2>1. /\ fired[j] = 1 /\ real >= item[j].start /\ Spent(j, entries[j]) /\ Spent(j, state[j])
      BY <1>2, <1>8, SchedParts, NoWritesIs DEF Over
    <2>2. Spent(j, NoEntry)
      BY NoEntryIs DEF Spent
    <2>3. Spent(j, entries'[j])
      BY <1>1, <1>8, <2>1
    <2> QED BY <1>3, <2>1, <2>2, <2>3
  <1>9. op \in {"pause", "resume"} => undo.enabled = entries'[id].enabled
    BY <1>1, <1>3 DEF Undoes
  <1>10. op = "pause" => Paused(entries'[id])
    BY <1>1, <1>3 DEF Undoes
  <1>11. time_valid' \in BOOLEAN /\ (time_valid' => now = real) /\ fired' \in [Ids -> 0..2]
    BY SchedParts DEF Clocks
  <1>12. op \in Ops \ {"none"} /\ (both <=> op \in {"store", "load"})
    BY DEF Ops
  <1> QED BY <1>1, <1>2, <1>3, <1>4, <1>5, <1>6, <1>7, <1>8, <1>9, <1>10, <1>11, <1>12, EditKeeps

LEMMA RefreshedNow ==
  ASSUME SchedInv, NEW i \in Ids, NEW e \in LooseEntry, NEW r, r = Refreshed(i, e, time_valid, now)
  PROVE  /\ r \in EntryType /\ r.enabled = e.enabled
         /\ Planned(i, e) => Planned(i, r)
         /\ item[i].kind = "once" /\ real >= item[i].start /\ Spent(i, e) => Spent(i, r)
  <1>1. now \in Int /\ SchedTypeOK /\ (time_valid => now = real)
    BY SchedParts DEF Clocks
  <1>2. /\ r \in EntryType
        /\ r.enabled = e.enabled /\ r.last = e.last
        /\ Planned(i, e) => Planned(i, r)
        /\ item[i].kind = "once" /\ e.next = NoTime /\ (time_valid => now >= item[i].start)
              => r.next = NoTime
    BY <1>1, RefreshedIs
  <1> QED BY <1>1, <1>2 DEF Spent

LEMMA AddKeeps == ASSUME SchedInv, NEW i \in Ids, NEW enabled \in {"on", "off"}, Add(i, enabled)
                  PROVE  SchedInv'
  <1> DEFINE e == [NoEntry EXCEPT !.enabled = enabled, !.status = "scheduled"]
             r == Refreshed(i, e, time_valid, now)
  <1>1. /\ e \in EntryType /\ e.enabled = enabled
        /\ Planned(i, NoEntry) => Planned(i, e)
        /\ Spent(i, NoEntry) => Spent(i, e)
    <2>1. e \in EntryType /\ e.enabled = enabled /\ e.next = NoEntry.next /\ e.last = NoEntry.last
      BY NoEntryIs DEF EntryType
    <2> HIDE DEF e
    <2> QED BY <2>1 DEF Planned, Spent
  <1>2. Planned(i, NoEntry) /\ Spent(i, NoEntry)
    BY NoEntryIs DEF Planned, Spent
  <1>3. /\ Free /\ entries' = [entries EXCEPT ![i] = r]
        /\ held' = held \ {i}
        /\ writes' = [op |-> "store", file |-> TRUE, id |-> i, undo |-> NoEntry]
        /\ UNCHANGED <<item, real, now, mode, time_valid, defs, torn, state, fired, told, unsure, lost, astray>>
    BY DEF Add, Due, clockVars, diskVars, faultVars
  <1> HIDE DEF e
  <1>4. /\ r \in EntryType
        /\ Planned(i, e) => Planned(i, r)
        /\ item[i].kind = "once" /\ real >= item[i].start /\ Spent(i, e) => Spent(i, r)
    BY <1>1, EntryIsLoose, RefreshedNow
  <1> HIDE DEF r
  <1>5. i # NoId /\ astray' \in BOOLEAN
    BY <1>3, SchedulerAssumption, SchedParts
  <1>6. /\ Planned(i, r)
        /\ item[i].kind = "once" /\ real >= item[i].start => Spent(i, r)
    BY <1>1, <1>2, <1>4
  <1> QED BY <1>3, <1>4, <1>5, <1>6, EditOne

LEMMA UpdateKeeps == ASSUME SchedInv, NEW i \in Ids, NEW enabled \in {"on", "off"}, Update(i, enabled)
                     PROVE  SchedInv'
  <1> DEFINE e == [entries[i] EXCEPT !.enabled = enabled]
             r == IF e.status = "paused" THEN e ELSE Refreshed(i, e, time_valid, now)
  <1>1. entries[i] \in EntryType
    BY SchedParts
  <1>2. /\ e \in EntryType /\ e.enabled = enabled /\ e.status = entries[i].status
        /\ Planned(i, entries[i]) => Planned(i, e)
        /\ Spent(i, entries[i]) => Spent(i, e)
    <2>1. /\ e \in EntryType /\ e.enabled = enabled /\ e.status = entries[i].status
          /\ e.next = entries[i].next /\ e.last = entries[i].last
      BY <1>1 DEF EntryType
    <2> HIDE DEF e
    <2> QED BY <2>1 DEF Planned, Spent
  <1>3. /\ Free /\ entries' = [entries EXCEPT ![i] = r] /\ entries[i].enabled # "absent"
        /\ writes' = [op |-> "store", file |-> TRUE, id |-> i, undo |-> entries[i]]
        /\ UNCHANGED <<item, real, now, mode, time_valid, defs, torn, state, fired, told, unsure,
                       lost, astray, held>>
    BY DEF Update, Due, clockVars, diskVars, ghostVars, Occupied
  <1> HIDE DEF e
  <1>4. /\ r \in EntryType
        /\ Planned(i, e) => Planned(i, r)
        /\ item[i].kind = "once" /\ real >= item[i].start /\ Spent(i, e) => Spent(i, r)
        /\ e.status = "paused" => r = e
    BY <1>2, EntryIsLoose, RefreshedNow
  <1> HIDE DEF r
  <1>5. i # NoId /\ astray' \in BOOLEAN
    BY <1>3, SchedulerAssumption, SchedParts
  <1>6. /\ Planned(i, entries[i]) => Planned(i, r)
        /\ item[i].kind = "once" /\ real >= item[i].start /\ Spent(i, entries[i]) => Spent(i, r)
    BY <1>2, <1>4
  <1>7. Paused(entries[i]) => Paused(r)
    BY <1>2, <1>4 DEF Paused
  <1> QED BY <1>3, <1>4, <1>5, <1>6, <1>7, EditOne

LEMMA RemoveKeeps == ASSUME SchedInv, NEW i \in Ids, Remove(i)
                     PROVE  SchedInv'
  <1>1. /\ Free /\ entries' = [entries EXCEPT ![i] = NoEntry]
        /\ held' = held \ {i}
        /\ writes' = [op |-> "store", file |-> TRUE, id |-> i, undo |-> entries[i]]
        /\ UNCHANGED <<item, real, now, mode, time_valid, defs, torn, state, fired, told, unsure, lost, astray>>
    BY DEF Remove, Due, clockVars, diskVars, faultVars
  <1>2. Planned(i, NoEntry) /\ Spent(i, NoEntry)
    BY NoEntryIs DEF Planned, Spent
  <1>3. i # NoId /\ astray' \in BOOLEAN
    BY <1>1, SchedulerAssumption, SchedParts
  <1> QED BY <1>1, <1>2, <1>3, NoEntryIs, EditOne

LEMMA EnableKeeps == ASSUME SchedInv, NEW i \in Ids, NEW enabled \in {"on", "off"}, Enable(i, enabled)
                     PROVE  SchedInv'
  <1> DEFINE e == [entries[i] EXCEPT !.enabled = enabled, !.status = "scheduled"]
             r == Refreshed(i, e, time_valid, now)
  <1>1. entries[i] \in EntryType
    BY SchedParts
  <1>2. /\ e \in EntryType
        /\ Planned(i, entries[i]) => Planned(i, e)
        /\ Spent(i, entries[i]) => Spent(i, e)
    <2>1. e \in EntryType /\ e.next = entries[i].next /\ e.last = entries[i].last
      BY <1>1 DEF EntryType
    <2> HIDE DEF e
    <2> QED BY <2>1 DEF Planned, Spent
  <1>3. /\ Free /\ entries' = [entries EXCEPT ![i] = r]
        /\ held' = held \ {i}
        /\ writes' = [op |-> "store", file |-> TRUE, id |-> i, undo |-> entries[i]]
        /\ UNCHANGED <<item, real, now, mode, time_valid, defs, torn, state, fired, told, unsure, lost, astray>>
    BY DEF Enable, Due, clockVars, diskVars, faultVars
  <1> HIDE DEF e
  <1>4. /\ r \in EntryType
        /\ Planned(i, e) => Planned(i, r)
        /\ item[i].kind = "once" /\ real >= item[i].start /\ Spent(i, e) => Spent(i, r)
    BY <1>2, EntryIsLoose, RefreshedNow
  <1> HIDE DEF r
  <1>5. i # NoId /\ astray' \in BOOLEAN
    BY <1>3, SchedulerAssumption, SchedParts
  <1>6. /\ Planned(i, entries[i]) => Planned(i, r)
        /\ item[i].kind = "once" /\ real >= item[i].start /\ Spent(i, entries[i]) => Spent(i, r)
    BY <1>2, <1>4
  <1> QED BY <1>3, <1>4, <1>5, <1>6, EditOne

LEMMA PauseKeeps == ASSUME SchedInv, NEW i \in Ids, Pause(i)
                    PROVE  SchedInv'
  <1> DEFINE r == [entries[i] EXCEPT !.status = "paused"]
  <1>1. entries[i] \in EntryType
    BY SchedParts
  <1>2. /\ r \in EntryType /\ r.enabled = entries[i].enabled /\ r.status = "paused"
        /\ r.next = entries[i].next /\ r.last = entries[i].last
    BY <1>1 DEF EntryType
  <1>3. /\ Free /\ entries' = [entries EXCEPT ![i] = r] /\ entries[i].enabled # "absent"
        /\ writes' = [op |-> "pause", file |-> FALSE, id |-> i, undo |-> entries[i]]
        /\ UNCHANGED <<item, real, now, mode, time_valid, defs, torn, state, fired, told, unsure,
                       lost, astray, held>>
    BY DEF Pause, Due, clockVars, diskVars, ghostVars, Occupied
  <1> HIDE DEF r
  <1>4. /\ Planned(i, entries[i]) => Planned(i, r)
        /\ Spent(i, entries[i]) => Spent(i, r)
        /\ Paused(r)
    BY <1>2, <1>3 DEF Planned, Spent, Paused
  <1>5. i # NoId /\ astray' \in BOOLEAN
    BY <1>3, SchedulerAssumption, SchedParts
  <1> QED BY <1>2, <1>3, <1>4, <1>5, EditOne

LEMMA ResumeKeeps == ASSUME SchedInv, NEW i \in Ids, Resume(i)
                     PROVE  SchedInv'
  <1> DEFINE r == Refreshed(i, entries[i], time_valid, now)
  <1>1. entries[i] \in EntryType
    BY SchedParts
  <1>2. /\ r \in EntryType /\ r.enabled = entries[i].enabled
        /\ Planned(i, entries[i]) => Planned(i, r)
        /\ item[i].kind = "once" /\ real >= item[i].start /\ Spent(i, entries[i]) => Spent(i, r)
    BY <1>1, EntryIsLoose, RefreshedNow
  <1>3. /\ Free /\ entries' = [entries EXCEPT ![i] = r]
        /\ held' = held \ {i}
        /\ writes' = [op |-> "resume", file |-> FALSE, id |-> i, undo |-> entries[i]]
        /\ UNCHANGED <<item, real, now, mode, time_valid, defs, torn, state, fired, told, unsure, lost, astray>>
    BY DEF Resume, Due, clockVars, diskVars, faultVars
  <1> HIDE DEF r
  <1>4. i # NoId /\ astray' \in BOOLEAN
    BY <1>3, SchedulerAssumption, SchedParts
  <1> QED BY <1>2, <1>3, <1>4, EditOne

LEMMA TriggerNowKeeps == ASSUME SchedInv, NEW i \in Ids, TriggerNow(i)
                         PROVE  SchedInv'
  <1>1. entries[i] \in EntryType /\ now \in Int
    BY SchedParts
  <1>2. PICK ok \in BOOLEAN : entries' = [entries EXCEPT ![i] = Published(i, entries[i], ok, now)]
    BY DEF TriggerNow
  <1> DEFINE r == Published(i, entries[i], ok, now)
  <1>3. /\ r \in EntryType /\ r.enabled = entries[i].enabled
        /\ Planned(i, entries[i]) => Planned(i, r)
        /\ item[i].kind = "once" => /\ r.last = now
                                    /\ entries[i].next = NoTime => r.next = NoTime
    <2>1. r = Published(i, entries[i], ok, now) /\ SchedTypeOK
      BY SchedParts
    <2> HIDE DEF r
    <2> QED BY <1>1, <2>1, PublishedIs
  <1>4. /\ Free /\ entries' = [entries EXCEPT ![i] = r]
        /\ held' = held \ {i} /\ astray' = (astray \/ now # real)
        /\ writes' = [op |-> "note", file |-> FALSE, id |-> NoId, undo |-> NoEntry]
        /\ UNCHANGED <<item, real, now, mode, time_valid, defs, torn, state, fired, told, unsure, lost>>
    BY <1>2 DEF TriggerNow, Due, clockVars, diskVars
  <1> HIDE DEF r
  <1>5. astray' \in BOOLEAN /\ (astray => astray') /\ (~astray' => now = real)
    BY <1>4, SchedParts
  <1>6. ~astray' /\ item[i].kind = "once" /\ real >= item[i].start /\ Spent(i, entries[i]) => Spent(i, r)
    BY <1>3, <1>5 DEF Spent
  <1>7. UNCHANGED <<item, real, now, mode, time_valid, defs, torn, state, fired, told, unsure, lost>>
    BY <1>4
  <1> QED BY <1>3, <1>4, <1>5, <1>6, <1>7, EditOne

\* An operation on the whole table.
LEMMA EditAll ==
  ASSUME SchedInv, writes = NoWrites, mode' \in {"loaded", "up"}, entries' \in [Ids -> EntryType],
         UNCHANGED <<item, real, now, defs, torn, state, told, unsure, lost, astray>>, held' \subseteq held,
         time_valid' \in BOOLEAN, time_valid' => now = real, fired' \in [Ids -> 0..2],
         NEW op \in {"note", "load"}, NEW both \in BOOLEAN, both <=> op = "load",
         writes' = [op |-> op, file |-> both, id |-> NoId, undo |-> NoEntry],
         \A j \in held' : \/ Paused(entries'[j]) /\ state[j].status = "paused"
                          \/ entries'[j] = NoEntry /\ defs[j] = "absent",
         \A j \in Ids : \/ mode \in {"loaded", "up"} /\ entries'[j].enabled = entries[j].enabled
                        \/ ~torn /\ entries'[j].enabled = defs[j],
         \A j \in Ids : Planned(j, entries'[j]),
         ~lost /\ ~astray => \A j \in Ids : item[j].kind = "once" /\ fired'[j] > 0 =>
              /\ fired'[j] = 1 /\ real >= item[j].start
              /\ Spent(j, entries'[j])
              /\ op = "note" \/ Spent(j, state[j])
  PROVE  SchedInv'
  <1>1. op \in Ops \ {"none"} /\ op \notin Undoes /\ (both <=> op \in {"store", "load"})
    BY DEF Ops, Undoes
  <1>2. /\ NoId \notin Ids /\ NoId \in Ids \cup {NoId} /\ NoEntry \in EntryType
        /\ astray' \in BOOLEAN
    BY SchedulerAssumption, NoEntryIs, SchedParts
  <1>3. op \notin {"pause", "resume"} /\ op # "pause"
    OBVIOUS
  <1>4. \A j \in held' : /\ \/ Paused(entries'[j]) /\ state[j].status = "paused"
                            \/ entries'[j] = NoEntry /\ defs[j] = "absent"
                         /\ NoId = j => /\ Paused(entries'[j]) /\ Paused(NoEntry)
                                        /\ state[j].status = "paused"
    BY <1>2, SchedParts
  <1>5. \A j \in Ids : Planned(j, entries'[j]) /\ (NoId = j => Planned(j, NoEntry))
    BY <1>2
  <1>6. ~lost /\ ~astray' => \A j \in Ids : item[j].kind = "once" /\ fired'[j] > 0 =>
              /\ fired'[j] = 1 /\ real >= item[j].start
              /\ Spent(j, entries'[j])
              /\ op = "note" \/ Spent(j, state[j])
              /\ NoId = j => Spent(j, NoEntry)
    BY <1>2
  <1> QED BY <1>1, <1>2, <1>3, <1>4, <1>5, <1>6, EditKeeps

LEMMA FireDueKeeps == ASSUME SchedInv, FireDue
                      PROVE  SchedInv'
  <1> DEFINE due == {i \in Ids : Ready(entries[i])}
             missed == {i \in due : Missed(entries[i])}
  <1>1. PICK ok \in SUBSET (due \ missed) :
          /\ entries' = [i \in Ids |->
                IF i \in missed THEN Refreshed(i, entries[i], time_valid, now)
                ELSE IF i \in due THEN Published(i, entries[i], i \in ok, entries[i].next)
                ELSE entries[i]]
          /\ fired' = [i \in Ids |-> IF i \in ok /\ fired[i] < 2 THEN fired[i] + 1 ELSE fired[i]]
    BY DEF FireDue
  <1>2. /\ Free /\ mode' = mode /\ time_valid' = time_valid /\ held' = held /\ astray' = astray
        /\ writes' = [op |-> "note", file |-> FALSE, id |-> NoId, undo |-> NoEntry]
        /\ UNCHANGED <<item, real, now, defs, torn, state, told, unsure, lost>>
    BY DEF FireDue, Due, clockVars, diskVars, faultVars
  <1>3. writes = NoWrites /\ mode \in {"loaded", "up"}
    BY <1>2 DEF Free
  <1>4. ASSUME NEW j \in Ids
        PROVE  /\ entries'[j] \in EntryType
               /\ entries'[j].enabled = entries[j].enabled
               /\ Planned(j, entries'[j])
               /\ ~Ready(entries[j]) => entries'[j] = entries[j]
               /\ j \in ok /\ item[j].kind = "once"
                     => entries'[j].next = NoTime /\ entries'[j].last = now
    <2>1. /\ entries[j] \in EntryType /\ Planned(j, entries[j]) /\ entries[j].next \in Int /\ now \in Int
      BY SchedParts, EntryIsLoose, EntryFields DEF Plans
    <2>2. CASE j \in missed
      <3>1. entries'[j] = Refreshed(j, entries[j], time_valid, now)
        BY <1>1, <2>2
      <3> QED BY <2>1, <2>2, <3>1, EntryIsLoose, RefreshedNow
    <2>3. CASE j \in due /\ j \notin missed
      <3>1. entries'[j] = Published(j, entries[j], j \in ok, entries[j].next)
        BY <1>1, <2>3
      <3>2. (j \in ok) \in BOOLEAN
        OBVIOUS
      <3>3. /\ entries'[j] \in EntryType /\ entries'[j].enabled = entries[j].enabled
            /\ Planned(j, entries[j]) => Planned(j, entries'[j])
            /\ item[j].kind = "once" => /\ entries'[j].last = now
                                        /\ j \in ok => entries'[j].next = NoTime
        <4> DEFINE b == j \in ok
                   r == Published(j, entries[j], b, entries[j].next)
        <4>1. b \in BOOLEAN /\ entries'[j] = r
          BY <3>1
        <4> HIDE DEF b
        <4>2. r = Published(j, entries[j], b, entries[j].next) /\ SchedTypeOK
          BY SchedParts
        <4> HIDE DEF r
        <4>3. /\ r \in EntryType /\ r.enabled = entries[j].enabled
              /\ Planned(j, entries[j]) => Planned(j, r)
              /\ item[j].kind = "once" => /\ r.last = now
                                          /\ b => r.next = NoTime
          BY <2>1, <4>1, <4>2, PublishedIs
        <4> QED BY <4>1, <4>3 DEF b
      <3> QED BY <2>1, <2>3, <3>3
    <2>4. CASE j \notin due
      <3>1. entries'[j] = entries[j] /\ j \notin ok
        BY <1>1, <2>4
      <3> QED BY <2>1, <3>1
    <2> QED BY <2>2, <2>3, <2>4
  <1>5. entries' \in [Ids -> EntryType]
    BY <1>1, <1>4
  <1>6. fired' \in [Ids -> 0..2] /\ \A j \in Ids : j \notin ok => fired'[j] = fired[j]
    BY <1>1, SchedParts
  <1>7. \A j \in held : \/ Paused(entries'[j]) /\ state[j].status = "paused"
                        \/ entries'[j] = NoEntry /\ defs[j] = "absent"
    BY <1>3, <1>4, SchedParts, NoEntryIs DEF HeldPaused, Ready, Paused
  <1>8. ASSUME ~lost, ~astray, NEW j \in Ids, item[j].kind = "once", fired'[j] > 0
        PROVE  fired'[j] = 1 /\ real >= item[j].start /\ Spent(j, entries'[j])
    <2>1. fired[j] > 0 => fired[j] = 1 /\ real >= item[j].start /\ Spent(j, entries[j])
      BY <1>8, SchedParts DEF Over
    <2>2. entries[j].next # NoTime => fired[j] = 0
      BY <1>8, <2>1, SchedParts DEF Spent
    <2>3. CASE j \in ok
      <3>1. entries[j].next > 0 /\ entries[j].next <= now /\ entries[j].next # NoTime
        BY <2>3, NoEntryIs DEF Ready, NoTime
      <3>2. entries[j].next = item[j].start /\ now <= real
        BY <1>8, <3>1, SchedParts DEF Plans, Planned, Clocks
      <3>3. fired[j] = 0 /\ fired'[j] = 1
        BY <1>1, <2>2, <2>3, <3>1
      <3>4. item[j].start \in Nat /\ now \in Nat /\ real \in Nat
        BY SchedParts, ItemFields
      <3> QED BY <1>4, <1>8, <2>3, <3>1, <3>2, <3>3, <3>4 DEF Spent
    <2>4. CASE j \notin ok
      <3>1. fired[j] > 0
        BY <1>6, <1>8, <2>4
      <3>2. entries[j].next = NoTime
        BY <2>1, <3>1 DEF Spent
      <3>3. ~Ready(entries[j])
        BY <3>2 DEF Ready, NoTime
      <3> QED BY <1>4, <1>6, <2>1, <2>4, <3>1, <3>3
    <2> QED BY <2>3, <2>4
  <1>9. time_valid' \in BOOLEAN /\ (time_valid' => now = real)
    BY <1>2, SchedParts DEF Clocks
  <1>10. \A j \in Ids : Planned(j, entries'[j]) /\ entries'[j].enabled = entries[j].enabled
    BY <1>4
  <1> HIDE DEF due, missed
  <1> QED BY <1>2, <1>3, <1>5, <1>6, <1>7, <1>8, <1>9, <1>10, EditAll

LEMMA HandleTimeSyncKeeps == ASSUME SchedInv, HandleTimeSync
                             PROVE  SchedInv'
  <1> DEFINE E(i) == IF RequiresValidTime(i) THEN entries[i]
                     ELSE [entries[i] EXCEPT !.last = 0, !.next = NoTime]
  <1>1. /\ Free /\ now = real /\ mode' = mode /\ time_valid' = TRUE /\ held' = held /\ astray' = astray
        /\ writes' = [op |-> "note", file |-> FALSE, id |-> NoId, undo |-> NoEntry]
        /\ UNCHANGED <<item, real, now, defs, torn, state, told, unsure, lost, fired>>
    BY DEF HandleTimeSync, Due, clockVars, diskVars, ghostVars
  <1>2. entries' = [i \in Ids |-> IF i \notin Occupied(entries) THEN NoEntry
                                  ELSE IF E(i).status = "paused" THEN E(i)
                                       ELSE Refreshed(i, E(i), TRUE, now)]
    BY DEF HandleTimeSync
  <1>3. writes = NoWrites /\ mode \in {"loaded", "up"}
    BY <1>1 DEF Free
  <1>4. ASSUME NEW j \in Ids
        PROVE  /\ entries'[j] \in EntryType
               /\ entries'[j].enabled = entries[j].enabled
               /\ Planned(j, entries'[j])
               /\ entries[j].enabled = "absent" => entries'[j] = NoEntry
               /\ Paused(entries[j]) => Paused(entries'[j])
               /\ item[j].kind = "once" /\ real >= item[j].start /\ Spent(j, entries[j])
                     => Spent(j, entries'[j])
    <2>1. /\ entries[j] \in EntryType /\ Planned(j, entries[j]) /\ now \in Int /\ SchedTypeOK
      BY SchedParts DEF Plans
    <2>2. CASE entries[j].enabled = "absent"
      <3>1. entries'[j] = NoEntry
        BY <1>2, <2>2 DEF Occupied
      <3>3. ~Paused(entries[j])
        BY <2>2 DEF Paused
      <3>2. Planned(j, NoEntry) /\ Spent(j, NoEntry)
        BY NoEntryIs DEF Planned, Spent
      <3> QED BY <2>2, <3>1, <3>2, <3>3, NoEntryIs
    <2>3. CASE entries[j].enabled # "absent"
      <3> DEFINE e == E(j)
      <3>1. entries'[j] = IF e.status = "paused" THEN e ELSE Refreshed(j, e, TRUE, now)
        BY <1>2, <2>3 DEF Occupied
      <3>2. /\ e \in EntryType /\ e.enabled = entries[j].enabled /\ e.status = entries[j].status
            /\ item[j].kind = "once" => e = entries[j]
        <4>1. CASE RequiresValidTime(j)
          BY <2>1, <4>1
        <4>2. CASE ~RequiresValidTime(j)
          <5>1. e = [entries[j] EXCEPT !.last = 0, !.next = NoTime]
            BY <4>2
          <5>2. item[j].kind # "once"
            BY <4>2 DEF RequiresValidTime
          <5>3. NoTime \in Int
            BY NoEntryIs
          <5> HIDE DEF e
          <5> QED BY <2>1, <5>1, <5>2, <5>3 DEF EntryType
        <4> QED BY <4>1, <4>2
      <3> HIDE DEF e, E
      <3>3. Planned(j, e)
        BY <2>1, <3>2 DEF Planned
      <3>4. CASE e.status = "paused"
        <4>1. entries'[j] = e
          BY <3>1, <3>4
        <4>2. Paused(entries[j]) => Paused(e)
          BY <3>2 DEF Paused
        <4>3. item[j].kind = "once" => entries'[j] = entries[j]
          BY <3>2, <4>1
        <4> QED BY <2>3, <3>2, <3>3, <4>1, <4>2, <4>3
      <3>5. CASE e.status # "paused"
        <4>1. entries'[j] = Refreshed(j, e, TRUE, now)
          BY <3>1, <3>5
        <4> DEFINE v == TRUE
                   r == Refreshed(j, e, v, now)
        <4>2. /\ entries'[j] \in EntryType
              /\ entries'[j].enabled = e.enabled /\ entries'[j].last = e.last
              /\ Planned(j, e) => Planned(j, entries'[j])
              /\ item[j].kind = "once" /\ e.next = NoTime /\ now >= item[j].start
                    => entries'[j].next = NoTime
          <5>1. entries'[j] = r /\ e \in LooseEntry /\ v = TRUE
            BY <3>2, <4>1, EntryIsLoose
          <5> HIDE DEF v
          <5>2. r = Refreshed(j, e, v, now)
            OBVIOUS
          <5> HIDE DEF r
          <5>3. /\ r \in EntryType
                /\ r.enabled = e.enabled /\ r.last = e.last
                /\ Planned(j, e) => Planned(j, r)
                /\ item[j].kind = "once" /\ e.next = NoTime /\ (v => now >= item[j].start)
                     => r.next = NoTime
            <6>1. e \in LooseEntry
              BY <5>1
            <6> QED BY <2>1, <5>2, <6>1, RefreshedIs
          <5> QED BY <5>1, <5>3
        <4>3. item[j].kind = "once" /\ real >= item[j].start /\ Spent(j, entries[j])
                     => Spent(j, entries'[j])
          BY <1>1, <3>2, <4>2 DEF Spent
        <4>4. ~Paused(entries[j])
          BY <3>2, <3>5 DEF Paused
        <4> QED BY <2>3, <3>2, <3>3, <4>2, <4>3, <4>4
      <3> QED BY <3>4, <3>5
    <2> QED BY <2>2, <2>3
  <1>5. entries' \in [Ids -> EntryType]
    <2> HIDE DEF E
    <2> QED BY <1>2, <1>4
  <1> HIDE DEF E
  <1>6. \A j \in held : \/ Paused(entries'[j]) /\ state[j].status = "paused"
                        \/ entries'[j] = NoEntry /\ defs[j] = "absent"
    <2> SUFFICES ASSUME NEW j \in held
                 PROVE  \/ Paused(entries'[j]) /\ state[j].status = "paused"
                        \/ entries'[j] = NoEntry /\ defs[j] = "absent"
      OBVIOUS
    <2>1. /\ j \in Ids
          /\ \/ Paused(entries[j]) /\ state[j].status = "paused"
             \/ entries[j] = NoEntry /\ defs[j] = "absent"
      BY <1>1, <1>3, SchedParts DEF HeldPaused
    <2> QED BY <1>4, <2>1, NoEntryIs
  <1>7. \A j \in Ids : Planned(j, entries'[j]) /\ entries'[j].enabled = entries[j].enabled
    BY <1>4
  <1>8. ~lost /\ ~astray => \A j \in Ids : item[j].kind = "once" /\ fired'[j] > 0 =>
              /\ fired'[j] = 1 /\ real >= item[j].start
              /\ Spent(j, entries'[j])
    BY <1>1, <1>4, SchedParts DEF Over
  <1>9. time_valid' \in BOOLEAN /\ (time_valid' => now = real) /\ fired' \in [Ids -> 0..2]
    BY <1>1, SchedParts
  <1> QED BY <1>1, <1>3, <1>5, <1>6, <1>7, <1>8, <1>9, EditAll

\* What a load makes of an entry.
LEMMA LoadedIs ==
  ASSUME SchedInv, NEW valid \in BOOLEAN, valid => now = real, NEW readable \in BOOLEAN,
         NEW j \in Ids, NEW r, r = Loaded(valid, readable)[j]
  PROVE  /\ r \in EntryType /\ r.enabled = defs[j]
         /\ defs[j] = "absent" => r = NoEntry
         /\ readable /\ state[j].status = "paused"
               => Paused(r) \/ (r = NoEntry /\ defs[j] = "absent")
         /\ Planned(j, r)
         /\ item[j].kind = "once" /\ real >= item[j].start /\ Spent(j, state[j]) => Spent(j, r)
  <1> DEFINE e == IF ~readable \/ state[j].status = "absent" THEN Fresh(j)
                  ELSE [state[j] EXCEPT !.enabled = defs[j]]
             anchor == IF e.last > 0 THEN e.last ELSE now
  <1>1. /\ state[j] \in EntryType /\ Planned(j, state[j]) /\ now \in Nat /\ SchedTypeOK
        /\ defs[j] \in {"absent", "on", "off"}
    BY SchedParts DEF Plans
  <1>2. CASE defs[j] = "absent"
    <2>1. r = NoEntry
      BY <1>2 DEF Loaded
    <2>2. Planned(j, NoEntry) /\ Spent(j, NoEntry)
      BY NoEntryIs DEF Planned, Spent
    <2> QED BY <1>2, <2>1, <2>2, NoEntryIs
  <1>3. CASE defs[j] # "absent"
    <2>1. r = IF e.status = "paused" THEN e ELSE Refreshed(j, e, valid, anchor)
      BY <1>3 DEF Loaded
    <2>2. /\ e \in EntryType /\ e.enabled = defs[j]
          /\ readable /\ state[j].status = "paused" => e.status = "paused"
          /\ \/ e.next = NoTime /\ e.last = 0
             \/ e.next = state[j].next /\ e.last = state[j].last
      <3>1. CASE ~readable \/ state[j].status = "absent"
        <4>1. e = Fresh(j)
          BY <3>1
        <4> QED BY <1>1, <3>1, <4>1, NoEntryIs DEF EntryType, Fresh
      <3>2. CASE ~(~readable \/ state[j].status = "absent")
        <4>1. e = [state[j] EXCEPT !.enabled = defs[j]]
          BY <3>2
        <4> HIDE DEF e
        <4> QED BY <1>1, <4>1 DEF EntryType
      <3> QED BY <3>1, <3>2
    <2> HIDE DEF e
    <2>3. Planned(j, e) /\ (Spent(j, state[j]) => Spent(j, e))
      BY <1>1, <2>2 DEF Planned, Spent
    <2>4. CASE e.status = "paused"
      <3>1. r = e
        BY <2>1, <2>4
      <3>2. Paused(r)
        BY <1>3, <2>2, <2>4, <3>1 DEF Paused
      <3>3. r \in EntryType /\ r.enabled = defs[j]
        BY <2>2, <3>1
      <3>4. Planned(j, r) /\ (Spent(j, state[j]) => Spent(j, r))
        BY <2>3, <3>1
      <3> QED BY <1>3, <3>2, <3>3, <3>4
    <2>5. CASE e.status # "paused"
      <3>1. r = Refreshed(j, e, valid, anchor) /\ e \in LooseEntry
        BY <2>1, <2>2, <2>5, EntryIsLoose
      <3>2. anchor \in Int
        BY <1>1, <3>1, EntryFields
      <3>3. item[j].kind = "once" /\ real >= item[j].start /\ Spent(j, state[j])
              => e.next = NoTime /\ (valid => anchor >= item[j].start)
        <4>1. e.last \in Nat /\ item[j].start \in Nat
          BY <1>1, <3>1, EntryFields, ItemFields
        <4> QED BY <2>3, <4>1 DEF Spent
      <3> HIDE DEF anchor
      <3>4. /\ r \in EntryType
            /\ r.enabled = e.enabled /\ r.last = e.last
            /\ Planned(j, e) => Planned(j, r)
            /\ item[j].kind = "once" /\ e.next = NoTime /\ (valid => anchor >= item[j].start)
                  => r.next = NoTime
        BY <1>1, <3>1, <3>2, RefreshedIs
      <3>5. item[j].kind = "once" /\ real >= item[j].start /\ Spent(j, state[j]) => Spent(j, r)
        BY <2>3, <3>3, <3>4 DEF Spent
      <3> QED BY <1>3, <2>2, <2>3, <2>5, <3>4, <3>5
    <2> QED BY <2>4, <2>5
  <1> QED BY <1>2, <1>3

\* init and reload.  After a failed read of the blob no pause is held.
LEMMA LoadKeeps ==
  ASSUME SchedInv, writes = NoWrites, ~torn, mode' \in {"loaded", "up"},
         NEW valid \in BOOLEAN, valid => now = real, Load(valid),
         UNCHANGED <<item, real, now, time_valid, defs, torn, state>>
  PROVE  SchedInv'
  <1>1. PICK readable \in BOOLEAN : /\ entries' = Loaded(valid, readable)
                                    /\ held' = IF readable THEN held ELSE {}
    BY DEF Load
  <1>2. ASSUME NEW j \in Ids
        PROVE  /\ entries'[j] \in EntryType /\ entries'[j].enabled = defs[j]
               /\ readable /\ state[j].status = "paused"
                     => Paused(entries'[j]) \/ (entries'[j] = NoEntry /\ defs[j] = "absent")
               /\ defs[j] = "absent" => entries'[j] = NoEntry
               /\ Planned(j, entries'[j])
               /\ item[j].kind = "once" /\ real >= item[j].start /\ Spent(j, state[j])
                     => Spent(j, entries'[j])
    <2> DEFINE r == Loaded(valid, readable)[j]
    <2>1. r = Loaded(valid, readable)[j] /\ entries'[j] = r
      BY <1>1
    <2> HIDE DEF r
    <2>2. /\ r \in EntryType /\ r.enabled = defs[j]
          /\ defs[j] = "absent" => r = NoEntry
          /\ readable /\ state[j].status = "paused"
                => Paused(r) \/ (r = NoEntry /\ defs[j] = "absent")
          /\ Planned(j, r)
          /\ item[j].kind = "once" /\ real >= item[j].start /\ Spent(j, state[j]) => Spent(j, r)
      BY <2>1, LoadedIs
    <2> QED BY <2>1, <2>2
  <1>3. entries' \in [Ids -> EntryType]
    BY <1>1, <1>2 DEF Loaded
  <1>4. held' \subseteq held
    BY <1>1
  <1>5. \A j \in held' : \/ Paused(entries'[j]) /\ state[j].status = "paused"
                         \/ entries'[j] = NoEntry /\ defs[j] = "absent"
    <2> SUFFICES ASSUME NEW j \in held'
                 PROVE  \/ Paused(entries'[j]) /\ state[j].status = "paused"
                        \/ entries'[j] = NoEntry /\ defs[j] = "absent"
      OBVIOUS
    <2>1. j \in held /\ readable
      BY <1>1
    <2>2. j \in Ids /\ (state[j].status = "paused" \/ defs[j] = "absent")
      BY <2>1, SchedParts DEF HeldPaused
    <2> QED BY <1>2, <2>1, <2>2
  <1>6. \A j \in Ids : Planned(j, entries'[j]) /\ entries'[j].enabled = defs[j]
    BY <1>2
  <1>7. /\ UNCHANGED <<fired, told, unsure, lost, astray>>
        /\ writes' = [op |-> "load", file |-> TRUE, id |-> NoId, undo |-> NoEntry]
    BY DEF Load, Due
  <1>8. ~lost /\ ~astray => \A j \in Ids : item[j].kind = "once" /\ fired'[j] > 0 =>
              /\ fired'[j] = 1 /\ real >= item[j].start
              /\ Spent(j, entries'[j]) /\ Spent(j, state[j])
    BY <1>2, <1>7, NoWritesIs, SchedParts DEF Over
  <1>9. time_valid' \in BOOLEAN /\ (time_valid' => now = real) /\ fired' \in [Ids -> 0..2]
    BY <1>7, SchedParts DEF Clocks
  <1> QED BY <1>3, <1>4, <1>5, <1>6, <1>7, <1>8, <1>9, EditAll

LEMMA ReloadKeeps == ASSUME SchedInv, Reload
                     PROVE  SchedInv'
  <1>1. /\ writes = NoWrites /\ mode' \in {"loaded", "up"} /\ ~torn /\ Load(time_valid)
        /\ UNCHANGED <<item, real, now, time_valid, defs, torn, state>>
    BY DEF Reload, Free, clockVars, diskVars
  <1>2. time_valid \in BOOLEAN /\ (time_valid => now = real)
    BY SchedParts DEF Clocks
  <1> QED BY <1>1, <1>2, LoadKeeps

LEMMA BootKeeps == ASSUME SchedInv, Boot
                   PROVE  SchedInv'
  <1>1. /\ mode = "down" /\ writes = NoWrites /\ entries = NoEntries
        /\ UNCHANGED <<item, real, now, time_valid, defs, torn, state>>
    BY SchedParts DEF Boot, Pending, clockVars, diskVars
  <1>2. CASE ~torn /\ mode' = "loaded" /\ Load(FALSE)
    <2> DEFINE valid == FALSE
    <2>1. valid \in BOOLEAN /\ (valid => now = real) /\ Load(valid) /\ mode' \in {"loaded", "up"}
      BY <1>2
    <2> HIDE DEF valid
    <2> QED BY <1>1, <1>2, <2>1, LoadKeeps
  <1>3. CASE BootFails
    <2>1. /\ mode' = "failed"
          /\ UNCHANGED <<entries, writes, fired, held, told, unsure, lost, astray>>
      BY <1>3 DEF BootFails
    <2>2. SchedTypeOK'
      BY <1>1, <2>1, SchedParts DEF SchedTypeOK
    <2>3. Pending'
      BY <1>1, <2>1, SchedParts DEF Pending, Definitions
    <2>4. HeldPaused'
      BY <1>1, <2>1, SchedParts DEF HeldPaused
    <2>5. ToldStored'
      BY <1>1, <2>1, SchedParts DEF ToldStored
    <2>6. Clocks' /\ Plans' /\ Over'
      BY <1>1, <2>1, SchedParts DEF Clocks, Plans, Planned, Over, Spent
    <2> QED BY <1>1, <2>1, <2>2, <2>3, <2>4, <2>5, <2>6, SchedParts DEF SchedInv
  <1> QED BY <1>2, <1>3 DEF Boot

LEMMA StartTaskKeeps == ASSUME SchedInv, StartTask
                        PROVE  SchedInv'
  <1>1. /\ writes = NoWrites /\ mode = "loaded" /\ mode' = "up"
        /\ UNCHANGED <<item, real, now, time_valid, entries, writes, defs, torn, state, fired, held,
                       told, unsure, lost, astray>>
    BY DEF StartTask, Free, clockVars, diskVars, ghostVars
  <1>2. SchedTypeOK'
    BY <1>1, SchedParts DEF SchedTypeOK
  <1>3. Pending'
    BY <1>1, SchedParts DEF Pending, Definitions
  <1>4. HeldPaused'
    BY <1>1, SchedParts DEF HeldPaused
  <1>5. ToldStored'
    BY <1>1, SchedParts DEF ToldStored
  <1>6. Clocks' /\ Plans' /\ Over'
    BY <1>1, SchedParts DEF Clocks, Plans, Planned, Over, Spent
  <1> QED BY <1>1, <1>2, <1>3, <1>4, <1>5, <1>6, SchedParts DEF SchedInv

\* Only the clock moves, towards the time or with it.
LEMMA ClockKeeps ==
  ASSUME SchedInv, real' \in Nat, now' \in Nat, real <= real', now' <= real',
         now = real => now' = real',
         UNCHANGED <<item, mode, time_valid, entries, writes, defs, torn, state, fired, held, told,
                     unsure, lost, astray>>
  PROVE  SchedInv'
  <1>1. SchedTypeOK'
    BY SchedParts DEF SchedTypeOK
  <1>2. Pending'
    BY SchedParts DEF Pending, Definitions
  <1>3. HeldPaused'
    BY SchedParts DEF HeldPaused
  <1>4. ToldStored'
    BY SchedParts DEF ToldStored
  <1>5. Clocks' /\ Plans'
    BY SchedParts DEF Clocks, Plans, Planned
  <1>6. Over'
    <2> SUFFICES ASSUME ~lost, ~astray, NEW j \in Ids, item[j].kind = "once", fired[j] > 0
                 PROVE  /\ fired[j] = 1 /\ real' >= item[j].start
                        /\ Spent(j, entries[j])
                        /\ writes.op = "note" \/ Spent(j, state[j])
                        /\ writes.id = j => Spent(j, writes.undo)
      BY DEF Over, Spent
    <2>1. /\ fired[j] = 1 /\ real >= item[j].start
          /\ Spent(j, entries[j])
          /\ writes.op = "note" \/ Spent(j, state[j])
          /\ writes.id = j => Spent(j, writes.undo)
      BY SchedParts DEF Over
    <2>2. item[j].start \in Nat /\ real \in Nat
      BY SchedParts, ItemFields
    <2> QED BY <2>1, <2>2
  <1> QED BY <1>1, <1>2, <1>3, <1>4, <1>5, <1>6, SchedParts DEF SchedInv

LEMMA TickKeeps == ASSUME SchedInv, Tick
                   PROVE  SchedInv'
  <1>1. /\ real' = real + 1 /\ now' = now + 1
        /\ UNCHANGED <<item, mode, time_valid, entries, writes, defs, torn, state, fired, held, told,
                       unsure, lost, astray>>
    BY DEF Tick, diskVars, ghostVars
  <1>2. real \in Nat /\ now \in Nat /\ now <= real
    BY SchedParts DEF Clocks
  <1>3. /\ real' \in Nat /\ now' \in Nat /\ real <= real' /\ now' <= real'
        /\ now = real => now' = real'
    BY <1>1, <1>2
  <1> QED BY <1>1, <1>3, ClockKeeps

LEMMA SetClockKeeps == ASSUME SchedInv, SetClock
                       PROVE  SchedInv'
  <1>1. /\ real' = real /\ now' = real /\ real \in Nat
        /\ UNCHANGED <<item, mode, time_valid, entries, writes, defs, torn, state, fired, held, told,
                       unsure, lost, astray>>
    BY SchedParts DEF SetClock, diskVars, ghostVars
  <1>2. /\ real' \in Nat /\ now' \in Nat /\ real <= real' /\ now' <= real'
        /\ now = real => now' = real'
    BY <1>1
  <1> QED BY <1>1, <1>2, ClockKeeps

\* What undoing a change that could not be stored leaves.
LEMMA UndoneIs ==
  ASSUME SchedInv, writes.op # "none"
  PROVE  /\ Undone \in [Ids -> EntryType] /\ mode \in {"loaded", "up"}
         /\ \A j \in Ids : Planned(j, Undone[j])
         /\ \A j \in held : \/ Paused(Undone[j]) /\ state[j].status = "paused"
                            \/ Undone[j] = NoEntry /\ defs[j] = "absent"
         /\ \A j \in Ids : \/ Undone[j].enabled = entries[j].enabled
                           \/ writes.op = "store" /\ writes.id = j
         /\ \A j \in Ids : \/ Undone[j] = entries[j]
                           \/ writes.id = j /\ Undone[j] = writes.undo
  <1>1. mode \in {"loaded", "up"}
    BY NoWritesIs, SchedParts DEF Pending, SchedTypeOK
  <1>2. CASE writes.op \in Undoes
    <2>1. /\ writes.id \in Ids /\ Undone = [entries EXCEPT ![writes.id] = writes.undo]
          /\ writes.op # "store" => writes.undo.enabled = entries[writes.id].enabled
      BY <1>2, SchedParts DEF Undone, Undoes, Pending
    <2>2. /\ Undone \in [Ids -> EntryType] /\ Undone[writes.id] = writes.undo
          /\ \A j \in Ids : j # writes.id => Undone[j] = entries[j]
      BY <2>1, SchedParts
    <2>3. \A j \in held : \/ Paused(Undone[j]) /\ state[j].status = "paused"
                          \/ Undone[j] = NoEntry /\ defs[j] = "absent"
      BY <1>1, <2>2, SchedParts DEF HeldPaused
    <2>4. \A j \in Ids : Planned(j, Undone[j])
      BY <2>2, SchedParts DEF Plans
    <2> QED BY <1>1, <2>1, <2>2, <2>3, <2>4
  <1>3. CASE writes.op \notin Undoes
    <2>1. Undone = entries
      BY <1>3 DEF Undone, Undoes
    <2> QED BY <1>1, <2>1, SchedParts DEF HeldPaused, Plans
  <1> QED BY <1>2, <1>3

LEMMA MayTearIs ==
  ASSUME SchedInv, MayTear
  PROVE  /\ defs' \in [Ids -> {"absent", "on", "off"}] /\ torn' \in BOOLEAN
         /\ \A j \in Ids : defs'[j] = defs[j] \/ defs'[j] = "absent"
         /\ ~torn' => ~torn /\ defs' = defs
  <1>1. NoDefinitions \in [Ids -> {"absent", "on", "off"}] /\ \A j \in Ids : NoDefinitions[j] = "absent"
    BY NoEntryIs DEF NoDefinitions, Definitions, NoEntries
  <1>2. CASE UNCHANGED <<defs, torn>>
    BY <1>2, SchedParts
  <1>3. CASE defs' = NoDefinitions /\ torn' = TRUE
    BY <1>1, <1>3
  <1> QED BY <1>2, <1>3 DEF MayTear

LEMMA SaveItemsKeeps == ASSUME SchedInv, SaveItems
                        PROVE  SchedInv'
  <1>1. /\ writes.file /\ defs' = Definitions(entries) /\ torn' = FALSE
        /\ writes' = [writes EXCEPT !.file = FALSE]
        /\ UNCHANGED <<item, real, now, mode, time_valid, entries, state, fired, held, told, unsure,
                       lost, astray>>
    BY DEF SaveItems, clockVars, ghostVars
  <1>2. /\ writes \in [op : Ops, file : BOOLEAN, id : Ids \cup {NoId}, undo : EntryType]
        /\ writes' \in [op : Ops, file : BOOLEAN, id : Ids \cup {NoId}, undo : EntryType]
        /\ writes'.op = writes.op /\ ~writes'.file /\ writes'.id = writes.id
        /\ writes'.undo = writes.undo
    BY <1>1, SchedParts DEF SchedTypeOK, Ops
  <1>3. /\ writes.op # "none" /\ mode \in {"loaded", "up"}
        /\ writes.op \notin {"pause", "resume", "note"}
    BY <1>1, NoWritesIs, SchedParts DEF Pending, SchedTypeOK
  <1>4. \A j \in Ids : defs'[j] = entries[j].enabled /\ entries[j].enabled \in {"absent", "on", "off"}
    BY <1>1, SchedParts DEF Definitions, EntryType
  <1>5. SchedTypeOK'
    <2>1. defs' \in [Ids -> {"absent", "on", "off"}]
      BY <1>1, <1>4 DEF Definitions
    <2> QED BY <1>1, <1>2, <2>1, SchedParts DEF SchedTypeOK, Ops
  <1>6. Pending'
    BY <1>1, <1>2, <1>3, SchedParts DEF Pending, Definitions
  <1>7. HeldPaused'
    <2>1. \A j \in held : \/ Paused(entries[j]) /\ state[j].status = "paused"
                          \/ entries[j] = NoEntry /\ defs'[j] = "absent"
      BY <1>3, <1>4, NoEntryIs, SchedParts DEF HeldPaused
    <2>2. \A j \in held : writes.id = j => /\ Paused(entries[j]) /\ Paused(writes.undo)
                                           /\ state[j].status = "paused"
      BY SchedParts DEF HeldPaused
    <2> QED BY <1>1, <1>2, <2>1, <2>2 DEF HeldPaused
  <1>8. ToldStored'
    BY <1>1, <1>2, <1>3, <1>4, SchedParts DEF ToldStored
  <1>9. Clocks' /\ Plans' /\ Over'
    BY <1>1, <1>2, SchedParts DEF Clocks, Plans, Planned, Over, Spent
  <1> QED BY <1>1, <1>5, <1>6, <1>7, <1>8, <1>9, SchedParts DEF SchedInv

\* The file was cut short and nobody noticed: nothing can be loaded from it, but
\* what the module has is what it was asked to have.
LEMMA SaveItemsCutShortKeeps == ASSUME SchedInv, SaveItemsCutShort
                                PROVE  SchedInv'
  <1>1. /\ writes.file /\ defs' = NoDefinitions /\ torn' = TRUE
        /\ writes' = [writes EXCEPT !.file = FALSE]
        /\ UNCHANGED <<item, real, now, mode, time_valid, entries, state, fired, held, told, unsure,
                       lost, astray>>
    BY DEF SaveItemsCutShort, clockVars
  <1>2. /\ writes \in [op : Ops, file : BOOLEAN, id : Ids \cup {NoId}, undo : EntryType]
        /\ writes' \in [op : Ops, file : BOOLEAN, id : Ids \cup {NoId}, undo : EntryType]
        /\ writes'.op = writes.op /\ ~writes'.file /\ writes'.id = writes.id
        /\ writes'.undo = writes.undo
    BY <1>1, SchedParts DEF SchedTypeOK, Ops
  <1>3. /\ writes.op # "none" /\ mode \in {"loaded", "up"}
        /\ writes.op \notin {"pause", "resume", "note"}
    BY <1>1, NoWritesIs, SchedParts DEF Pending, SchedTypeOK
  <1>4. /\ defs' \in [Ids -> {"absent", "on", "off"}] /\ torn' \in BOOLEAN
        /\ \A j \in Ids : defs'[j] = defs[j] \/ defs'[j] = "absent"
        /\ ~torn' => ~torn /\ defs' = defs
    <2>1. MayTear
      BY <1>1 DEF MayTear
    <2> QED BY <2>1, MayTearIs
  <1>5. SchedTypeOK'
    BY <1>1, <1>2, <1>4, SchedParts DEF SchedTypeOK, Ops
  <1>6. Pending'
    BY <1>1, <1>2, <1>3, SchedParts DEF Pending
  <1>7. HeldPaused'
    <2>1. \A j \in held : /\ state[j].status = "paused" \/ defs'[j] = "absent"
                          /\ \/ Paused(entries[j]) /\ state[j].status = "paused"
                             \/ entries[j] = NoEntry /\ defs'[j] = "absent"
                          /\ writes.id = j => /\ Paused(entries[j]) /\ Paused(writes.undo)
                                              /\ state[j].status = "paused"
      BY <1>3, <1>4, SchedParts DEF HeldPaused
    <2> QED BY <1>1, <1>2, <2>1 DEF HeldPaused
  <1>8. ToldStored'
    BY <1>1, <1>2, <1>3, SchedParts DEF ToldStored
  <1>9. Clocks' /\ Plans' /\ Over'
    BY <1>1, <1>2, SchedParts DEF Clocks, Plans, Planned, Over, Spent
  <1> QED BY <1>1, <1>5, <1>6, <1>7, <1>8, <1>9, SchedParts DEF SchedInv

\* A write failed: the change is undone and the mutex is free, but for a load,
\* which goes on to the state.
LEMMA SaveItemsFailsKeeps == ASSUME SchedInv, SaveItemsFails
                             PROVE  SchedInv'
  <1>1. /\ writes.file /\ MayTear /\ entries' = Undone
        /\ writes' = IF writes.op = "load" THEN [writes EXCEPT !.file = FALSE] ELSE NoWrites
        /\ unsure' = IF writes.op = "store" THEN unsure \cup {writes.id} ELSE unsure
        /\ UNCHANGED <<item, real, now, mode, time_valid, state, fired, held, told, lost, astray>>
    BY DEF SaveItemsFails, clockVars
  <1>2. /\ writes.op \in {"store", "load"} /\ mode \in {"loaded", "up"}
        /\ writes.op = "store" <=> writes.id \in Ids
        /\ writes \in [op : Ops, file : BOOLEAN, id : Ids \cup {NoId}, undo : EntryType]
    BY <1>1, NoWritesIs, SchedParts DEF Pending, SchedTypeOK, Ops, Undoes
  <1>3. /\ writes' \in [op : Ops, file : BOOLEAN, id : Ids \cup {NoId}, undo : EntryType]
        /\ ~writes'.file /\ writes'.op \in {"none", "load"} /\ writes'.id \notin Ids
        /\ writes'.op = "none" => writes' = NoWrites
    <2>1. CASE writes.op = "load"
      BY <1>1, <1>2, <2>1
    <2>2. CASE writes.op # "load"
      BY <1>1, <2>2, NoWritesIs, NoEntryIs, SchedulerAssumption DEF Ops, NoWrites
    <2> QED BY <2>1, <2>2
  <1>4. /\ entries' \in [Ids -> EntryType]
        /\ \A j \in Ids : Planned(j, entries'[j])
        /\ \A j \in held : \/ Paused(entries'[j]) /\ state[j].status = "paused"
                           \/ entries'[j] = NoEntry /\ defs[j] = "absent"
        /\ \A j \in Ids : \/ entries'[j].enabled = entries[j].enabled
                          \/ writes.op = "store" /\ writes.id = j
        /\ \A j \in Ids : \/ entries'[j] = entries[j]
                          \/ writes.id = j /\ entries'[j] = writes.undo
    BY <1>1, <1>2, UndoneIs
  <1>5. /\ defs' \in [Ids -> {"absent", "on", "off"}] /\ torn' \in BOOLEAN
        /\ \A j \in Ids : defs'[j] = defs[j] \/ defs'[j] = "absent"
        /\ ~torn' => ~torn /\ defs' = defs
    BY <1>1, MayTearIs
  <1>6. SchedTypeOK'
    <2>1. unsure' \in SUBSET Ids
      BY <1>1, <1>2, SchedParts
    <2> QED BY <1>1, <1>3, <1>4, <1>5, <2>1, SchedParts DEF SchedTypeOK, Ops
  <1>7. Pending'
    BY <1>1, <1>2, <1>3 DEF Pending, Undoes
  <1>8. HeldPaused'
    <2>1. \A j \in held : state[j].status = "paused" \/ defs[j] = "absent"
      BY SchedParts DEF HeldPaused
    <2> QED BY <1>1, <1>3, <1>4, <1>5, <2>1, SchedParts DEF HeldPaused
  <1>9. ToldStored'
    <2> SUFFICES ASSUME NEW j \in Ids \ unsure'
                 PROVE  (~torn' => defs'[j] = told[j]) /\ entries'[j].enabled = told[j]
      BY <1>1 DEF ToldStored
    <2>1. j \notin unsure /\ ~(writes.op = "store" /\ writes.id = j)
      BY <1>1
    <2>2. (~torn => defs[j] = told[j]) /\ entries[j].enabled = told[j]
      BY <1>2, <2>1, SchedParts DEF ToldStored
    <2> QED BY <1>4, <1>5, <2>1, <2>2
  <1>10. Clocks' /\ Plans'
    BY <1>1, <1>3, <1>4, SchedParts DEF Clocks, Plans, Planned
  <1>11. Over'
    <2> SUFFICES ASSUME ~lost, ~astray, NEW j \in Ids, item[j].kind = "once", fired[j] > 0
                 PROVE  /\ fired[j] = 1 /\ real >= item[j].start
                        /\ Spent(j, entries'[j]) /\ Spent(j, state[j])
      BY <1>1, <1>3 DEF Over, Spent
    <2>1. /\ fired[j] = 1 /\ real >= item[j].start
          /\ Spent(j, entries[j]) /\ Spent(j, state[j])
          /\ writes.id = j => Spent(j, writes.undo)
      BY <1>2, SchedParts DEF Over
    <2> QED BY <1>4, <2>1
  <1> QED BY <1>1, <1>6, <1>7, <1>8, <1>9, <1>10, <1>11, SchedParts DEF SchedInv

LEMMA SaveStateKeeps == ASSUME SchedInv, SaveState
                        PROVE  SchedInv'
  <1>1. /\ writes.op # "none" /\ ~writes.file /\ state' = RuntimeState(entries) /\ writes' = NoWrites
        /\ held' = IF writes.op = "pause" THEN held \cup {writes.id} ELSE held
        /\ IF writes.op = "store"
           THEN told' = [told EXCEPT ![writes.id] = entries[writes.id].enabled]
                /\ unsure' = unsure \ {writes.id}
           ELSE told' = told /\ unsure' = unsure
        /\ UNCHANGED <<item, real, now, mode, time_valid, entries, defs, torn, fired, lost, astray>>
    BY DEF SaveState, clockVars, faultVars
  <1>2. /\ writes.op \in Undoes <=> writes.id \in Ids
        /\ mode \in {"loaded", "up"}
        /\ writes.op = "pause" => Paused(entries[writes.id])
        /\ writes.op = "store" /\ ~torn => defs = Definitions(entries)
    BY <1>1, NoWritesIs, SchedParts DEF Pending, SchedTypeOK
  <1>3. NoWrites \in [op : Ops, file : BOOLEAN, id : Ids \cup {NoId}, undo : EntryType] /\ NoId \notin Ids
    BY NoEntryIs, SchedulerAssumption DEF NoWrites, Ops
  <1>4. ASSUME NEW j \in Ids
        PROVE  /\ state'[j] \in EntryType /\ state'[j].status = entries[j].status
               /\ state'[j].next = entries[j].next /\ state'[j].last = entries[j].last
    <2>1. entries[j] \in EntryType
      BY SchedParts
    <2>2. state'[j] = [entries[j] EXCEPT !.enabled = "absent"]
      BY <1>1 DEF RuntimeState
    <2> QED BY <2>1, <2>2 DEF EntryType
  <1>5. state' \in [Ids -> EntryType]
    BY <1>1, <1>4 DEF RuntimeState
  <1>6. /\ told' \in [Ids -> {"absent", "on", "off"}] /\ unsure' \in SUBSET Ids
        /\ held' \in SUBSET Ids
    <2>1. \A j \in Ids : entries[j].enabled \in {"absent", "on", "off"}
      BY SchedParts DEF EntryType
    <2>2. told' \in [Ids -> {"absent", "on", "off"}] /\ unsure' \in SUBSET Ids
      BY <1>1, <1>2, <2>1, SchedParts DEF Undoes
    <2>3. held' \in SUBSET Ids
      BY <1>1, <1>2, SchedParts DEF Undoes
    <2> QED BY <2>2, <2>3
  <1>7. SchedTypeOK'
    BY <1>1, <1>3, <1>5, <1>6, SchedParts DEF SchedTypeOK, Ops
  <1>8. Pending'
    BY <1>1, <1>2, <1>3, NoWritesIs DEF Pending, Undoes
  <1>9. HeldPaused'
    <2> SUFFICES ASSUME NEW j \in held'
                 PROVE  \/ Paused(entries[j]) /\ state'[j].status = "paused"
                        \/ entries[j] = NoEntry /\ defs[j] = "absent"
      BY <1>1, <1>3, <1>6, NoWritesIs DEF HeldPaused
    <2>1. j \in Ids
      BY <1>6
    <2>2. Paused(entries[j]) \/ (entries[j] = NoEntry /\ defs[j] = "absent")
      BY <1>1, <1>2, SchedParts DEF HeldPaused
    <2> QED BY <1>4, <2>1, <2>2 DEF Paused
  <1>10. ToldStored'
    <2> SUFFICES ASSUME NEW j \in Ids, j \notin unsure'
                 PROVE  (~torn => defs[j] = told'[j]) /\ entries[j].enabled = told'[j]
      BY <1>1 DEF ToldStored
    <2>1. CASE writes.op = "store" /\ writes.id = j
      BY <1>1, <1>2, <2>1, SchedParts DEF Definitions
    <2>2. CASE ~(writes.op = "store" /\ writes.id = j)
      <3>1. j \notin unsure /\ told'[j] = told[j]
        BY <1>1, <2>2, SchedParts
      <3> QED BY <1>2, <2>2, <3>1, SchedParts DEF ToldStored
    <2> QED BY <2>1, <2>2
  <1>11. Clocks'
    BY <1>1, SchedParts DEF Clocks
  <1>12. Plans'
    <2>1. \A j \in Ids : Planned(j, entries[j]) /\ Planned(j, state'[j])
      BY <1>4, SchedParts DEF Plans, Planned
    <2> QED BY <1>1, <1>3, <2>1, NoWritesIs DEF Plans, Planned
  <1>13. Over'
    <2> SUFFICES ASSUME ~lost, ~astray, NEW j \in Ids, item[j].kind = "once", fired[j] > 0
                 PROVE  /\ fired[j] = 1 /\ real >= item[j].start
                        /\ Spent(j, entries[j]) /\ Spent(j, state'[j])
      BY <1>1, <1>3, NoWritesIs DEF Over, Spent
    <2>1. fired[j] = 1 /\ real >= item[j].start /\ Spent(j, entries[j])
      BY SchedParts DEF Over
    <2> QED BY <1>4, <2>1 DEF Spent
  <1> QED BY <1>1, <1>7, <1>8, <1>9, <1>10, <1>11, <1>12, <1>13, SchedParts DEF SchedInv

LEMMA SaveStateFailsKeeps == ASSUME SchedInv, SaveStateFails
                             PROVE  SchedInv'
  <1>1. /\ writes.op # "none" /\ state' \in {state, NoState, RuntimeState(entries)}
        /\ entries' = Undone /\ writes' = NoWrites
        /\ held' = IF state' = NoState THEN {} ELSE held
        /\ unsure' = IF writes.op = "store" THEN unsure \cup {writes.id} ELSE unsure
        /\ lost' = TRUE
        /\ UNCHANGED <<item, real, now, mode, time_valid, defs, torn, fired, told, astray>>
    BY DEF SaveStateFails, clockVars
  <1>2. /\ entries' \in [Ids -> EntryType] /\ mode \in {"loaded", "up"}
        /\ \A j \in Ids : Planned(j, entries'[j])
        /\ \A j \in held : \/ Paused(entries'[j]) /\ state[j].status = "paused"
                           \/ entries'[j] = NoEntry /\ defs[j] = "absent"
        /\ \A j \in Ids : \/ entries'[j].enabled = entries[j].enabled
                          \/ writes.op = "store" /\ writes.id = j
        /\ \A j \in Ids : \/ entries'[j] = entries[j]
                          \/ writes.id = j /\ entries'[j] = writes.undo
    BY <1>1, UndoneIs
  <1>3. NoWrites \in [op : Ops, file : BOOLEAN, id : Ids \cup {NoId}, undo : EntryType] /\ NoId \notin Ids
    BY NoEntryIs, SchedulerAssumption DEF NoWrites, Ops
  <1>4. state' \in [Ids -> EntryType] /\ \A j \in Ids : Planned(j, state'[j])
    <2>1. CASE state' = state
      BY <2>1, SchedParts DEF Plans
    <2>2. CASE state' = NoState
      <3>1. ASSUME NEW j \in Ids
            PROVE  state'[j] \in EntryType /\ state'[j].next = NoTime
        <4>1. state'[j] = [NoEntry EXCEPT !.enabled = "absent"]
          BY <2>2 DEF NoState, RuntimeState, NoEntries
        <4> QED BY <4>1, NoEntryIs DEF EntryType
      <3>2. state' \in [Ids -> EntryType]
        BY <2>2, <3>1 DEF NoState, RuntimeState
      <3> QED BY <3>1, <3>2 DEF Planned
    <2>3. CASE state' = RuntimeState(entries)
      <3>1. ASSUME NEW j \in Ids
            PROVE  state'[j] \in EntryType /\ state'[j].next = entries[j].next
        <4>1. entries[j] \in EntryType
          BY SchedParts
        <4>2. state'[j] = [entries[j] EXCEPT !.enabled = "absent"]
          BY <2>3 DEF RuntimeState
        <4> QED BY <4>1, <4>2 DEF EntryType
      <3>2. state' \in [Ids -> EntryType]
        BY <2>3, <3>1 DEF RuntimeState
      <3> QED BY <3>1, <3>2, SchedParts DEF Plans, Planned
    <2> QED BY <1>1, <2>1, <2>2, <2>3
  <1>5. SchedTypeOK'
    <2>1. unsure' \in SUBSET Ids
      BY <1>1, SchedParts DEF Pending, Undoes
    <2>2. held' \in SUBSET Ids
      BY <1>1, SchedParts
    <2> QED BY <1>1, <1>2, <1>3, <1>4, <2>1, <2>2, SchedParts DEF SchedTypeOK, Ops
  <1>6. Pending'
    BY <1>1, <1>2, <1>3, NoWritesIs DEF Pending, Undoes
  <1>7. HeldPaused'
    <2> SUFFICES ASSUME NEW j \in held'
                 PROVE  \/ Paused(entries'[j]) /\ state'[j].status = "paused"
                        \/ entries'[j] = NoEntry /\ defs[j] = "absent"
      <3>1. NoId \notin held'
        BY <1>1, <1>3, SchedParts
      <3> QED BY <1>1, <3>1, NoWritesIs DEF HeldPaused
    <2>1. j \in held /\ j \in Ids /\ state' \in {state, RuntimeState(entries)}
      BY <1>1, SchedParts
    <2>2. CASE state' = state
      BY <1>2, <2>1, <2>2
    <2>3. CASE state' = RuntimeState(entries)
      <3>1. state'[j].status = entries[j].status
        <4>1. state'[j] = [entries[j] EXCEPT !.enabled = "absent"] /\ entries[j] \in EntryType
          BY <2>1, <2>3, SchedParts DEF RuntimeState
        <4> QED BY <4>1 DEF EntryType
      <3>2. CASE entries'[j] = entries[j]
        BY <1>2, <2>1, <3>1, <3>2 DEF Paused
      <3>3. CASE writes.id = j /\ entries'[j] = writes.undo
        <4>1. Paused(entries[j]) /\ Paused(writes.undo)
          BY <2>1, <3>3, SchedParts DEF HeldPaused
        <4> QED BY <3>1, <3>3, <4>1 DEF Paused
      <3> QED BY <1>2, <2>1, <3>2, <3>3
    <2> QED BY <2>1, <2>2, <2>3
  <1>8. ToldStored'
    <2> SUFFICES ASSUME NEW j \in Ids, j \notin unsure'
                 PROVE  (~torn => defs[j] = told[j]) /\ entries'[j].enabled = told[j]
      BY <1>1 DEF ToldStored
    <2>1. j \notin unsure /\ ~(writes.op = "store" /\ writes.id = j)
      BY <1>1
    <2> QED BY <1>2, <2>1, SchedParts DEF ToldStored
  <1>9. Clocks' /\ Over'
    BY <1>1, SchedParts DEF Clocks, Over
  <1>10. Plans'
    <2>1. \A j \in Ids : Planned(j, entries'[j]) /\ Planned(j, state'[j])
      BY <1>2, <1>4
    <2> QED BY <1>1, <1>3, <2>1, NoWritesIs DEF Plans, Planned
  <1> QED BY <1>1, <1>5, <1>6, <1>7, <1>8, <1>9, <1>10, SchedParts DEF SchedInv

LEMMA ResetKeeps == ASSUME SchedInv, Reset
                    PROVE  SchedInv'
  <1>1. /\ mode' = "down" /\ time_valid' = FALSE /\ entries' = NoEntries /\ writes' = NoWrites
        /\ unsure' = IF writes.op = "store" THEN unsure \cup {writes.id} ELSE unsure
        /\ lost' = (lost \/ writes.op = "note")
        /\ UNCHANGED <<item, state, fired, held, told, astray>>
    BY DEF Reset, clockVars
  <1>2. real' \in Nat /\ now' \in Nat /\ real <= real' /\ now' <= real'
    <2>1. real \in Nat /\ now \in Nat /\ now <= real
      BY SchedParts DEF Clocks
    <2>2. CASE UNCHANGED clockVars
      BY <2>1, <2>2 DEF clockVars
    <2>3. CASE real' = real + 2 /\ now' = 1
      BY <2>1, <2>3
    <2> QED BY <2>2, <2>3 DEF Reset
  <1>3. /\ defs' \in [Ids -> {"absent", "on", "off"}] /\ torn' \in BOOLEAN
        /\ \A j \in Ids : defs'[j] = defs[j] \/ defs'[j] = "absent"
        /\ ~torn' => ~torn /\ defs' = defs
    <2>1. MayTear
      BY DEF Reset, MayTear
    <2> QED BY <2>1, MayTearIs
  <1>4. /\ NoWrites \in [op : Ops, file : BOOLEAN, id : Ids \cup {NoId}, undo : EntryType]
        /\ NoId \notin Ids /\ NoEntries \in [Ids -> EntryType] /\ \A j \in Ids : NoEntries[j] = NoEntry
    BY NoEntryIs, SchedulerAssumption DEF NoWrites, Ops, NoEntries
  <1>5. SchedTypeOK'
    <2>1. unsure' \in SUBSET Ids
      BY <1>1, SchedParts DEF Pending, Undoes
    <2> QED BY <1>1, <1>2, <1>3, <1>4, <2>1, SchedParts DEF SchedTypeOK, Ops
  <1>6. Pending'
    BY <1>1, <1>4, NoWritesIs DEF Pending, Undoes
  <1>7. HeldPaused'
    <2>1. \A j \in held : state[j].status = "paused" \/ defs'[j] = "absent"
      BY <1>3, SchedParts DEF HeldPaused
    <2> QED BY <1>1, <1>4, <2>1, NoWritesIs, SchedParts DEF HeldPaused
  <1>8. ToldStored'
    <2> SUFFICES ASSUME NEW j \in Ids, j \notin unsure', ~torn'
                 PROVE  defs'[j] = told[j]
      BY <1>1 DEF ToldStored
    <2>1. j \notin unsure /\ ~(writes.op = "store" /\ writes.id = j)
      BY <1>1
    <2> QED BY <1>3, <2>1, SchedParts DEF ToldStored
  <1>9. Clocks'
    BY <1>1, <1>2 DEF Clocks
  <1>10. Plans'
    <2>1. \A j \in Ids : Planned(j, NoEntry) /\ Planned(j, state[j])
      BY NoEntryIs, SchedParts DEF Plans, Planned
    <2> QED BY <1>1, <1>4, <2>1, NoWritesIs DEF Plans, Planned
  <1>11. Over'
    <2> SUFFICES ASSUME ~lost, writes.op # "note", ~astray, NEW j \in Ids, item[j].kind = "once",
                        fired[j] > 0
                 PROVE  /\ fired[j] = 1 /\ real' >= item[j].start
                        /\ Spent(j, NoEntry) /\ Spent(j, state[j])
      BY <1>1, <1>4, NoWritesIs, SchedParts DEF Over, Spent
    <2>1. fired[j] = 1 /\ real >= item[j].start /\ Spent(j, state[j])
      BY SchedParts DEF Over
    <2>2. item[j].start \in Nat /\ real \in Nat
      BY SchedParts, ItemFields
    <2> QED BY <1>2, <2>1, <2>2, NoEntryIs DEF Spent
  <1>12. lost' \in BOOLEAN
    BY <1>1, SchedParts
  <1> QED BY <1>1, <1>5, <1>6, <1>7, <1>8, <1>9, <1>10, <1>11, <1>12, SchedParts DEF SchedInv

LEMMA SchedStarts == SchedInit => SchedInv
  <1> SUFFICES ASSUME SchedInit
               PROVE  SchedInv
    OBVIOUS
  <1>1. /\ item \in [Ids -> Items] /\ real = Epoch /\ now \in {1, Epoch} /\ Epoch \in Nat \ {0}
        /\ mode = "down" /\ time_valid = FALSE /\ entries = NoEntries /\ writes = NoWrites
        /\ defs = NoDefinitions /\ torn = FALSE /\ state = NoState
        /\ fired = [i \in Ids |-> 0] /\ held = {} /\ told = NoDefinitions /\ unsure = {}
        /\ lost = FALSE /\ astray = FALSE
    BY SchedulerAssumption DEF SchedInit
  <1>2. /\ NoEntries \in [Ids -> EntryType] /\ \A i \in Ids : NoEntries[i] = NoEntry
        /\ NoDefinitions \in [Ids -> {"absent", "on", "off"}]
    BY NoEntryIs DEF NoEntries, NoDefinitions, Definitions
  <1>3. ASSUME NEW i \in Ids
        PROVE  NoState[i] \in EntryType /\ NoState[i].next = NoTime
    <2>1. NoState[i] = [NoEntry EXCEPT !.enabled = "absent"]
      BY <1>3 DEF NoState, RuntimeState, NoEntries
    <2> QED BY <2>1, NoEntryIs DEF EntryType
  <1>4. NoState \in [Ids -> EntryType]
    BY <1>3 DEF NoState, RuntimeState
  <1>5. NoWrites \in [op : Ops, file : BOOLEAN, id : Ids \cup {NoId}, undo : EntryType] /\ NoId \notin Ids
    BY NoEntryIs, SchedulerAssumption DEF NoWrites, Ops
  <1>6. SchedTypeOK
    <2>1. fired \in [Ids -> 0..2] /\ held \in SUBSET Ids /\ unsure \in SUBSET Ids
      BY <1>1
    <2>2. real \in Nat /\ now \in Nat
      BY <1>1
    <2>3. mode \in {"down", "loaded", "up", "failed"} /\ time_valid \in BOOLEAN /\ torn \in BOOLEAN
      BY <1>1
    <2>4. entries \in [Ids -> EntryType] /\ state \in [Ids -> EntryType]
      BY <1>1, <1>2, <1>4
    <2>5. /\ defs \in [Ids -> {"absent", "on", "off"}] /\ told \in [Ids -> {"absent", "on", "off"}]
          /\ writes \in [op : Ops, file : BOOLEAN, id : Ids \cup {NoId}, undo : EntryType]
      BY <1>1, <1>2, <1>5
    <2> QED BY <1>1, <2>1, <2>2, <2>3, <2>4, <2>5 DEF SchedTypeOK, Ops
  <1>7. Pending
    BY <1>1, <1>5, NoWritesIs DEF Pending, Undoes
  <1>8. HeldPaused /\ ToldStored
    BY <1>1, <1>5 DEF HeldPaused, ToldStored
  <1>9. Clocks
    BY <1>1 DEF Clocks
  <1>10. Plans
    <2>1. \A i \in Ids : Planned(i, entries[i]) /\ Planned(i, state[i])
      BY <1>1, <1>2, <1>3, NoEntryIs DEF Planned
    <2> QED BY <1>1, <1>5, <2>1, NoWritesIs DEF Plans
  <1>11. Over
    BY <1>1 DEF Over
  <1> QED BY <1>1, <1>6, <1>7, <1>8, <1>9, <1>10, <1>11 DEF SchedInv

LEMMA SchedStutters == ASSUME SchedInv, UNCHANGED schedVars
                       PROVE  SchedInv'
  <1>1. UNCHANGED <<item, real, now, mode, time_valid, entries, writes, defs, torn, state, fired, held,
                    told, unsure, lost, astray>>
    BY DEF schedVars
  <1>2. real \in Nat /\ now \in Nat /\ now <= real
    BY SchedParts DEF Clocks
  <1> QED BY <1>1, <1>2, ClockKeeps

LEMMA SchedSteps == SchedInv /\ [SchedNext]_schedVars => SchedInv'
  <1> SUFFICES ASSUME SchedInv, [SchedNext]_schedVars
               PROVE  SchedInv'
    OBVIOUS
  <1>1. CASE FireDue          BY <1>1, FireDueKeeps
  <1>2. CASE HandleTimeSync   BY <1>2, HandleTimeSyncKeeps
  <1>3. CASE Boot             BY <1>3, BootKeeps
  <1>4. CASE StartTask        BY <1>4, StartTaskKeeps
  <1>5. CASE Reload           BY <1>5, ReloadKeeps
  <1>6. CASE SaveItems        BY <1>6, SaveItemsKeeps
  <1>7. CASE SaveItemsCutShort \/ SaveItemsFails
    BY <1>7, SaveItemsCutShortKeeps, SaveItemsFailsKeeps
  <1>8. CASE SaveState        BY <1>8, SaveStateKeeps
  <1>9. CASE SaveStateFails   BY <1>9, SaveStateFailsKeeps
  <1>10. CASE Tick            BY <1>10, TickKeeps
  <1>11. CASE SetClock        BY <1>11, SetClockKeeps
  <1>12. CASE Reset           BY <1>12, ResetKeeps
  <1>13. ASSUME NEW i \in Ids, Remove(i) \/ Pause(i) \/ Resume(i) \/ TriggerNow(i)
         PROVE  SchedInv'
    BY <1>13, RemoveKeeps, PauseKeeps, ResumeKeeps, TriggerNowKeeps
  <1>14. ASSUME NEW i \in Ids, NEW enabled \in {"on", "off"},
                Add(i, enabled) \/ Update(i, enabled) \/ Enable(i, enabled)
         PROVE  SchedInv'
    BY <1>14, AddKeeps, UpdateKeeps, EnableKeeps
  <1>15. CASE UNCHANGED schedVars
    BY <1>15, SchedStutters
  <1> QED
    BY <1>1, <1>2, <1>3, <1>4, <1>5, <1>6, <1>7, <1>8, <1>9, <1>10, <1>11, <1>12, <1>13, <1>14, <1>15
       DEF SchedNext

\* What a reset, a reload, a time sync, a failed write or a failed read leaves
\* of an entry is one of the things its callers were told, unless the file was
\* cut short; an entry whose pause was confirmed is paused, unless the blob could
\* not be read or was erased; and a once entry that was fired is never planned
\* again.
THEOREM SchedulerInvariant == SchedSpec => []SchedInv
  BY SchedStarts, SchedSteps, PTL DEF SchedSpec

\* The state of the scheduler stays within its types.
THEOREM SchedTypeCorrect == SchedSpec => []SchedTypeOK
  <1>1. SchedInv => SchedTypeOK
    BY DEF SchedInv
  <1> QED BY <1>1, SchedulerInvariant, PTL

\* The clock fires an entry of kind once at most once, over any number of
\* resets, unless a save was lost or it was triggered while the clock was behind.
THEOREM OnceIsOnce == SchedSpec => []OnceFiresOnce
  <1>1. SchedInv => OnceFiresOnce
    <2> SUFFICES ASSUME SchedInv, ~lost, ~astray, NEW i \in Ids, item[i].kind = "once"
                 PROVE  fired[i] <= 1
      BY DEF OnceFiresOnce
    <2>1. fired[i] \in 0..2 /\ (fired[i] > 0 => fired[i] = 1)
      BY SchedParts DEF Over
    <2> QED BY <2>1
  <1> QED BY <1>1, SchedulerInvariant, PTL

\* What the callers were told is stored is what the module has whenever it is
\* free, and what the file has whenever the module is down or its init has
\* failed and the file was not cut short, over any number of resets, failed
\* writes and failed reads.
THEOREM StoredComesBack == SchedSpec => []StoredIsLoaded
  <1>1. SchedInv => StoredIsLoaded
    <2> SUFFICES ASSUME SchedInv, NEW i \in Ids, i \notin unsure
                 PROVE  /\ Free => entries[i].enabled = told[i]
                        /\ mode \in {"down", "failed"} /\ ~torn => defs[i] = told[i]
      BY DEF StoredIsLoaded
    <2>1. \/ writes.op = "store" /\ writes.id = i
          \/ /\ ~torn => defs[i] = told[i]
             /\ mode \in {"loaded", "up"} => entries[i].enabled = told[i]
      BY SchedParts DEF ToldStored
    <2>2. CASE Free
      BY <2>1, <2>2, NoWritesIs DEF Free
    <2>3. CASE mode \in {"down", "failed"}
      <3>1. writes.op = "none"
        BY <2>3, NoWritesIs, SchedParts DEF Pending
      <3> QED BY <2>1, <2>3, <3>1 DEF Free
    <2> QED BY <2>2, <2>3
  <1> QED BY <1>1, SchedulerInvariant, PTL

\* No step of the clock fires an entry whose pause was confirmed, as long as no
\* load failed to read the blob and no save erased it.
THEOREM HeldIsNotFired == SchedSpec => PausedStaysQuiet
  <1>1. ASSUME SchedInv, FireDue, NEW i \in held
        PROVE  fired'[i] = fired[i]
    <2> DEFINE due == {j \in Ids : Ready(entries[j])}
               missed == {j \in due : Missed(entries[j])}
    <2>1. PICK ok \in SUBSET (due \ missed) :
             fired' = [j \in Ids |-> IF j \in ok /\ fired[j] < 2 THEN fired[j] + 1 ELSE fired[j]]
      BY <1>1 DEF FireDue
    <2>2. i \in Ids /\ (Paused(entries[i]) \/ entries[i] = NoEntry)
      BY <1>1, SchedParts DEF HeldPaused, FireDue, Free
    <2>3. i \notin due
      BY <2>2, NoEntryIs DEF Ready, Paused
    <2> QED BY <2>1, <2>2, <2>3
  <1>2. [SchedNext]_schedVars /\ ~FireDue => fired' = fired
    <2> SUFFICES ASSUME [SchedNext]_schedVars, ~FireDue
                 PROVE  fired' = fired
      OBVIOUS
    <2>1. CASE HandleTimeSync \/ Boot \/ StartTask \/ Reload
      BY <2>1 DEF HandleTimeSync, Boot, BootFails, Load, StartTask, Reload, ghostVars
    <2>2. CASE SaveItems \/ SaveItemsCutShort \/ SaveItemsFails \/ SaveState \/ SaveStateFails
      BY <2>2 DEF SaveItems, SaveItemsCutShort, SaveItemsFails, SaveState, SaveStateFails, ghostVars
    <2>3. CASE Tick \/ SetClock \/ Reset
      BY <2>3 DEF Tick, SetClock, Reset, ghostVars
    <2>4. ASSUME NEW i \in Ids, Remove(i) \/ Pause(i) \/ Resume(i) \/ TriggerNow(i)
          PROVE  fired' = fired
      BY <2>4 DEF Remove, Pause, Resume, TriggerNow, ghostVars
    <2>5. ASSUME NEW i \in Ids, NEW enabled \in {"on", "off"},
                 Add(i, enabled) \/ Update(i, enabled) \/ Enable(i, enabled)
          PROVE  fired' = fired
      BY <2>5 DEF Add, Update, Enable, ghostVars
    <2>6. CASE UNCHANGED schedVars
      BY <2>6 DEF schedVars
    <2> QED BY <2>1, <2>2, <2>3, <2>4, <2>5, <2>6 DEF SchedNext
  <1>3. SchedInv /\ [SchedNext]_schedVars => [\A i \in held : fired'[i] = fired[i]]_schedVars
    BY <1>1, <1>2
  <1> QED BY <1>3, SchedulerInvariant, PTL DEF SchedSpec, PausedStaysQuiet

-----------------------------------------------------------------------------
(* WifiManager.                                                            *)

QueuedEvents == {"sta_start", "ap_start", "ap_stop", "got_ip", "disconnected"}
LinkEvents == {"got_ip", "disconnected"}
PointEvents == {"ap_start", "ap_stop"}

Has(q, e) == \E i \in DOMAIN q : q[i] = e
NoLink(q) == ~Has(q, "got_ip") /\ ~Has(q, "disconnected")

\* The last of the events of the access point tells what it is; with none of
\* them queued the module knows.
Told(q, active, ap) ==
    /\ \A i \in DOMAIN q :
          q[i] \in PointEvents /\ (\A j \in DOMAIN q : j > i => q[j] \notin PointEvents)
             => (ap <=> q[i] = "ap_start")
    /\ (\A i \in DOMAIN q : q[i] \notin PointEvents) => (active <=> ap)

\* One event of the link at a time; none of the access point comes too late for
\* the handler of the address.
Single(q) == \A i, j \in DOMAIN q : q[i] \in LinkEvents /\ q[j] \in LinkEvents => i = j
Prompt(q) == \A i, j \in DOMAIN q : q[i] = "got_ip" /\ j > i => q[j] \notin PointEvents

\* A station that is not there has no link.
NoStationNoLink == ~radio.sta => radio.link = "down"

OneAtATime ==
    /\ Single(events) /\ Prompt(events)
    /\ handler # "none" => NoLink(events)
    /\ Has(events, "got_ip") => radio.link = "up"
    /\ Has(events, "disconnected") => radio.link # "up"
    /\ handler = "fall_back" => ~config.sta
    /\ handler = "close_ap" => radio.link = "up"

\* The stack has a station when one is configured.
Agrees ==
    /\ console \in {"none", "leave", "join"} /\ handler # "fall_back" => (radio.sta <=> config.sta)
    /\ console = "scan" => ~config.sta /\ radio.link = "down"

Connection ==
    NoLink(events) => /\ connected => radio.link = "up"
                      /\ radio.link = "up" /\ console \notin {"mode", "leave"} => connected

\* What is not as it has to be is being worked at.
Tended ==
    /\ console = "none" /\ config.sta /\ radio.link = "down" =>
          timer \/ Has(events, "disconnected") \/ Has(events, "sta_start")
    /\ ~radio.ap \/ radio.link # "down" =>
          config.sta \/ handler = "fall_back" \/ console \in {"reset", "mode"}
    /\ console \in {"none", "join"} /\ radio.link = "up" /\ config.close /\ radio.ap =>
          handler = "close_ap" \/ Has(events, "got_ip")

WifiInv == /\ WifiTypeOK /\ crossed \in BOOLEAN
           /\ NoStationNoLink /\ Told(events, ap_active, radio.ap)
           /\ ~crossed => OneAtATime /\ Agrees /\ Connection /\ Tended

\* What is known of a queue with one more event, or one less.
LEMMA QueuePut ==
  ASSUME NEW q \in Seq(QueuedEvents), NEW e \in QueuedEvents, NEW r, r = Append(q, e)
  PROVE  /\ r \in Seq(QueuedEvents)
         /\ \A x : Has(r, x) <=> Has(q, x) \/ x = e
         /\ Single(q) /\ (e \in LinkEvents => NoLink(q)) => Single(r)
         /\ Prompt(q) /\ (e \in PointEvents => ~Has(q, "got_ip")) => Prompt(r)
         /\ \A active, ap : Told(q, active, ap) /\ e \notin PointEvents => Told(r, active, ap)
         /\ \A active, ap : e \in PointEvents /\ (ap <=> e = "ap_start") => Told(r, active, ap)
  <1>1. /\ r \in Seq(QueuedEvents) /\ Len(r) = Len(q) + 1 /\ Len(q) \in Nat
        /\ DOMAIN q = 1..Len(q) /\ DOMAIN r = 1..(Len(q) + 1)
        /\ r[Len(q) + 1] = e
        /\ \A i \in 1..Len(q) : r[i] = q[i]
    OBVIOUS
  <1>2. /\ \A i \in DOMAIN r : (i \in DOMAIN q /\ r[i] = q[i]) \/ (i = Len(q) + 1 /\ r[i] = e)
        /\ \A i \in DOMAIN q : i \in DOMAIN r /\ r[i] = q[i] /\ i < Len(q) + 1 /\ i \in Int
        /\ Len(q) + 1 \in DOMAIN r /\ Len(q) + 1 \notin DOMAIN q /\ Len(q) + 1 \in Int
    BY <1>1
  <1>3. \A x : Has(r, x) <=> Has(q, x) \/ x = e
    BY <1>1, <1>2 DEF Has
  <1>4. Single(q) /\ (e \in LinkEvents => NoLink(q)) => Single(r)
    BY <1>1, <1>2 DEF Single, NoLink, Has, LinkEvents
  <1>5. Prompt(q) /\ (e \in PointEvents => ~Has(q, "got_ip")) => Prompt(r)
    BY <1>1, <1>2 DEF Prompt, Has
  <1>6. ASSUME NEW active, NEW ap, Told(q, active, ap), e \notin PointEvents
        PROVE  Told(r, active, ap)
    BY <1>1, <1>2, <1>6 DEF Told
  <1>7. ASSUME NEW active, NEW ap, e \in PointEvents, ap <=> e = "ap_start"
        PROVE  Told(r, active, ap)
    BY <1>1, <1>2, <1>7 DEF Told
  <1> QED BY <1>1, <1>3, <1>4, <1>5, <1>6, <1>7

LEMMA QueueTaken ==
  ASSUME NEW q \in Seq(QueuedEvents), q # <<>>, NEW r, r = Tail(q), NEW e, e = Head(q)
  PROVE  /\ r \in Seq(QueuedEvents) /\ e \in QueuedEvents
         /\ \A x : Has(q, x) <=> Has(r, x) \/ x = e
         /\ Single(q) => Single(r) /\ (e \in LinkEvents => NoLink(r))
         /\ Prompt(q) => Prompt(r)
         /\ Prompt(q) /\ e = "got_ip" => \A x \in PointEvents : ~Has(r, x)
         /\ \A active, ap : Told(q, active, ap) =>
               Told(r, IF e \in PointEvents THEN e = "ap_start" ELSE active, ap)
  <1>1. /\ r \in Seq(QueuedEvents) /\ Len(q) \in Nat \ {0} /\ e = q[1] /\ e \in QueuedEvents
        /\ DOMAIN q = 1..Len(q) /\ DOMAIN r = 1..(Len(q) - 1)
        /\ \A i \in 1..(Len(q) - 1) : r[i] = q[i + 1]
    OBVIOUS
  <1>2. /\ \A i \in DOMAIN r : i + 1 \in DOMAIN q /\ r[i] = q[i + 1] /\ i \in Int /\ i > 0
        /\ \A i \in DOMAIN q : /\ i \in Int
                               /\ i = 1 \/ (i > 1 /\ i - 1 \in DOMAIN r /\ r[i - 1] = q[i])
        /\ 1 \in DOMAIN q
    BY <1>1
  <1>3. \A x : Has(q, x) <=> Has(r, x) \/ x = e
    BY <1>1, <1>2, ZenonT(40) DEF Has
  <1>4. ASSUME Single(q)
        PROVE  Single(r) /\ (e \in LinkEvents => NoLink(r))
    <2>1. Single(r)
      BY <1>2, <1>4 DEF Single
    <2>2. ASSUME e \in LinkEvents, NEW i \in DOMAIN r
          PROVE  r[i] \notin LinkEvents
      BY <1>1, <1>2, <1>4, <2>2 DEF Single
    <2> QED BY <2>1, <2>2 DEF NoLink, Has, LinkEvents
  <1>5. Prompt(q) => Prompt(r)
    <2> SUFFICES ASSUME Prompt(q), NEW i \in DOMAIN r, NEW j \in DOMAIN r, r[i] = "got_ip", j > i
                 PROVE  r[j] \notin PointEvents
      BY DEF Prompt
    <2>1. i + 1 \in DOMAIN q /\ j + 1 \in DOMAIN q /\ q[i + 1] = "got_ip" /\ j + 1 > i + 1
          /\ r[j] = q[j + 1]
      BY <1>2
    <2> QED BY <2>1 DEF Prompt
  <1>6. Prompt(q) /\ e = "got_ip" => \A x \in PointEvents : ~Has(r, x)
    <2> SUFFICES ASSUME Prompt(q), e = "got_ip", NEW i \in DOMAIN r
                 PROVE  r[i] \notin PointEvents
      BY DEF Has
    <2>1. 1 \in DOMAIN q /\ i + 1 \in DOMAIN q /\ i + 1 > 1 /\ r[i] = q[i + 1] /\ q[1] = "got_ip"
      BY <1>1, <1>2
    <2> QED BY <2>1 DEF Prompt
  <1>7. ASSUME NEW active, NEW ap, Told(q, active, ap)
        PROVE  Told(r, IF e \in PointEvents THEN e = "ap_start" ELSE active, ap)
    <2>1. ASSUME NEW i \in DOMAIN r, r[i] \in PointEvents,
                 \A j \in DOMAIN r : j > i => r[j] \notin PointEvents
          PROVE  ap <=> r[i] = "ap_start"
      <3>1. i + 1 \in DOMAIN q /\ q[i + 1] = r[i]
        BY <1>2
      <3>2. ASSUME NEW j \in DOMAIN q, j > i + 1
            PROVE  q[j] \notin PointEvents
        <4>1. j - 1 \in DOMAIN r /\ r[j - 1] = q[j] /\ j - 1 > i
          BY <1>2, <3>2
        <4> QED BY <2>1, <4>1
      <3> QED BY <1>7, <2>1, <3>1, <3>2 DEF Told
    <2>2. ASSUME \A i \in DOMAIN r : r[i] \notin PointEvents
          PROVE  (IF e \in PointEvents THEN e = "ap_start" ELSE active) <=> ap
      <3>1. \A i \in DOMAIN q : i > 1 => q[i] \notin PointEvents
        BY <1>2, <2>2
      <3>2. CASE e \in PointEvents
        BY <1>1, <1>2, <1>7, <3>1, <3>2 DEF Told
      <3>3. CASE e \notin PointEvents
        <4>1. \A i \in DOMAIN q : q[i] \notin PointEvents
          BY <1>1, <1>2, <3>1, <3>3
        <4> QED BY <1>7, <3>3, <4>1 DEF Told
      <3> QED BY <3>2, <3>3
    <2> QED BY <2>1, <2>2 DEF Told
  <1> QED BY <1>1, <1>3, <1>4, <1>5, <1>6, <1>7

LEMMA WifiParts ==
  ASSUME WifiTypeOK
  PROVE  /\ config.sta \in BOOLEAN /\ config.close \in BOOLEAN /\ config \in Configs
         /\ retry_count \in Nat /\ connected \in BOOLEAN /\ ap_active \in BOOLEAN /\ timer \in BOOLEAN
         /\ radio.ap \in BOOLEAN /\ radio.sta \in BOOLEAN /\ radio.link \in {"down", "trying", "up"}
         /\ events \in Seq(QueuedEvents)
  BY WifiAssumption DEF WifiTypeOK, Configs, QueuedEvents

Radios == [ap : BOOLEAN, sta : BOOLEAN, link : {"down", "trying", "up"}]

LEMMA ConnectsIs ==
  ASSUME WifiTypeOK, Connects
  PROVE  /\ radio' \in Radios /\ radio'.ap = radio.ap /\ radio'.sta = radio.sta
         /\ radio.sta /\ radio.link = "down" => radio'.link = "trying"
         /\ ~(radio.sta /\ radio.link = "down") => radio'.link = radio.link
  <1>1. radio \in Radios
    BY DEF WifiTypeOK, Radios
  <1>2. PICK l \in {"down", "trying", "up"} :
          /\ radio' = [radio EXCEPT !.link = l]
          /\ l = IF radio.sta /\ radio.link = "down" THEN "trying" ELSE radio.link
    BY <1>1 DEF Connects, Radios
  <1> QED BY <1>1, <1>2 DEF Radios

LEMMA LinkSet ==
  ASSUME WifiTypeOK, NEW l \in {"down", "trying", "up"}, radio' = [radio EXCEPT !.link = l]
  PROVE  radio' \in Radios /\ radio'.ap = radio.ap /\ radio'.sta = radio.sta /\ radio'.link = l
  <1>1. radio \in Radios
    BY DEF WifiTypeOK, Radios
  <1> QED BY <1>1 DEF Radios

\* What a change of the mode adds to the queue.
LEMMA SetModeIs ==
  ASSUME WifiTypeOK, NEW ap \in BOOLEAN, NEW sta \in BOOLEAN, SetMode(ap, sta)
  PROVE  /\ radio' \in Radios /\ radio'.ap = ap /\ radio'.sta = sta
         /\ radio'.link = IF sta THEN radio.link ELSE "down"
         /\ events' \in Seq(QueuedEvents)
         /\ Has(events', "got_ip") <=> Has(events, "got_ip")
         /\ Has(events', "disconnected")
               <=> Has(events, "disconnected") \/ (radio.sta /\ ~sta /\ radio.link # "down")
         /\ Has(events, "sta_start") => Has(events', "sta_start")
         /\ Single(events) /\ (NoLink(events) \/ ~radio.sta \/ sta \/ radio.link = "down")
               => Single(events')
         /\ Prompt(events) /\ (~Has(events, "got_ip") \/ radio.ap = ap) => Prompt(events')
         /\ Told(events, ap_active, radio.ap) => Told(events', ap_active, ap)
         /\ Told(events, ap_active, radio.ap) /\ ~ap => Told(events', FALSE, ap)
  <1>1. /\ radio.ap \in BOOLEAN /\ radio.sta \in BOOLEAN /\ radio.link \in {"down", "trying", "up"}
        /\ events \in Seq(QueuedEvents)
    BY WifiParts
  <1> DEFINE leaves == radio.sta /\ ~sta /\ radio.link # "down"
             begins == ~radio.sta /\ sta
             point == IF ap THEN "ap_start" ELSE "ap_stop"
             q1 == IF leaves THEN Append(events, "disconnected") ELSE events
             q2 == IF begins THEN Append(q1, "sta_start") ELSE q1
             q3 == IF radio.ap = ap THEN q2 ELSE Append(q2, point)
  <1>2. /\ q1 \in Seq(QueuedEvents)
        /\ Has(q1, "got_ip") <=> Has(events, "got_ip")
        /\ Has(q1, "disconnected") <=> Has(events, "disconnected") \/ leaves
        /\ Has(events, "sta_start") => Has(q1, "sta_start")
        /\ Single(events) /\ (NoLink(events) \/ ~leaves) => Single(q1)
        /\ Prompt(events) => Prompt(q1)
        /\ \A active : Told(events, active, radio.ap) => Told(q1, active, radio.ap)
    <2>1. CASE leaves
      <3>1. q1 = Append(events, "disconnected")
        BY <2>1
      <3> HIDE DEF q1
      <3> QED BY <1>1, <2>1, <3>1, QueuePut DEF QueuedEvents, LinkEvents, PointEvents
    <2>2. CASE ~leaves
      BY <1>1, <2>2
    <2> QED BY <2>1, <2>2
  <1>3. /\ q2 \in Seq(QueuedEvents)
        /\ Has(q2, "got_ip") <=> Has(q1, "got_ip")
        /\ Has(q2, "disconnected") <=> Has(q1, "disconnected")
        /\ Has(q1, "sta_start") => Has(q2, "sta_start")
        /\ Single(q1) => Single(q2)
        /\ Prompt(q1) => Prompt(q2)
        /\ \A active : Told(q1, active, radio.ap) => Told(q2, active, radio.ap)
    <2>1. CASE begins
      <3>1. q2 = Append(q1, "sta_start")
        BY <2>1
      <3> HIDE DEF q1, q2
      <3> QED BY <1>2, <3>1, QueuePut, ZenonT(40) DEF QueuedEvents, LinkEvents, PointEvents
    <2>2. CASE ~begins
      <3>1. q2 = q1
        BY <2>2
      <3> HIDE DEF q1, q2
      <3> QED BY <1>2, <3>1
    <2> QED BY <2>1, <2>2
  <1>4. /\ q3 \in Seq(QueuedEvents)
        /\ Has(q3, "got_ip") <=> Has(q2, "got_ip")
        /\ Has(q3, "disconnected") <=> Has(q2, "disconnected")
        /\ Has(q2, "sta_start") => Has(q3, "sta_start")
        /\ Single(q2) => Single(q3)
        /\ Prompt(q2) /\ (~Has(q2, "got_ip") \/ radio.ap = ap) => Prompt(q3)
        /\ \A active : Told(q2, active, radio.ap) => Told(q3, active, ap)
        /\ radio.ap # ap => \A active : Told(q3, active, ap)
    <2>1. CASE radio.ap # ap
      <3>1. q3 = Append(q2, point) /\ point \in QueuedEvents /\ point \in PointEvents
            /\ point \notin LinkEvents /\ point # "sta_start" /\ (ap <=> point = "ap_start")
        BY <2>1 DEF QueuedEvents, LinkEvents, PointEvents
      <3> HIDE DEF q2, q3, point
      <3>2. /\ q3 \in Seq(QueuedEvents)
            /\ \A x : Has(q3, x) <=> Has(q2, x) \/ x = point
            /\ Single(q2) => Single(q3)
            /\ Prompt(q2) /\ ~Has(q2, "got_ip") => Prompt(q3)
            /\ \A active : Told(q3, active, ap)
        BY <1>3, <3>1, QueuePut
      <3> QED BY <2>1, <3>1, <3>2 DEF LinkEvents
    <2>2. CASE radio.ap = ap
      <3>1. q3 = q2
        BY <2>2
      <3> HIDE DEF q2, q3
      <3> QED BY <1>3, <2>2, <3>1
    <2> QED BY <2>1, <2>2
  <1>5. events' = q3
    <2>1. events' = ((events \o (IF leaves THEN <<"disconnected">> ELSE <<>>))
                        \o (IF begins THEN <<"sta_start">> ELSE <<>>))
                        \o (IF radio.ap = ap THEN <<>> ELSE <<point>>)
      BY <1>1 DEF SetMode
    <2>2. events \o (IF leaves THEN <<"disconnected">> ELSE <<>>) = q1
      BY <1>1 DEF QueuedEvents
    <2>3. q1 \o (IF begins THEN <<"sta_start">> ELSE <<>>) = q2
      <3> HIDE DEF q1
      <3> QED BY <1>2 DEF QueuedEvents
    <2>4. q2 \o (IF radio.ap = ap THEN <<>> ELSE <<point>>) = q3
      <3> HIDE DEF q2
      <3> QED BY <1>3 DEF QueuedEvents
    <2> HIDE DEF q1, q2, q3
    <2> QED BY <2>1, <2>2, <2>3, <2>4
  <1>6. /\ radio' \in Radios /\ radio'.ap = ap /\ radio'.sta = sta
        /\ radio'.link = IF sta THEN radio.link ELSE "down"
    BY <1>1 DEF SetMode, Radios
  <1>7. Told(events, ap_active, radio.ap) /\ ~ap => Told(q3, FALSE, ap)
    <2> SUFFICES ASSUME Told(events, ap_active, radio.ap), ~ap
                 PROVE  Told(q3, FALSE, ap)
      OBVIOUS
    <2> HIDE DEF q1, q2, q3
    <2>1. CASE radio.ap # ap
      BY <1>4, <2>1
    <2>2. CASE radio.ap = ap
      <3>1. Told(q3, ap_active, ap)
        BY <1>2, <1>3, <1>4
      <3> QED BY <3>1 DEF Told
    <2> QED BY <2>1, <2>2
  <1> HIDE DEF q1, q2, q3
  <1> QED BY <1>1, <1>2, <1>3, <1>4, <1>5, <1>6, <1>7

LEMMA HandlesIs ==
  ASSUME WifiTypeOK, NEW e, Handles(e)
  PROVE  /\ handler = "none" /\ e \in QueuedEvents /\ Has(events, e)
         /\ events' \in Seq(QueuedEvents)
         /\ \A x : Has(events, x) <=> Has(events', x) \/ x = e
         /\ Single(events) => Single(events') /\ (e \in LinkEvents => NoLink(events'))
         /\ Prompt(events) => Prompt(events')
         /\ Prompt(events) /\ e = "got_ip" => \A x \in PointEvents : ~Has(events', x)
         /\ Told(events, ap_active, radio.ap) =>
               Told(events', IF e \in PointEvents THEN e = "ap_start" ELSE ap_active, radio.ap)
  <1>1. events \in Seq(QueuedEvents)
    BY WifiParts
  <1>2. handler = "none" /\ events # <<>> /\ e = Head(events) /\ events' = Tail(events)
    BY DEF Handles
  <1> DEFINE r == Tail(events)
  <1>3. r = Tail(events) /\ events' = r
    BY <1>2
  <1> HIDE DEF r
  <1>4. /\ r \in Seq(QueuedEvents) /\ e \in QueuedEvents
        /\ \A x : Has(events, x) <=> Has(r, x) \/ x = e
        /\ Single(events) => Single(r) /\ (e \in LinkEvents => NoLink(r))
        /\ Prompt(events) => Prompt(r)
        /\ Prompt(events) /\ e = "got_ip" => \A x \in PointEvents : ~Has(r, x)
        /\ \A active, ap : Told(events, active, ap) =>
               Told(r, IF e \in PointEvents THEN e = "ap_start" ELSE active, ap)
    BY <1>1, <1>2, <1>3, QueueTaken
  <1> QED BY <1>2, <1>3, <1>4

LEMMA StationEventsAre == StationEvents <=> handler # "none" \/ ~NoLink(events)
  BY DEF StationEvents, NoLink, Has

LEMMA OnStaStartKeeps == ASSUME WifiInv, OnStaStart, crossed' = (crossed \/ Crosses)
                         PROVE  WifiInv'
  <1>1. /\ Handles("sta_start") /\ WifiTypeOK /\ (IF config.sta THEN Connects ELSE radio' = radio)
        /\ UNCHANGED <<config, retry_count, connected, ap_active, timer, handler, console>>
    BY DEF OnStaStart, WifiInv
  <1>2. /\ handler = "none" /\ events' \in Seq(QueuedEvents)
        /\ Has(events', "got_ip") <=> Has(events, "got_ip")
        /\ Has(events', "disconnected") <=> Has(events, "disconnected")
        /\ Single(events) => Single(events')
        /\ Prompt(events) => Prompt(events')
        /\ Told(events, ap_active, radio.ap) => Told(events', ap_active, radio.ap)
    BY <1>1, HandlesIs DEF PointEvents
  <1>3. /\ radio' \in Radios /\ radio'.ap = radio.ap /\ radio'.sta = radio.sta
        /\ config.sta /\ radio.sta /\ radio.link = "down" => radio'.link = "trying"
        /\ ~(config.sta /\ radio.sta /\ radio.link = "down") => radio'.link = radio.link
    BY <1>1, ConnectsIs DEF WifiTypeOK, Radios
  <1>4. WifiTypeOK'
    BY <1>1, <1>2, <1>3 DEF WifiTypeOK, QueuedEvents, Radios
  <1>5. NoStationNoLink' /\ Told(events, ap_active, radio.ap)'
    BY <1>1, <1>2, <1>3 DEF NoStationNoLink, WifiInv
  <1>6. crossed' \in BOOLEAN /\ (~crossed' => ~crossed)
    BY DEF WifiInv
  <1>7. ASSUME ~crossed'
        PROVE  OneAtATime' /\ Agrees' /\ Connection' /\ Tended'
    <2>1. OneAtATime /\ Agrees /\ Connection /\ Tended
      BY <1>6, <1>7 DEF WifiInv
    <2>2. OneAtATime'
      BY <1>1, <1>2, <1>3, <2>1 DEF OneAtATime, NoLink
    <2>3. Agrees'
      BY <1>1, <1>2, <1>3, <2>1 DEF Agrees
    <2>4. Connection'
      BY <1>1, <1>2, <1>3, <2>1 DEF Connection, NoLink
    <2>5. Tended'
      BY <1>1, <1>2, <1>3, <2>1 DEF Tended, Agrees
    <2> QED BY <2>2, <2>3, <2>4, <2>5
  <1> QED BY <1>4, <1>5, <1>6, <1>7 DEF WifiInv

LEMMA OnRetryKeeps == ASSUME WifiInv, OnRetry, crossed' = (crossed \/ Crosses)
                      PROVE  WifiInv'
  <1>1. /\ Handles("disconnected") /\ WifiTypeOK /\ config.sta /\ retry_count < MaxRetry
        /\ retry_count' = retry_count + 1 /\ connected' = FALSE /\ timer' = TRUE
        /\ UNCHANGED <<config, ap_active, handler, console, radio>>
    BY DEF OnRetry, WifiInv
  <1>2. /\ handler = "none" /\ events' \in Seq(QueuedEvents)
        /\ \A x : Has(events, x) <=> Has(events', x) \/ x = "disconnected"
        /\ Has(events', "sta_start") <=> Has(events, "sta_start")
        /\ Single(events) => Single(events') /\ NoLink(events')
        /\ Prompt(events) => Prompt(events')
        /\ Told(events, ap_active, radio.ap) => Told(events', ap_active, radio.ap)
    BY <1>1, HandlesIs DEF PointEvents, LinkEvents
  <1>3. retry_count' \in 0..MaxRetry
    BY <1>1, WifiAssumption DEF WifiTypeOK
  <1>4. WifiTypeOK'
    BY <1>1, <1>2, <1>3 DEF WifiTypeOK, QueuedEvents, Radios, Configs
  <1>5. NoStationNoLink' /\ Told(events, ap_active, radio.ap)'
    BY <1>1, <1>2, <1>3 DEF NoStationNoLink, WifiInv
  <1>6. crossed' \in BOOLEAN /\ (~crossed' => ~crossed)
    BY DEF WifiInv, Crosses, StationEvents
  <1>7. ASSUME ~crossed'
        PROVE  OneAtATime' /\ Agrees' /\ Connection' /\ Tended'
    <2>1. OneAtATime /\ Agrees /\ Connection /\ Tended /\ NoStationNoLink
      BY <1>6, <1>7 DEF WifiInv
    <2>2. OneAtATime'
      BY <1>1, <1>2, <1>3, <1>7, <2>1 DEF OneAtATime, Agrees, Connection, Tended, NoLink, NoStationNoLink
    <2>3. Agrees'
      BY <1>1, <1>2, <1>3, <1>7, <2>1 DEF OneAtATime, Agrees, Connection, Tended, NoLink, NoStationNoLink
    <2>4. Connection'
      BY <1>1, <1>2, <1>3, <1>7, <2>1 DEF OneAtATime, Agrees, Connection, Tended, NoLink, NoStationNoLink
    <2>5. Tended'
      BY <1>1, <1>2, <1>3, <1>7, <2>1 DEF OneAtATime, Agrees, Connection, Tended, NoLink, NoStationNoLink
    <2> QED BY <2>2, <2>3, <2>4, <2>5
  <1> QED BY <1>4, <1>5, <1>6, <1>7 DEF WifiInv

LEMMA OnGiveUpKeeps == ASSUME WifiInv, OnGiveUp, crossed' = (crossed \/ Crosses)
                       PROVE  WifiInv'
  <1>1. /\ Handles("disconnected") /\ WifiTypeOK /\ connected' = FALSE
        /\ IF config.sta
           THEN config' = [config EXCEPT !.sta = FALSE] /\ retry_count' = 0 /\ handler' = "fall_back"
           ELSE UNCHANGED <<config, retry_count, handler>>
        /\ UNCHANGED <<ap_active, timer, console, radio>>
    BY DEF OnGiveUp, WifiInv
  <1>2. /\ handler = "none" /\ events' \in Seq(QueuedEvents)
        /\ \A x : Has(events, x) <=> Has(events', x) \/ x = "disconnected"
        /\ Has(events', "sta_start") <=> Has(events, "sta_start")
        /\ Single(events) => Single(events') /\ NoLink(events')
        /\ Prompt(events) => Prompt(events')
        /\ Told(events, ap_active, radio.ap) => Told(events', ap_active, radio.ap)
    BY <1>1, HandlesIs DEF PointEvents, LinkEvents
  <1>3. /\ config' \in Configs /\ ~config'.sta /\ config'.close = config.close
        /\ retry_count' \in 0..MaxRetry
    <2>1. config \in [sta : BOOLEAN, close : BOOLEAN] /\ retry_count \in 0..MaxRetry /\ 0 \in 0..MaxRetry
      BY <1>1, WifiAssumption DEF WifiTypeOK, Configs
    <2>2. CASE config.sta
      <3>1. config' = [config EXCEPT !.sta = FALSE] /\ retry_count' = 0
        BY <1>1, <2>2
      <3> QED BY <2>1, <3>1 DEF Configs
    <2>3. CASE ~config.sta
      BY <1>1, <2>1, <2>3 DEF Configs
    <2> QED BY <2>2, <2>3
  <1>4. WifiTypeOK'
    BY <1>1, <1>2, <1>3 DEF WifiTypeOK, QueuedEvents, Radios, Configs
  <1>5. NoStationNoLink' /\ Told(events, ap_active, radio.ap)'
    BY <1>1, <1>2, <1>3 DEF NoStationNoLink, WifiInv
  <1>6. crossed' \in BOOLEAN /\ (~crossed' => ~crossed)
    BY DEF WifiInv, Crosses, StationEvents
  <1>7. ASSUME ~crossed'
        PROVE  OneAtATime' /\ Agrees' /\ Connection' /\ Tended'
    <2>1. OneAtATime /\ Agrees /\ Connection /\ Tended /\ NoStationNoLink
      BY <1>6, <1>7 DEF WifiInv
    <2>2. OneAtATime'
      BY <1>1, <1>2, <1>3, <1>7, <2>1 DEF OneAtATime, Agrees, Connection, Tended, NoLink, NoStationNoLink
    <2>3. Agrees'
      BY <1>1, <1>2, <1>3, <1>7, <2>1 DEF OneAtATime, Agrees, Connection, Tended, NoLink, NoStationNoLink
    <2>4. Connection'
      BY <1>1, <1>2, <1>3, <1>7, <2>1 DEF OneAtATime, Agrees, Connection, Tended, NoLink, NoStationNoLink
    <2>5. Tended'
      BY <1>1, <1>2, <1>3, <1>7, <2>1 DEF OneAtATime, Agrees, Connection, Tended, NoLink, NoStationNoLink
    <2> QED BY <2>2, <2>3, <2>4, <2>5
  <1> QED BY <1>4, <1>5, <1>6, <1>7 DEF WifiInv

LEMMA FallBackKeeps == ASSUME WifiInv, FallBack, crossed' = (crossed \/ Crosses)
                       PROVE  WifiInv'
  <1>1. /\ SetMode(TRUE, FALSE) /\ WifiTypeOK /\ handler = "fall_back" /\ handler' = "none"
        /\ UNCHANGED <<config, retry_count, connected, ap_active, timer, console>>
    BY DEF FallBack, WifiInv
  <1>2. /\ radio' \in Radios /\ radio'.ap /\ ~radio'.sta /\ radio'.link = "down"
        /\ events' \in Seq(QueuedEvents)
        /\ Has(events', "got_ip") <=> Has(events, "got_ip")
        /\ Has(events', "disconnected")
              <=> Has(events, "disconnected") \/ (radio.sta /\ radio.link # "down")
        /\ Single(events) /\ NoLink(events) => Single(events')
        /\ Prompt(events) /\ NoLink(events) => Prompt(events')
        /\ Told(events, ap_active, radio.ap) => Told(events', ap_active, radio'.ap)
    BY <1>1, SetModeIs DEF NoLink
  <1>3. WifiTypeOK'
    BY <1>1, <1>2 DEF WifiTypeOK, QueuedEvents, Radios, Configs
  <1>4. NoStationNoLink' /\ Told(events, ap_active, radio.ap)'
    BY <1>1, <1>2 DEF NoStationNoLink, WifiInv
  <1>5. crossed' \in BOOLEAN /\ (~crossed' => ~crossed)
    BY DEF WifiInv, Crosses, StationEvents
  <1>6. ASSUME ~crossed'
        PROVE  OneAtATime' /\ Agrees' /\ Connection' /\ Tended'
    <2>1. OneAtATime /\ Agrees /\ Connection /\ Tended /\ NoStationNoLink
      BY <1>5, <1>6 DEF WifiInv
    <2>2. OneAtATime'
      BY <1>1, <1>2, <1>6, <2>1 DEF OneAtATime, Agrees, Connection, Tended, NoLink, NoStationNoLink
    <2>3. Agrees'
      BY <1>1, <1>2, <1>6, <2>1 DEF OneAtATime, Agrees, Connection, Tended, NoLink, NoStationNoLink
    <2>4. Connection'
      BY <1>1, <1>2, <1>6, <2>1 DEF OneAtATime, Agrees, Connection, Tended, NoLink, NoStationNoLink
    <2>5. Tended'
      BY <1>1, <1>2, <1>6, <2>1 DEF OneAtATime, Agrees, Connection, Tended, NoLink, NoStationNoLink
    <2> QED BY <2>2, <2>3, <2>4, <2>5
  <1> QED BY <1>3, <1>4, <1>5, <1>6 DEF WifiInv

LEMMA OnGotIpKeeps == ASSUME WifiInv, OnGotIp, crossed' = (crossed \/ Crosses)
                      PROVE  WifiInv'
  <1>1. /\ Handles("got_ip") /\ WifiTypeOK /\ Told(events, ap_active, radio.ap)
        /\ retry_count' = 0 /\ connected' = TRUE
        /\ handler' = IF config.close /\ ap_active THEN "close_ap" ELSE "none"
        /\ UNCHANGED <<config, ap_active, timer, console, radio>>
    BY DEF OnGotIp, WifiInv
  <1>2. /\ handler = "none" /\ events' \in Seq(QueuedEvents)
        /\ \A x : Has(events, x) <=> Has(events', x) \/ x = "got_ip"
        /\ Has(events', "sta_start") <=> Has(events, "sta_start")
        /\ Single(events) => Single(events') /\ NoLink(events')
        /\ Prompt(events) => Prompt(events')
        /\ Prompt(events) /\ Told(events, ap_active, radio.ap) => (ap_active <=> radio.ap)
        /\ Told(events, ap_active, radio.ap) => Told(events', ap_active, radio.ap)
    <2>1. /\ handler = "none" /\ events' \in Seq(QueuedEvents)
          /\ \A x : Has(events, x) <=> Has(events', x) \/ x = "got_ip"
          /\ Single(events) => Single(events') /\ NoLink(events')
          /\ Prompt(events) => Prompt(events')
          /\ Prompt(events) => \A x \in PointEvents : ~Has(events', x)
          /\ Told(events, ap_active, radio.ap) => Told(events', ap_active, radio.ap)
      BY <1>1, HandlesIs DEF PointEvents, LinkEvents
    <2>2. Prompt(events) /\ Told(events, ap_active, radio.ap) => (ap_active <=> radio.ap)
      BY <2>1 DEF Has, Told
    <2> QED BY <2>1, <2>2
  <1>3. /\ handler' \in {"close_ap", "none"} /\ retry_count' \in 0..MaxRetry
        /\ handler' = "close_ap" <=> config.close /\ ap_active
    BY <1>1, WifiAssumption DEF WifiTypeOK
  <1>4. WifiTypeOK'
    BY <1>1, <1>2, <1>3 DEF WifiTypeOK, QueuedEvents, Radios, Configs
  <1>5. NoStationNoLink' /\ Told(events, ap_active, radio.ap)'
    BY <1>1, <1>2, <1>3 DEF NoStationNoLink, WifiInv
  <1>6. crossed' \in BOOLEAN /\ (~crossed' => ~crossed)
    BY DEF WifiInv, Crosses, StationEvents
  <1>7. ASSUME ~crossed'
        PROVE  OneAtATime' /\ Agrees' /\ Connection' /\ Tended'
    <2>1. OneAtATime /\ Agrees /\ Connection /\ Tended /\ NoStationNoLink
      BY <1>6, <1>7 DEF WifiInv
    <2>2. OneAtATime'
      BY <1>1, <1>2, <1>3, <1>7, <2>1 DEF OneAtATime, Agrees, Connection, Tended, NoLink, NoStationNoLink
    <2>3. Agrees'
      BY <1>1, <1>2, <1>3, <1>7, <2>1 DEF OneAtATime, Agrees, Connection, Tended, NoLink, NoStationNoLink
    <2>4. Connection'
      BY <1>1, <1>2, <1>3, <1>7, <2>1 DEF OneAtATime, Agrees, Connection, Tended, NoLink, NoStationNoLink
    <2>5. Tended'
      BY <1>1, <1>2, <1>3, <1>7, <2>1 DEF OneAtATime, Agrees, Connection, Tended, NoLink, NoStationNoLink
    <2> QED BY <2>2, <2>3, <2>4, <2>5
  <1> QED BY <1>4, <1>5, <1>6, <1>7 DEF WifiInv

LEMMA CloseApKeeps == ASSUME WifiInv, CloseAp, crossed' = (crossed \/ Crosses)
                      PROVE  WifiInv'
  <1>1. /\ SetMode(FALSE, TRUE) /\ WifiTypeOK /\ handler = "close_ap" /\ handler' = "none"
        /\ ap_active' = FALSE
        /\ UNCHANGED <<config, retry_count, connected, timer, console>>
    BY DEF CloseAp, WifiInv
  <1>2. /\ radio' \in Radios /\ ~radio'.ap /\ radio'.sta /\ radio'.link = radio.link
        /\ events' \in Seq(QueuedEvents)
        /\ Has(events', "got_ip") <=> Has(events, "got_ip")
        /\ Has(events', "disconnected") <=> Has(events, "disconnected")
        /\ Has(events, "sta_start") => Has(events', "sta_start")
        /\ Single(events) => Single(events')
        /\ Prompt(events) /\ NoLink(events) => Prompt(events')
        /\ Told(events, ap_active, radio.ap) => Told(events', FALSE, radio'.ap)
    BY <1>1, SetModeIs DEF NoLink
  <1>3. WifiTypeOK'
    BY <1>1, <1>2 DEF WifiTypeOK, QueuedEvents, Radios, Configs
  <1>4. NoStationNoLink' /\ Told(events, ap_active, radio.ap)'
    BY <1>1, <1>2 DEF NoStationNoLink, WifiInv
  <1>5. crossed' \in BOOLEAN /\ (~crossed' => ~crossed)
    BY DEF WifiInv, Crosses, StationEvents
  <1>6. ASSUME ~crossed'
        PROVE  OneAtATime' /\ Agrees' /\ Connection' /\ Tended'
    <2>1. OneAtATime /\ Agrees /\ Connection /\ Tended /\ NoStationNoLink
      BY <1>5, <1>6 DEF WifiInv
    <2>2. OneAtATime'
      BY <1>1, <1>2, <1>6, <2>1 DEF OneAtATime, Agrees, Connection, Tended, NoLink, NoStationNoLink
    <2>3. Agrees'
      BY <1>1, <1>2, <1>6, <2>1 DEF OneAtATime, Agrees, Connection, Tended, NoLink, NoStationNoLink
    <2>4. Connection'
      BY <1>1, <1>2, <1>6, <2>1 DEF OneAtATime, Agrees, Connection, Tended, NoLink, NoStationNoLink
    <2>5. Tended'
      BY <1>1, <1>2, <1>6, <2>1 DEF OneAtATime, Agrees, Connection, Tended, NoLink, NoStationNoLink
    <2> QED BY <2>2, <2>3, <2>4, <2>5
  <1> QED BY <1>3, <1>4, <1>5, <1>6 DEF WifiInv

LEMMA OnApChangeKeeps == ASSUME WifiInv, OnApChange, crossed' = (crossed \/ Crosses)
                         PROVE  WifiInv'
  <1>1. /\ \E on \in BOOLEAN : Handles(IF on THEN "ap_start" ELSE "ap_stop") /\ ap_active' = on
        /\ WifiTypeOK
        /\ UNCHANGED <<config, retry_count, connected, timer, handler, console, radio>>
    BY DEF OnApChange, WifiInv
  <1>2. /\ handler = "none" /\ events' \in Seq(QueuedEvents) /\ ap_active' \in BOOLEAN
        /\ Has(events', "got_ip") <=> Has(events, "got_ip")
        /\ Has(events', "disconnected") <=> Has(events, "disconnected")
        /\ Has(events', "sta_start") <=> Has(events, "sta_start")
        /\ Single(events) => Single(events')
        /\ Prompt(events) => Prompt(events')
        /\ Told(events, ap_active, radio.ap) => Told(events', ap_active', radio.ap)
    <2>1. PICK on \in BOOLEAN : Handles(IF on THEN "ap_start" ELSE "ap_stop") /\ ap_active' = on
      BY <1>1
    <2> DEFINE e == IF on THEN "ap_start" ELSE "ap_stop"
    <2>2. /\ Handles(e) /\ e \in PointEvents /\ e \notin LinkEvents /\ e # "sta_start"
          /\ (e = "ap_start" <=> on)
      BY <2>1 DEF PointEvents, LinkEvents
    <2> HIDE DEF e
    <2>3. Told(events, ap_active, radio.ap) => Told(events', e = "ap_start", radio.ap)
      BY <1>1, <2>2, HandlesIs
    <2>4. Told(events', e = "ap_start", radio.ap) => Told(events', ap_active', radio.ap)
      BY <2>1, <2>2 DEF Told
    <2>5. /\ handler = "none" /\ events' \in Seq(QueuedEvents)
          /\ \A x : Has(events, x) <=> Has(events', x) \/ x = e
          /\ Single(events) => Single(events')
          /\ Prompt(events) => Prompt(events')
      BY <1>1, <2>2, HandlesIs
    <2> QED BY <2>1, <2>2, <2>3, <2>4, <2>5 DEF LinkEvents
  <1>3. WifiTypeOK'
    BY <1>1, <1>2 DEF WifiTypeOK, QueuedEvents, Radios, Configs
  <1>4. NoStationNoLink' /\ Told(events, ap_active, radio.ap)'
    BY <1>1, <1>2 DEF NoStationNoLink, WifiInv
  <1>5. crossed' \in BOOLEAN /\ (~crossed' => ~crossed)
    BY DEF WifiInv, Crosses, StationEvents
  <1>6. ASSUME ~crossed'
        PROVE  OneAtATime' /\ Agrees' /\ Connection' /\ Tended'
    <2>1. OneAtATime /\ Agrees /\ Connection /\ Tended /\ NoStationNoLink
      BY <1>5, <1>6 DEF WifiInv
    <2>2. OneAtATime'
      BY <1>1, <1>2, <1>6, <2>1 DEF OneAtATime, Agrees, Connection, Tended, NoLink, NoStationNoLink
    <2>3. Agrees'
      BY <1>1, <1>2, <1>6, <2>1 DEF OneAtATime, Agrees, Connection, Tended, NoLink, NoStationNoLink
    <2>4. Connection'
      BY <1>1, <1>2, <1>6, <2>1 DEF OneAtATime, Agrees, Connection, Tended, NoLink, NoStationNoLink
    <2>5. Tended'
      BY <1>1, <1>2, <1>6, <2>1 DEF OneAtATime, Agrees, Connection, Tended, NoLink, NoStationNoLink
    <2> QED BY <2>2, <2>3, <2>4, <2>5
  <1> QED BY <1>3, <1>4, <1>5, <1>6 DEF WifiInv

LEMMA TimerFiresKeeps == ASSUME WifiInv, TimerFires, crossed' = (crossed \/ Crosses)
                         PROVE  WifiInv'
  <1>1. /\ timer /\ timer' = FALSE /\ ~StationEvents /\ WifiTypeOK
        /\ IF config.sta THEN Connects ELSE radio' = radio
        /\ UNCHANGED <<config, retry_count, connected, ap_active, handler, console, events>>
    BY DEF TimerFires, WifiInv
  <1>2. /\ radio' \in Radios /\ radio'.ap = radio.ap /\ radio'.sta = radio.sta
        /\ config.sta /\ radio.sta /\ radio.link = "down" => radio'.link = "trying"
        /\ ~(config.sta /\ radio.sta /\ radio.link = "down") => radio'.link = radio.link
    BY <1>1, ConnectsIs DEF WifiTypeOK, Radios
  <1>3. WifiTypeOK'
    BY <1>1, <1>2 DEF WifiTypeOK, QueuedEvents, Radios, Configs
  <1>4. NoStationNoLink' /\ Told(events, ap_active, radio.ap)'
    BY <1>1, <1>2 DEF NoStationNoLink, WifiInv
  <1>5. crossed' \in BOOLEAN /\ (~crossed' => ~crossed)
    BY DEF WifiInv, Crosses, StationEvents
  <1>6. ASSUME ~crossed'
        PROVE  OneAtATime' /\ Agrees' /\ Connection' /\ Tended'
    <2>1. OneAtATime /\ Agrees /\ Connection /\ Tended /\ NoStationNoLink
      BY <1>5, <1>6 DEF WifiInv
    <2>2. OneAtATime'
      BY <1>1, <1>2, <1>6, <2>1 DEF OneAtATime, Agrees, Connection, Tended, NoLink, NoStationNoLink
    <2>3. Agrees'
      BY <1>1, <1>2, <1>6, <2>1 DEF OneAtATime, Agrees, Connection, Tended, NoLink, NoStationNoLink
    <2>4. Connection'
      BY <1>1, <1>2, <1>6, <2>1 DEF OneAtATime, Agrees, Connection, Tended, NoLink, NoStationNoLink
    <2>5. Tended'
      BY <1>1, <1>2, <1>6, <2>1 DEF OneAtATime, Agrees, Connection, Tended, NoLink, NoStationNoLink
    <2> QED BY <2>2, <2>3, <2>4, <2>5
  <1> QED BY <1>3, <1>4, <1>5, <1>6 DEF WifiInv

LEMMA ApplyKeeps == ASSUME WifiInv, NEW c \in Configs, Apply(c), crossed' = (crossed \/ Crosses)
                    PROVE  WifiInv'
  <1>1. /\ console = "none" /\ console' = "reset" /\ config' = c /\ WifiTypeOK
        /\ UNCHANGED <<retry_count, connected, ap_active, timer, handler, radio, events>>
    BY DEF Apply, ConsoleGoes, WifiInv
  <1>2. WifiTypeOK'
    BY <1>1 DEF WifiTypeOK, QueuedEvents, Radios, Configs
  <1>3. NoStationNoLink' /\ Told(events, ap_active, radio.ap)'
    BY <1>1 DEF NoStationNoLink, WifiInv
  <1>4. crossed' \in BOOLEAN /\ (~crossed' => ~crossed)
    BY DEF WifiInv, Crosses, StationEvents
  <1>5. ~crossed' => handler = "none" /\ NoLink(events)
    BY <1>1, StationEventsAre DEF Crosses, WifiInv
  <1>6. ASSUME ~crossed'
        PROVE  OneAtATime' /\ Agrees' /\ Connection' /\ Tended'
    <2>1. OneAtATime /\ Agrees /\ Connection /\ Tended /\ NoStationNoLink
      BY <1>4, <1>6 DEF WifiInv
    <2>2. OneAtATime'
      BY <1>1, <1>5, <1>6, <2>1 DEF OneAtATime, Agrees, Connection, Tended, NoLink, NoStationNoLink
    <2>3. Agrees'
      BY <1>1, <1>5, <1>6, <2>1 DEF OneAtATime, Agrees, Connection, Tended, NoLink, NoStationNoLink
    <2>4. Connection'
      BY <1>1, <1>5, <1>6, <2>1 DEF OneAtATime, Agrees, Connection, Tended, NoLink, NoStationNoLink
    <2>5. Tended'
      BY <1>1, <1>5, <1>6, <2>1 DEF OneAtATime, Agrees, Connection, Tended, NoLink, NoStationNoLink
    <2> QED BY <2>2, <2>3, <2>4, <2>5
  <1> QED BY <1>2, <1>3, <1>4, <1>6 DEF WifiInv

LEMMA ApplyResetsKeeps == ASSUME WifiInv, ApplyResets, crossed' = (crossed \/ Crosses)
                          PROVE  WifiInv'
  <1>1. /\ console = "reset" /\ console' = "mode" /\ WifiTypeOK
        /\ timer' = FALSE /\ retry_count' = 0 /\ connected' = FALSE
        /\ UNCHANGED <<config, ap_active, handler, radio, events>>
    BY DEF ApplyResets, ConsoleGoes, WifiInv
  <1>2. retry_count' \in 0..MaxRetry
    BY <1>1, WifiAssumption DEF WifiTypeOK
  <1>3. WifiTypeOK'
    BY <1>1, <1>2 DEF WifiTypeOK, QueuedEvents, Radios, Configs
  <1>4. NoStationNoLink' /\ Told(events, ap_active, radio.ap)'
    BY <1>1, <1>2 DEF NoStationNoLink, WifiInv
  <1>5. crossed' \in BOOLEAN /\ (~crossed' => ~crossed)
    BY DEF WifiInv, Crosses, StationEvents
  <1>6. ~crossed' => handler = "none" /\ NoLink(events)
    BY <1>1, StationEventsAre DEF Crosses, WifiInv
  <1>7. ASSUME ~crossed'
        PROVE  OneAtATime' /\ Agrees' /\ Connection' /\ Tended'
    <2>1. OneAtATime /\ Agrees /\ Connection /\ Tended /\ NoStationNoLink
      BY <1>5, <1>7 DEF WifiInv
    <2>2. OneAtATime'
      BY <1>1, <1>2, <1>6, <1>7, <2>1 DEF OneAtATime, Agrees, Connection, Tended, NoLink, NoStationNoLink
    <2>3. Agrees'
      BY <1>1, <1>2, <1>6, <1>7, <2>1 DEF OneAtATime, Agrees, Connection, Tended, NoLink, NoStationNoLink
    <2>4. Connection'
      BY <1>1, <1>2, <1>6, <1>7, <2>1 DEF OneAtATime, Agrees, Connection, Tended, NoLink, NoStationNoLink
    <2>5. Tended'
      BY <1>1, <1>2, <1>6, <1>7, <2>1 DEF OneAtATime, Agrees, Connection, Tended, NoLink, NoStationNoLink
    <2> QED BY <2>2, <2>3, <2>4, <2>5
  <1> QED BY <1>3, <1>4, <1>5, <1>7 DEF WifiInv

LEMMA ApplyModeKeeps == ASSUME WifiInv, ApplyMode, crossed' = (crossed \/ Crosses)
                        PROVE  WifiInv'
  <1>1. /\ console = "mode" /\ console' = (IF config.sta THEN "leave" ELSE "none")
        /\ SetMode(TRUE, config.sta) /\ WifiTypeOK
        /\ UNCHANGED <<config, retry_count, connected, ap_active, timer, handler>>
    BY DEF ApplyMode, ConsoleGoes, WifiInv
  <1>2. /\ radio' \in Radios /\ radio'.ap /\ radio'.sta = config.sta
        /\ radio'.link = IF config.sta THEN radio.link ELSE "down"
        /\ events' \in Seq(QueuedEvents)
        /\ Has(events', "got_ip") <=> Has(events, "got_ip")
        /\ Has(events', "disconnected")
              <=> Has(events, "disconnected") \/ (radio.sta /\ ~config.sta /\ radio.link # "down")
        /\ Single(events) /\ NoLink(events) => Single(events')
        /\ Prompt(events) /\ NoLink(events) => Prompt(events')
        /\ Told(events, ap_active, radio.ap) => Told(events', ap_active, radio'.ap)
    BY <1>1, WifiParts, SetModeIs DEF NoLink
  <1>3. WifiTypeOK'
    BY <1>1, <1>2 DEF WifiTypeOK, QueuedEvents, Radios, Configs
  <1>4. NoStationNoLink' /\ Told(events, ap_active, radio.ap)'
    BY <1>1, <1>2 DEF NoStationNoLink, WifiInv
  <1>5. crossed' \in BOOLEAN /\ (~crossed' => ~crossed)
    BY DEF WifiInv, Crosses, StationEvents
  <1>6. ~crossed' => handler = "none" /\ NoLink(events)
    BY <1>1, StationEventsAre DEF Crosses, WifiInv
  <1>7. ASSUME ~crossed'
        PROVE  OneAtATime' /\ Agrees' /\ Connection' /\ Tended'
    <2>1. OneAtATime /\ Agrees /\ Connection /\ Tended /\ NoStationNoLink
      BY <1>5, <1>7 DEF WifiInv
    <2>2. OneAtATime'
      BY <1>1, <1>2, <1>6, <1>7, <2>1 DEF OneAtATime, Agrees, Connection, Tended, NoLink, NoStationNoLink
    <2>3. Agrees'
      BY <1>1, <1>2, <1>6, <1>7, <2>1 DEF OneAtATime, Agrees, Connection, Tended, NoLink, NoStationNoLink
    <2>4. Connection'
      BY <1>1, <1>2, <1>6, <1>7, <2>1 DEF OneAtATime, Agrees, Connection, Tended, NoLink, NoStationNoLink
    <2>5. Tended'
      BY <1>1, <1>2, <1>6, <1>7, <2>1 DEF OneAtATime, Agrees, Connection, Tended, NoLink, NoStationNoLink
    <2> QED BY <2>2, <2>3, <2>4, <2>5
  <1> QED BY <1>3, <1>4, <1>5, <1>7 DEF WifiInv

LEMMA ApplyLeavesKeeps == ASSUME WifiInv, ApplyLeaves, crossed' = (crossed \/ Crosses)
                          PROVE  WifiInv'
  <1>1. /\ console = "leave" /\ console' = "join" /\ WifiTypeOK
        /\ radio' = [radio EXCEPT !.link = "down"]
        /\ events' = IF radio.link = "down" THEN events ELSE Append(events, "disconnected")
        /\ UNCHANGED <<config, retry_count, connected, ap_active, timer, handler>>
    BY DEF ApplyLeaves, ConsoleGoes, WifiInv
  <1>2. /\ events' \in Seq(QueuedEvents)
        /\ Has(events', "got_ip") <=> Has(events, "got_ip")
        /\ Has(events', "disconnected") <=> Has(events, "disconnected") \/ radio.link # "down"
        /\ Has(events', "sta_start") <=> Has(events, "sta_start")
        /\ Single(events) /\ NoLink(events) => Single(events')
        /\ Prompt(events) => Prompt(events')
        /\ Told(events, ap_active, radio.ap) => Told(events', ap_active, radio.ap)
    <2>1. CASE radio.link = "down"
      BY <1>1, <2>1, WifiParts
    <2>2. CASE radio.link # "down"
      <3>1. events' = Append(events, "disconnected") /\ events \in Seq(QueuedEvents)
        BY <1>1, <2>2, WifiParts
      <3> QED BY <2>2, <3>1, QueuePut DEF QueuedEvents, LinkEvents, PointEvents
    <2> QED BY <2>1, <2>2
  <1>3. /\ radio' \in Radios /\ radio'.ap = radio.ap /\ radio'.sta = radio.sta /\ radio'.link = "down"
    BY <1>1, LinkSet
  <1>4. WifiTypeOK'
    BY <1>1, <1>2, <1>3 DEF WifiTypeOK, QueuedEvents, Radios, Configs
  <1>5. NoStationNoLink' /\ Told(events, ap_active, radio.ap)'
    BY <1>1, <1>2, <1>3 DEF NoStationNoLink, WifiInv
  <1>6. crossed' \in BOOLEAN /\ (~crossed' => ~crossed)
    BY DEF WifiInv, Crosses, StationEvents
  <1>7. ~crossed' => handler = "none" /\ NoLink(events)
    BY <1>1, StationEventsAre DEF Crosses, WifiInv
  <1>8. ASSUME ~crossed'
        PROVE  OneAtATime' /\ Agrees' /\ Connection' /\ Tended'
    <2>1. OneAtATime /\ Agrees /\ Connection /\ Tended /\ NoStationNoLink
      BY <1>6, <1>8 DEF WifiInv
    <2>2. OneAtATime'
      BY <1>1, <1>2, <1>3, <1>7, <1>8, <2>1 DEF OneAtATime, Agrees, Connection, Tended, NoLink, NoStationNoLink
    <2>3. Agrees'
      BY <1>1, <1>2, <1>3, <1>7, <1>8, <2>1 DEF OneAtATime, Agrees, Connection, Tended, NoLink, NoStationNoLink
    <2>4. Connection'
      BY <1>1, <1>2, <1>3, <1>7, <1>8, <2>1 DEF OneAtATime, Agrees, Connection, Tended, NoLink, NoStationNoLink
    <2>5. Tended'
      BY <1>1, <1>2, <1>3, <1>7, <1>8, <2>1 DEF OneAtATime, Agrees, Connection, Tended, NoLink, NoStationNoLink
    <2> QED BY <2>2, <2>3, <2>4, <2>5
  <1> QED BY <1>4, <1>5, <1>6, <1>8 DEF WifiInv

LEMMA ApplyJoinsKeeps == ASSUME WifiInv, ApplyJoins, crossed' = (crossed \/ Crosses)
                         PROVE  WifiInv'
  <1>1. /\ console = "join" /\ console' = "none" /\ Connects /\ WifiTypeOK
        /\ UNCHANGED <<config, retry_count, connected, ap_active, timer, handler, events>>
    BY DEF ApplyJoins, ConsoleGoes, WifiInv
  <1>2. /\ radio' \in Radios /\ radio'.ap = radio.ap /\ radio'.sta = radio.sta
        /\ radio.sta /\ radio.link = "down" => radio'.link = "trying"
        /\ ~(radio.sta /\ radio.link = "down") => radio'.link = radio.link
    BY <1>1, ConnectsIs
  <1>3. WifiTypeOK'
    BY <1>1, <1>2 DEF WifiTypeOK, QueuedEvents, Radios, Configs
  <1>4. NoStationNoLink' /\ Told(events, ap_active, radio.ap)'
    BY <1>1, <1>2 DEF NoStationNoLink, WifiInv
  <1>5. crossed' \in BOOLEAN /\ (~crossed' => ~crossed)
    BY DEF WifiInv, Crosses, StationEvents
  <1>6. ~crossed' => handler = "none" /\ NoLink(events)
    BY <1>1, StationEventsAre DEF Crosses, WifiInv
  <1>7. ASSUME ~crossed'
        PROVE  OneAtATime' /\ Agrees' /\ Connection' /\ Tended'
    <2>1. OneAtATime /\ Agrees /\ Connection /\ Tended /\ NoStationNoLink
      BY <1>5, <1>7 DEF WifiInv
    <2>2. OneAtATime'
      BY <1>1, <1>2, <1>6, <1>7, <2>1 DEF OneAtATime, Agrees, Connection, Tended, NoLink, NoStationNoLink
    <2>3. Agrees'
      BY <1>1, <1>2, <1>6, <1>7, <2>1 DEF OneAtATime, Agrees, Connection, Tended, NoLink, NoStationNoLink
    <2>4. Connection'
      BY <1>1, <1>2, <1>6, <1>7, <2>1 DEF OneAtATime, Agrees, Connection, Tended, NoLink, NoStationNoLink
    <2>5. Tended'
      BY <1>1, <1>2, <1>6, <1>7, <2>1 DEF OneAtATime, Agrees, Connection, Tended, NoLink, NoStationNoLink
    <2> QED BY <2>2, <2>3, <2>4, <2>5
  <1> QED BY <1>3, <1>4, <1>5, <1>7 DEF WifiInv

LEMMA ScanBeginsKeeps == ASSUME WifiInv, ScanBegins, crossed' = (crossed \/ Crosses)
                         PROVE  WifiInv'
  <1>1. /\ console = "none" /\ console' = "scan" /\ radio.ap /\ ~radio.sta
        /\ SetMode(TRUE, TRUE) /\ WifiTypeOK
        /\ UNCHANGED <<config, retry_count, connected, ap_active, timer, handler>>
    BY DEF ScanBegins, ConsoleGoes, WifiInv
  <1>2. /\ radio' \in Radios /\ radio'.ap /\ radio'.sta /\ radio'.link = radio.link
        /\ events' \in Seq(QueuedEvents)
        /\ Has(events', "got_ip") <=> Has(events, "got_ip")
        /\ Has(events', "disconnected") <=> Has(events, "disconnected")
        /\ Single(events) => Single(events')
        /\ Prompt(events) => Prompt(events')
        /\ Told(events, ap_active, radio.ap) => Told(events', ap_active, radio'.ap)
    BY <1>1, SetModeIs
  <1>3. WifiTypeOK'
    BY <1>1, <1>2 DEF WifiTypeOK, QueuedEvents, Radios, Configs
  <1>4. NoStationNoLink' /\ Told(events, ap_active, radio.ap)'
    BY <1>1, <1>2 DEF NoStationNoLink, WifiInv
  <1>5. crossed' \in BOOLEAN /\ (~crossed' => ~crossed)
    BY DEF WifiInv, Crosses, StationEvents
  <1>6. ASSUME ~crossed'
        PROVE  OneAtATime' /\ Agrees' /\ Connection' /\ Tended'
    <2>1. OneAtATime /\ Agrees /\ Connection /\ Tended /\ NoStationNoLink
      BY <1>5, <1>6 DEF WifiInv
    <2>2. OneAtATime'
      BY <1>1, <1>2, <1>6, <2>1 DEF OneAtATime, Agrees, Connection, Tended, NoLink, NoStationNoLink
    <2>3. Agrees'
      BY <1>1, <1>2, <1>6, <2>1 DEF OneAtATime, Agrees, Connection, Tended, NoLink, NoStationNoLink
    <2>4. Connection'
      BY <1>1, <1>2, <1>6, <2>1 DEF OneAtATime, Agrees, Connection, Tended, NoLink, NoStationNoLink
    <2>5. Tended'
      BY <1>1, <1>2, <1>6, <2>1 DEF OneAtATime, Agrees, Connection, Tended, NoLink, NoStationNoLink
    <2> QED BY <2>2, <2>3, <2>4, <2>5
  <1> QED BY <1>3, <1>4, <1>5, <1>6 DEF WifiInv

LEMMA ScanEndsKeeps == ASSUME WifiInv, ScanEnds, crossed' = (crossed \/ Crosses)
                       PROVE  WifiInv'
  <1>1. /\ console = "scan" /\ console' = "none"
        /\ SetMode(TRUE, FALSE) /\ WifiTypeOK
        /\ UNCHANGED <<config, retry_count, connected, ap_active, timer, handler>>
    BY DEF ScanEnds, ConsoleGoes, WifiInv
  <1>2. /\ radio' \in Radios /\ radio'.ap /\ ~radio'.sta /\ radio'.link = "down"
        /\ events' \in Seq(QueuedEvents)
        /\ Has(events', "got_ip") <=> Has(events, "got_ip")
        /\ Has(events', "disconnected")
              <=> Has(events, "disconnected") \/ (radio.sta /\ radio.link # "down")
        /\ Single(events) /\ radio.link = "down" => Single(events')
        /\ Prompt(events) /\ ~Has(events, "got_ip") => Prompt(events')
        /\ Told(events, ap_active, radio.ap) => Told(events', ap_active, radio'.ap)
    BY <1>1, SetModeIs
  <1>3. WifiTypeOK'
    BY <1>1, <1>2 DEF WifiTypeOK, QueuedEvents, Radios, Configs
  <1>4. NoStationNoLink' /\ Told(events, ap_active, radio.ap)'
    BY <1>1, <1>2 DEF NoStationNoLink, WifiInv
  <1>5. crossed' \in BOOLEAN /\ (~crossed' => ~crossed)
    BY DEF WifiInv, Crosses, StationEvents
  <1>6. ASSUME ~crossed'
        PROVE  OneAtATime' /\ Agrees' /\ Connection' /\ Tended'
    <2>1. OneAtATime /\ Agrees /\ Connection /\ Tended /\ NoStationNoLink
      BY <1>5, <1>6 DEF WifiInv
    <2>2. OneAtATime'
      BY <1>1, <1>2, <1>6, <2>1 DEF OneAtATime, Agrees, Connection, Tended, NoLink, NoStationNoLink
    <2>3. Agrees'
      BY <1>1, <1>2, <1>6, <2>1 DEF OneAtATime, Agrees, Connection, Tended, NoLink, NoStationNoLink
    <2>4. Connection'
      BY <1>1, <1>2, <1>6, <2>1 DEF OneAtATime, Agrees, Connection, Tended, NoLink, NoStationNoLink
    <2>5. Tended'
      BY <1>1, <1>2, <1>6, <2>1 DEF OneAtATime, Agrees, Connection, Tended, NoLink, NoStationNoLink
    <2> QED BY <2>2, <2>3, <2>4, <2>5
  <1> QED BY <1>3, <1>4, <1>5, <1>6 DEF WifiInv

LEMMA LinkComesUpKeeps == ASSUME WifiInv, LinkComesUp, crossed' = (crossed \/ Crosses)
                          PROVE  WifiInv'
  <1>1. /\ radio.link = "trying" /\ ~StationEvents /\ WifiTypeOK
        /\ radio' = [radio EXCEPT !.link = "up"] /\ events' = Append(events, "got_ip")
        /\ UNCHANGED <<config, retry_count, connected, ap_active, timer, handler, console>>
    BY DEF LinkComesUp, LinkChanges, WifiInv
  <1>2. /\ handler = "none" /\ NoLink(events) /\ events' \in Seq(QueuedEvents)
        /\ \A x : Has(events', x) <=> Has(events, x) \/ x = "got_ip"
        /\ Single(events) => Single(events')
        /\ Prompt(events) => Prompt(events')
        /\ Told(events, ap_active, radio.ap) => Told(events', ap_active, radio.ap)
    BY <1>1, StationEventsAre, WifiParts, QueuePut DEF QueuedEvents, LinkEvents, PointEvents
  <1>3. /\ radio' \in Radios /\ radio'.ap = radio.ap /\ radio'.sta = radio.sta /\ radio'.link = "up"
    BY <1>1, LinkSet
  <1>4. WifiTypeOK'
    BY <1>1, <1>2, <1>3 DEF WifiTypeOK, QueuedEvents, Radios, Configs
  <1>5. NoStationNoLink' /\ Told(events, ap_active, radio.ap)'
    BY <1>1, <1>2, <1>3 DEF NoStationNoLink, WifiInv
  <1>6. crossed' \in BOOLEAN /\ (~crossed' => ~crossed)
    BY DEF WifiInv, Crosses, StationEvents
  <1>7. ASSUME ~crossed'
        PROVE  OneAtATime' /\ Agrees' /\ Connection' /\ Tended'
    <2>1. OneAtATime /\ Agrees /\ Connection /\ Tended /\ NoStationNoLink
      BY <1>6, <1>7 DEF WifiInv
    <2>2. OneAtATime'
      BY <1>1, <1>2, <1>3, <1>7, <2>1 DEF OneAtATime, Agrees, Connection, Tended, NoLink, NoStationNoLink
    <2>3. Agrees'
      BY <1>1, <1>2, <1>3, <1>7, <2>1 DEF OneAtATime, Agrees, Connection, Tended, NoLink, NoStationNoLink
    <2>4. Connection'
      BY <1>1, <1>2, <1>3, <1>7, <2>1 DEF OneAtATime, Agrees, Connection, Tended, NoLink, NoStationNoLink
    <2>5. Tended'
      BY <1>1, <1>2, <1>3, <1>7, <2>1 DEF OneAtATime, Agrees, Connection, Tended, NoLink, NoStationNoLink
    <2> QED BY <2>2, <2>3, <2>4, <2>5
  <1> QED BY <1>4, <1>5, <1>6, <1>7 DEF WifiInv

LEMMA LinkFailsKeeps == ASSUME WifiInv, LinkFails, crossed' = (crossed \/ Crosses)
                        PROVE  WifiInv'
  <1>1. /\ radio.link = "trying" /\ ~StationEvents /\ WifiTypeOK
        /\ radio' = [radio EXCEPT !.link = "down"] /\ events' = Append(events, "disconnected")
        /\ UNCHANGED <<config, retry_count, connected, ap_active, timer, handler, console>>
    BY DEF LinkFails, LinkChanges, WifiInv
  <1>2. /\ handler = "none" /\ NoLink(events) /\ events' \in Seq(QueuedEvents)
        /\ \A x : Has(events', x) <=> Has(events, x) \/ x = "disconnected"
        /\ Single(events) => Single(events')
        /\ Prompt(events) => Prompt(events')
        /\ Told(events, ap_active, radio.ap) => Told(events', ap_active, radio.ap)
    BY <1>1, StationEventsAre, WifiParts, QueuePut DEF QueuedEvents, LinkEvents, PointEvents
  <1>3. /\ radio' \in Radios /\ radio'.ap = radio.ap /\ radio'.sta = radio.sta /\ radio'.link = "down"
    BY <1>1, LinkSet
  <1>4. WifiTypeOK'
    BY <1>1, <1>2, <1>3 DEF WifiTypeOK, QueuedEvents, Radios, Configs
  <1>5. NoStationNoLink' /\ Told(events, ap_active, radio.ap)'
    BY <1>1, <1>2, <1>3 DEF NoStationNoLink, WifiInv
  <1>6. crossed' \in BOOLEAN /\ (~crossed' => ~crossed)
    BY DEF WifiInv, Crosses, StationEvents
  <1>7. ASSUME ~crossed'
        PROVE  OneAtATime' /\ Agrees' /\ Connection' /\ Tended'
    <2>1. OneAtATime /\ Agrees /\ Connection /\ Tended /\ NoStationNoLink
      BY <1>6, <1>7 DEF WifiInv
    <2>2. OneAtATime'
      BY <1>1, <1>2, <1>3, <1>7, <2>1 DEF OneAtATime, Agrees, Connection, Tended, NoLink, NoStationNoLink
    <2>3. Agrees'
      BY <1>1, <1>2, <1>3, <1>7, <2>1 DEF OneAtATime, Agrees, Connection, Tended, NoLink, NoStationNoLink
    <2>4. Connection'
      BY <1>1, <1>2, <1>3, <1>7, <2>1 DEF OneAtATime, Agrees, Connection, Tended, NoLink, NoStationNoLink
    <2>5. Tended'
      BY <1>1, <1>2, <1>3, <1>7, <2>1 DEF OneAtATime, Agrees, Connection, Tended, NoLink, NoStationNoLink
    <2> QED BY <2>2, <2>3, <2>4, <2>5
  <1> QED BY <1>4, <1>5, <1>6, <1>7 DEF WifiInv

LEMMA LinkIsLostKeeps == ASSUME WifiInv, LinkIsLost, crossed' = (crossed \/ Crosses)
                         PROVE  WifiInv'
  <1>1. /\ radio.link = "up" /\ ~StationEvents /\ WifiTypeOK
        /\ radio' = [radio EXCEPT !.link = "down"] /\ events' = Append(events, "disconnected")
        /\ UNCHANGED <<config, retry_count, connected, ap_active, timer, handler, console>>
    BY DEF LinkIsLost, LinkChanges, WifiInv
  <1>2. /\ handler = "none" /\ NoLink(events) /\ events' \in Seq(QueuedEvents)
        /\ \A x : Has(events', x) <=> Has(events, x) \/ x = "disconnected"
        /\ Single(events) => Single(events')
        /\ Prompt(events) => Prompt(events')
        /\ Told(events, ap_active, radio.ap) => Told(events', ap_active, radio.ap)
    BY <1>1, StationEventsAre, WifiParts, QueuePut DEF QueuedEvents, LinkEvents, PointEvents
  <1>3. /\ radio' \in Radios /\ radio'.ap = radio.ap /\ radio'.sta = radio.sta /\ radio'.link = "down"
    BY <1>1, LinkSet
  <1>4. WifiTypeOK'
    BY <1>1, <1>2, <1>3 DEF WifiTypeOK, QueuedEvents, Radios, Configs
  <1>5. NoStationNoLink' /\ Told(events, ap_active, radio.ap)'
    BY <1>1, <1>2, <1>3 DEF NoStationNoLink, WifiInv
  <1>6. crossed' \in BOOLEAN /\ (~crossed' => ~crossed)
    BY DEF WifiInv, Crosses, StationEvents
  <1>7. ASSUME ~crossed'
        PROVE  OneAtATime' /\ Agrees' /\ Connection' /\ Tended'
    <2>1. OneAtATime /\ Agrees /\ Connection /\ Tended /\ NoStationNoLink
      BY <1>6, <1>7 DEF WifiInv
    <2>2. OneAtATime'
      BY <1>1, <1>2, <1>3, <1>7, <2>1 DEF OneAtATime, Agrees, Connection, Tended, NoLink, NoStationNoLink
    <2>3. Agrees'
      BY <1>1, <1>2, <1>3, <1>7, <2>1 DEF OneAtATime, Agrees, Connection, Tended, NoLink, NoStationNoLink
    <2>4. Connection'
      BY <1>1, <1>2, <1>3, <1>7, <2>1 DEF OneAtATime, Agrees, Connection, Tended, NoLink, NoStationNoLink
    <2>5. Tended'
      BY <1>1, <1>2, <1>3, <1>7, <2>1 DEF OneAtATime, Agrees, Connection, Tended, NoLink, NoStationNoLink
    <2> QED BY <2>2, <2>3, <2>4, <2>5
  <1> QED BY <1>4, <1>5, <1>6, <1>7 DEF WifiInv

LEMMA WifiStutters == ASSUME WifiInv, UNCHANGED wifiVars
                      PROVE  WifiInv'
  <1>1. UNCHANGED <<config, retry_count, connected, ap_active, timer, handler, console, radio, events,
                    crossed>>
    BY DEF wifiVars
  <1>2. WifiTypeOK'
    BY <1>1 DEF WifiInv, WifiTypeOK
  <1>3. /\ OneAtATime' <=> OneAtATime
        /\ Agrees' <=> Agrees
        /\ Connection' <=> Connection
        /\ Tended' <=> Tended
    BY <1>1 DEF OneAtATime, Agrees, Connection, Tended
  <1>4. NoStationNoLink' /\ Told(events, ap_active, radio.ap)'
    BY <1>1 DEF WifiInv, NoStationNoLink
  <1> QED BY <1>1, <1>2, <1>3, <1>4 DEF WifiInv

LEMMA WifiStarts == WifiInit => WifiInv
  <1> SUFFICES ASSUME WifiInit
               PROVE  WifiInv
    OBVIOUS
  <1>1. /\ config \in Configs /\ config.sta \in BOOLEAN
        /\ retry_count = 0 /\ connected = FALSE /\ ap_active = FALSE /\ timer = FALSE
        /\ handler = "none" /\ console = "none"
        /\ radio = [ap |-> TRUE, sta |-> config.sta, link |-> "down"]
        /\ events = IF config.sta THEN <<"sta_start", "ap_start">> ELSE <<"ap_start">>
        /\ crossed = FALSE
    BY DEF WifiInit, Configs
  <1>2. radio \in Radios /\ radio.ap = TRUE /\ radio.sta = config.sta /\ radio.link = "down"
    BY <1>1 DEF Radios
  <1>3. /\ events \in Seq(QueuedEvents) /\ Single(events) /\ Prompt(events) /\ NoLink(events)
        /\ config.sta => Has(events, "sta_start")
        /\ Told(events, ap_active, radio.ap)
    <2> DEFINE q == IF config.sta THEN <<"sta_start">> ELSE <<>>
    <2>1. /\ q \in Seq(QueuedEvents) /\ Single(q) /\ Prompt(q) /\ NoLink(q)
          /\ config.sta => Has(q, "sta_start")
      <3>1. CASE config.sta
        <4>1. /\ q = <<"sta_start">> /\ q \in Seq(QueuedEvents)
              /\ DOMAIN q = {1} /\ q[1] = "sta_start"
          BY <3>1 DEF QueuedEvents
        <4> HIDE DEF q
        <4> QED BY <4>1 DEF Single, Prompt, NoLink, Has, LinkEvents
      <3>2. CASE ~config.sta
        <4>1. /\ q = <<>> /\ q \in Seq(QueuedEvents) /\ DOMAIN q = {}
          BY <3>2 DEF QueuedEvents
        <4> HIDE DEF q
        <4> QED BY <3>2, <4>1 DEF Single, Prompt, NoLink, Has, LinkEvents
      <3> QED BY <3>1, <3>2
    <2>2. events = Append(q, "ap_start")
      <3>1. CASE config.sta
        <4>1. q = <<"sta_start">> /\ events = <<"sta_start", "ap_start">>
          BY <1>1, <3>1
        <4> HIDE DEF q
        <4> QED BY <4>1
      <3>2. CASE ~config.sta
        <4>1. q = <<>> /\ events = <<"ap_start">>
          BY <1>1, <3>2
        <4> HIDE DEF q
        <4> QED BY <4>1
      <3> QED BY <3>1, <3>2
    <2> HIDE DEF q
    <2> QED BY <1>2, <2>1, <2>2, QueuePut DEF QueuedEvents, LinkEvents, PointEvents, NoLink
  <1>4. WifiTypeOK
    <2>1. retry_count \in 0..MaxRetry
      BY <1>1, WifiAssumption
    <2>2. radio \in Radios /\ events \in Seq(QueuedEvents)
      BY <1>2, <1>3
    <2>3. /\ config \in Configs /\ connected \in BOOLEAN /\ ap_active \in BOOLEAN /\ timer \in BOOLEAN
          /\ handler = "none" /\ console = "none"
      BY <1>1
    <2> QED BY <2>1, <2>2, <2>3 DEF WifiTypeOK, QueuedEvents, Radios
  <1>5. OneAtATime /\ Agrees /\ Connection
    BY <1>1, <1>2, <1>3 DEF OneAtATime, Agrees, Connection, NoLink
  <1>6. Tended /\ NoStationNoLink
    BY <1>1, <1>2, <1>3 DEF Tended, NoStationNoLink
  <1> QED BY <1>1, <1>3, <1>4, <1>5, <1>6 DEF WifiInv

LEMMA WifiSteps == WifiInv /\ [WifiNext]_wifiVars => WifiInv'
  <1> SUFFICES ASSUME WifiInv, [WifiNext]_wifiVars
               PROVE  WifiInv'
    OBVIOUS
  <1>1. CASE UNCHANGED wifiVars
    BY <1>1, WifiStutters
  <1>2. CASE WifiNext
    <2>1. crossed' = (crossed \/ Crosses)
      BY <1>2 DEF WifiNext
    <2>2. CASE OnStaStart    BY <2>1, <2>2, OnStaStartKeeps
    <2>3. CASE OnRetry       BY <2>1, <2>3, OnRetryKeeps
    <2>4. CASE OnGiveUp      BY <2>1, <2>4, OnGiveUpKeeps
    <2>5. CASE FallBack      BY <2>1, <2>5, FallBackKeeps
    <2>6. CASE OnGotIp       BY <2>1, <2>6, OnGotIpKeeps
    <2>7. CASE CloseAp       BY <2>1, <2>7, CloseApKeeps
    <2>8. CASE OnApChange    BY <2>1, <2>8, OnApChangeKeeps
    <2>9. CASE TimerFires    BY <2>1, <2>9, TimerFiresKeeps
    <2>10. CASE ApplyResets  BY <2>1, <2>10, ApplyResetsKeeps
    <2>11. CASE ApplyMode    BY <2>1, <2>11, ApplyModeKeeps
    <2>12. CASE ApplyLeaves  BY <2>1, <2>12, ApplyLeavesKeeps
    <2>13. CASE ApplyJoins   BY <2>1, <2>13, ApplyJoinsKeeps
    <2>14. CASE ScanBegins   BY <2>1, <2>14, ScanBeginsKeeps
    <2>15. CASE ScanEnds     BY <2>1, <2>15, ScanEndsKeeps
    <2>16. CASE LinkComesUp  BY <2>1, <2>16, LinkComesUpKeeps
    <2>17. CASE LinkFails    BY <2>1, <2>17, LinkFailsKeeps
    <2>18. CASE LinkIsLost   BY <2>1, <2>18, LinkIsLostKeeps
    <2>19. ASSUME NEW c \in Configs, Apply(c)
           PROVE  WifiInv'
      BY <2>1, <2>19, ApplyKeeps
    <2> QED
      BY <1>2, <2>2, <2>3, <2>4, <2>5, <2>6, <2>7, <2>8, <2>9, <2>10, <2>11, <2>12, <2>13, <2>14,
         <2>15, <2>16, <2>17, <2>18, <2>19 DEF WifiNext
  <1> QED BY <1>1, <1>2

\* Unless the console crosses an event of the station: one event of the link at
\* a time, the stack and the module agree, and what is not as it has to be is
\* being worked at.
THEOREM WifiInvariant == WifiSpec => []WifiInv
  BY WifiStarts, WifiSteps, PTL DEF WifiSpec

\* The state of the Wi-Fi manager stays within its types.
THEOREM WifiTypeCorrect == WifiSpec => []WifiTypeOK
  <1>1. WifiInv => WifiTypeOK
    BY DEF WifiInv
  <1> QED BY <1>1, WifiInvariant, PTL

\* Once nothing more is to come the device can be reached and says so, for any
\* number of retries and any queue.
THEOREM DeviceStaysReachable == WifiSpec => []SettlesReachable
  <1>1. WifiInv => SettlesReachable
    <2> SUFFICES ASSUME WifiInv, Settled
                 PROVE  /\ IF radio.link = "up" THEN config.close => ~radio.ap
                                                ELSE radio.ap /\ ~config.sta
                        /\ connected = (radio.link = "up") /\ ap_active = radio.ap
      BY DEF SettlesReachable
    <2>1. /\ OneAtATime /\ Agrees /\ Connection /\ Tended /\ Told(events, ap_active, radio.ap)
          /\ connected \in BOOLEAN /\ ap_active \in BOOLEAN /\ radio.ap \in BOOLEAN
          /\ radio.link \in {"down", "trying", "up"}
      BY WifiParts DEF WifiInv, Settled
    <2>2. /\ events = <<>> /\ handler = "none" /\ console = "none" /\ ~timer /\ radio.link # "trying"
      BY DEF Settled
    <2>3. /\ \A x : ~Has(events, x)
          /\ ap_active <=> radio.ap
      <3>1. DOMAIN events = {}
        BY <2>2
      <3> QED BY <2>1, <3>1 DEF Has, Told
    <2>4. connected <=> radio.link = "up"
      BY <2>1, <2>2, <2>3 DEF Connection, NoLink
    <2>5. radio.link = "up" => (config.close => ~radio.ap)
      BY <2>1, <2>2, <2>3 DEF Tended
    <2>6. radio.link # "up" => radio.ap /\ ~config.sta
      BY <2>1, <2>2, <2>3 DEF Tended
    <2>7. connected = (radio.link = "up") /\ ap_active = radio.ap
      BY <2>1, <2>3, <2>4
    <2> QED BY <2>5, <2>6, <2>7
  <1> QED BY <1>1, WifiInvariant, PTL
=============================================================================
