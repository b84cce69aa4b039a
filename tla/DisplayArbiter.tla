--------------------------- MODULE DisplayArbiter ---------------------------
(***************************************************************************)
(* display_arbiter between its two users: the emote animation, which owns  *)
(* the display at first, and the Lua scripts, counted by lua_depth.  A     *)
(* script takes the display in display.init and gives it back in           *)
(* display.deinit or, whoever took it, when it ends.  The arbiter's lock   *)
(* covers one acquire or release; the display HAL has a lock of its own.   *)
(*                                                                         *)
(* The emote player is external: asked for a refresh it draws everything   *)
(* once, through its flush callback.  Left out: its partial updates, LVGL, *)
(* and frames (begin_frame, end_frame): a script's drawing is one present. *)
(* A script initialises the display at most once before it gives it back;  *)
(* the panel answers, so that no lock is waited for in vain and the HAL    *)
(* can be destroyed.                                                       *)
(***************************************************************************)
EXTENDS FiniteSets, Naturals

CONSTANT Scripts

ASSUME ScriptsAssumption == IsFiniteSet(Scripts)

VARIABLES
    owner,        \* display_arbiter: s_state.owner
    lua_depth,
    hal_created,  \* display_hal: s_state holds a panel
    player,       \* external: [asked, paints]: a refresh is due, emote draws
    screen,       \* external: who drew last
    step,         \* step[s]: the script's position; "off" when none runs
    overdrawn     \* history: a script drew over emote's picture, having looked
                  \* at the owner before the display was given back

displayVars == <<owner, lua_depth, hal_created, player, screen, step, overdrawn>>

DisplayInit == /\ owner = "emote" /\ lua_depth = 0 /\ hal_created = FALSE
               /\ player = [asked |-> FALSE, paints |-> FALSE] /\ screen = "emote"
               /\ step = [s \in Scripts |-> "off"] /\ overdrawn = FALSE

Moves(s, from, to) == step[s] = from /\ step' = [step EXCEPT ![s] = to]
HalIsFree == \A s \in Scripts : step[s] # "present"

-----------------------------------------------------------------------------
ScriptStarts(s) == /\ Moves(s, "off", "bare")
                   /\ UNCHANGED <<owner, lua_depth, hal_created, player, screen, overdrawn>>

\* display.init.  The callback tells emote nothing it acts on.
InitAcquires(s) == /\ Moves(s, "bare", "create")
                   /\ lua_depth' = lua_depth + 1 /\ owner' = "lua"
                   /\ UNCHANGED <<hal_created, player, screen, overdrawn>>

InitCreates(s) == /\ Moves(s, "create", "session") /\ HalIsFree
                  /\ hal_created' = TRUE
                  /\ UNCHANGED <<owner, lua_depth, player, screen, overdrawn>>

InitFails(s) == /\ Moves(s, "create", "release") /\ HalIsFree
                /\ UNCHANGED <<owner, lua_depth, hal_created, player, screen, overdrawn>>

\* The drawing of a script whose HAL is gone, or which lost the display,
\* is dropped.
Presents(s) == /\ Moves(s, "session", "present") /\ HalIsFree
               /\ hal_created /\ owner = "lua"
               /\ UNCHANGED <<owner, lua_depth, hal_created, player, screen, overdrawn>>
Drawn(s) == /\ Moves(s, "present", "session")
            /\ screen' = "lua" /\ overdrawn' = (owner # "lua")
            /\ UNCHANGED <<owner, lua_depth, hal_created, player>>

\* display.deinit.
Deinit(s) == /\ Moves(s, "session", "release") /\ HalIsFree
             /\ hal_created' = FALSE
             /\ UNCHANGED <<owner, lua_depth, player, screen, overdrawn>>

GiveBackVariant(s, from, told, quiet) ==
    /\ step[s] = from
    /\ lua_depth' = IF lua_depth > 0 THEN lua_depth - 1 ELSE 0
    /\ owner' = IF lua_depth = 1 THEN "emote" ELSE owner
    /\ step' = [step EXCEPT ![s] = quiet]
    /\ UNCHANGED <<hal_created, player, screen, overdrawn>>
\* display_arbiter_release: the lock is given back, then the owner is told.
GiveBack(s, from, told, quiet) ==
    LET last == lua_depth = 1 /\ owner = "lua"
    IN /\ step[s] = from
       /\ lua_depth' = IF lua_depth > 0 THEN lua_depth - 1 ELSE 0
       /\ owner' = IF last THEN "emote" ELSE owner
       /\ step' = [step EXCEPT ![s] = IF last THEN told ELSE quiet]
       /\ UNCHANGED <<hal_created, player, screen, overdrawn>>

Tell(s, from, to) == /\ Moves(s, from, to)
                     /\ player' = [player EXCEPT !.asked = TRUE]
                     /\ UNCHANGED <<owner, lua_depth, hal_created, screen, overdrawn>>

\* The script ends: lua_display_exit_cleanup asks if Lua owns the display, not
\* if this script does.
ScriptEnds(s) == /\ step[s] \in {"bare", "session"}
                 /\ step' = [step EXCEPT ![s] = IF owner = "lua" THEN "destroy" ELSE "off"]
                 /\ UNCHANGED <<owner, lua_depth, hal_created, player, screen, overdrawn>>

Destroy(s) == /\ Moves(s, "destroy", "leave") /\ HalIsFree
              /\ hal_created' = FALSE
              /\ UNCHANGED <<owner, lua_depth, player, screen, overdrawn>>

\* emote_apply: another picture, after a change of the network.
EmoteApplies == /\ owner = "emote" /\ player' = [player EXCEPT !.asked = TRUE]
                /\ UNCHANGED <<owner, lua_depth, hal_created, screen, step, overdrawn>>

\* The flush that follows a request: dropped unless emote owns the display.
EmoteFlushes == /\ player.asked /\ ~player.paints
                /\ player' = [asked |-> FALSE, paints |-> owner = "emote"]
                /\ UNCHANGED <<owner, lua_depth, hal_created, screen, step, overdrawn>>
EmotePaints == /\ player.paints /\ player' = [player EXCEPT !.paints = FALSE]
               /\ screen' = "emote" /\ overdrawn' = FALSE
               /\ UNCHANGED <<owner, lua_depth, hal_created, step>>

DisplayNext ==
    \/ EmoteApplies \/ EmoteFlushes \/ EmotePaints
    \/ \E s \in Scripts :
        \/ ScriptStarts(s) \/ InitAcquires(s) \/ InitCreates(s) \/ InitFails(s)
        \/ Presents(s) \/ Drawn(s) \/ Deinit(s) \/ ScriptEnds(s) \/ Destroy(s)
        \/ GiveBack(s, "release", "tell", "bare") \/ Tell(s, "tell", "bare")
        \/ GiveBack(s, "leave", "last", "off") \/ Tell(s, "last", "off")

DisplaySpec == DisplayInit /\ [][DisplayNext]_displayVars

-----------------------------------------------------------------------------
(* Properties.                                                             *)

\* The state stays within its types.
DisplayTypeOK ==
    /\ owner \in {"emote", "lua"} /\ lua_depth \in Nat /\ hal_created \in BOOLEAN
    /\ player \in [asked : BOOLEAN, paints : BOOLEAN] /\ screen \in {"emote", "lua"}
    /\ step \in [Scripts -> {"off", "bare", "create", "session", "present",
                             "release", "tell", "destroy", "leave", "last"}]

\* When no script is left and emote has drawn what it was asked for, it owns
\* the display, and its picture is there unless a script drew over it late: no
\* end of a script, in any order with the others' steps, leaves the display
\* to Lua, and no owner is restored without a repaint.
EmoteComesBack ==
    /\ \A s \in Scripts : step[s] = "off"
    /\ player = [asked |-> FALSE, paints |-> FALSE]
    => owner = "emote" /\ (screen = "emote" \/ overdrawn)
=============================================================================
