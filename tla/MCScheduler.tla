---------------------------- MODULE MCScheduler ----------------------------
(***************************************************************************)
(* Small instances of Scheduler for TLC: one item that is due once, one at *)
(* a fixed interval with a limit of runs, one at an interval without.      *)
(***************************************************************************)
EXTENDS Scheduler

CONSTANTS alarm, chime

Once == [kind |-> "once", start |-> 4, interval |-> 0, max |-> 0]
Beat == [kind |-> "interval", start |-> 0, interval |-> 1, max |-> 1]
Daily == [kind |-> "interval", start |-> 4, interval |-> 1, max |-> 0]
Kinds == {Once, Beat, Daily}
Beats == {Beat}
=============================================================================
