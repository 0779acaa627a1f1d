----------------------------- MODULE MCSettings -----------------------------
(***************************************************************************)
(* Settings in which Deployment promises more than in the runs of its own. *)
(* Every behaviour is of one of them.                                      *)
(*   "alone"     requests one at a time, beside a goroutine that syncs     *)
(*   "described" every update has a description, and locks the row first   *)
(* The constants of the configuration are those of "alone".                *)
(***************************************************************************)
EXTENDS MCDeployment, Leftovers

VARIABLE setting

Described == INSTANCE Leftovers WITH
  Ops <- UpdateOps, Describes <- Always, Serial <- FALSE,
  PodViews <- NoPods, BuilderViews <- NoPods

SettingsInit == setting \in { "alone", "described" } /\ LeftoverInit

SettingsNext ==
  /\ UNCHANGED setting
  /\ \/ setting = "alone" /\ LeftoverNext
     \/ setting = "described" /\ Described!LeftoverNext

SettingsSpec == SettingsInit /\ [][SettingsNext]_<< setting, LeftoverVars >>
=============================================================================
