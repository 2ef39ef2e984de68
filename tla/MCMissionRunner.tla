-------------------------- MODULE MCMissionRunner --------------------------
(***************************************************************************)
(* Instances of MissionRunner for TLC.  The cfg files give the bounds.     *)
(***************************************************************************)
EXTENDS MissionRunner
=============================================================================
