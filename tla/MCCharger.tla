----------------------------- MODULE MCCharger -----------------------------
(***************************************************************************)
(* Charger with the bricks and bounds of its configurations.               *)
(***************************************************************************)
EXTENDS Charger
=============================================================================
