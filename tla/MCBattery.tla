----------------------------- MODULE MCBattery -----------------------------
(***************************************************************************)
(* A small instance of Battery: a cell at 4.2 V, so that 8.4 V is its      *)
(* reflection.                                                             *)
(***************************************************************************)
EXTENDS Battery

MCBricks == {5000000, 8400000}
MCFloating == {4300000, 8400000}
=============================================================================
