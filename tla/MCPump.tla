------------------------------- MODULE MCPump -------------------------------
(***************************************************************************)
(* A small instance of Pump: a five-volt brick and a raised QC bus, a cell *)
(* inside the taper band and at the float ceiling (within 50 mV of it), a  *)
(* limit below the taper beside the profile above it.                      *)
(***************************************************************************)
EXTENDS Pump

MCVins == {5000000, 9400000}
MCVbats == {4450000}
MCIinLimits == {500000}
MCFloats == {4470000}
=============================================================================
