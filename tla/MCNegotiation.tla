--------------------------- MODULE MCNegotiation ---------------------------
(* One instance of Negotiation, for TLC.  The band of this cell reaches     *)
(* from 7.55 to 7.75 V: a brick that steps by 200 mV from five volts passes *)
(* over its centre and its top with one pulse, and has to come back.        *)
EXTENDS Negotiation

MCCells == {3675000}

\* 7.0 V and 9.0 V stand for 18 and 40 W, 7.4 V for nothing.
MCSrcCaps == {350, 370, 450}
=============================================================================
