-------------------------- MODULE MCRenegotiation --------------------------
(***************************************************************************)
(* Small instances of Renegotiation: a unit of time is the retry delay.    *)
(***************************************************************************)
EXTENDS Renegotiation
=============================================================================
