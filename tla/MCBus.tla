------------------------------- MODULE MCBus -------------------------------
(***************************************************************************)
(* Bus with all six request layouts, one neighbouring node, one opening by *)
(* name and three charge registers (MCBus.cfg).  The resources: none that  *)
(* is serial, the stock ACPI, one with an overlay, one whose overlay comes *)
(* fifth, and a serial connection that is not I2C.                         *)
(***************************************************************************)
EXTENDS Bus

MCResources ==
  {<<"other">>, <<"i2c">>, <<"spmi", "i2c">>,
   <<"i2c", "other", "other", "other", "spmi">>, <<"spi", "spmi">>}
=============================================================================
