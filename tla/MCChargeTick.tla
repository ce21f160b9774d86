---------------------------- MODULE MCChargeTick ----------------------------
(***************************************************************************)
(* Small instances of ChargeTick.  The temperatures lie on both sides of   *)
(* every threshold of the standard profile (55, 60 and 65 degrees, with    *)
(* three degrees of hysteresis), the last one is what a sleeping ADC       *)
(* decodes to.                                                             *)
(***************************************************************************)
EXTENDS ChargeTick

\* The standard limits with the profile of the tablet; the registry lowers the target to
\* the taper current, which lets setpoints of different origin coincide, and raises the
\* floor above the current SET_LIMITS asks for.
StandardLimits ==
    read_parameters(standard, 2700000, [iin_target |-> 1200000, iin_floor |-> 1000000])

\* One channel at a time, or a sleeping ADC.
SingleLosses == {{}, {"vbat"}, {"die_temp"}, {"iin_ctrl"}, {"vbat", "vbus", "iin"}}
=============================================================================
