------------------------------- MODULE Guard -------------------------------
(***************************************************************************)
(* The temperature and current protection of crates/ln8000/src/guard.rs:   *)
(* from one telemetry sample, the limits and the input-current setpoint in *)
(* the chip it decides on one action.  Temperatures are tenths of a degree *)
(* Celsius.  A reason string is left out of every action.                  *)
(***************************************************************************)
EXTENDS Encoding

VBAT_REDUCE_HYST_UV       == 50000
TEMP_REDUCE_HYST_DC       == 30
DIE_TEMP_MAX_PLAUSIBLE_DC == 1250
BYPASS_DENIED_STRIKES_BEFORE_STOP == 1

\* GuardLimits.
GuardLimits ==
    [temp_reduce : Int, temp_bypass : Int, temp_stop : Int,
     iin_max : Nat, iin_target : Nat, iin_floor : Nat, iin_profile : Nat,
     vbat_reduce : Nat]

\* The order of the thresholds that GuardLimits::is_consistent demands.
is_consistent(lim) ==
    /\ lim.temp_reduce < lim.temp_bypass
    /\ lim.temp_bypass < lim.temp_stop
    /\ lim.iin_floor <= lim.iin_target
    /\ lim.iin_target <= lim.iin_max

\* GuardLimits::standard().
standard ==
    [temp_reduce |-> 550, temp_bypass |-> 600, temp_stop |-> 650,
     iin_max |-> 3500000, iin_target |-> 2000000, iin_floor |-> 500000,
     iin_profile |-> 2000000, vbat_reduce |-> 4470000]

\* The bounds apply_parameter_lenient sets to each named threshold.
ParameterRange ==
    [temp_reduce |-> 200 .. 600, temp_bypass |-> 200 .. 650, temp_stop |-> 250 .. 700,
     iin_max |-> 100000 .. 6850000, iin_target |-> 100000 .. 6850000,
     iin_floor |-> 100000 .. 6850000, vbat_reduce |-> 3000000 .. 4500000]

\* A registry is a function on some of these names.  A value out of its range is skipped;
\* a set that ends up inconsistent is dropped whole.  The profile comes from the pump.
read_parameters(before, profile, registry) ==
    LET snapshot == [before EXCEPT !.iin_profile = profile]
        limits == [n \in DOMAIN before |->
                      IF n \in DOMAIN registry /\ registry[n] \in ParameterRange[n]
                      THEN registry[n] ELSE snapshot[n]]
    IN  IF is_consistent(limits) THEN limits ELSE snapshot

band_iin_ua(lim) == Lesser(lim.iin_profile, lim.iin_target)

\* Mutant of restore_iin_ua: restores the profile over an operator's ceiling.
restore_iin_ua_unclamped(lim) == lim.iin_profile

restore_iin_ua(lim) ==
    IF lim.iin_profile > lim.iin_max THEN lim.iin_max
    ELSE Greater(lim.iin_profile, lim.iin_floor)

\* GuardAction and BypassResolution; "to" is 0 where the action has no current.
Action(kind, to) == [kind |-> kind, to |-> to]
NoAction == Action("None", 0)

\* Mutant of is_change: a Stop does not count as one.
is_change_but_stop(action) == action.kind \notin {"None", "Stop"}

is_change(action) == action.kind # "None"

\* A failed channel decodes to +160 C, hence the plausibility bound.
die_temp_usable(s) == s.die_temp_valid /\ s.die_temp <= DIE_TEMP_MAX_PLAUSIBLE_DC

\* The hot episode that counted 1:1 denials is over.
bypass_strikes_expired(s, lim) ==
    die_temp_usable(s) /\ s.die_temp <= lim.temp_bypass - TEMP_REDUCE_HYST_DC

\* Mutant of cap: writes the target without looking at the setpoint.
cap_unconditional(applied, to) == Action("ReduceCurrent", to)

\* Fold-back only ever lowers the setpoint in the chip.
cap(applied, to) == IF applied <= to THEN NoAction ELSE Action("ReduceCurrent", to)

\* The restore ceiling: the profile, or the deliberate taper if it is lower.
restore_ceiling(lim, deliberate) ==
    IF deliberate = NoValue THEN restore_iin_ua(lim)
    ELSE Lesser(restore_iin_ua(lim), deliberate)

\* Decisions that need the setpoint and both channels, once no hard threshold
\* is reached.
evaluate_current(s, lim, applied, deliberate) ==
    LET credible == ~vbat_tracks_converter_rail(s.vbat, s.vbus)
        restore  == restore_ceiling(lim, deliberate)
        tempLow  == s.die_temp <= lim.temp_reduce - TEMP_REDUCE_HYST_DC
        vbatLow  == ~credible \/ s.vbat <= SatSub(lim.vbat_reduce, VBAT_REDUCE_HYST_UV)
    IN  CASE s.die_temp >= lim.temp_reduce -> cap(applied, band_iin_ua(lim))
          [] s.die_temp < lim.temp_reduce /\ s.iin > lim.iin_max ->
                cap(applied, lim.iin_target)
          [] /\ s.die_temp < lim.temp_reduce /\ s.iin <= lim.iin_max
             /\ credible /\ s.vbat >= lim.vbat_reduce ->
                cap(applied, band_iin_ua(lim))
          [] OTHER ->
                IF applied < restore /\ tempLow /\ vbatLow
                THEN Action("RestoreCurrent", restore) ELSE NoAction

\* applied and deliberate are Option<u32>: a current or NoValue.
evaluate(s, lim, applied, deliberate) ==
    CASE ~s.input_present -> NoAction
      [] s.input_present /\ die_temp_usable(s) /\ s.die_temp >= lim.temp_stop ->
            Action("Stop", 0)
      [] /\ s.input_present /\ die_temp_usable(s)
         /\ s.die_temp < lim.temp_stop /\ s.die_temp >= lim.temp_bypass ->
            Action("FallbackToBypass", 0)
      [] OTHER ->
            IF applied = NoValue \/ ~die_temp_usable(s) \/ ~s.vbat_valid
            THEN NoAction
            ELSE evaluate_current(s, lim, applied, deliberate)

\* Mutant of resolve_bypass: one denial too many before the stop.
resolve_bypass_late(vin, vbat, deniedStrikes, lim) ==
    IF bypass_allowed_by_vin(vin, vbat) THEN Action("Allowed", 0)
    ELSE IF deniedStrikes > BYPASS_DENIED_STRIKES_BEFORE_STOP THEN Action("Stop", 0)
    ELSE Action("ReduceCurrent", lim.iin_floor)

\* What to do when the guard asks for 1:1 and the input may forbid it.
resolve_bypass(vin, vbat, deniedStrikes, lim) ==
    IF bypass_allowed_by_vin(vin, vbat) THEN Action("Allowed", 0)
    ELSE IF deniedStrikes >= BYPASS_DENIED_STRIKES_BEFORE_STOP THEN Action("Stop", 0)
    ELSE Action("ReduceCurrent", lim.iin_floor)
=============================================================================
