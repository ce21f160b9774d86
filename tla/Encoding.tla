------------------------------ MODULE Encoding ------------------------------
(***************************************************************************)
(* Voltage gates, mode choice and register codes of the LN8000 charge      *)
(* pump: the pure functions of crates/ln8000/src/encoding.rs.  Voltages    *)
(* are microvolts and currents microamperes, as in the source.  u32        *)
(* saturation is not modelled: every operand below is under 2^27.          *)
(***************************************************************************)
EXTENDS Integers

NoMode == "None"                    \* Option<OpMode>::None
NoValue == -1                       \* Option<u32>::None, and a range error

\* OpMode: what SYS_CTRL can command, and what SYS_STS can report.
CommandModes == {"Standby", "Switching", "Bypass"}
OpModes == CommandModes \cup {"Unknown"}

SWITCHING_MIN_VIN_UV    == 8000000
ELEVATED_MIN_VIN_UV     == 6000000
SWITCHING_HEADROOM_UV   == 250000
SWITCHING_WINDOW_FLOOR_UV == 200000
CHARGE_MIN_VIN_UV       == 4200000
IIN_USEFUL_UA           == 300000
VBAT_FLOAT_SOFT_HEADROOM_UV == 80000
VBAT_FLOAT_SOFT_MAX_UV  == 4500000
VBAT_TAPER_MARGIN_UV    == 100000
VBAT_TAPER_IIN_UA       == 1200000
VBAT_VIN_HALF_SLACK_UV  == 80000
POR_VIN_TOLERANCE_UV    == 200000
IIN_MIN_UA              == 500000
IIN_STEP_UA             == 50000
IIN_CODE_MAX            == 127
VBAT_FLOAT_MIN_UV       == 3725000
VBAT_FLOAT_MAX_UV       == 5000000
VBAT_FLOAT_STEP_UV      == 5000

Lesser(a, b)  == IF a <= b THEN a ELSE b
Greater(a, b) == IF a >= b THEN a ELSE b
\* u32::saturating_sub and u32::abs_diff.
SatSub(a, b)  == IF a >= b THEN a - b ELSE 0
AbsDiff(a, b) == IF a >= b THEN a - b ELSE b - a

-----------------------------------------------------------------------------
(* Admission of a mode.                                                    *)

\* Least input that can feed 2:1: twice the cell plus headroom, and never a
\* five-volt source.
min_vin_for_switching_uv(vbat) ==
    Greater(2 * vbat + SWITCHING_HEADROOM_UV, ELEVATED_MIN_VIN_UV)

window_floor_uv(vbat) == 2 * vbat + SWITCHING_WINDOW_FLOOR_UV

\* The mode the input admits: 2:1 with headroom, 1:1 on a five-volt input,
\* otherwise none.
charge_mode(vin, vbat) ==
    IF vin >= min_vin_for_switching_uv(vbat) THEN "Switching"
    ELSE IF CHARGE_MIN_VIN_UV <= vin /\ vin < ELEVATED_MIN_VIN_UV THEN "Bypass"
    ELSE NoMode

\* The only gate of EN_1TO1.
bypass_allowed_by_vin(vin, vbat) == charge_mode(vin, vbat) = "Bypass"

transfer_is_useful(maxIin) == maxIin > IIN_USEFUL_UA

\* A running charge is stopped by a sampled verdict only when nothing flows.
stop_running_charge(admissible, transferring) == ~admissible /\ ~transferring

-----------------------------------------------------------------------------
(* Credibility of the VBAT channel and the taper band.                     *)

vin_is_doubled_vbat(vbat, vin) ==
    /\ vbat # 0
    /\ SatSub(vin \div 2, VBAT_VIN_HALF_SLACK_UV) <= vbat
    /\ vbat <= vin \div 2 + VBAT_VIN_HALF_SLACK_UV

vbat_tracks_converter_rail(vbat, vin) ==
    vin >= SWITCHING_MIN_VIN_UV /\ vin_is_doubled_vbat(vbat, vin)

vbat_near_float_with_vin(vbat, float, ovLatched, vin) ==
    \/ ovLatched
    \/ /\ ~(vin # 0 /\ vbat_tracks_converter_rail(vbat, vin))
       /\ vbat >= SatSub(float, VBAT_TAPER_MARGIN_UV)

soft_float_for_vbat(float, vbat) ==
    Lesser(Greater(vbat + VBAT_FLOAT_SOFT_HEADROOM_UV, float), VBAT_FLOAT_SOFT_MAX_UV)

-----------------------------------------------------------------------------
(* Register codes.                                                         *)

\* Code of an input current limit; NoValue is the OutOfRange error.
encode_iin_limit(ua) ==
    IF ua < IIN_MIN_UA THEN NoValue ELSE Lesser(ua \div IIN_STEP_UA, IIN_CODE_MAX)

decode_iin_limit(raw) == Greater(raw * IIN_STEP_UA, IIN_MIN_UA)

encode_vbat_float(uv) ==
    IF uv <= VBAT_FLOAT_MIN_UV THEN 0
    ELSE IF uv >= VBAT_FLOAT_MAX_UV THEN 255
    ELSE (uv - VBAT_FLOAT_MIN_UV) \div VBAT_FLOAT_STEP_UV
=============================================================================
