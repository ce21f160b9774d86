-------------------------------- MODULE Pump --------------------------------
(***************************************************************************)
(* A session with the LN8000 charge pump: the calls of PumpOps in any      *)
(* order, as the kernel driver's timer and IOCTL handlers make them (they  *)
(* are serialised by the state mutex, so a call is one step), over an      *)
(* input and a battery that change between calls.                          *)
(***************************************************************************)
EXTENDS PumpOps

CONSTANTS Vins,          \* input voltages, microvolts
          Vbats,         \* battery voltages, microvolts
          IinLimits,     \* currents a caller may ask for, microamperes
          Floats,        \* float voltages a caller may ask for, microvolts
          ProfileIin,    \* PumpConfig::iin_limit_ua
          ProfileFloat   \* PumpConfig::vbat_float_uv

ASSUME VoltageAssumption == Vins \subseteq Nat /\ Vbats \subseteq Nat
ASSUME LimitAssumption ==
    /\ IinLimits \subseteq Nat /\ Floats \subseteq Nat
    /\ ProfileIin \in Nat /\ ProfileIin >= IIN_MIN_UA /\ ProfileFloat \in Nat
ASSUME ResetAssumption == PorIin \in 0..IIN_CODE_MAX /\ PorFloat \in 0..255

VARIABLES pump,          \* the pump record of PumpOps
          vin, vbat,     \* what the ADC measures
          verdict        \* what the last call returned, if it was set_charging(true)
                         \* and no bus access of it failed

vars == <<pump, vin, vbat, verdict>>

PumpRecord ==
    [state : PumpStates, bypass_stage : 0..3, por_vin : Vins \cup {NoValue, 0},
     cfg_iin : IinLimits \cup {ProfileIin}, cfg_float : Floats \cup {ProfileFloat},
     ctrl : CommandModes, masks : SUBSET FiveVoltMask,
     iin : 0..IIN_CODE_MAX, vfloat : 0..255, bus : {"up", "dead"}]

TypeOK ==
    /\ pump \in PumpRecord
    /\ vin \in Vins /\ vbat \in Vbats
    /\ verdict \in {"none", "Switching", "Bypass", "err"}

\* The chip after power-up, before the driver opened it.
Init ==
    /\ pump = [state |-> "Closed", bypass_stage |-> 0, por_vin |-> NoValue,
               cfg_iin |-> ProfileIin, cfg_float |-> ProfileFloat,
               ctrl |-> "Standby", masks |-> {}, iin |-> PorIin, vfloat |-> PorFloat,
               bus |-> "up"]
    /\ vin \in Vins /\ vbat \in Vbats
    /\ verdict = "none"

Fresh == [pump EXCEPT !.bus = "up"]
IsOpen == pump.state # "Closed"

\* Once a call has returned, a glitch on its bus counts as a dead bus.
Returned(p) == IF p.bus = "up" THEN p ELSE [p EXCEPT !.bus = "dead"]

\* One call: the input and the battery hold still while it runs.
Call(outs) ==
    /\ \E o \in outs : pump' = Returned(o.p)
    /\ verdict' = "none"
    /\ UNCHANGED <<vin, vbat>>

Open == ~IsOpen /\ Call(open(Fresh, ProfileIin, ProfileFloat))
Configure == IsOpen /\ Call(configure(Fresh))
ChargeOn ==
    /\ IsOpen
    /\ \E vfaults \in BOOLEAN : \E o \in charge_on(Fresh, vin, vbat, vfaults) :
          /\ pump' = Returned(o.p)
          /\ verdict' = IF o.p.bus = "up" THEN o.v ELSE "none"
    /\ UNCHANGED <<vin, vbat>>
ChargeOff == IsOpen /\ Call(charge_off(Fresh))
EnableSwitching == IsOpen /\ Call(enable_switching(Fresh))
EnableBypass == IsOpen /\ Call(enable_bypass(Fresh, vin, vbat))
Standby == IsOpen /\ Call(standby(Fresh))
SetIinLimit == IsOpen /\ \E ua \in IinLimits : Call(set_iin_limit(Fresh, ua))
SetVbatFloat == IsOpen /\ \E uv \in Floats : Call(set_vbat_float(Fresh, uv))
ClearLatchedFaults == IsOpen /\ Call(clear_latched_faults(Fresh))
SoftReset == IsOpen /\ Call(soft_reset(Fresh))
Close == IsOpen /\ Call(close(Fresh))

\* Between calls the adapter and the cell go where they like.
Input ==
    /\ vin' \in Vins /\ vbat' \in Vbats
    /\ verdict' = "none"
    /\ UNCHANGED pump

Next ==
    \/ Open \/ Configure \/ ChargeOn \/ ChargeOff \/ EnableSwitching \/ EnableBypass
    \/ Standby \/ SetIinLimit \/ SetVbatFloat \/ ClearLatchedFaults \/ SoftReset \/ Close
    \/ Input

Spec == Init /\ [][Next]_vars

-----------------------------------------------------------------------------
(* Properties.                                                             *)

\* 1:1 connects the input straight to the battery: no call, not even the reset
\* recovery or one whose ADC reads fail, commands it outside the 4.2-6 V window
\* (enable_bypass and recover_5v_bypass).
OneToOneOnlyOnFiveVolts ==
    [][pump'.ctrl = "Bypass" /\ pump.ctrl # "Bypass" =>
          CHARGE_MIN_VIN_UV <= vin /\ vin < ELEVATED_MIN_VIN_UV]_vars

\* set_charging(true) that the chip refuses on a raised input leaves the pump
\* idle, not with 2:1 still commanded; the bus worked throughout.
RefusedStartIsIdle ==
    verdict = "err" /\ vin >= ELEVATED_MIN_VIN_UV => pump.ctrl = "Standby"

\* A 5 V start that went as far as masking the chip's protections and was still
\* refused puts every protection back (recover_5v_bypass, stage 3).
RefusedBypassUnmasks ==
    /\ verdict = "err" /\ pump.bypass_stage = 3
    /\ charge_mode(vin, vbat) = "Bypass"
    => pump.masks = {}

\* A charge started near the top of the battery, by a session whose limit is
\* above the taper, runs at the tapered current whatever reset or reconfiguration
\* the start went through (prepare_near_float_for_charge).
NearFullStartIsTapered ==
    /\ verdict \in {"Switching", "Bypass"}
    /\ pump.cfg_iin > VBAT_TAPER_IIN_UA
    /\ vbat >= pump.cfg_float - VBAT_TAPER_MARGIN_UV
    => decode_iin_limit(pump.iin) <= VBAT_TAPER_IIN_UA

\* Every call keeps the promise ChargeTick relies on.
Promise == INSTANCE PumpPromise WITH
    chip <- [ctrl |-> pump.ctrl, iin |-> pump.iin, cfg_iin |-> pump.cfg_iin,
             bus_ok |-> pump.bus = "up"]

KeepsPromise == Promise!Spec

\* The comment on prepare_near_float_for_charge: in 1:1 a raised V_FLOAT is
\* forbidden, it would charge the battery from 5 V to a higher voltage.
BypassKeepsProfileFloat ==
    verdict = "Bypass" => pump.vfloat <= encode_vbat_float(pump.cfg_float)
=============================================================================
