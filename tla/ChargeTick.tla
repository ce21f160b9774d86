----------------------------- MODULE ChargeTick -----------------------------
(***************************************************************************)
(* The telemetry timer of the LN8000 driver                                *)
(* (crates/ln8000-kmdf/src/lib.rs, evt_telemetry_timer) and the IOCTLs     *)
(* that share its state: who decides on the charge, on which sample, in    *)
(* which order.                                                            *)
(*                                                                         *)
(* The timer holds the state mutex for the whole handler, so IOCTLs run    *)
(* only while pc = "idle"; but the handler samples the ADC once and acts   *)
(* for seconds afterwards, so the input may move between its stages.  The  *)
(* stages, in the order of the code, are                                   *)
(*    Sample -> Protect -> Walk -> Attempt -> Negotiate.                   *)
(* The pump is the one PumpPromise describes.  A comparison with the clock *)
(* (cooldowns, retry delays) may go either way.  Registry marks and        *)
(* counters that nothing reads back are left out.                          *)
(***************************************************************************)
EXTENDS Guard

CONSTANTS Vins, Vbats, IinLimits, ProfileIin, PorIin,   \* see PumpPromise
          Floats,             \* charge voltages SET_LIMITS may ask for
          ProfileFloat,       \* PumpConfig::vbat_float_uv
          Gauges,             \* plausible cell voltages of the fuel gauge, 0: none
          DieTemps,           \* what the die temperature channel may decode to
          Iins,               \* what the input current channel may decode to
          Losses,             \* sets of channels one tick may fail to read
          Faults,             \* latches one tick may find, see AllFaults
          InitLimits          \* GuardLimits of the session

VARIABLES chip, vin, vbat,    \* see PumpPromise
          float,              \* config.vbat_float_uv
          limits,             \* DriverState::limits
          strikes,            \* bypass_denied_strikes
          failed,             \* failed_attempts
          pc,                 \* the stage the timer is in
          sample,             \* what the handler keeps of its sample
          action,             \* the guard's decision on it
          denials,            \* history: guard ticks in a row that were denied 1:1
          reset               \* history: this tick reset the chip after failures

P == INSTANCE PumpPromise

vars == <<chip, vin, vbat, float, limits, strikes, failed,
          pc, sample, action, denials, reset>>
input == <<vin, vbat>>
session == <<float, limits, strikes, failed>>
history == <<denials, reset>>

\* Codes of IIN_CTRL that stand for the current they encode.
IinCodes == (IIN_MIN_UA \div IIN_STEP_UA) .. IIN_CODE_MAX

\* Latches that change what the tick does: each of the first three is a
\* critical fault, the fourth says that the brick is unplugged.
AllFaults == {"vbat_ov", "watchdog", "thermal", "vac_unplug", "none"}

\* What read_parameters lets through; the floor may be any current up to the target.
ASSUME LimitsAssumption == InitLimits \in GuardLimits /\ is_consistent(InitLimits)
ASSUME SensorAssumption ==
    /\ Vins \subseteq Nat /\ Vbats \subseteq Nat /\ Gauges \subseteq Nat
    /\ Iins \subseteq Nat /\ DieTemps \subseteq Int
    /\ Losses \subseteq SUBSET {"vbat", "vbus", "iin", "die_temp", "iin_ctrl"}
    /\ Faults \subseteq AllFaults
ASSUME RequestAssumption ==
    /\ IinLimits \subseteq Nat /\ Floats \subseteq Nat
    /\ ProfileIin \in Nat /\ ProfileIin >= IIN_MIN_UA /\ ProfileFloat \in Nat
    /\ PorIin \in IinCodes

IIN_DEAD_FLOOR_UA         == 60000
FIVE_V_STAY_MAX_UV        == 6000000
CHARGE_FAILS_BEFORE_RESET == 3
FIVE_V_BYPASS_IIN_UA      == 2700000
SWITCHING_WINDOW_TOP_UV   == 400000

Stages == {"idle", "protect", "walk", "attempt", "left", "negotiate"}

has_critical_fault(fault) == fault \in {"vbat_ov", "watchdog", "thermal"}

NoSample ==
    [vbus |-> 0, vbat |-> 0, mode |-> "Unknown", desired |-> NoMode, temp |-> 0,
     fault |-> "none", transferring |-> FALSE, walk |-> FALSE]

-----------------------------------------------------------------------------
(* Predicates of the sample.                                               *)

anchor_cell_vbat_uv(fg, pumpVbat) == IF fg # 0 THEN fg ELSE pumpVbat

vin_in_switching_window(v, cell) ==
    /\ v > 0 /\ cell # 0
    /\ window_floor_uv(cell) <= v /\ v <= 2 * cell + SWITCHING_WINDOW_TOP_UV

should_walk_window(dead, transferring, belowBand) == dead \/ ~transferring \/ belowBand

\* An unplugged input floats at twice the cell; a current or a mode overrides it.
phantom_input(iin, mode, fault, b, v) ==
    /\ iin < IIN_DEAD_FLOOR_UA
    /\ mode \notin {"Switching", "Bypass"}
    /\ fault = "vac_unplug" \/ vin_is_doubled_vbat(b, v)

\* A live 2:1 keeps its mode down to the floor of the band; everything else is
\* admitted by the input.
DesiredMode(alive, v, cell) ==
    IF alive /\ v >= Greater(window_floor_uv(cell), ELEVATED_MIN_VIN_UV)
    THEN "Switching" ELSE charge_mode(v, cell)

mode_ok(desired, mode) ==
    \/ desired # NoMode /\ mode = desired
    \/ desired = NoMode /\ mode \in {"Standby", "Unknown"}

\* The bus has to be walked: an elevated input outside the 2:1 window, or a dead
\* 2:1, and no working transfer that would be pulsed down.
WalkDue(v, cell, dead, transferring) ==
    /\ cell > 0 /\ v >= ELEVATED_MIN_VIN_UV
    /\ ~vin_in_switching_window(v, cell) \/ dead
    /\ should_walk_window(dead, transferring, v < window_floor_uv(cell))

-----------------------------------------------------------------------------
Init ==
    /\ P!Init
    /\ float = ProfileFloat /\ limits = InitLimits
    /\ strikes = 0 /\ failed = 0
    /\ pc = "idle" /\ sample = NoSample /\ action = NoAction
    /\ denials = 0 /\ reset = FALSE

\* Decide on the sample s: the strikes of an ended hot episode are dropped, then
\* the guard is asked, with the setpoint in the chip and the deliberate taper.
Decide(s, fault, cell, peak, lost) ==
    LET ov == fault = "vbat_ov"
        applied == IF "iin_ctrl" \in lost THEN NoValue ELSE decode_iin_limit(chip.iin)
        deliberate ==
            IF vbat_near_float_with_vin(s.vbat, float, ov, s.vbus)
            THEN Lesser(chip.cfg_iin, VBAT_TAPER_IIN_UA) ELSE NoValue
        alive == s.mode = "Switching" /\ s.iin > IIN_DEAD_FLOOR_UA
        dead  == s.mode = "Switching" /\ peak <= IIN_DEAD_FLOOR_UA
        transferring == s.mode = "Switching" /\ transfer_is_useful(peak)
    IN  /\ strikes' = IF bypass_strikes_expired(s, limits) THEN 0 ELSE strikes
        /\ action' = evaluate(s, limits, applied, deliberate)
        /\ sample' =
             [vbus |-> s.vbus, vbat |-> s.vbat, mode |-> s.mode, fault |-> fault,
              temp |-> IF die_temp_usable(s) THEN s.die_temp ELSE 0,
              desired |-> DesiredMode(alive, s.vbus, cell), transferring |-> transferring,
              walk |-> WalkDue(s.vbus, cell, dead, transferring)]

\* Read the status and the ADC once.  lost are the channels this tick fails to
\* read: they count as zero.  A sleeping ADC loses all three measurements and
\* decodes the die to its implausible maximum.
Sample ==
    /\ pc = "idle"
    /\ \E lost \in Losses, fault \in Faults, fg \in Gauges, i \in Iins, peak \in Iins,
          t \in DieTemps, mode \in {chip.ctrl, "Standby", "Unknown"} :
         LET b == IF "vbat" \in lost THEN 0 ELSE vbat
             v == IF "vbus" \in lost THEN 0 ELSE vin
             iin == IF "iin" \in lost THEN 0 ELSE i
             s == [vbat |-> b, vbus |-> v, iin |-> iin, mode |-> mode, vbat_valid |-> b > 0,
                   die_temp |-> t, die_temp_valid |-> "die_temp" \notin lost,
                   input_present |-> /\ ~has_critical_fault(fault) /\ v > 0
                                     /\ ~phantom_input(iin, mode, fault, b, v)]
         IN  /\ peak >= iin
             /\ Decide(s, fault, anchor_cell_vbat_uv(fg, b), peak, lost)
    /\ pc' = "protect"
    /\ chip' = [chip EXCEPT !.bus_ok = TRUE]
    /\ reset' = FALSE
    /\ UNCHANGED <<input, float, limits, failed, denials>>

\* apply_guard: a denied 1:1 lowers the current first and stops the charge if the
\* guard has to ask again.
apply_guard(c) ==
    LET resolution == resolve_bypass(sample.vbus, sample.vbat, strikes, limits)
        step == IF action.kind = "FallbackToBypass" THEN resolution ELSE action
    IN  CASE step.kind = "None" -> {P!Outcome(c, TRUE)}
          [] step.kind \in {"ReduceCurrent", "RestoreCurrent"} -> P!SetIin(c, step.to)
          [] step.kind = "Allowed" -> P!Bypass(c, vin)
          [] step.kind = "Stop" -> P!Idle(c)

Denied == /\ action.kind = "FallbackToBypass"
          /\ ~bypass_allowed_by_vin(sample.vbus, sample.vbat)

\* Mutant of StrikesAfter: a stop counts one more denial.
StrikesAfter_uncapped == IF Denied THEN strikes + 1 ELSE 0

\* The counter of denials: a stop after a denial leaves it, no decision at all
\* does not reach it.
StrikesAfter ==
    CASE ~is_change(action) -> strikes
      [] is_change(action) /\ ~Denied -> 0
      [] Denied -> IF strikes >= BYPASS_DENIED_STRIKES_BEFORE_STOP THEN strikes ELSE strikes + 1

\* Latched watchdog and VBAT_OV faults are cleared right after the guard.  What no
\* later stage reads of the sample is dropped, here and in the stages below.
Protect ==
    /\ pc = "protect"
    /\ \E o \in apply_guard(chip) :
         chip' \in IF sample.fault \in {"vbat_ov", "watchdog"}
                   THEN {o.c, P!Dirty(o.c)} ELSE {o.c}
    /\ strikes' = StrikesAfter
    /\ denials' = IF Denied THEN Lesser(denials + 1, 2) ELSE 0
    /\ pc' = "walk"
    /\ sample' = [sample EXCEPT !.vbat = 0, !.fault = "none"]
    /\ UNCHANGED <<input, float, limits, failed, action, reset>>

-----------------------------------------------------------------------------
(* The input walks into the 2:1 window, then the mode is decided.          *)

\* 1:1 is left before the pulses; a mode left here is not decided again on this
\* tick, which the stage after Attempt stands for.
Walk ==
    /\ pc = "walk"
    /\ \/ /\ pc' = "attempt" /\ UNCHANGED <<chip, vin>>
       \/ /\ sample.walk /\ sample.mode # "Bypass"
          /\ pc' = "attempt" /\ vin' \in Vins /\ UNCHANGED chip
       \/ /\ sample.walk /\ sample.mode = "Bypass"
          /\ \E o \in P!Idle(chip) :
               /\ chip' = o.c
               /\ pc' = IF o.ok THEN "left" ELSE "attempt"
          /\ vin' \in Vins
    /\ sample' = [sample EXCEPT !.walk = FALSE]
    /\ UNCHANGED <<vbat, session, action, history>>

\* set_charging(true) on an input of v, after a status read that finds no
\* shutdown or fails.
Started(c, v) == P!Start(c, v, vbat) \cup P!Start(P!Dirty(c), v, vbat)

\* Reset, reconfigure and start, whatever the first two return.
Rebuilt(c, v) ==
    UNION {UNION {P!Start(q.c, v, vbat) : q \in P!Setup(r.c)} : r \in P!Reset(c)}

Upgrade == sample.desired = "Switching" /\ sample.mode = "Bypass"

\* The third failure in a row rebuilds the chip once more, unless this tick has
\* done so: in shutdown, or on an input below the 2:1 minimum.
LastResort(c, rebuilt) ==
    \/ rebuilt /\ chip' = c /\ reset' = FALSE
    \/ ~rebuilt /\ reset' = FALSE /\ \E o \in Rebuilt(c, vin) : chip' = o.c
    \/ /\ ~rebuilt /\ sample.vbus < SWITCHING_MIN_VIN_UV
       /\ reset' = TRUE /\ \E o \in Rebuilt(c, vin) : chip' = o.c
    \/ /\ ~rebuilt /\ sample.vbus >= SWITCHING_MIN_VIN_UV
       /\ reset' = FALSE /\ chip' \in {c, P!Dirty(c)}

TryCharge ==
    \E rebuilt \in BOOLEAN :
        \E o \in IF rebuilt THEN Rebuilt(chip, vin) ELSE Started(chip, vin) :
            \/ o.ok /\ chip' = o.c /\ failed' = 0 /\ reset' = FALSE
            \/ /\ ~o.ok /\ failed + 1 < CHARGE_FAILS_BEFORE_RESET
               /\ chip' = o.c /\ failed' = failed + 1 /\ reset' = FALSE
            \/ /\ ~o.ok /\ failed + 1 >= CHARGE_FAILS_BEFORE_RESET
               /\ LastResort(o.c, rebuilt) /\ failed' = 0

StopCharge ==
    /\ \E o \in P!Idle(chip) : chip' = o.c
    /\ UNCHANGED <<failed, reset>>

\* The mode decision.  An attempt waits for its cooldown, an upgrade does not.
Attempt ==
    LET settled  == pc = "attempt" /\ mode_ok(sample.desired, sample.mode)
        starting == /\ pc = "attempt" /\ ~settled
                    /\ sample.desired # NoMode /\ ~is_change(action)
        stopping == /\ ~settled /\ ~starting
                    /\ sample.mode \in {"Switching", "Bypass"} /\ ~is_change(action)
                    /\ stop_running_charge(sample.desired # NoMode, sample.transferring)
    IN  /\ pc \in {"attempt", "left"}
        /\ \/ starting /\ TryCharge
           \/ stopping /\ StopCharge
           \/ ~stopping /\ ~(starting /\ Upgrade) /\ UNCHANGED <<chip, failed, reset>>
        /\ pc' = "negotiate"
        /\ sample' = [NoSample EXCEPT !.temp = sample.temp, !.vbus = sample.vbus]
        /\ UNCHANGED <<input, float, limits, strikes, action, denials>>

-----------------------------------------------------------------------------
(* Negotiation with the brick, at the end of the tick or on request.       *)

\* run_hvdcp_and_land on the input v it leaves: on five volts the pump gets the
\* whole bus budget, then the charge is started.
run_hvdcp_and_land(v) ==
    LET five == bypass_allowed_by_vin(v, vbat) /\ v < FIVE_V_STAY_MAX_UV
        set(c) == IF five THEN {o.c : o \in P!SetIin(c, FIVE_V_BYPASS_IIN_UA)} ELSE {c}
    IN  \E d \in set(chip) \cup set(P!Dirty(chip)) \cup {P!Dirty(chip)} :
            \E o \in Started(d, v) \cup Rebuilt(d, v) :
                chip' = o.c /\ failed' = IF o.ok THEN 0 ELSE failed

\* A plugged cable, a retry or a re-elevation, none of which asks what the guard
\* has just decided.  When each is due is left open.
Negotiate ==
    /\ pc = "negotiate"
    /\ \/ UNCHANGED <<chip, vin, failed>>
       \/ vin' \in Vins /\ run_hvdcp_and_land(vin')
    /\ pc' = "idle" /\ sample' = NoSample /\ action' = NoAction
    /\ UNCHANGED <<vbat, float, limits, strikes, history>>

-----------------------------------------------------------------------------
(* IOCTLs, each under the state mutex.                                     *)

Ioctl == pc = "idle" /\ UNCHANGED <<pc, sample, action, strikes, vbat, history>>

\* The guard's ceiling and target follow the current, as the chip has rounded it; the
\* floor stays, also where it is now above both.
LimitsAfter(ok, ua) ==
    LET applied == decode_iin_limit(encode_iin_limit(ua))
    IN  IF ok THEN [limits EXCEPT !.iin_max = applied, !.iin_target = applied] ELSE limits

\* A zero leaves that limit alone.
SetLimits ==
    /\ Ioctl
    /\ \/ UNCHANGED <<chip, limits>>
       \/ \E ua \in IinLimits \ {0} : \E o \in P!SetIin([chip EXCEPT !.bus_ok = TRUE], ua) :
             chip' = o.c /\ limits' = LimitsAfter(o.ok, ua)
    /\ float' \in {float} \cup (Floats \ {0})
    /\ UNCHANGED <<vin, failed>>

SetMode ==
    /\ Ioctl
    /\ LET c == [chip EXCEPT !.bus_ok = TRUE]
       IN  \E o \in P!Idle(c) \cup P!Bypass(c, vin) \cup P!Force21(c) : chip' = o.c
    /\ UNCHANGED <<vin, float, limits, failed>>

SetCharge ==
    /\ Ioctl
    /\ LET c == [chip EXCEPT !.bus_ok = TRUE]
       IN  \E o \in Started(c, vin) \cup Rebuilt(c, vin) \cup P!Idle(c) : chip' = o.c
    /\ UNCHANGED <<vin, float, limits, failed>>

RunHvdcp ==
    /\ Ioctl
    /\ vin' \in Vins
    /\ run_hvdcp_and_land(vin')
    /\ UNCHANGED <<float, limits>>

\* The brick, the cable and the cell, at any moment.
Input ==
    /\ vin' \in Vins /\ vbat' \in Vbats
    /\ UNCHANGED <<chip, session, pc, sample, action, history>>

Next == \/ Sample \/ Protect \/ Walk \/ Attempt \/ Negotiate
        \/ SetLimits \/ SetMode \/ SetCharge \/ RunHvdcp
        \/ Input

Spec == Init /\ [][Next]_vars

-----------------------------------------------------------------------------
ChipStates ==
    [ctrl : CommandModes, iin : IinCodes, cfg_iin : {ua \in Nat : ua >= IIN_MIN_UA},
     bus_ok : BOOLEAN]

TypeOK ==
    /\ chip \in ChipStates
    /\ vin \in Vins /\ vbat \in Vbats /\ float \in Nat
    /\ limits \in GuardLimits
    /\ strikes \in 0..BYPASS_DENIED_STRIKES_BEFORE_STOP /\ failed \in 0..(CHARGE_FAILS_BEFORE_RESET - 1)
    /\ pc \in Stages
    /\ sample \in [vbus : Nat, vbat : Nat, mode : OpModes, temp : Int,
                   desired : {"Switching", "Bypass", NoMode}, fault : AllFaults,
                   transferring : BOOLEAN, walk : BOOLEAN]
    /\ action.kind \in {"None", "ReduceCurrent", "RestoreCurrent", "FallbackToBypass", "Stop"}
    /\ action.to \in Nat
    /\ denials \in 0..2 /\ reset \in BOOLEAN

\* Once the guard decides to stop, nothing that the rest of the tick decides from
\* its sample (the walk, the mode decision, a retry) starts the charge again.
StopHoldsUntilNegotiation ==
    pc = "negotiate" /\ action.kind = "Stop" /\ chip.bus_ok => chip.ctrl = "Standby"

\* 1:1 wanted and forbidden on two guard ticks in a row stops the charge: the
\* counter survives what happens between the ticks (apply_guard,
\* bypass_strikes_expired).
DeniedTwiceStops ==
    pc = "negotiate" /\ denials = 2 /\ chip.bus_ok => chip.ctrl = "Standby"

\* Protection at a hot die never raises the setpoint in the chip, also where the taper
\* has left it below the target of the fold-back, but in one case: a denied 1:1 writes
\* the floor without looking (resolve_bypass).
OnlyTheFloorRaisesHot ==
    [][/\ pc = "protect" /\ pc' = "walk"
       /\ sample.temp >= limits.temp_reduce
       /\ decode_iin_limit(chip'.iin) > decode_iin_limit(chip.iin)
       => Denied /\ chip'.iin = encode_iin_limit(limits.iin_floor)]_vars

\* What the guard writes stays under the ceiling an operator has set, or under the floor
\* of the registry where SET_LIMITS has moved the ceiling below it.
GuardKeepsCeiling ==
    [][pc = "protect" /\ pc' = "walk" /\ chip'.iin # chip.iin
       => decode_iin_limit(chip'.iin) <= Greater(limits.iin_max, limits.iin_floor)]_vars

\* "Stop charging completely (standby)", guard.rs: a tick that decided to stop
\* leaves the pump idle.
StopMeansStandby ==
    [][pc = "negotiate" /\ pc' = "idle" /\ action.kind = "Stop" /\ chip'.bus_ok
       => chip'.ctrl = "Standby"]_vars

\* "Temperature at which charging stops", guard.rs: no charge runs after the
\* decisions of a tick that measured it.
HotDieIsStopped ==
    pc = "negotiate" /\ sample.temp >= limits.temp_stop /\ chip.bus_ok
       => chip.ctrl = "Standby"

\* "At a raised Vin the guard reduces current instead of 1:1", guard.rs.
DeniedReducesCurrent ==
    [][pc = "protect" /\ pc' = "walk" /\ Denied
       => decode_iin_limit(chip'.iin) <= decode_iin_limit(chip.iin)]_vars

\* "We do not do a soft-reset at elevated Vin: it drops the QC latch", lib.rs.
NoResetOnElevatedInput == reset => sample.vbus < ELEVATED_MIN_VIN_UV \/ pc = "idle"
=============================================================================
