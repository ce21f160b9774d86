------------------------------ MODULE PumpOps ------------------------------
(***************************************************************************)
(* The calls of the charge pump driver, Pump<T> of                         *)
(* crates/ln8000/src/driver.rs.                                            *)
(*                                                                         *)
(* A pump is a record that joins the driver's session fields with the      *)
(* registers of the chip the properties tell apart:                        *)
(*   state, bypass_stage, por_vin    fields of Pump                        *)
(*   cfg_iin, cfg_float              config.iin_limit_ua, .vbat_float_uv   *)
(*   ctrl                            mode commanded in SYS_CTRL            *)
(*   masks                           protections disabled in FAULT_CTRL    *)
(*   iin, vfloat                     codes in IIN_CTRL, V_FLOAT_CTRL       *)
(*   bus                             the bus during the current call       *)
(*                                                                         *)
(* A call is an operator that returns the SET of its outcomes: the pump    *)
(* afterwards, whether the call returned Ok, and the value it returned.    *)
(* Any register access may be the one that fails for good (the retries of  *)
(* read() and write() are exhausted): from then on the call either finds   *)
(* the bus working again ("glitch") or dead ("dead").  A failed write may  *)
(* have reached the chip, and the chip may refuse a commanded mode.        *)
(* Registers no property tells apart (timers, ADC control, NTC, recovery)  *)
(* are accesses that can fail and change nothing.  verify_writes is on,    *)
(* its default.                                                            *)
(***************************************************************************)
EXTENDS Encoding

CONSTANTS PorIin,        \* IIN_CTRL after a power-on reset of the chip
          PorFloat       \* V_FLOAT_CTRL after a power-on reset of the chip

PumpStates == {"Closed", "Probed", "Configured", "Switching", "Faulted"}
FiveVoltMask == {"VIN_OV", "VAC_UV", "VAC_OV", "VBAT_OV"}

Ok(p, v)  == [p |-> p, ok |-> TRUE, v |-> v]
Err(p)    == [p |-> p, ok |-> FALSE, v |-> "err"]
Done(p)   == {Ok(p, "done")}

\* `first?; rest`: an error returns at once.
Then(outs, Rest(_)) ==
    UNION {IF o.ok THEN Rest(o) ELSE {Err(o.p)} : o \in outs}
\* `let _ = first; rest`: an error is ignored.
After(outs, Rest(_)) == UNION {Rest(o) : o \in outs}

-----------------------------------------------------------------------------
(* Bus accesses.                                                           *)

\* What becomes of the pump when the next access fails; no second glitch.
Failing(p) ==
    {[p EXCEPT !.state = "Faulted", !.bus = b] :
        b \in CASE p.bus = "up" -> {"glitch", "dead"} [] p.bus = "dead" -> {"dead"}
                [] p.bus = "glitch" -> {}}

\* outs, unless the bus is dead.
Alive(p, outs) == IF p.bus = "dead" THEN {} ELSE outs

\* read() of a register whose value is one of vals.
Read(p, vals) == Alive(p, {Ok(p, v) : v \in vals}) \cup {Err(f) : f \in Failing(p)}

\* update() and write_verified(): read, write and read back, turning p into q.
Update(p, q) ==
    Alive(p, {Ok(q, "done")} \cup {Err(f) : f \in Failing(q)}) \cup {Err(f) : f \in Failing(p)}

\* update() of a register the model does not keep.
Touch(p) == Update(p, p)

\* read_adc(): pause, read the pair, resume; a failed resume is ignored.  The
\* value is NoValue when the channel was not read.
read_adc(p, v) ==
    Alive(p, {Ok(p, v)} \cup {Ok(f, v) : f \in Failing(p)})
    \cup {Ok(f, NoValue) : f \in Failing(p)}

\* read_adc().unwrap_or(0).
adc_or_zero(p, v) == {Ok(o.p, Greater(o.v, 0)) : o \in read_adc(p, v)}

-----------------------------------------------------------------------------
(* Mode, limits and faults.                                                *)

set_op_mode(p, mode) ==
    IF p.state = "Closed" THEN {Err(p)} ELSE Update(p, [p EXCEPT !.ctrl = mode])

standby(p) == set_op_mode(p, "Standby")

\* settle_and_read_status(): the chip runs the commanded mode or refuses it.
settle_and_read_status(p) == Read(p, {p.ctrl, "Standby", "Unknown"})

\* The mode is written, then confirmed by the chip.
confirm_mode(outs, mode, state) ==
    LET asked   == Then(outs, LAMBDA o : set_op_mode(o.p, mode))
        settled == Then(asked, LAMBDA o : settle_and_read_status(o.p))
    IN  Then(settled, LAMBDA o :
            IF o.v # mode THEN {Err(o.p)} ELSE {Ok([o.p EXCEPT !.state = state], mode)})

enable_switching(p) == confirm_mode(Done(p), "Switching", "Switching")

\* Both ADC channels, each zero on a failed read, and the mode they admit.
sample_mode(p, vin, vbat) ==
    UNION {{Ok(b.p, charge_mode(a.v, b.v)) : b \in adc_or_zero(a.p, vbat)}
           : a \in adc_or_zero(p, vin)}

\* Mutant of bypass_gate: the input is read but not compared.
bypass_gate_open(p, vin, vbat) == Then(read_adc(p, vin), LAMBDA o : Done(o.p))

\* 1:1 only inside the bypass window; the VIN read must succeed.
bypass_gate(p, vin, vbat) ==
    UNION {IF a.v = NoValue THEN {Err(a.p)}
           ELSE {IF bypass_allowed_by_vin(a.v, b.v) THEN Ok(b.p, "done") ELSE Err(b.p)
                 : b \in adc_or_zero(a.p, vbat)}
           : a \in read_adc(p, vin)}

enable_bypass(p, vin, vbat) == confirm_mode(bypass_gate(p, vin, vbat), "Bypass", "Configured")

\* write_iin_limit(): the register alone; the profile is left as it is.
write_iin_limit(p, ua) ==
    LET code == encode_iin_limit(ua)
    IN  IF code = NoValue THEN {Err(p)} ELSE Update(p, [p EXCEPT !.iin = code])

\* Mutant of set_iin_limit: the session keeps a limit the chip may not have got.
set_iin_limit_early(p, ua) == write_iin_limit([p EXCEPT !.cfg_iin = ua], ua)

set_iin_limit(p, ua) ==
    Then(write_iin_limit(p, ua), LAMBDA a : Done([a.p EXCEPT !.cfg_iin = ua]))

set_vbat_float(p, uv) ==
    Then(Update(p, [p EXCEPT !.vfloat = encode_vbat_float(uv)]), LAMBDA a :
        Done([a.p EXCEPT !.cfg_float = uv]))

\* Pulses a TIMER_CTRL bit: set, then clear.
clear_latched_faults(p) == Then(Touch(p), LAMBDA o : Touch(o.p))

\* The chip's registers after a power-on reset.
PowerOnReset(p) ==
    [p EXCEPT !.ctrl = "Standby", !.masks = {}, !.iin = PorIin, !.vfloat = PorFloat]

\* soft_reset(): unlock, then set the self-clearing reset bit, not verified.
soft_reset(p) ==
    LET unlocked == Read(p, {"done"})
        read     == Then(unlocked, LAMBDA o : {Ok(q.p, "done") : q \in Read(o.p, {"done"})})
    IN  Then(read, LAMBDA o :
            {IF q.ok THEN Ok([q.p EXCEPT !.state = "Probed"], "done") ELSE q
             : q \in Update(o.p, PowerOnReset(o.p))})

\* configure(): the ten register groups in order; the groups the model does not
\* keep are one access that can fail, where they stand.
configure(p) ==
    LET float   == Update(p, [p EXCEPT !.vfloat = encode_vbat_float(p.cfg_float)])
        vacOvp  == Then(float, LAMBDA o : Touch(o.p))
        iin     == Then(vacOvp, LAMBDA o : write_iin_limit(o.p, o.p.cfg_iin))
        ntc     == Then(iin, LAMBDA o : Touch(o.p))
        vbatOvp == Then(ntc, LAMBDA o : Update(o.p, [o.p EXCEPT !.masks = @ \ {"VBAT_OV"}]))
        loops   == Then(vbatOvp, LAMBDA o : Touch(o.p))
        idle    == Then(loops, LAMBDA o : standby(o.p))
        vacOv   == Then(idle, LAMBDA o : Update(o.p, [o.p EXCEPT !.masks = @ \ {"VAC_OV"}]))
        timers  == Then(vacOv, LAMBDA o : Touch(o.p))
    IN  IF p.state = "Closed" THEN {Err(p)}
        ELSE Then(timers, LAMBDA o : Done([o.p EXCEPT !.state = "Configured"]))

-----------------------------------------------------------------------------
(* Charging.                                                               *)

\* The deliberate current near the top of the charge, or NoValue.
taper_setpoint_ua(p, vbat, vin, ovLatched) ==
    IF vbat_near_float_with_vin(vbat, p.cfg_float, ovLatched, vin)
    THEN Lesser(p.cfg_iin, VBAT_TAPER_IIN_UA) ELSE NoValue

\* Raise V_FLOAT a little and mask VBAT_OV: only for 2:1, only at the ceiling.
RaiseFloat(p, vbat) ==
    LET soft   == soft_float_for_vbat(p.cfg_float, vbat)
        raised == IF soft > p.cfg_float
                  THEN Update(p, [p EXCEPT !.vfloat = encode_vbat_float(soft)]) ELSE Done(p)
        masked == After(raised, LAMBDA o :
                      Update(o.p, [o.p EXCEPT !.masks = @ \cup {"VBAT_OV"}]))
    IN  After(masked, LAMBDA o : clear_latched_faults(o.p))

\* Mutant of NearFloat: the taper belongs to the branch that raises V_FLOAT.
NearFloat_taper_with_raise(p, vbat, vin, ovLatched, allowFloatRaise) ==
    LET tapered == taper_setpoint_ua(p, vbat, vin, ovLatched)
    IN  IF tapered = NoValue \/ ~allowFloatRaise THEN Done(p)
        ELSE After(RaiseFloat(p, vbat), LAMBDA o : write_iin_limit(o.p, tapered))

NearFloat(p, vbat, vin, ovLatched, allowFloatRaise) ==
    LET tapered   == taper_setpoint_ua(p, vbat, vin, ovLatched)
        atCeiling == ovLatched \/ vbat + 50000 >= p.cfg_float
        raised    == IF atCeiling /\ allowFloatRaise THEN RaiseFloat(p, vbat) ELSE Done(p)
    IN  IF tapered = NoValue THEN Done(p)
        ELSE After(raised, LAMBDA o :
                 IF tapered < p.cfg_iin THEN write_iin_limit(o.p, tapered) ELSE Done(o.p))

\* read(FAULT1_STS).unwrap_or(0): a bit that is in bits, or clear on a failed read.
read_or_clear(p, bits) ==
    Alive(p, {Ok(p, b) : b \in bits}) \cup {Ok(f, FALSE) : f \in Failing(p)}

\* prepare_near_float_for_charge(): every failure inside it is swallowed.
\* VBAT_OV in FAULT1 may be latched or not.
prepare_near_float_for_charge(p, vin, vbat, allowFloatRaise) ==
    LET near(a, b) ==
            UNION {NearFloat(c.p, a.v, b.v, c.v, allowFloatRaise) : c \in read_or_clear(b.p, BOOLEAN)}
    IN  {Ok(o.p, "done") : o \in
            UNION {UNION {near(a, b) : b \in adc_or_zero(a.p, vin)}
                   : a \in adc_or_zero(p, vbat)}}

\* Mutant of MaskedBypass: the refusal returns before the mask is taken back.
MaskedBypass_kept(p) ==
    LET third   == [p EXCEPT !.bypass_stage = 3, !.masks = @ \cup FiveVoltMask]
        asked   == Then(Update(p, third), LAMBDA o : set_op_mode(o.p, "Bypass"))
        settled == Then(asked, LAMBDA o : settle_and_read_status(o.p))
    IN  {IF o.ok /\ o.v = "Bypass" THEN o ELSE Err(o.p) : o \in settled}

\* Stage 3 of the 5 V recovery: mask the faults, ask again, unmask on refusal.
\* A bus error while asking returns before the mask is taken back.
MaskedBypass(p) ==
    LET third   == [p EXCEPT !.bypass_stage = 3]
        armed   == Then(Update(third, [third EXCEPT !.masks = @ \cup FiveVoltMask]),
                        LAMBDA o : clear_latched_faults(o.p))
        asked   == After(armed, LAMBDA o : set_op_mode(o.p, "Bypass"))
        settled == Then(asked, LAMBDA o : settle_and_read_status(o.p))
    IN  Then(settled, LAMBDA o :
            IF o.v = "Bypass" THEN {Ok([o.p EXCEPT !.state = "Configured"], o.v)}
            ELSE {Err(q.p) : q \in Update(o.p, [o.p EXCEPT !.masks = @ \ FiveVoltMask])})

\* Stage 2: power-on reset, configure, sample and ask again; then stage 3.
ResetBypass(p, vinNow, vin, vbat) ==
    LET reset   == soft_reset([p EXCEPT !.por_vin = vinNow])
        profile == After(reset, LAMBDA o : configure([o.p EXCEPT !.bypass_stage = 2]))
        sampled == After(profile, LAMBDA o : sample_mode(o.p, vin, vbat))
        asked   == Then(sampled, LAMBDA o :
                       IF o.v # "Bypass" THEN {Err(o.p)} ELSE set_op_mode(o.p, "Bypass"))
        settled == Then(asked, LAMBDA o : settle_and_read_status(o.p))
    IN  Then(settled, LAMBDA o :
            IF o.v # "Bypass" THEN MaskedBypass(o.p)
            ELSE {Ok(q.p, "Bypass") : q \in prepare_near_float_for_charge(
                     [o.p EXCEPT !.state = "Configured"], vin, vbat, FALSE)})

\* The power-on reset budget: one reset per input, unless a voltage fault is
\* latched in FAULT1 (a failed read of it counts as none).
reset_budget_spent(por, vinNow, vfaults) ==
    por # NoValue /\ AbsDiff(vinNow, por) <= POR_VIN_TOLERANCE_UV /\ ~vfaults

\* Mutant of recover_5v_bypass: the reset budget is kept for the wrong channel.
recover_5v_bypass_swapped(p, vin, vbat, vfaults) ==
    UNION {ResetBypass(a.p, a.v, vin, vbat) : a \in adc_or_zero(p, vbat)}

recover_5v_bypass(p, vin, vbat, vfaults) ==
    LET faults(q) == IF q.por_vin = NoValue THEN {Ok(q, FALSE)} ELSE read_or_clear(q, {vfaults})
    IN  UNION {UNION {IF reset_budget_spent(p.por_vin, a.v, b.v)
                      THEN {Err(q.p) : q \in Read(b.p, {"done"})}
                      ELSE ResetBypass(b.p, a.v, vin, vbat)
                      : b \in faults(a.p)}
               : a \in adc_or_zero(p, vin)}

\* Mutant of StartSwitching: a refused 2:1 stays commanded.
StartSwitching_left(p, vin, vbat) ==
    After(prepare_near_float_for_charge(p, vin, vbat, TRUE), LAMBDA o :
        After(clear_latched_faults(o.p), LAMBDA q : enable_switching(q.p)))

\* set_charging(true) once 2:1 is chosen: a refusal ends in standby.
StartSwitching(p, vin, vbat) ==
    LET near    == prepare_near_float_for_charge(p, vin, vbat, TRUE)
        cleared == After(near, LAMBDA o : clear_latched_faults(o.p))
        masked  == After(cleared, LAMBDA o :
                       Update(o.p, [o.p EXCEPT !.masks = @ \cup {"VIN_OV"}]))
        started == After(masked, LAMBDA o : enable_switching(o.p))
    IN  UNION {IF o.ok THEN {o} ELSE {Err(q.p) : q \in standby(o.p)} : o \in started}

\* set_charging(true) once 1:1 is chosen: no standby after a refusal.
StartBypass(p, vin, vbat, vfaults) ==
    LET tried   == enable_bypass([p EXCEPT !.bypass_stage = 1], vin, vbat)
        started == UNION {IF o.ok THEN {o} ELSE recover_5v_bypass(o.p, vin, vbat, vfaults)
                          : o \in tried}
    IN  Then(started, LAMBDA o :
            {Ok(q.p, "Bypass") : q \in prepare_near_float_for_charge(
                [o.p EXCEPT !.state = "Configured"], vin, vbat, FALSE)})

charge_on(p, vin, vbat, vfaults) ==
    LET rcpOff  == Touch(p)
        sampled == Then(rcpOff, LAMBDA o : sample_mode(o.p, vin, vbat))
        Start(o) ==
            IF o.v = NoMode THEN {Err(q.p) : q \in standby(o.p)}
            ELSE IF o.v = "Switching"
            THEN StartSwitching([o.p EXCEPT !.bypass_stage = 0], vin, vbat)
            ELSE StartBypass(o.p, vin, vbat, vfaults)
        wdtOff(o) == {Ok(q.p, o.v) : q \in IF o.v = NoMode THEN {o} ELSE Touch(o.p)}
    IN  Then(Then(sampled, wdtOff), Start)

charge_off(p) ==
    LET rcpOff  == Touch(p)
        idle    == Then(rcpOff, LAMBDA o : standby([o.p EXCEPT !.por_vin = NoValue]))
        settled == Then(idle, LAMBDA o : settle_and_read_status(o.p))
    IN  Then(settled, LAMBDA o : {Ok([o.p EXCEPT !.state = "Configured"], o.v)})

\* close(): standby, errors swallowed.
close(p) ==
    IF p.state = "Closed" THEN Done(p)
    ELSE After(Update(p, [p EXCEPT !.ctrl = "Standby"]),
               LAMBDA a : Done([a.p EXCEPT !.state = "Closed"]))

\* open(): the id register; the session starts over, the chip keeps its registers.
open(p, iinLimit, vbatFloat) ==
    {Ok([p EXCEPT !.state = "Probed", !.bypass_stage = 0, !.por_vin = NoValue,
                  !.cfg_iin = iinLimit, !.cfg_float = vbatFloat], "done"), Err(p)}
=============================================================================
