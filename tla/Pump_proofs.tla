---------------------------- MODULE Pump_proofs ----------------------------
(***************************************************************************)
(* Theorems about Pump, for every value of its constants: the type         *)
(* invariant, what a refused start leaves behind, the taper of a start     *)
(* near the top, and that a session implements PumpPromise, from which 1:1 *)
(* outside its window is excluded.                                         *)
(*                                                                         *)
(* An outcome is clean if no access of its call failed, and dirty          *)
(* otherwise.  A lemma about a call says two things of each outcome: that  *)
(* the modes and setpoints it may leave are among given ones, however many *)
(* accesses failed (Within), and exactly what a clean one leaves.          *)
(***************************************************************************)
EXTENDS Pump, TLAPS

\* The pump in the middle of a call.
Pumps ==
    [state : PumpStates, bypass_stage : 0..3, por_vin : Vins \cup {NoValue, 0},
     cfg_iin : IinLimits \cup {ProfileIin}, cfg_float : Floats \cup {ProfileFloat},
     ctrl : CommandModes, masks : SUBSET FiveVoltMask,
     iin : 0..IIN_CODE_MAX, vfloat : 0..255, bus : {"up", "glitch", "dead"}]

\* p is open and has the configuration of c, one of the modes and one of the setpoints.
Within(c, modes, iins, p) ==
    /\ p \in Pumps /\ p.state # "Closed"
    /\ p.cfg_iin = c.cfg_iin /\ p.cfg_float = c.cfg_float
    /\ p.ctrl \in modes /\ p.iin \in iins

Clean(o) == o.p.bus = "up"

-----------------------------------------------------------------------------
(* Outcomes and their composition.                                         *)

\* A success carries the pump and a value.
LEMMA OkFields ==
    ASSUME NEW p, NEW v, NEW o, o = Ok(p, v)
    PROVE  o.p = p /\ o.ok /\ o.ok \in BOOLEAN /\ o.v = v
  BY DEF Ok

\* An error carries the pump and nothing else.
LEMMA ErrFields ==
    ASSUME NEW p, NEW o, o = Err(p)
    PROVE  o.p = p /\ ~o.ok /\ o.ok \in BOOLEAN /\ o.v = "err"
  BY DEF Err

-----------------------------------------------------------------------------
(* Assignments to single fields.                                           *)

\* A field that is set is the only one that changes.
LEMMA SetState ==
    ASSUME NEW c, NEW M, NEW I, NEW p, Within(c, M, I, p), NEW s \in PumpStates \ {"Closed"}
    PROVE  LET q == [p EXCEPT !.state = s] IN
           /\ Within(c, M, I, q) /\ q.state = s /\ q.bus = p.bus /\ q.masks = p.masks
           /\ q.bypass_stage = p.bypass_stage /\ q.por_vin = p.por_vin
           /\ q.ctrl = p.ctrl /\ q.iin = p.iin /\ q.cfg_float = p.cfg_float
  BY DEF Within, Pumps

\* An access that fails.
Failed(p, b) == [p EXCEPT !.state = "Faulted", !.bus = b]

\* It leaves the pump faulted, on the bus it left behind.
LEMMA SetFailed ==
    ASSUME NEW c, NEW M, NEW I, NEW p, Within(c, M, I, p), NEW b \in {"glitch", "dead"}
    PROVE  Within(c, M, I, Failed(p, b)) /\ Failed(p, b).bus = b
  <1> DEFINE r == [p EXCEPT !.bus = b]
  <1>1. Within(c, M, I, r) /\ r.bus = b
    BY DEF Within, Pumps
  <1>2. Failed(p, b) = [r EXCEPT !.state = "Faulted"]
    BY DEF Within, Pumps, Failed
  <1> HIDE DEF r
  <1>3. "Faulted" \in PumpStates \ {"Closed"}
    BY DEF PumpStates
  <1> QED
    BY <1>1, <1>2, <1>3, SetState

\* A mode that is commanded is one of those admitted.
LEMMA SetCtrl ==
    ASSUME NEW c, NEW M, NEW I, NEW p, Within(c, M, I, p), NEW m \in M \cap CommandModes
    PROVE  LET q == [p EXCEPT !.ctrl = m] IN
           /\ Within(c, M, I, q) /\ q.ctrl = m /\ q.bus = p.bus /\ q.masks = p.masks
           /\ q.bypass_stage = p.bypass_stage /\ q.iin = p.iin /\ q.state = p.state
  BY DEF Within, Pumps

\* A setpoint that is written is one of those admitted.
LEMMA SetIin ==
    ASSUME NEW c, NEW M, NEW I, NEW p, Within(c, M, I, p), NEW i \in I \cap (0..IIN_CODE_MAX)
    PROVE  LET q == [p EXCEPT !.iin = i] IN
           /\ Within(c, M, I, q) /\ q.iin = i /\ q.bus = p.bus /\ q.masks = p.masks
           /\ q.bypass_stage = p.bypass_stage /\ q.ctrl = p.ctrl /\ q.state = p.state
  BY DEF Within, Pumps

\* Protections that are masked touch nothing else.
LEMMA SetMasks ==
    ASSUME NEW c, NEW M, NEW I, NEW p, Within(c, M, I, p), NEW k \in SUBSET FiveVoltMask
    PROVE  LET q == [p EXCEPT !.masks = k] IN
           /\ Within(c, M, I, q) /\ q.bus = p.bus /\ q.masks = k /\ q.iin = p.iin
           /\ q.bypass_stage = p.bypass_stage /\ q.ctrl = p.ctrl /\ q.state = p.state
  BY DEF Within, Pumps

-----------------------------------------------------------------------------
(* Accesses.                                                               *)

\* A pump whose access failed is not clean, and otherwise what it was.
LEMMA FailingOutcome ==
    ASSUME NEW c, NEW M, NEW I, NEW p, Within(c, M, I, p), NEW f \in Failing(p)
    PROVE  Within(c, M, I, f) /\ f.bus \in {"glitch", "dead"}
  <1>1. PICK b \in {"glitch", "dead"} : f = Failed(p, b)
    <2>1. p.bus \in {"up", "glitch", "dead"}
      BY DEF Within, Pumps
    <2> QED
      BY <2>1 DEF Failing, Failed
  <1> QED
    BY <1>1, SetFailed

\* A read changes nothing but on a failure, which is not clean.
LEMMA ReadOutcome ==
    ASSUME NEW c, NEW M, NEW I, NEW p, Within(c, M, I, p), NEW vals, NEW o \in Read(p, vals)
    PROVE  /\ Within(c, M, I, o.p) /\ o.ok \in BOOLEAN
           /\ o.ok => o.p = p /\ o.v \in vals
           /\ ~o.ok => o.v = "err" /\ ~Clean(o)
  <1>1. CASE \E v \in vals : o = Ok(p, v)
    BY <1>1 DEF Ok
  <1>2. CASE \E f \in Failing(p) : o = Err(f)
    BY <1>2, FailingOutcome DEF Err, Clean
  <1> QED
    BY <1>1, <1>2 DEF Read, Alive

\* A write is done, or fails before or after it reached the chip; q is the pump after it.
LEMMA UpdateOutcome ==
    ASSUME NEW c, NEW M, NEW I, NEW p, Within(c, M, I, p), NEW q, Within(c, M, I, q),
           NEW o \in Update(p, q)
    PROVE  /\ Within(c, M, I, o.p) /\ o.ok \in BOOLEAN
           /\ o.ok => o.p = q /\ o.v = "done"
           /\ ~o.ok => o.v = "err" /\ ~Clean(o)
  <1>1. CASE o = Ok(q, "done")
    BY <1>1 DEF Ok
  <1>2. CASE \E f \in Failing(q) : o = Err(f)
    BY <1>2, FailingOutcome DEF Err, Clean
  <1>3. CASE \E f \in Failing(p) : o = Err(f)
    BY <1>3, FailingOutcome DEF Err, Clean
  <1> QED
    BY <1>1, <1>2, <1>3 DEF Update, Alive

\* An ADC channel reads what it measures, or nothing after a failure.
LEMMA AdcOutcome ==
    ASSUME NEW c, NEW M, NEW I, NEW p, Within(c, M, I, p), NEW v, NEW o \in read_adc(p, v)
    PROVE  /\ Within(c, M, I, o.p) /\ o.ok /\ o.v \in {v, NoValue}
           /\ Clean(o) => o.p = p /\ o.v = v
  <1>1. CASE o = Ok(p, v)
    BY <1>1 DEF Ok
  <1>2. CASE \E f \in Failing(p) : o = Ok(f, v) \/ o = Ok(f, NoValue)
    BY <1>2, FailingOutcome DEF Ok, Clean
  <1> QED
    BY <1>1, <1>2 DEF read_adc, Alive

\* The same where a failed channel reads as zero.
LEMMA AdcOrZero ==
    ASSUME NEW c, NEW M, NEW I, NEW p, Within(c, M, I, p), NEW v \in Nat,
           NEW o \in adc_or_zero(p, v)
    PROVE  /\ Within(c, M, I, o.p) /\ o.ok /\ o.v \in {v, 0}
           /\ Clean(o) => o.p = p /\ o.v = v
  <1>1. PICK r \in read_adc(p, v) : o = Ok(r.p, Greater(r.v, 0))
    BY DEF adc_or_zero
  <1>2. /\ Within(c, M, I, r.p) /\ r.v \in {v, NoValue}
        /\ Clean(r) => r.p = p /\ r.v = v
    BY AdcOutcome
  <1>3. o.p = r.p /\ o.v = Greater(r.v, 0) /\ o.ok
    BY <1>1 DEF Ok
  <1>4. Greater(v, 0) = v /\ Greater(NoValue, 0) = 0
    BY DEF Greater, NoValue
  <1> QED
    BY <1>2, <1>3, <1>4 DEF Clean

\* A latched fault reads as it is, or as clear after a failure.
LEMMA FaultOutcome ==
    ASSUME NEW c, NEW M, NEW I, NEW p, Within(c, M, I, p), NEW bits,
           NEW o \in read_or_clear(p, bits)
    PROVE  Within(c, M, I, o.p) /\ o.ok /\ (Clean(o) => o.p = p)
  <1>1. CASE \E b \in bits : o = Ok(p, b)
    BY <1>1 DEF Ok
  <1>2. CASE \E f \in Failing(p) : o = Ok(f, FALSE)
    BY <1>2, FailingOutcome DEF Ok, Clean
  <1> QED
    BY <1>1, <1>2 DEF read_or_clear, Alive

-----------------------------------------------------------------------------
(* Modes.                                                                  *)

\* The registers two pumps have in common.
Alike(p, q) == q.iin = p.iin /\ q.masks = p.masks /\ q.bypass_stage = p.bypass_stage

\* A mode is commanded, unless the write fails.
LEMMA ModeOutcome ==
    ASSUME NEW c, NEW M, NEW I, NEW p, Within(c, M, I, p), NEW m \in M \cap CommandModes,
           NEW o \in set_op_mode(p, m)
    PROVE  /\ Within(c, M, I, o.p) /\ o.ok \in BOOLEAN
           /\ o.ok => o.p.ctrl = m /\ Alike(p, o.p) /\ o.p.bus = p.bus
           /\ ~o.ok => o.v = "err" /\ ~Clean(o)
  <1> DEFINE q == [p EXCEPT !.ctrl = m]
  <1>1. Within(c, M, I, q) /\ q.ctrl = m /\ Alike(p, q) /\ q.bus = p.bus
    BY SetCtrl DEF Alike
  <1>2. o \in Update(p, q)
    BY DEF set_op_mode, Within
  <1> HIDE DEF q
  <1> QED
    BY <1>1, <1>2, UpdateOutcome

\* The status is read without moving anything.
LEMMA SettleOutcome ==
    ASSUME NEW c, NEW M, NEW I, NEW p, Within(c, M, I, p), NEW o \in settle_and_read_status(p)
    PROVE  /\ Within(c, M, I, o.p) /\ o.ok \in BOOLEAN
           /\ o.ok => o.p = p /\ o.v \in {p.ctrl, "Standby", "Unknown"}
           /\ ~o.ok => o.v = "err" /\ ~Clean(o)
  BY ReadOutcome DEF settle_and_read_status

\* What confirm_mode makes of an outcome a: passed on if it is an error, and otherwise the
\* mode is commanded, if every access went through.
Confirmed(a, o, m) ==
    /\ Clean(o) => Clean(a)
    /\ ~a.ok => o = Err(a.p)
    /\ a.ok /\ Clean(o) => o.p.ctrl = m /\ Alike(a.p, o.p)

\* A mode that is asked for is confirmed, or stays commanded behind an error.
LEMMA ConfirmOutcome ==
    ASSUME NEW c, NEW M, NEW I, NEW outs, \A a \in outs : Within(c, M, I, a.p) /\ a.ok \in BOOLEAN,
           NEW m \in M \cap CommandModes, NEW s \in PumpStates \ {"Closed"},
           NEW o \in confirm_mode(outs, m, s)
    PROVE  /\ Within(c, M, I, o.p) /\ o.ok \in BOOLEAN
           /\ o.ok => o.v = m
           /\ ~o.ok => o.v = "err"
           /\ \E a \in outs : Confirmed(a, o, m)
  <1> DEFINE asked == Then(outs, LAMBDA a : set_op_mode(a.p, m))
             settled == Then(asked, LAMBDA a : settle_and_read_status(a.p))
             Answer(a) == /\ Within(c, M, I, o.p) /\ o.ok \in BOOLEAN
                          /\ o.ok => o.v = m
                          /\ ~o.ok => o.v = "err"
                          /\ Confirmed(a, o, m)
  <1>1. PICK t \in settled :
            IF t.ok THEN o = IF t.v # m THEN Err(t.p) ELSE Ok([t.p EXCEPT !.state = s], m)
            ELSE o = Err(t.p)
    BY DEF confirm_mode, Then
  <1>2. PICK k \in asked : IF k.ok THEN t \in settle_and_read_status(k.p) ELSE t = Err(k.p)
    BY DEF Then
  <1>3. PICK a \in outs : IF a.ok THEN k \in set_op_mode(a.p, m) ELSE k = Err(a.p)
    BY DEF Then
  <1> HIDE DEF asked, settled
  <1>4. Within(c, M, I, a.p) /\ a.ok \in BOOLEAN
    OBVIOUS
  <1> SUFFICES Answer(a)
    OBVIOUS
  <1>5. ASSUME NEW x, o = Err(x), Within(c, M, I, x)
        PROVE  Within(c, M, I, o.p) /\ o.ok \in BOOLEAN /\ ~o.ok /\ o.v = "err" /\ o.p = x
    BY <1>5 DEF Err
  <1>6. CASE ~a.ok
    <2>1. o = Err(a.p)
      BY <1>1, <1>2, <1>3, <1>6 DEF Err
    <2> QED
      BY <1>4, <1>5, <1>6, <2>1 DEF Clean, Confirmed
  <1>7. CASE a.ok
    <2>1. /\ Within(c, M, I, k.p) /\ k.ok \in BOOLEAN
          /\ k.ok => k.p.ctrl = m /\ Alike(a.p, k.p) /\ k.p.bus = a.p.bus
          /\ ~k.ok => ~Clean(k)
      BY <1>3, <1>4, <1>7, ModeOutcome
    <2>2. CASE ~k.ok
      <3>1. o = Err(k.p)
        BY <1>1, <1>2, <2>2 DEF Err
      <3> QED
        BY <1>5, <1>7, <2>1, <2>2, <3>1 DEF Clean, Confirmed
    <2>3. CASE k.ok
      <3>1. /\ Within(c, M, I, t.p) /\ t.ok \in BOOLEAN
            /\ t.ok => t.p = k.p
            /\ ~t.ok => ~Clean(t)
        BY <1>2, <2>1, <2>3, SettleOutcome
      <3>2. CASE ~t.ok
        BY <1>1, <1>5, <1>7, <3>1, <3>2 DEF Clean, Confirmed
      <3>3. CASE t.ok /\ t.v # m
        BY <1>1, <1>5, <1>7, <2>1, <2>3, <3>1, <3>3 DEF Clean, Confirmed
      <3>4. CASE t.ok /\ t.v = m
        <4> DEFINE q == [t.p EXCEPT !.state = s]
        <4>1. o.p = q /\ o.ok /\ o.v = m
          BY <1>1, <3>4 DEF Ok
        <4>2. /\ Within(c, M, I, q) /\ q.bus = t.p.bus /\ q.ctrl = t.p.ctrl /\ Alike(t.p, q)
          BY <3>1, SetState DEF Alike
        <4> HIDE DEF q
        <4> QED
          BY <1>7, <2>1, <2>3, <3>1, <3>4, <4>1, <4>2 DEF Alike, Clean, Confirmed
      <3> QED
        BY <3>1, <3>2, <3>3, <3>4
    <2> QED
      BY <2>1, <2>2, <2>3
  <1> QED
    BY <1>4, <1>6, <1>7

-----------------------------------------------------------------------------
(* The input.                                                              *)

Window(v) == CHARGE_MIN_VIN_UV <= v /\ v < ELEVATED_MIN_VIN_UV

\* 1:1 is admitted inside its window and nowhere else, 2:1 on a raised input with headroom.
LEMMA Admission ==
    ASSUME NEW v \in Nat, NEW b \in Nat
    PROVE  /\ charge_mode(v, b) \in {"Switching", "Bypass", NoMode}
           /\ charge_mode(v, b) = "Bypass" <=> Window(v)
           /\ charge_mode(v, b) = "Switching" =>
                  v >= ELEVATED_MIN_VIN_UV /\ v >= 2 * b + SWITCHING_HEADROOM_UV
           /\ v >= ELEVATED_MIN_VIN_UV => ~Window(v)
           /\ bypass_allowed_by_vin(v, b) <=> Window(v)
  <1>1. CASE v >= min_vin_for_switching_uv(b)
    BY <1>1 DEF charge_mode, min_vin_for_switching_uv, Greater, Window, NoMode, bypass_allowed_by_vin,
        ELEVATED_MIN_VIN_UV, CHARGE_MIN_VIN_UV, SWITCHING_HEADROOM_UV
  <1>2. CASE ~(v >= min_vin_for_switching_uv(b)) /\ Window(v)
    BY <1>2 DEF charge_mode, Window, NoMode, bypass_allowed_by_vin, ELEVATED_MIN_VIN_UV
  <1>3. CASE ~(v >= min_vin_for_switching_uv(b)) /\ ~Window(v)
    BY <1>3 DEF charge_mode, Window, NoMode, bypass_allowed_by_vin
  <1> QED
    BY <1>1, <1>2, <1>3

\* Channels that read zero admit no mode the input does not: 1:1 needs the input itself, and
\* 2:1 a raised one.
LEMMA BlindAdmission ==
    ASSUME NEW vin_uv \in Nat, NEW vbat_uv \in Nat, NEW v \in {vin_uv, 0}, NEW b \in {vbat_uv, 0}
    PROVE  /\ charge_mode(v, b) = "Bypass" => Window(vin_uv)
           /\ charge_mode(v, b) = "Switching" => vin_uv >= ELEVATED_MIN_VIN_UV
           /\ charge_mode(v, b) \in {"Switching", "Bypass", NoMode}
  <1>1. v \in Nat /\ b \in Nat
    OBVIOUS
  <1>2. ~Window(0) /\ ~(0 >= ELEVATED_MIN_VIN_UV)
    BY DEF Window, CHARGE_MIN_VIN_UV, ELEVATED_MIN_VIN_UV
  <1> QED
    BY <1>1, <1>2, Admission

\* The mode the ADC admits.
LEMMA SampleOutcome ==
    ASSUME NEW c, NEW M, NEW I, NEW p, Within(c, M, I, p), NEW vin_uv \in Nat, NEW vbat_uv \in Nat,
           NEW o \in sample_mode(p, vin_uv, vbat_uv)
    PROVE  /\ Within(c, M, I, o.p) /\ o.ok \in BOOLEAN /\ o.ok
           /\ o.v = "Bypass" => Window(vin_uv)
           /\ o.v = "Switching" => vin_uv >= ELEVATED_MIN_VIN_UV
           /\ o.v \in {"Switching", "Bypass", NoMode}
           /\ Clean(o) => o.p = p /\ o.v = charge_mode(vin_uv, vbat_uv)
  <1>1. PICK a \in adc_or_zero(p, vin_uv) :
            \E b \in adc_or_zero(a.p, vbat_uv) : o = Ok(b.p, charge_mode(a.v, b.v))
    BY DEF sample_mode
  <1>2. PICK b \in adc_or_zero(a.p, vbat_uv) : o = Ok(b.p, charge_mode(a.v, b.v))
    BY <1>1
  <1>3. Within(c, M, I, a.p) /\ a.v \in {vin_uv, 0} /\ (Clean(a) => a.p = p /\ a.v = vin_uv)
    BY AdcOrZero
  <1>4. Within(c, M, I, b.p) /\ b.v \in {vbat_uv, 0} /\ (Clean(b) => b.p = a.p /\ b.v = vbat_uv)
    BY <1>3, AdcOrZero
  <1>5. o.p = b.p /\ o.ok \in BOOLEAN /\ o.ok /\ o.v = charge_mode(a.v, b.v)
    BY <1>2 DEF Ok
  <1>6. /\ charge_mode(a.v, b.v) = "Bypass" => Window(vin_uv)
        /\ charge_mode(a.v, b.v) = "Switching" => vin_uv >= ELEVATED_MIN_VIN_UV
        /\ charge_mode(a.v, b.v) \in {"Switching", "Bypass", NoMode}
    BY <1>3, <1>4, BlindAdmission
  <1>7. Clean(o) => o.p = p /\ o.v = charge_mode(vin_uv, vbat_uv)
    BY <1>3, <1>4, <1>5 DEF Clean
  <1> QED
    BY <1>4, <1>5, <1>6, <1>7

-----------------------------------------------------------------------------
(* Setpoints.                                                              *)

\* The configured limit is one the chip can be set to.
Configured(c) == c.cfg_iin \in Nat /\ c.cfg_iin >= IIN_MIN_UA

Setpoint(c) == encode_iin_limit(c.cfg_iin)
TaperUa(c) == Lesser(c.cfg_iin, VBAT_TAPER_IIN_UA)
TaperCode(c) == encode_iin_limit(TaperUa(c))

\* A current from the least limit on has a code, and the code of a taper is under it.
LEMMA IinCode ==
    ASSUME NEW ua \in Nat, ua >= IIN_MIN_UA
    PROVE  /\ encode_iin_limit(ua) \in 0..IIN_CODE_MAX /\ encode_iin_limit(ua) # NoValue
           /\ ua <= VBAT_TAPER_IIN_UA => decode_iin_limit(encode_iin_limit(ua)) <= VBAT_TAPER_IIN_UA
  <1>1. ua \div IIN_STEP_UA \in Nat /\ (ua \div IIN_STEP_UA) * IIN_STEP_UA <= ua
    BY SMT DEF IIN_STEP_UA
  <1>2. encode_iin_limit(ua) = Lesser(ua \div IIN_STEP_UA, IIN_CODE_MAX)
    BY DEF encode_iin_limit, IIN_MIN_UA
  <1> QED
    BY <1>1, <1>2, SMT DEF decode_iin_limit, Lesser, Greater, IIN_CODE_MAX, IIN_STEP_UA, IIN_MIN_UA,
        VBAT_TAPER_IIN_UA, NoValue

\* The configured limit and its taper have codes, and the taper is one.
LEMMA SetpointCodes ==
    ASSUME NEW c, Configured(c)
    PROVE  /\ Setpoint(c) \in 0..IIN_CODE_MAX /\ Setpoint(c) # NoValue
           /\ TaperCode(c) \in 0..IIN_CODE_MAX /\ TaperCode(c) # NoValue
           /\ decode_iin_limit(TaperCode(c)) <= VBAT_TAPER_IIN_UA
           /\ TaperUa(c) \in Nat /\ TaperUa(c) # NoValue
  <1>1. TaperUa(c) \in Nat /\ TaperUa(c) >= IIN_MIN_UA /\ TaperUa(c) <= VBAT_TAPER_IIN_UA
    BY DEF Configured, TaperUa, Lesser, IIN_MIN_UA, VBAT_TAPER_IIN_UA
  <1>2. TaperUa(c) # NoValue
    BY <1>1 DEF NoValue
  <1> QED
    BY <1>1, <1>2, IinCode DEF Configured, Setpoint, TaperCode

\* Every float voltage has a code.
LEMMA FloatCode ==
    ASSUME NEW uv \in Nat
    PROVE  encode_vbat_float(uv) \in 0..255
  <1>1. CASE VBAT_FLOAT_MIN_UV < uv /\ uv < VBAT_FLOAT_MAX_UV
    <2>1. (uv - VBAT_FLOAT_MIN_UV) \div VBAT_FLOAT_STEP_UV \in 0..255
      BY <1>1, SMT DEF VBAT_FLOAT_MIN_UV, VBAT_FLOAT_MAX_UV, VBAT_FLOAT_STEP_UV
    <2> QED
      BY <1>1, <2>1, SMT DEF encode_vbat_float, VBAT_FLOAT_MIN_UV, VBAT_FLOAT_MAX_UV
  <1>2. CASE ~(VBAT_FLOAT_MIN_UV < uv /\ uv < VBAT_FLOAT_MAX_UV)
    BY <1>2, SMT DEF encode_vbat_float, VBAT_FLOAT_MIN_UV, VBAT_FLOAT_MAX_UV
  <1> QED
    BY <1>1, <1>2

\* A limit the chip can be set to is written, unless the write fails.
LEMMA LimitOutcome ==
    ASSUME NEW c, NEW M, NEW I, NEW p, Within(c, M, I, p), NEW ua,
           encode_iin_limit(ua) \in I \cap (0..IIN_CODE_MAX), encode_iin_limit(ua) # NoValue,
           NEW o \in write_iin_limit(p, ua)
    PROVE  /\ Within(c, M, I, o.p) /\ o.ok \in BOOLEAN
           /\ o.ok => /\ o.p.iin = encode_iin_limit(ua) /\ o.p.ctrl = p.ctrl /\ o.p.bus = p.bus
                      /\ o.p.masks = p.masks /\ o.p.bypass_stage = p.bypass_stage
           /\ ~o.ok => ~Clean(o)
  <1> DEFINE q == [p EXCEPT !.iin = encode_iin_limit(ua)]
  <1>1. /\ Within(c, M, I, q) /\ q.iin = encode_iin_limit(ua) /\ q.bus = p.bus /\ q.masks = p.masks
        /\ q.bypass_stage = p.bypass_stage /\ q.ctrl = p.ctrl
    BY SetIin
  <1>2. o \in Update(p, q)
    BY DEF write_iin_limit
  <1> HIDE DEF q
  <1> QED
    BY <1>1, <1>2, UpdateOutcome

-----------------------------------------------------------------------------
(* Calls of one mode.                                                      *)

\* What a pump may be, it may be among more modes and setpoints.
LEMMA Wider ==
    ASSUME NEW c, NEW M, NEW I, NEW p, Within(c, M, I, p), NEW N, NEW J, M \subseteq N, I \subseteq J
    PROVE  Within(c, N, J, p)
  BY DEF Within

\* An access to a register that is not kept changes nothing but on a failure.
LEMMA TouchOutcome ==
    ASSUME NEW c, NEW M, NEW I, NEW p, Within(c, M, I, p), NEW o \in Touch(p)
    PROVE  /\ Within(c, M, I, o.p) /\ o.ok \in BOOLEAN
           /\ o.ok => o.p = p /\ o.v = "done"
           /\ ~o.ok => o.v = "err" /\ ~Clean(o)
  BY UpdateOutcome DEF Touch

\* Clearing the latched faults is two such accesses.
LEMMA ClearOutcome ==
    ASSUME NEW c, NEW M, NEW I, NEW p, Within(c, M, I, p), NEW o \in clear_latched_faults(p)
    PROVE  /\ Within(c, M, I, o.p) /\ o.ok \in BOOLEAN
           /\ o.ok => o.p = p
           /\ ~o.ok => ~Clean(o)
  <1>1. PICK a \in Touch(p) : IF a.ok THEN o \in Touch(a.p) ELSE o = Err(a.p)
    BY DEF clear_latched_faults, Then
  <1>2. Within(c, M, I, a.p) /\ a.ok \in BOOLEAN /\ (a.ok => a.p = p) /\ (~a.ok => ~Clean(a))
    BY TouchOutcome
  <1>3. CASE a.ok
    BY <1>1, <1>2, <1>3, TouchOutcome
  <1>4. CASE ~a.ok
    BY <1>1, <1>2, <1>4, ErrFields DEF Clean
  <1> QED
    BY <1>2, <1>3, <1>4

\* 2:1 is commanded, whether the chip runs it or refuses it.
LEMMA SwitchingOutcome ==
    ASSUME NEW c, NEW M, NEW I, NEW p, Within(c, M, I, p), "Switching" \in M,
           NEW o \in enable_switching(p)
    PROVE  /\ Within(c, M, I, o.p) /\ o.ok \in BOOLEAN
           /\ o.ok => o.v = "Switching"
           /\ ~o.ok => o.v = "err"
           /\ Clean(o) => p.bus = "up" /\ o.p.ctrl = "Switching" /\ Alike(p, o.p)
  <1> DEFINE outs == Done(p)
  <1>1. o \in confirm_mode(outs, "Switching", "Switching")
    BY DEF enable_switching
  <1>2. ASSUME NEW a \in outs
        PROVE  a.p = p /\ a.ok /\ a.ok \in BOOLEAN /\ Within(c, M, I, a.p)
    <2>1. a = Ok(p, "done")
      BY DEF Done
    <2> QED
      BY <2>1, OkFields
  <1>3. "Switching" \in M \cap CommandModes /\ "Switching" \in PumpStates \ {"Closed"}
    BY DEF CommandModes, PumpStates
  <1> HIDE DEF outs
  <1>4. \A a \in outs : Within(c, M, I, a.p) /\ a.ok \in BOOLEAN
    BY <1>2
  <1>5. /\ Within(c, M, I, o.p) /\ o.ok \in BOOLEAN
        /\ o.ok => o.v = "Switching"
        /\ ~o.ok => o.v = "err"
        /\ \E a \in outs : Confirmed(a, o, "Switching")
    BY <1>1, <1>3, <1>4, ConfirmOutcome
  <1>6. PICK a \in outs : Confirmed(a, o, "Switching")
    BY <1>5
  <1> QED
    BY <1>2, <1>5, <1>6 DEF Confirmed, Clean

\* The gate of 1:1 passes inside the window and nowhere else, whatever reads fail.
LEMMA GateOutcome ==
    ASSUME NEW c, NEW M, NEW I, NEW p, Within(c, M, I, p), NEW vin_uv \in Nat, NEW vbat_uv \in Nat,
           NEW o \in bypass_gate(p, vin_uv, vbat_uv)
    PROVE  /\ Within(c, M, I, o.p) /\ o.ok \in BOOLEAN
           /\ o.ok => Window(vin_uv)
           /\ ~o.ok => o.v = "err"
           /\ Clean(o) => o.p = p /\ (Window(vin_uv) => o.ok)
  <1>1. PICK a \in read_adc(p, vin_uv) :
            IF a.v = NoValue THEN o = Err(a.p)
            ELSE \E b \in adc_or_zero(a.p, vbat_uv) :
                     o = IF bypass_allowed_by_vin(a.v, b.v) THEN Ok(b.p, "done") ELSE Err(b.p)
    BY DEF bypass_gate
  <1>2. /\ Within(c, M, I, a.p) /\ a.v \in {vin_uv, NoValue}
        /\ Clean(a) => a.p = p /\ a.v = vin_uv
    BY AdcOutcome
  <1>3. vin_uv # NoValue
    BY DEF NoValue
  <1>4. CASE a.v = NoValue
    <2>1. o.p = a.p /\ o.ok \in BOOLEAN /\ ~o.ok /\ o.v = "err"
      BY <1>1, <1>4, ErrFields
    <2> QED
      BY <1>2, <1>3, <1>4, <2>1 DEF Clean
  <1>5. CASE a.v # NoValue
    <2>1. PICK b \in adc_or_zero(a.p, vbat_uv) :
              o = IF bypass_allowed_by_vin(a.v, b.v) THEN Ok(b.p, "done") ELSE Err(b.p)
      BY <1>1, <1>5
    <2>2. Within(c, M, I, b.p) /\ b.v \in {vbat_uv, 0} /\ (Clean(b) => b.p = a.p)
      BY <1>2, AdcOrZero
    <2>3. bypass_allowed_by_vin(a.v, b.v) <=> Window(vin_uv)
      BY <1>2, <1>5, <2>2, Admission
    <2>4. o.p = b.p /\ o.ok \in BOOLEAN /\ (o.ok <=> Window(vin_uv)) /\ (~o.ok => o.v = "err")
      <3>1. CASE bypass_allowed_by_vin(a.v, b.v)
        BY <2>1, <2>3, <3>1 DEF Ok
      <3>2. CASE ~bypass_allowed_by_vin(a.v, b.v)
        BY <2>1, <2>3, <3>2 DEF Err
      <3> QED
        BY <3>1, <3>2
    <2> QED
      BY <1>2, <2>2, <2>4 DEF Clean
  <1> QED
    BY <1>4, <1>5

\* 1:1 is commanded inside its window only, whether the chip runs it or refuses it.
LEMMA BypassOutcome ==
    ASSUME NEW c, NEW M, NEW I, NEW p, Within(c, M, I, p), NEW vin_uv \in Nat, NEW vbat_uv \in Nat,
           Window(vin_uv) => "Bypass" \in M, NEW o \in enable_bypass(p, vin_uv, vbat_uv)
    PROVE  /\ Within(c, M, I, o.p) /\ o.ok \in BOOLEAN
           /\ o.ok => o.v = "Bypass" /\ Window(vin_uv)
           /\ ~o.ok => o.v = "err"
           /\ Clean(o) => p.bus = "up"
           /\ Clean(o) /\ Window(vin_uv) => o.p.ctrl = "Bypass" /\ Alike(p, o.p)
           /\ Clean(o) /\ ~Window(vin_uv) => o.p = p
  <1> DEFINE outs == bypass_gate(p, vin_uv, vbat_uv)
             N == M \cup {"Bypass"}
  <1>1. o \in confirm_mode(outs, "Bypass", "Configured")
    BY DEF enable_bypass
  <1>2. ASSUME NEW a \in outs
        PROVE  /\ Within(c, M, I, a.p) /\ Within(c, N, I, a.p) /\ a.ok \in BOOLEAN
               /\ a.ok => Window(vin_uv)
               /\ Clean(a) => a.p = p /\ (Window(vin_uv) => a.ok)
    BY GateOutcome, Wider
  <1>3. "Bypass" \in N \cap CommandModes /\ "Configured" \in PumpStates \ {"Closed"}
    BY DEF CommandModes, PumpStates
  <1>4. M \subseteq N /\ (Window(vin_uv) => N = M)
    OBVIOUS
  <1> HIDE DEF outs, N
  <1>5. /\ Within(c, N, I, o.p) /\ o.ok \in BOOLEAN
        /\ o.ok => o.v = "Bypass"
        /\ ~o.ok => o.v = "err"
        /\ \E a \in outs : Confirmed(a, o, "Bypass")
    BY <1>1, <1>2, <1>3, ConfirmOutcome
  <1>6. PICK a \in outs : Confirmed(a, o, "Bypass")
    BY <1>5
  <1>7. CASE Window(vin_uv)
    BY <1>2, <1>4, <1>5, <1>6, <1>7 DEF Confirmed, Clean
  <1>8. CASE ~Window(vin_uv)
    <2>1. ~a.ok /\ o.p = a.p /\ ~o.ok
      BY <1>2, <1>6, <1>8 DEF Confirmed, Err
    <2> QED
      BY <1>2, <1>5, <1>6, <1>8, <2>1 DEF Confirmed, Clean
  <1> QED
    BY <1>7, <1>8

-----------------------------------------------------------------------------
(* Reset and configuration.                                                *)

\* A write that fails left the pump as it was or as it was to become.
LEMMA UpdateEither ==
    ASSUME NEW c, NEW M, NEW I, NEW p, Within(c, M, I, p), NEW N, NEW J, NEW q, Within(c, N, J, q),
           NEW o \in Update(p, q)
    PROVE  Within(c, M, I, o.p) \/ Within(c, N, J, o.p)
  <1>1. CASE o = Ok(q, "done")
    BY <1>1, OkFields
  <1>2. CASE \E f \in Failing(q) : o = Err(f)
    BY <1>2, FailingOutcome, ErrFields
  <1>3. CASE \E f \in Failing(p) : o = Err(f)
    BY <1>3, FailingOutcome, ErrFields
  <1> QED
    BY <1>1, <1>2, <1>3 DEF Update, Alive

\* The reset registers.
LEMMA SetReset ==
    ASSUME NEW c, NEW M, NEW I, NEW p, Within(c, M, I, p)
    PROVE  /\ Within(c, {"Standby"}, {PorIin}, PowerOnReset(p)) /\ PowerOnReset(p).bus = p.bus
           /\ PowerOnReset(p).bypass_stage = p.bypass_stage
  <1> DEFINE q == [p EXCEPT !.ctrl = "Standby"]
             r == [q EXCEPT !.masks = {}]
             s == [r EXCEPT !.iin = PorIin]
             t == [s EXCEPT !.vfloat = PorFloat]
  <1>1. /\ q \in Pumps /\ q.ctrl = "Standby" /\ q.state = p.state /\ q.bus = p.bus
        /\ q.cfg_iin = p.cfg_iin /\ q.cfg_float = p.cfg_float /\ q.bypass_stage = p.bypass_stage
    BY DEF Within, Pumps, CommandModes
  <1>2. /\ r \in Pumps /\ r.ctrl = q.ctrl /\ r.state = q.state /\ r.bus = q.bus
        /\ r.cfg_iin = q.cfg_iin /\ r.cfg_float = q.cfg_float /\ r.bypass_stage = q.bypass_stage
    BY <1>1 DEF Pumps
  <1>3. /\ s \in Pumps /\ s.ctrl = r.ctrl /\ s.state = r.state /\ s.bus = r.bus /\ s.iin = PorIin
        /\ s.cfg_iin = r.cfg_iin /\ s.cfg_float = r.cfg_float /\ s.bypass_stage = r.bypass_stage
    BY <1>2, ResetAssumption DEF Pumps
  <1>4. /\ t \in Pumps /\ t.ctrl = s.ctrl /\ t.state = s.state /\ t.bus = s.bus /\ t.iin = s.iin
        /\ t.cfg_iin = s.cfg_iin /\ t.cfg_float = s.cfg_float /\ t.bypass_stage = s.bypass_stage
    BY <1>3, ResetAssumption DEF Pumps
  <1>5. PowerOnReset(p) = t
    BY DEF PowerOnReset, Within, Pumps
  <1> HIDE DEF q, r, s, t
  <1> QED
    BY <1>1, <1>2, <1>3, <1>4, <1>5 DEF Within

\* A power-on reset leaves the pump idle with the chip's own limit, or as it was.
LEMMA ResetOutcome ==
    ASSUME NEW c, NEW M, NEW I, NEW p, Within(c, M, I, p), NEW o \in soft_reset(p)
    PROVE  /\ Within(c, M, I, o.p) \/ Within(c, {"Standby"}, {PorIin}, o.p)
           /\ o.ok \in BOOLEAN
           /\ Clean(o) => /\ Within(c, {"Standby"}, {PorIin}, o.p)
                          /\ p.bus = "up" /\ o.p.bypass_stage = p.bypass_stage
  <1> DEFINE unlocked == Read(p, {"done"})
             readback == Then(unlocked, LAMBDA a : {Ok(q.p, "done") : q \in Read(a.p, {"done"})})
             N == M \cup {"Standby"}
             J == I \cup {PorIin}
  <1>1. PICK r \in readback :
            IF r.ok THEN \E q \in Update(r.p, PowerOnReset(r.p)) :
                             o = IF q.ok THEN Ok([q.p EXCEPT !.state = "Probed"], "done") ELSE q
            ELSE o = Err(r.p)
    BY DEF soft_reset, Then
  <1>2. PICK a \in unlocked : IF a.ok THEN \E q \in Read(a.p, {"done"}) : r = Ok(q.p, "done")
                              ELSE r = Err(a.p)
    BY DEF Then
  <1> HIDE DEF readback
  <1>3. Within(c, M, I, a.p) /\ a.ok \in BOOLEAN /\ (a.ok => a.p = p) /\ (~a.ok => ~Clean(a))
    BY ReadOutcome
  <1> HIDE DEF unlocked
  <1>4. Within(c, M, I, r.p) /\ r.ok \in BOOLEAN /\ (Clean(r) => r.ok /\ r.p = p)
    <2>1. CASE a.ok
      <3>1. PICK q \in Read(a.p, {"done"}) : r = Ok(q.p, "done")
        BY <1>2, <2>1
      <3>2. Within(c, M, I, q.p) /\ (q.ok => q.p = a.p) /\ (~q.ok => ~Clean(q)) /\ q.ok \in BOOLEAN
        BY <1>3, ReadOutcome
      <3> QED
        BY <1>3, <2>1, <3>1, <3>2, OkFields DEF Clean
    <2>2. CASE ~a.ok
      BY <1>2, <1>3, <2>2, ErrFields DEF Clean
    <2> QED
      BY <1>3, <2>1, <2>2
  <1>5. CASE ~r.ok
    BY <1>1, <1>4, <1>5, ErrFields DEF Clean
  <1>6. CASE r.ok
    <2> DEFINE w == PowerOnReset(r.p)
    <2>1. PICK q \in Update(r.p, w) :
              o = IF q.ok THEN Ok([q.p EXCEPT !.state = "Probed"], "done") ELSE q
      BY <1>1, <1>6
    <2>2. /\ Within(c, {"Standby"}, {PorIin}, w) /\ w.bus = r.p.bus
          /\ w.bypass_stage = r.p.bypass_stage
      <3>1. Within(c, M, I, r.p)
        BY <1>4
      <3> QED
        BY <3>1, SetReset, Zenon
    <2> HIDE DEF w
    <2>3. Within(c, M, I, q.p) \/ Within(c, {"Standby"}, {PorIin}, q.p)
      BY <1>4, <2>2, UpdateEither
    <2>4. Within(c, N, J, r.p) /\ Within(c, N, J, w)
      BY <1>4, <2>2, Wider
    <2>5. q.ok \in BOOLEAN /\ (q.ok => q.p = w) /\ (~q.ok => ~Clean(q))
      BY <2>4, UpdateOutcome
    <2>6. CASE q.ok
      <3> DEFINE s == [q.p EXCEPT !.state = "Probed"]
      <3>1. "Probed" \in PumpStates \ {"Closed"}
        BY DEF PumpStates
      <3>2. Within(c, {"Standby"}, {PorIin}, q.p)
        BY <2>2, <2>5, <2>6
      <3>3. Within(c, {"Standby"}, {PorIin}, s) /\ s.bus = q.p.bus
            /\ s.bypass_stage = q.p.bypass_stage
        BY <3>1, <3>2, SetState
      <3>4. o = Ok(s, "done")
        BY <2>1, <2>6
      <3> HIDE DEF s
      <3>5. o.p = s /\ o.ok \in BOOLEAN
        BY <3>4, OkFields
      <3> QED
        BY <1>4, <2>2, <2>5, <2>6, <3>3, <3>5 DEF Clean
    <2>7. CASE ~q.ok
      BY <2>1, <2>3, <2>5, <2>7 DEF Clean
    <2> QED
      BY <2>5, <2>6, <2>7
  <1> QED
    BY <1>4, <1>5, <1>6

\* An outcome of a step of a call on p: if the step went through, the mode m and the setpoint
\* i are commanded on the bus and at the stage of p; if not, it is dirty.
Reached(c, M, I, p, m, i, o) ==
    /\ Within(c, M, I, o.p) /\ o.ok \in BOOLEAN
    /\ o.ok => o.p.ctrl = m /\ o.p.iin = i /\ o.p.bypass_stage = p.bypass_stage /\ o.p.bus = p.bus
    /\ ~o.ok => ~Clean(o)

\* Steps that end at the first error follow one another.
LEMMA Sequel ==
    ASSUME NEW c, NEW M, NEW I, NEW p, NEW m, NEW i, NEW a, Reached(c, M, I, p, m, i, a),
           NEW n, NEW j, NEW o,
           a.ok => Reached(c, M, I, a.p, n, j, o),
           ~a.ok => o = Err(a.p)
    PROVE  Reached(c, M, I, p, n, j, o)
  <1>1. a.ok \in BOOLEAN
    BY DEF Reached
  <1>2. CASE a.ok
    BY <1>2 DEF Reached
  <1>3. CASE ~a.ok
    BY <1>3, ErrFields DEF Reached, Clean
  <1> QED
    BY <1>1, <1>2, <1>3

\* An access that keeps neither register goes through or is dirty.
LEMMA TouchReached ==
    ASSUME NEW c, NEW M, NEW I, NEW p, Within(c, M, I, p), NEW o \in Touch(p)
    PROVE  Reached(c, M, I, p, p.ctrl, p.iin, o)
  <1>1. Within(c, M, I, o.p) /\ o.ok \in BOOLEAN /\ (o.ok => o.p = p) /\ (~o.ok => ~Clean(o))
    BY TouchOutcome
  <1> QED
    BY <1>1 DEF Reached

\* A float voltage is written.
LEMMA FloatReached ==
    ASSUME NEW c, NEW M, NEW I, NEW p, Within(c, M, I, p), NEW f \in 0..255,
           NEW o \in Update(p, [p EXCEPT !.vfloat = f])
    PROVE  Reached(c, M, I, p, p.ctrl, p.iin, o)
  <1> DEFINE q == [p EXCEPT !.vfloat = f]
  <1>1. /\ Within(c, M, I, q) /\ q.bus = p.bus /\ q.iin = p.iin
        /\ q.bypass_stage = p.bypass_stage /\ q.ctrl = p.ctrl
    BY DEF Within, Pumps
  <1>2. o \in Update(p, q)
    OBVIOUS
  <1> HIDE DEF q
  <1>3. Within(c, M, I, o.p) /\ o.ok \in BOOLEAN /\ (o.ok => o.p = q) /\ (~o.ok => ~Clean(o))
    BY <1>1, <1>2, UpdateOutcome
  <1> QED
    BY <1>1, <1>3 DEF Reached

\* Masks are written.
LEMMA MasksReached ==
    ASSUME NEW c, NEW M, NEW I, NEW p, Within(c, M, I, p), NEW k \in SUBSET FiveVoltMask,
           NEW o \in Update(p, [p EXCEPT !.masks = k])
    PROVE  /\ Reached(c, M, I, p, p.ctrl, p.iin, o)
           /\ o.ok => o.p.masks = k
  <1> DEFINE q == [p EXCEPT !.masks = k]
  <1>1. /\ Within(c, M, I, q) /\ q.bus = p.bus /\ q.iin = p.iin /\ q.masks = k
        /\ q.bypass_stage = p.bypass_stage /\ q.ctrl = p.ctrl
    BY SetMasks
  <1>2. o \in Update(p, q)
    OBVIOUS
  <1> HIDE DEF q
  <1>3. Within(c, M, I, o.p) /\ o.ok \in BOOLEAN /\ (o.ok => o.p = q) /\ (~o.ok => ~Clean(o))
    BY <1>1, <1>2, UpdateOutcome
  <1> QED
    BY <1>1, <1>3 DEF Reached

\* The configured limit and a mode.
LEMMA LimitReached ==
    ASSUME NEW c, NEW M, NEW I, NEW p, Within(c, M, I, p), Configured(c), Setpoint(c) \in I,
           NEW o \in write_iin_limit(p, p.cfg_iin)
    PROVE  Reached(c, M, I, p, p.ctrl, Setpoint(c), o)
  <1>1. p.cfg_iin = c.cfg_iin
    BY DEF Within
  <1>2. encode_iin_limit(p.cfg_iin) = Setpoint(c)
    BY <1>1 DEF Setpoint
  <1>3. Setpoint(c) \in I \cap (0..IIN_CODE_MAX) /\ Setpoint(c) # NoValue
    BY SetpointCodes
  <1> QED
    BY <1>2, <1>3, LimitOutcome DEF Reached

\* A mode is written.
LEMMA ModeReached ==
    ASSUME NEW c, NEW M, NEW I, NEW p, Within(c, M, I, p), NEW m \in M \cap CommandModes,
           NEW o \in set_op_mode(p, m)
    PROVE  Reached(c, M, I, p, m, p.iin, o)
  BY ModeOutcome DEF Reached, Alike

\* The float voltages a session may have are encodable.
LEMMA FloatType ==
    ASSUME NEW c, NEW M, NEW I, NEW p, Within(c, M, I, p)
    PROVE  p.cfg_float \in Nat /\ c.cfg_float \in Nat /\ p.masks \in SUBSET FiveVoltMask
  BY LimitAssumption DEF Within, Pumps

\* Behind a step that went through, an access that keeps both registers, and a mask taken back.
LEMMA TouchSequel ==
    ASSUME NEW c, NEW M, NEW I, NEW p, NEW m, NEW i, NEW a, Reached(c, M, I, p, m, i, a),
           NEW x, IF a.ok THEN x \in Touch(a.p) ELSE x = Err(a.p)
    PROVE  Reached(c, M, I, p, m, i, x)
  <1>1. a.ok => Reached(c, M, I, a.p, m, i, x)
    <2>1. Within(c, M, I, a.p)
      BY DEF Reached
    <2>2. a.ok => a.p.ctrl = m /\ a.p.iin = i
      BY DEF Reached
    <2> QED
      BY <2>1, <2>2, TouchReached
  <1> QED
    BY <1>1, Sequel

\* A mask that follows another step.
LEMMA MasksSequel ==
    ASSUME NEW c, NEW M, NEW I, NEW p, NEW m, NEW i, NEW a, Reached(c, M, I, p, m, i, a), NEW k,
           NEW x, IF a.ok THEN x \in Update(a.p, [a.p EXCEPT !.masks = a.p.masks \ k])
                  ELSE x = Err(a.p)
    PROVE  Reached(c, M, I, p, m, i, x)
  <1>1. a.ok => Reached(c, M, I, a.p, m, i, x)
    <2>1. Within(c, M, I, a.p)
      BY DEF Reached
    <2>2. a.p.masks \ k \in SUBSET FiveVoltMask
      BY <2>1, FloatType
    <2>3. a.ok => a.p.ctrl = m /\ a.p.iin = i
      BY DEF Reached
    <2> QED
      BY <2>1, <2>2, <2>3, MasksReached
  <1> QED
    BY <1>1, Sequel

\* A configuration that goes through ends idle with the configured limit.
LEMMA ConfigureOutcome ==
    ASSUME NEW c, NEW M, NEW I, NEW p, Within(c, M, I, p), Configured(c),
           "Standby" \in M, Setpoint(c) \in I, NEW o \in configure(p)
    PROVE  Reached(c, M, I, p, "Standby", Setpoint(c), o)
  <1> DEFINE float   == Update(p, [p EXCEPT !.vfloat = encode_vbat_float(p.cfg_float)])
             vacOvp  == Then(float, LAMBDA a : Touch(a.p))
             iin     == Then(vacOvp, LAMBDA a : write_iin_limit(a.p, a.p.cfg_iin))
             ntc     == Then(iin, LAMBDA a : Touch(a.p))
             vbatOvp == Then(ntc, LAMBDA a : Update(a.p, [a.p EXCEPT !.masks = @ \ {"VBAT_OV"}]))
             loops   == Then(vbatOvp, LAMBDA a : Touch(a.p))
             idle    == Then(loops, LAMBDA a : standby(a.p))
             vacOv   == Then(idle, LAMBDA a : Update(a.p, [a.p EXCEPT !.masks = @ \ {"VAC_OV"}]))
             timers  == Then(vacOv, LAMBDA a : Touch(a.p))
             Old(a)  == Reached(c, M, I, p, p.ctrl, p.iin, a)
             Set(a)  == Reached(c, M, I, p, p.ctrl, Setpoint(c), a)
             New(a)  == Reached(c, M, I, p, "Standby", Setpoint(c), a)
  <1>1. "Standby" \in M \cap CommandModes
    BY DEF CommandModes
  <1>2. PICK t \in timers :
            IF t.ok THEN o = Ok([t.p EXCEPT !.state = "Configured"], "done") ELSE o = Err(t.p)
    <2>1. o \in Then(timers, LAMBDA a : Done([a.p EXCEPT !.state = "Configured"]))
      BY DEF configure, Within
    <2> HIDE DEF timers
    <2> QED
      BY <2>1 DEF Then, Done
  <1> HIDE DEF float, vacOvp, iin, ntc, vbatOvp, loops, idle, vacOv, timers
  <1>3. ASSUME NEW a \in float PROVE Old(a)
    <2>1. encode_vbat_float(p.cfg_float) \in 0..255
      BY FloatType, FloatCode
    <2> QED
      BY <2>1, FloatReached DEF float
  <1>4. ASSUME NEW x \in vacOvp PROVE Old(x)
    <2>1. PICK a \in float : IF a.ok THEN x \in Touch(a.p) ELSE x = Err(a.p)
      BY DEF vacOvp, Then
    <2> QED
      BY <1>3, <2>1, TouchSequel
  <1>5. ASSUME NEW x \in iin PROVE Set(x)
    <2>1. PICK a \in vacOvp : IF a.ok THEN x \in write_iin_limit(a.p, a.p.cfg_iin) ELSE x = Err(a.p)
      BY DEF iin, Then
    <2>2. Old(a)
      BY <1>4
    <2>3. Within(c, M, I, a.p)
      BY <2>2 DEF Reached
    <2>4. a.ok => Reached(c, M, I, a.p, p.ctrl, Setpoint(c), x)
      BY <2>1, <2>2, <2>3, LimitReached DEF Reached
    <2> QED
      BY <2>1, <2>2, <2>4, Sequel
  <1>6. ASSUME NEW x \in ntc PROVE Set(x)
    <2>1. PICK a \in iin : IF a.ok THEN x \in Touch(a.p) ELSE x = Err(a.p)
      BY DEF ntc, Then
    <2> QED
      BY <1>5, <2>1, TouchSequel
  <1>7. ASSUME NEW x \in vbatOvp PROVE Set(x)
    <2>1. PICK a \in ntc :
              IF a.ok THEN x \in Update(a.p, [a.p EXCEPT !.masks = a.p.masks \ {"VBAT_OV"}])
              ELSE x = Err(a.p)
      BY DEF vbatOvp, Then
    <2> QED
      BY <1>6, <2>1, MasksSequel
  <1>8. ASSUME NEW x \in loops PROVE Set(x)
    <2>1. PICK a \in vbatOvp : IF a.ok THEN x \in Touch(a.p) ELSE x = Err(a.p)
      BY DEF loops, Then
    <2> QED
      BY <1>7, <2>1, TouchSequel
  <1>9. ASSUME NEW x \in idle PROVE New(x)
    <2>1. PICK a \in loops : IF a.ok THEN x \in set_op_mode(a.p, "Standby") ELSE x = Err(a.p)
      BY DEF idle, Then, standby
    <2>2. Set(a)
      BY <1>8
    <2>3. Within(c, M, I, a.p)
      BY <2>2 DEF Reached
    <2>4. a.ok => Reached(c, M, I, a.p, "Standby", Setpoint(c), x)
      BY <2>1, <2>2, <2>3, <1>1, ModeReached DEF Reached
    <2> QED
      BY <2>1, <2>2, <2>4, Sequel
  <1>10. ASSUME NEW x \in vacOv PROVE New(x)
    <2>1. PICK a \in idle :
              IF a.ok THEN x \in Update(a.p, [a.p EXCEPT !.masks = a.p.masks \ {"VAC_OV"}])
              ELSE x = Err(a.p)
      BY DEF vacOv, Then
    <2> QED
      BY <1>9, <2>1, MasksSequel
  <1>11. ASSUME NEW x \in timers PROVE New(x)
    <2>1. PICK a \in vacOv : IF a.ok THEN x \in Touch(a.p) ELSE x = Err(a.p)
      BY DEF timers, Then
    <2> QED
      BY <1>10, <2>1, TouchSequel
  <1>12. CASE t.ok
    <2> DEFINE q == [t.p EXCEPT !.state = "Configured"]
    <2>1. New(t) /\ Within(c, M, I, t.p)
      BY <1>11 DEF Reached
    <2>2. "Configured" \in PumpStates \ {"Closed"}
      BY DEF PumpStates
    <2>3. /\ Within(c, M, I, q) /\ q.bus = t.p.bus /\ q.ctrl = t.p.ctrl /\ q.iin = t.p.iin
          /\ q.bypass_stage = t.p.bypass_stage
      BY <2>1, <2>2, SetState
    <2>4. o = Ok(q, "done")
      BY <1>2, <1>12
    <2> HIDE DEF q
    <2>5. o.p = q /\ o.ok /\ o.ok \in BOOLEAN
      BY <2>4, OkFields
    <2> QED
      BY <1>12, <2>1, <2>3, <2>5 DEF Reached
  <1>13. CASE ~t.ok
    <2>1. New(t)
      BY <1>11
    <2>2. o = Err(t.p)
      BY <1>2, <1>13
    <2> QED
      BY <1>13, <2>1, <2>2, Sequel
  <1> QED
    BY <1>12, <1>13

-----------------------------------------------------------------------------
(* Near the float voltage.                                                 *)

\* An outcome of a step whose errors are ignored: if every access went through, the mode m
\* and the setpoint i are commanded at the stage of p.
Passed(c, M, I, p, m, i, o) ==
    /\ Within(c, M, I, o.p)
    /\ Clean(o) => p.bus = "up" /\ o.p.ctrl = m /\ o.p.iin = i /\ o.p.bypass_stage = p.bypass_stage

\* A step that ends at an error passes as well.
LEMMA ReachedPasses ==
    ASSUME NEW c, NEW M, NEW I, NEW p, NEW m, NEW i, NEW o, Reached(c, M, I, p, m, i, o)
    PROVE  Passed(c, M, I, p, m, i, o)
  BY DEF Reached, Passed, Clean

\* The same, where the second step keeps what the first one left.
LEMMA QuietPassage ==
    ASSUME NEW c, NEW M, NEW I, NEW p, NEW m, NEW i, NEW a, Passed(c, M, I, p, m, i, a),
           NEW o, Passed(c, M, I, a.p, a.p.ctrl, a.p.iin, o)
    PROVE  Passed(c, M, I, p, m, i, o)
  BY DEF Passed, Clean

\* What does nothing passes.
LEMMA DonePasses ==
    ASSUME NEW c, NEW M, NEW I, NEW p, Within(c, M, I, p), NEW o \in Done(p)
    PROVE  Passed(c, M, I, p, p.ctrl, p.iin, o)
  <1>1. o.p = p
    BY OkFields DEF Done
  <1> QED
    BY <1>1 DEF Passed, Clean

\* So does clearing the latched faults.
LEMMA ClearPasses ==
    ASSUME NEW c, NEW M, NEW I, NEW p, Within(c, M, I, p), NEW o \in clear_latched_faults(p)
    PROVE  Passed(c, M, I, p, p.ctrl, p.iin, o)
  <1>1. Within(c, M, I, o.p) /\ o.ok \in BOOLEAN /\ (o.ok => o.p = p) /\ (~o.ok => ~Clean(o))
    BY ClearOutcome
  <1> QED
    BY <1>1 DEF Passed, Clean

\* Raising V_FLOAT touches neither the mode nor the current.
LEMMA RaisePasses ==
    ASSUME NEW c, NEW M, NEW I, NEW p, Within(c, M, I, p), NEW vbat_uv \in Nat,
           NEW o \in RaiseFloat(p, vbat_uv)
    PROVE  Passed(c, M, I, p, p.ctrl, p.iin, o)
  <1> DEFINE soft   == soft_float_for_vbat(p.cfg_float, vbat_uv)
             raised == IF soft > p.cfg_float
                       THEN Update(p, [p EXCEPT !.vfloat = encode_vbat_float(soft)]) ELSE Done(p)
             masked == After(raised, LAMBDA a :
                           Update(a.p, [a.p EXCEPT !.masks = @ \cup {"VBAT_OV"}]))
  <1>1. PICK b \in masked : o \in clear_latched_faults(b.p)
    BY DEF RaiseFloat, After
  <1>2. PICK a \in raised : b \in Update(a.p, [a.p EXCEPT !.masks = a.p.masks \cup {"VBAT_OV"}])
    BY DEF After
  <1>3. encode_vbat_float(soft) \in 0..255
    <2>1. p.cfg_float \in Nat
      BY FloatType
    <2>2. soft \in Nat
      BY <2>1 DEF soft_float_for_vbat, Lesser, Greater, VBAT_FLOAT_SOFT_HEADROOM_UV,
        VBAT_FLOAT_SOFT_MAX_UV
    <2> HIDE DEF soft
    <2> QED
      BY <2>2, FloatCode
  <1> HIDE DEF soft, masked
  <1>4. Passed(c, M, I, p, p.ctrl, p.iin, a)
    BY <1>3, FloatReached, ReachedPasses, DonePasses
  <1> HIDE DEF raised
  <1>5. Within(c, M, I, a.p)
    BY <1>4 DEF Passed
  <1>6. Passed(c, M, I, a.p, a.p.ctrl, a.p.iin, b)
    <2>1. a.p.masks \cup {"VBAT_OV"} \in SUBSET FiveVoltMask
      BY <1>5, FloatType DEF FiveVoltMask
    <2> QED
      BY <1>2, <1>5, <2>1, MasksReached, ReachedPasses
  <1>7. Passed(c, M, I, p, p.ctrl, p.iin, b)
    BY <1>4, <1>6, QuietPassage
  <1>8. Passed(c, M, I, b.p, b.p.ctrl, b.p.iin, o)
    BY <1>1, <1>7, ClearPasses DEF Passed
  <1> QED
    BY <1>7, <1>8, QuietPassage

\* A start at these voltages is one the taper is for.
TaperDue(c, vin_uv, vbat_uv) ==
    c.cfg_iin > VBAT_TAPER_IIN_UA /\ vbat_near_float_with_vin(vbat_uv, c.cfg_float, FALSE, vin_uv)

\* An outcome of the preparation near the top: if every access went through, mode and stage
\* are those of p, and so is the setpoint unless it is the taper's, as it is if that is due.
Prepared(c, M, I, p, due, o) ==
    /\ Within(c, M, I, o.p)
    /\ Clean(o) => /\ p.bus = "up" /\ o.p.ctrl = p.ctrl /\ o.p.bypass_stage = p.bypass_stage
                   /\ o.p.iin \in {p.iin, TaperCode(c)}
                   /\ due => o.p.iin = TaperCode(c)

\* The tapered current is written when it is less than the configured one.
LEMMA TaperReached ==
    ASSUME NEW c, NEW M, NEW I, NEW p, Within(c, M, I, p), Configured(c), TaperCode(c) \in I,
           NEW o \in write_iin_limit(p, TaperUa(c))
    PROVE  Reached(c, M, I, p, p.ctrl, TaperCode(c), o)
  <1>1. encode_iin_limit(TaperUa(c)) = TaperCode(c)
    BY DEF TaperCode
  <1>2. TaperCode(c) \in I \cap (0..IIN_CODE_MAX) /\ TaperCode(c) # NoValue
    BY SetpointCodes
  <1> QED
    BY <1>1, <1>2, LimitOutcome DEF Reached

\* The preparation tapers whether or not V_FLOAT is raised.
LEMMA NearFloatOutcome ==
    ASSUME NEW c, NEW M, NEW I, NEW p, Within(c, M, I, p), Configured(c), TaperCode(c) \in I,
           NEW vin_uv \in Nat, NEW vbat_uv \in Nat, NEW ov \in BOOLEAN, NEW allow \in BOOLEAN,
           NEW o \in NearFloat(p, vbat_uv, vin_uv, ov, allow)
    PROVE  Prepared(c, M, I, p, TaperDue(c, vin_uv, vbat_uv), o)
  <1> DEFINE near   == vbat_near_float_with_vin(vbat_uv, c.cfg_float, ov, vin_uv)
             raised == IF (ov \/ vbat_uv + 50000 >= p.cfg_float) /\ allow
                       THEN RaiseFloat(p, vbat_uv) ELSE Done(p)
  <1>1. p.cfg_iin = c.cfg_iin /\ p.cfg_float = c.cfg_float
    BY DEF Within
  <1>2. taper_setpoint_ua(p, vbat_uv, vin_uv, ov) = IF near THEN TaperUa(c) ELSE NoValue
    BY <1>1 DEF taper_setpoint_ua, TaperUa
  <1>3. TaperDue(c, vin_uv, vbat_uv) => near /\ TaperUa(c) < c.cfg_iin
    BY DEF TaperDue, vbat_near_float_with_vin, TaperUa, Lesser, Configured, VBAT_TAPER_IIN_UA
  <1>4. TaperUa(c) # NoValue
    BY SetpointCodes
  <1> HIDE DEF near, raised
  <1>5. CASE ~near
    <2>1. o \in Done(p)
      BY <1>2, <1>5 DEF NearFloat
    <2> QED
      BY <1>3, <1>5, <2>1, DonePasses DEF Passed, Prepared
  <1>6. CASE near
    <2>1. PICK a \in raised :
              o \in IF TaperUa(c) < c.cfg_iin THEN write_iin_limit(a.p, TaperUa(c)) ELSE Done(a.p)
      BY <1>1, <1>2, <1>4, <1>6 DEF NearFloat, After, raised
    <2>2. Passed(c, M, I, p, p.ctrl, p.iin, a)
      BY RaisePasses, DonePasses DEF raised
    <2>3. Within(c, M, I, a.p)
      BY <2>2 DEF Passed
    <2>4. CASE TaperUa(c) < c.cfg_iin
      <3>1. Passed(c, M, I, a.p, a.p.ctrl, TaperCode(c), o)
        BY <2>1, <2>3, <2>4, TaperReached, ReachedPasses
      <3> QED
        BY <2>2, <3>1 DEF Passed, Prepared, Clean
    <2>5. CASE ~(TaperUa(c) < c.cfg_iin)
      <3>1. Passed(c, M, I, a.p, a.p.ctrl, a.p.iin, o)
        BY <2>1, <2>3, <2>5, DonePasses
      <3> QED
        BY <1>3, <2>2, <2>5, <3>1 DEF Passed, Prepared, Clean
    <2> QED
      BY <2>4, <2>5
  <1> QED
    BY <1>5, <1>6

\* So does the whole preparation, on what the ADC measures; a failed read of it is swallowed.
LEMMA PrepareOutcome ==
    ASSUME NEW c, NEW M, NEW I, NEW p, Within(c, M, I, p), Configured(c), TaperCode(c) \in I,
           NEW vin_uv \in Nat, NEW vbat_uv \in Nat, NEW allow \in BOOLEAN,
           NEW o \in prepare_near_float_for_charge(p, vin_uv, vbat_uv, allow)
    PROVE  Prepared(c, M, I, p, TaperDue(c, vin_uv, vbat_uv), o) /\ o.ok /\ o.ok \in BOOLEAN
  <1>1. PICK a \in adc_or_zero(p, vbat_uv) : \E b \in adc_or_zero(a.p, vin_uv) :
            \E r \in read_or_clear(b.p, BOOLEAN) :
            \E n \in NearFloat(r.p, a.v, b.v, r.v, allow) : o = Ok(n.p, "done")
    BY DEF prepare_near_float_for_charge
  <1>2. PICK b \in adc_or_zero(a.p, vin_uv) :
            \E r \in read_or_clear(b.p, BOOLEAN) :
            \E n \in NearFloat(r.p, a.v, b.v, r.v, allow) : o = Ok(n.p, "done")
    BY <1>1
  <1>3. PICK r \in read_or_clear(b.p, BOOLEAN) :
            \E n \in NearFloat(r.p, a.v, b.v, r.v, allow) : o = Ok(n.p, "done")
    BY <1>2
  <1>4. PICK n \in NearFloat(r.p, a.v, b.v, r.v, allow) : o = Ok(n.p, "done")
    BY <1>3
  <1>5. Within(c, M, I, a.p) /\ a.v \in {vbat_uv, 0} /\ (Clean(a) => a.p = p /\ a.v = vbat_uv)
    BY AdcOrZero
  <1>6. Within(c, M, I, b.p) /\ b.v \in {vin_uv, 0} /\ (Clean(b) => b.p = a.p /\ b.v = vin_uv)
    BY <1>5, AdcOrZero
  <1>7. Within(c, M, I, r.p) /\ (Clean(r) => r.p = b.p)
    BY <1>6, FaultOutcome
  <1>8. r.v \in BOOLEAN
    <2>1. CASE \E v \in BOOLEAN : r = Ok(b.p, v)
      BY <2>1, OkFields
    <2>2. CASE \E f \in Failing(b.p) : r = Ok(f, FALSE)
      BY <2>2 DEF Ok
    <2> QED
      BY <2>1, <2>2 DEF read_or_clear, Alive
  <1>9. a.v \in Nat /\ b.v \in Nat
    BY <1>5, <1>6
  <1>10. Prepared(c, M, I, r.p, TaperDue(c, b.v, a.v), n)
    BY <1>4, <1>7, <1>8, <1>9, NearFloatOutcome
  <1>11. o.p = n.p /\ o.ok /\ o.ok \in BOOLEAN
    BY <1>4, OkFields
  <1> QED
    BY <1>5, <1>6, <1>7, <1>10, <1>11 DEF Prepared, Clean

\* On an input that admits a mode the battery channel is credible, so a battery near its float
\* voltage makes the taper due.
LEMMA TaperIsDue ==
    ASSUME NEW c, c.cfg_float \in Nat, c.cfg_iin > VBAT_TAPER_IIN_UA,
           NEW vin_uv \in Nat, NEW vbat_uv \in Nat, charge_mode(vin_uv, vbat_uv) # NoMode,
           vbat_uv >= c.cfg_float - VBAT_TAPER_MARGIN_UV
    PROVE  TaperDue(c, vin_uv, vbat_uv)
  <1>1. ~vbat_tracks_converter_rail(vbat_uv, vin_uv)
    <2>1. CASE charge_mode(vin_uv, vbat_uv) = "Switching"
      <3>1. vin_uv >= 2 * vbat_uv + SWITCHING_HEADROOM_UV
        BY <2>1, Admission
      <3>2. ~(SatSub(vin_uv \div 2, VBAT_VIN_HALF_SLACK_UV) <= vbat_uv)
        BY <3>1, SMT DEF SatSub, SWITCHING_HEADROOM_UV, VBAT_VIN_HALF_SLACK_UV
      <3> QED
        BY <3>2 DEF vbat_tracks_converter_rail, vin_is_doubled_vbat
    <2>2. CASE charge_mode(vin_uv, vbat_uv) = "Bypass"
      <3>1. Window(vin_uv)
        BY <2>2, Admission
      <3> QED
        BY <3>1 DEF Window, vbat_tracks_converter_rail, ELEVATED_MIN_VIN_UV, SWITCHING_MIN_VIN_UV
    <2> QED
      BY <2>1, <2>2, Admission
  <1>2. vbat_uv >= SatSub(c.cfg_float, VBAT_TAPER_MARGIN_UV)
    BY SMT DEF SatSub, VBAT_TAPER_MARGIN_UV
  <1> QED
    BY <1>1, <1>2 DEF TaperDue, vbat_near_float_with_vin

-----------------------------------------------------------------------------
(* The recovery of a refused 5 V start.                                    *)

\* The mode is commanded and the status read back.
LEMMA AskedReached ==
    ASSUME NEW c, NEW M, NEW I, NEW p, Within(c, M, I, p), "Bypass" \in M,
           NEW a \in set_op_mode(p, "Bypass"), NEW t,
           IF a.ok THEN t \in settle_and_read_status(a.p) ELSE t = Err(a.p)
    PROVE  Reached(c, M, I, p, "Bypass", p.iin, t)
  <1>1. "Bypass" \in M \cap CommandModes
    BY DEF CommandModes
  <1>2. Reached(c, M, I, p, "Bypass", p.iin, a)
    BY <1>1, ModeReached
  <1>3. a.ok => Reached(c, M, I, a.p, a.p.ctrl, a.p.iin, t)
    <2>1. Within(c, M, I, a.p)
      BY <1>2 DEF Reached
    <2> QED
      BY <2>1, SettleOutcome DEF Reached
  <1>4. a.ok => Reached(c, M, I, a.p, "Bypass", p.iin, t)
    BY <1>2, <1>3 DEF Reached
  <1> QED
    BY <1>2, <1>4, Sequel

\* Stage 3 ends with 1:1 commanded, and puts the masks back if the chip still refuses it.
LEMMA MaskedOutcome ==
    ASSUME NEW c, NEW M, NEW I, NEW p, Within(c, M, I, p), "Bypass" \in M,
           NEW o \in MaskedBypass(p)
    PROVE  /\ Within(c, M, I, o.p) /\ o.ok \in BOOLEAN
           /\ Clean(o) => /\ p.bus = "up" /\ o.p.ctrl = "Bypass" /\ o.p.iin = p.iin
                          /\ ~o.ok => o.p.masks = {}
  <1> DEFINE third   == [p EXCEPT !.bypass_stage = 3]
             masked  == Update(third, [third EXCEPT !.masks = third.masks \cup FiveVoltMask])
             armed   == Then(masked, LAMBDA a : clear_latched_faults(a.p))
             asked   == After(armed, LAMBDA a : set_op_mode(a.p, "Bypass"))
             settled == Then(asked, LAMBDA a : settle_and_read_status(a.p))
  <1>1. PICK t \in settled :
            IF t.ok
            THEN IF t.v = "Bypass" THEN o = Ok([t.p EXCEPT !.state = "Configured"], t.v)
                 ELSE \E q \in Update(t.p, [t.p EXCEPT !.masks = t.p.masks \ FiveVoltMask]) :
                          o = Err(q.p)
            ELSE o = Err(t.p)
    BY DEF MaskedBypass, Then
  <1>2. PICK k \in asked : IF k.ok THEN t \in settle_and_read_status(k.p) ELSE t = Err(k.p)
    BY DEF Then
  <1>3. PICK b \in armed : k \in set_op_mode(b.p, "Bypass")
    BY DEF After
  <1>4. PICK a \in masked : IF a.ok THEN b \in clear_latched_faults(a.p) ELSE b = Err(a.p)
    BY DEF Then
  <1> HIDE DEF armed, asked, settled
  <1>5. Within(c, M, I, third) /\ third.bus = p.bus /\ third.ctrl = p.ctrl /\ third.iin = p.iin
    BY DEF Within, Pumps
  <1> HIDE DEF third
  <1>6. Reached(c, M, I, third, third.ctrl, third.iin, a)
    <2>1. third.masks \cup FiveVoltMask \in SUBSET FiveVoltMask
      BY <1>5, FloatType
    <2> QED
      BY <1>5, <2>1, MasksReached
  <1> HIDE DEF masked
  <1>7. Passed(c, M, I, third, third.ctrl, third.iin, b)
    <2>1. Within(c, M, I, a.p)
      BY <1>6 DEF Reached
    <2>2. CASE a.ok
      <3>1. Passed(c, M, I, a.p, a.p.ctrl, a.p.iin, b)
        BY <1>4, <2>1, <2>2, ClearPasses
      <3> QED
        BY <1>6, <3>1, ReachedPasses, QuietPassage
    <2>3. CASE ~a.ok
      BY <1>4, <1>6, <2>3, Sequel, ReachedPasses
    <2> QED
      BY <2>2, <2>3
  <1>8. Within(c, M, I, b.p)
    BY <1>7 DEF Passed
  <1>9. Reached(c, M, I, b.p, "Bypass", b.p.iin, t)
    BY <1>2, <1>3, <1>8, AskedReached
  <1>10. /\ Within(c, M, I, t.p) /\ t.ok \in BOOLEAN
         /\ Clean(t) => /\ t.ok /\ p.bus = "up"
                        /\ t.p.ctrl = "Bypass" /\ t.p.iin = p.iin
    BY <1>5, <1>7, <1>9 DEF Passed, Reached, Clean
  <1>11. CASE ~t.ok
    BY <1>1, <1>10, <1>11, ErrFields DEF Clean
  <1>12. CASE t.ok /\ t.v = "Bypass"
    <2> DEFINE q == [t.p EXCEPT !.state = "Configured"]
    <2>1. "Configured" \in PumpStates \ {"Closed"}
      BY DEF PumpStates
    <2>2. Within(c, M, I, q) /\ q.bus = t.p.bus /\ q.ctrl = t.p.ctrl /\ q.iin = t.p.iin
      BY <1>10, <2>1, SetState
    <2>3. o = Ok(q, t.v)
      BY <1>1, <1>12
    <2> HIDE DEF q
    <2>4. o.p = q /\ o.ok /\ o.ok \in BOOLEAN
      BY <2>3, OkFields
    <2> QED
      BY <1>10, <2>2, <2>4 DEF Clean
  <1>13. CASE t.ok /\ t.v # "Bypass"
    <2> DEFINE kept == t.p.masks \ FiveVoltMask
    <2>1. PICK q \in Update(t.p, [t.p EXCEPT !.masks = kept]) : o = Err(q.p)
      BY <1>1, <1>13
    <2>2. kept \in SUBSET FiveVoltMask /\ kept = {}
      BY <1>10, FloatType
    <2> HIDE DEF kept
    <2>3. Reached(c, M, I, t.p, t.p.ctrl, t.p.iin, q) /\ (q.ok => q.p.masks = {})
      <3> DEFINE r == t.p
      <3>1. Within(c, M, I, r)
        BY <1>10
      <3>2. kept \in SUBSET FiveVoltMask
        BY <2>2
      <3>3. q \in Update(r, [r EXCEPT !.masks = kept])
        BY <2>1
      <3> HIDE DEF r
      <3>4. Reached(c, M, I, r, r.ctrl, r.iin, q) /\ (q.ok => q.p.masks = kept)
        BY <3>1, <3>2, <3>3, MasksReached
      <3> QED
        BY <2>2, <3>4 DEF r
    <2>4. o.p = q.p /\ o.ok \in BOOLEAN
      BY <2>1, ErrFields
    <2> QED
      BY <1>10, <2>3, <2>4 DEF Reached, Clean
  <1> QED
    BY <1>10, <1>11, <1>12, <1>13

\* What the five-volt start needs room for: it may end idle or in 1:1, at the configured, the
\* tapered or the reset limit.
Room(c, M, I) ==
    /\ "Standby" \in M /\ "Bypass" \in M
    /\ Setpoint(c) \in I /\ TaperCode(c) \in I /\ PorIin \in I

\* A reset, reconfigured and idle pump.
LEMMA ReconfiguredOutcome ==
    ASSUME NEW c, NEW M, NEW I, NEW p, Within(c, M, I, p), Configured(c), Room(c, M, I),
           NEW r \in soft_reset(p), NEW o \in configure([r.p EXCEPT !.bypass_stage = 2])
    PROVE  /\ Within(c, M, I, o.p)
           /\ Clean(o) => p.bus = "up" /\ o.p.ctrl = "Standby" /\ o.p.iin = Setpoint(c)
  <1> DEFINE s == [r.p EXCEPT !.bypass_stage = 2]
  <1>1. Within(c, M, I, r.p) /\ (Clean(r) => p.bus = "up")
    <2>1. Within(c, M, I, r.p) \/ Within(c, {"Standby"}, {PorIin}, r.p)
      BY ResetOutcome
    <2>2. {"Standby"} \subseteq M /\ {PorIin} \subseteq I
      BY DEF Room
    <2>3. Within(c, M, I, r.p)
      BY <2>1, <2>2, Wider
    <2> QED
      BY <2>3, ResetOutcome
  <1>2. Within(c, M, I, s) /\ s.bus = r.p.bus
    BY <1>1 DEF Within, Pumps
  <1>3. o \in configure(s)
    OBVIOUS
  <1> HIDE DEF s
  <1>4. Reached(c, M, I, s, "Standby", Setpoint(c), o)
    BY <1>2, <1>3, ConfigureOutcome DEF Room
  <1> QED
    BY <1>1, <1>2, <1>4 DEF Reached, Clean

\* The recovery by reset ends with 1:1 commanded at the configured or the tapered limit; if
\* the chip still refuses, at the configured one and with every protection back.
LEMMA ResetBypassOutcome ==
    ASSUME NEW c, NEW M, NEW I, NEW p, Within(c, M, I, p), Configured(c), Room(c, M, I),
           NEW vinNow \in Vins \cup {0}, NEW vin_uv \in Nat, NEW vbat_uv \in Nat, Window(vin_uv),
           NEW o \in ResetBypass(p, vinNow, vin_uv, vbat_uv)
    PROVE  /\ Within(c, M, I, o.p) /\ o.ok \in BOOLEAN
           /\ Clean(o) => /\ p.bus = "up" /\ o.p.ctrl = "Bypass"
                          /\ o.p.iin \in {Setpoint(c), TaperCode(c)}
                          /\ ~o.ok => o.p.iin = Setpoint(c) /\ o.p.masks = {}
  <1> DEFINE por     == [p EXCEPT !.por_vin = vinNow]
             reset   == soft_reset(por)
             profile == After(reset, LAMBDA a : configure([a.p EXCEPT !.bypass_stage = 2]))
             sampled == After(profile, LAMBDA a : sample_mode(a.p, vin_uv, vbat_uv))
             asked   == Then(sampled, LAMBDA a :
                            IF a.v # "Bypass" THEN {Err(a.p)} ELSE set_op_mode(a.p, "Bypass"))
             settled == Then(asked, LAMBDA a : settle_and_read_status(a.p))
  <1>1. PICK t \in settled :
            IF t.ok
            THEN IF t.v # "Bypass" THEN o \in MaskedBypass(t.p)
                 ELSE \E q \in prepare_near_float_for_charge(
                                   [t.p EXCEPT !.state = "Configured"], vin_uv, vbat_uv, FALSE) :
                          o = Ok(q.p, "Bypass")
            ELSE o = Err(t.p)
    BY DEF ResetBypass, Then
  <1>2. PICK k \in asked : IF k.ok THEN t \in settle_and_read_status(k.p) ELSE t = Err(k.p)
    BY DEF Then
  <1>3. PICK s \in sampled :
            IF s.ok THEN IF s.v # "Bypass" THEN k = Err(s.p) ELSE k \in set_op_mode(s.p, "Bypass")
            ELSE k = Err(s.p)
    BY DEF Then
  <1>4. PICK b \in profile : s \in sample_mode(b.p, vin_uv, vbat_uv)
    BY DEF After
  <1>5. PICK a \in reset : b \in configure([a.p EXCEPT !.bypass_stage = 2])
    BY DEF After
  <1> HIDE DEF profile, sampled, asked, settled
  <1>6. Within(c, M, I, por) /\ por.bus = p.bus
    BY DEF Within, Pumps
  <1> HIDE DEF por
  <1>7. Within(c, M, I, b.p) /\ (Clean(b) => p.bus = "up" /\ b.p.iin = Setpoint(c))
    BY <1>5, <1>6, ReconfiguredOutcome
  <1> HIDE DEF reset
  <1>8. /\ Within(c, M, I, s.p) /\ s.ok
        /\ Clean(s) => s.p = b.p /\ s.v = charge_mode(vin_uv, vbat_uv)
    BY <1>4, <1>7, SampleOutcome
  <1>9. charge_mode(vin_uv, vbat_uv) = "Bypass" /\ "Bypass" \in M
    BY Admission DEF Room
  <1>10. CASE s.v # "Bypass"
    <2>1. k.p = s.p /\ ~k.ok
      BY <1>3, <1>8, <1>10, ErrFields
    <2>2. t.p = k.p /\ ~t.ok
      BY <1>2, <2>1, ErrFields
    <2>3. o.p = t.p /\ o.ok \in BOOLEAN
      BY <1>1, <2>2, ErrFields
    <2> QED
      BY <1>8, <1>9, <1>10, <2>1, <2>2, <2>3 DEF Clean
  <1>11. CASE s.v = "Bypass"
    <2>1. k \in set_op_mode(s.p, "Bypass")
      BY <1>3, <1>8, <1>11
    <2>2. Reached(c, M, I, s.p, "Bypass", s.p.iin, t)
      BY <1>2, <1>8, <1>9, <2>1, AskedReached
    <2>3. /\ Within(c, M, I, t.p) /\ t.ok \in BOOLEAN
          /\ Clean(t) => t.ok /\ p.bus = "up" /\ t.p.ctrl = "Bypass" /\ t.p.iin = Setpoint(c)
      BY <1>7, <1>8, <2>2 DEF Reached, Clean
    <2>4. CASE ~t.ok
      BY <1>1, <2>3, <2>4, ErrFields DEF Clean
    <2>5. CASE t.ok /\ t.v # "Bypass"
      <3>1. o \in MaskedBypass(t.p)
        BY <1>1, <2>5
      <3>2. /\ Within(c, M, I, o.p) /\ o.ok \in BOOLEAN
            /\ Clean(o) => /\ t.p.bus = "up" /\ o.p.ctrl = "Bypass" /\ o.p.iin = t.p.iin
                           /\ ~o.ok => o.p.masks = {}
        BY <1>9, <2>3, <3>1, MaskedOutcome
      <3> QED
        BY <2>3, <3>2 DEF Clean
    <2>6. CASE t.ok /\ t.v = "Bypass"
      <3> DEFINE r == [t.p EXCEPT !.state = "Configured"]
      <3>1. "Configured" \in PumpStates \ {"Closed"}
        BY DEF PumpStates
      <3>2. Within(c, M, I, r) /\ r.bus = t.p.bus /\ r.ctrl = t.p.ctrl /\ r.iin = t.p.iin
        BY <2>3, <3>1, SetState
      <3>3. PICK q \in prepare_near_float_for_charge(r, vin_uv, vbat_uv, FALSE) : o = Ok(q.p, "Bypass")
        BY <1>1, <2>6
      <3> HIDE DEF r
      <3>4. Prepared(c, M, I, r, TaperDue(c, vin_uv, vbat_uv), q)
        BY <3>2, <3>3, PrepareOutcome DEF Room
      <3>5. o.p = q.p /\ o.ok /\ o.ok \in BOOLEAN
        BY <3>3, OkFields
      <3> QED
        BY <2>3, <3>2, <3>4, <3>5 DEF Prepared, Clean
    <2> QED
      BY <2>3, <2>4, <2>5, <2>6
  <1> QED
    BY <1>10, <1>11

\* The recovery either finds its reset spent and leaves the pump alone, or resets it.
LEMMA RecoverOutcome ==
    ASSUME NEW c, NEW M, NEW I, NEW p, Within(c, M, I, p), Configured(c), Room(c, M, I),
           NEW vin_uv \in Vins, NEW vbat_uv \in Nat, Window(vin_uv), NEW vfaults,
           NEW o \in recover_5v_bypass(p, vin_uv, vbat_uv, vfaults)
    PROVE  /\ Within(c, M, I, o.p) /\ o.ok \in BOOLEAN
           /\ Clean(o) =>
                  /\ p.bus = "up"
                  /\ \/ ~o.ok /\ o.p = p
                     \/ /\ o.p.ctrl = "Bypass" /\ o.p.iin \in {Setpoint(c), TaperCode(c)}
                        /\ ~o.ok => o.p.iin = Setpoint(c) /\ o.p.masks = {}
  <1> DEFINE faults(q) == IF q.por_vin = NoValue THEN {Ok(q, FALSE)} ELSE read_or_clear(q, {vfaults})
             answer(a, b) == IF reset_budget_spent(p.por_vin, a.v, b.v)
                             THEN {Err(q.p) : q \in Read(b.p, {"done"})}
                             ELSE ResetBypass(b.p, a.v, vin_uv, vbat_uv)
             answers(a) == UNION {answer(a, b) : b \in faults(a.p)}
  <1>1. o \in UNION {answers(a) : a \in adc_or_zero(p, vin_uv)}
    BY DEF recover_5v_bypass
  <1> HIDE DEF answers
  <1>2. PICK a \in adc_or_zero(p, vin_uv) : o \in answers(a)
    BY <1>1
  <1> HIDE DEF answer, faults
  <1>3. PICK b \in faults(a.p) : o \in answer(a, b)
    BY <1>2 DEF answers
  <1>4. vin_uv \in Nat
    BY VoltageAssumption
  <1>5. Within(c, M, I, a.p) /\ a.v \in {vin_uv, 0} /\ (Clean(a) => a.p = p)
    BY <1>4, AdcOrZero
  <1>6. Within(c, M, I, b.p) /\ (Clean(b) => b.p = a.p)
    <2>1. CASE a.p.por_vin = NoValue
      <3>1. b = Ok(a.p, FALSE)
        BY <2>1 DEF faults
      <3> QED
        BY <1>5, <3>1, Zenon DEF Ok
    <2>2. CASE a.p.por_vin # NoValue
      <3>1. b \in read_or_clear(a.p, {vfaults})
        BY <2>2 DEF faults
      <3> QED
        BY <1>5, <3>1, FaultOutcome
    <2> QED
      BY <2>1, <2>2
  <1>7. CASE \E q \in Read(b.p, {"done"}) : o = Err(q.p)
    <2>1. PICK q \in Read(b.p, {"done"}) : o = Err(q.p)
      BY <1>7
    <2>2. Within(c, M, I, q.p) /\ q.ok \in BOOLEAN /\ (q.ok => q.p = b.p) /\ (~q.ok => ~Clean(q))
      BY <1>6, ReadOutcome
    <2>3. o.p = q.p /\ ~o.ok /\ o.ok \in BOOLEAN
      BY <2>1, ErrFields
    <2> QED
      BY <1>5, <1>6, <2>2, <2>3 DEF Clean
  <1>8. CASE o \in ResetBypass(b.p, a.v, vin_uv, vbat_uv)
    <2>1. a.v \in Vins \cup {0}
      BY <1>5
    <2>2. /\ Within(c, M, I, o.p) /\ o.ok \in BOOLEAN
          /\ Clean(o) => /\ b.p.bus = "up" /\ o.p.ctrl = "Bypass"
                         /\ o.p.iin \in {Setpoint(c), TaperCode(c)}
                         /\ ~o.ok => o.p.iin = Setpoint(c) /\ o.p.masks = {}
      BY <1>4, <1>6, <1>8, <2>1, ResetBypassOutcome
    <2> QED
      BY <1>5, <1>6, <2>2 DEF Clean
  <1> QED
    BY <1>3, <1>7, <1>8 DEF answer

\* What a start in 1:1 leaves, if every access went through: 1:1 is commanded; an accepted one
\* is tapered where that is due, a refused one has its protections unless it never masked them.
StartedBypass(c, p, due, o) ==
    /\ p.bus = "up" /\ o.p.ctrl = "Bypass"
    /\ o.ok => o.p.iin \in {p.iin, Setpoint(c), TaperCode(c)} /\ (due => o.p.iin = TaperCode(c))
    /\ ~o.ok => o.p.iin \in {p.iin, Setpoint(c)} /\ (o.p.bypass_stage = 3 => o.p.masks = {})

\* A 1:1 start leaves just that, and within the window only.
LEMMA StartBypassOutcome ==
    ASSUME NEW c, NEW M, NEW I, NEW p, Within(c, M, I, p), Configured(c), Room(c, M, I),
           NEW vin_uv \in Vins, NEW vbat_uv \in Nat, Window(vin_uv), NEW vfaults,
           NEW o \in StartBypass(p, vin_uv, vbat_uv, vfaults)
    PROVE  /\ Within(c, M, I, o.p) /\ o.ok \in BOOLEAN
           /\ o.ok => o.v = "Bypass"
           /\ ~o.ok => o.v = "err"
           /\ Clean(o) => StartedBypass(c, p, TaperDue(c, vin_uv, vbat_uv), o)
  <1> DEFINE first   == [p EXCEPT !.bypass_stage = 1]
             tried   == enable_bypass(first, vin_uv, vbat_uv)
             started == UNION {IF a.ok THEN {a} ELSE recover_5v_bypass(a.p, vin_uv, vbat_uv, vfaults)
                               : a \in tried}
  <1>1. PICK s \in started :
            IF s.ok
            THEN \E q \in prepare_near_float_for_charge(
                              [s.p EXCEPT !.state = "Configured"], vin_uv, vbat_uv, FALSE) :
                     o = Ok(q.p, "Bypass")
            ELSE o = Err(s.p)
    BY DEF StartBypass, Then
  <1>2. PICK a \in tried : IF a.ok THEN s = a ELSE s \in recover_5v_bypass(a.p, vin_uv, vbat_uv, vfaults)
    OBVIOUS
  <1> HIDE DEF started
  <1>3. vin_uv \in Nat
    BY VoltageAssumption
  <1>4. /\ Within(c, M, I, first) /\ first.bus = p.bus /\ first.iin = p.iin
        /\ first.bypass_stage = 1
    BY DEF Within, Pumps
  <1> HIDE DEF first
  <1>5. "Bypass" \in M
    BY DEF Room
  <1>6. /\ Within(c, M, I, a.p) /\ a.ok \in BOOLEAN
        /\ Clean(a) => first.bus = "up" /\ a.p.ctrl = "Bypass" /\ Alike(first, a.p)
    BY <1>3, <1>4, <1>5, BypassOutcome
  <1> HIDE DEF tried
  <1>7. /\ Within(c, M, I, s.p) /\ s.ok \in BOOLEAN
        /\ Clean(s) => /\ p.bus = "up" /\ s.p.ctrl = "Bypass"
                       /\ s.p.iin \in {p.iin, Setpoint(c), TaperCode(c)}
                       /\ ~s.ok => /\ s.p.iin \in {p.iin, Setpoint(c)}
                                   /\ s.p.bypass_stage = 3 => s.p.masks = {}
    <2>1. CASE a.ok
      BY <1>2, <1>4, <1>6, <2>1 DEF Alike, Clean
    <2>2. CASE ~a.ok
      <3>1. s \in recover_5v_bypass(a.p, vin_uv, vbat_uv, vfaults)
        BY <1>2, <2>2
      <3>2. /\ Within(c, M, I, s.p) /\ s.ok \in BOOLEAN
            /\ Clean(s) =>
                   /\ a.p.bus = "up"
                   /\ \/ ~s.ok /\ s.p = a.p
                      \/ /\ s.p.ctrl = "Bypass" /\ s.p.iin \in {Setpoint(c), TaperCode(c)}
                         /\ ~s.ok => s.p.iin = Setpoint(c) /\ s.p.masks = {}
        BY <1>6, <3>1, RecoverOutcome
      <3> QED
        BY <1>4, <1>6, <3>2 DEF Alike, Clean
    <2> QED
      BY <1>6, <2>1, <2>2
  <1>8. CASE ~s.ok
    <2>1. o.p = s.p /\ ~o.ok /\ o.ok \in BOOLEAN /\ o.v = "err"
      BY <1>1, <1>8, ErrFields
    <2> QED
      BY <1>7, <1>8, <2>1 DEF StartedBypass, Clean
  <1>9. CASE s.ok
    <2> DEFINE r == [s.p EXCEPT !.state = "Configured"]
    <2>1. "Configured" \in PumpStates \ {"Closed"}
      BY DEF PumpStates
    <2>2. Within(c, M, I, r) /\ r.bus = s.p.bus /\ r.ctrl = s.p.ctrl /\ r.iin = s.p.iin
      BY <1>7, <2>1, SetState
    <2>3. PICK q \in prepare_near_float_for_charge(r, vin_uv, vbat_uv, FALSE) : o = Ok(q.p, "Bypass")
      BY <1>1, <1>9
    <2> HIDE DEF r
    <2>4. Prepared(c, M, I, r, TaperDue(c, vin_uv, vbat_uv), q)
      BY <1>3, <2>2, <2>3, PrepareOutcome DEF Room
    <2>5. o.p = q.p /\ o.ok /\ o.ok \in BOOLEAN /\ o.v = "Bypass"
      BY <2>3, OkFields
    <2> QED
      BY <1>7, <2>2, <2>4, <2>5 DEF Prepared, StartedBypass, Clean
  <1> QED
    BY <1>7, <1>8, <1>9

-----------------------------------------------------------------------------
(* Starting and stopping a charge.                                         *)

\* What a start in 2:1 leaves, if every access went through: 2:1 if it was accepted, tapered
\* where that is due, and an idle pump if it was refused.
StartedSwitching(c, p, due, o) ==
    /\ p.bus = "up" /\ o.p.iin \in {p.iin, TaperCode(c)}
    /\ o.ok => o.p.ctrl = "Switching" /\ (due => o.p.iin = TaperCode(c))
    /\ ~o.ok => o.p.ctrl = "Standby"

\* A 2:1 start leaves just that.
LEMMA StartSwitchingOutcome ==
    ASSUME NEW c, NEW M, NEW I, NEW p, Within(c, M, I, p), Configured(c), TaperCode(c) \in I,
           "Standby" \in M, "Switching" \in M, NEW vin_uv \in Nat, NEW vbat_uv \in Nat,
           NEW o \in StartSwitching(p, vin_uv, vbat_uv)
    PROVE  /\ Within(c, M, I, o.p) /\ o.ok \in BOOLEAN
           /\ o.ok => o.v = "Switching"
           /\ ~o.ok => o.v = "err"
           /\ Clean(o) => StartedSwitching(c, p, TaperDue(c, vin_uv, vbat_uv), o)
  <1> DEFINE near    == prepare_near_float_for_charge(p, vin_uv, vbat_uv, TRUE)
             cleared == After(near, LAMBDA a : clear_latched_faults(a.p))
             masked  == After(cleared, LAMBDA a :
                            Update(a.p, [a.p EXCEPT !.masks = @ \cup {"VIN_OV"}]))
             started == After(masked, LAMBDA a : enable_switching(a.p))
             due     == TaperDue(c, vin_uv, vbat_uv)
  <1>1. PICK s \in started : IF s.ok THEN o = s ELSE \E q \in standby(s.p) : o = Err(q.p)
    <2>1. o \in UNION {IF s.ok THEN {s} ELSE {Err(q.p) : q \in standby(s.p)} : s \in started}
      BY DEF StartSwitching
    <2> HIDE DEF started
    <2> QED
      BY <2>1
  <1>2. PICK k \in masked : s \in enable_switching(k.p)
    BY DEF After
  <1>3. PICK b \in cleared : k \in Update(b.p, [b.p EXCEPT !.masks = b.p.masks \cup {"VIN_OV"}])
    BY DEF After
  <1>4. PICK a \in near : b \in clear_latched_faults(a.p)
    BY DEF After
  <1> HIDE DEF cleared, masked, started, due
  <1>5. Prepared(c, M, I, p, due, a)
    BY PrepareOutcome DEF due
  <1> HIDE DEF near
  <1>6. Within(c, M, I, a.p)
    BY <1>5 DEF Prepared
  <1>7. Passed(c, M, I, a.p, a.p.ctrl, a.p.iin, b)
    BY <1>4, <1>6, ClearPasses
  <1>8. Within(c, M, I, b.p)
    BY <1>7 DEF Passed
  <1>9. Passed(c, M, I, b.p, b.p.ctrl, b.p.iin, k)
    <2>1. b.p.masks \cup {"VIN_OV"} \in SUBSET FiveVoltMask
      BY <1>8, FloatType DEF FiveVoltMask
    <2> QED
      BY <1>3, <1>8, <2>1, MasksReached, ReachedPasses
  <1>10. Within(c, M, I, k.p)
    BY <1>9 DEF Passed
  <1>11. /\ Within(c, M, I, s.p) /\ s.ok \in BOOLEAN
         /\ s.ok => s.v = "Switching"
         /\ Clean(s) => k.p.bus = "up" /\ s.p.ctrl = "Switching" /\ Alike(k.p, s.p)
    BY <1>2, <1>10, SwitchingOutcome
  <1>12. Clean(s) => /\ p.bus = "up" /\ s.p.ctrl = "Switching" /\ s.p.iin \in {p.iin, TaperCode(c)}
                     /\ due => s.p.iin = TaperCode(c)
    BY <1>5, <1>7, <1>9, <1>11 DEF Prepared, Passed, Alike, Clean
  <1>13. CASE s.ok
    <2>1. o = s
      BY <1>1, <1>13
    <2> QED
      BY <1>11, <1>12, <1>13, <2>1 DEF StartedSwitching, due
  <1>14. CASE ~s.ok
    <2>1. PICK q \in set_op_mode(s.p, "Standby") : o = Err(q.p)
      BY <1>1, <1>14 DEF standby
    <2>2. "Standby" \in M \cap CommandModes
      BY DEF CommandModes
    <2>3. Reached(c, M, I, s.p, "Standby", s.p.iin, q)
      BY <1>11, <2>1, <2>2, ModeReached
    <2>4. o.p = q.p /\ ~o.ok /\ o.ok \in BOOLEAN /\ o.v = "err"
      BY <2>1, ErrFields
    <2> QED
      BY <1>12, <2>3, <2>4 DEF Reached, StartedSwitching, Clean
  <1> QED
    BY <1>11, <1>13, <1>14

\* The modes and setpoints a start of p may leave, whatever accesses fail.
StartModes(p, vin_uv) ==
    {p.ctrl, "Standby"} \cup (IF vin_uv >= ELEVATED_MIN_VIN_UV THEN {"Switching"} ELSE {})
                        \cup (IF Window(vin_uv) THEN {"Bypass"} ELSE {})
StartIins(p) == {p.iin, Setpoint(p), TaperCode(p), PorIin}

\* What it leaves if none fails: what the admitted mode does, or an idle pump if there is none.
Started(p, vin_uv, vbat_uv, o) ==
    LET mode == charge_mode(vin_uv, vbat_uv)
        due  == TaperDue(p, vin_uv, vbat_uv)
    IN  /\ p.bus = "up"
        /\ mode = "Switching" => StartedSwitching(p, p, due, o) /\ (o.ok => o.v = "Switching")
        /\ mode = "Bypass" => StartedBypass(p, p, due, o) /\ (o.ok => o.v = "Bypass")
        /\ mode = NoMode => ~o.ok /\ o.p.ctrl = "Standby" /\ o.p.iin = p.iin
        /\ ~o.ok => o.v = "err"

\* A start takes the mode the input admits, and leaves nothing the input does not allow.
LEMMA ChargeOnOutcome ==
    ASSUME NEW p \in Pumps, p.state # "Closed", Configured(p), NEW vin_uv \in Vins,
           NEW vbat_uv \in Nat, NEW vfaults, NEW o \in charge_on(p, vin_uv, vbat_uv, vfaults)
    PROVE  /\ Within(p, StartModes(p, vin_uv), StartIins(p), o.p)
           /\ o.ok \in BOOLEAN
           /\ Clean(o) => Started(p, vin_uv, vbat_uv, o)
  <1> DEFINE M       == StartModes(p, vin_uv)
             I       == StartIins(p)
             mode    == charge_mode(vin_uv, vbat_uv)
             rcpOff  == Touch(p)
             sampled == Then(rcpOff, LAMBDA a : sample_mode(a.p, vin_uv, vbat_uv))
             wdtOff(a) == {Ok(q.p, a.v) : q \in IF a.v = NoMode THEN {a} ELSE Touch(a.p)}
             Start(a) == IF a.v = NoMode THEN {Err(q.p) : q \in standby(a.p)}
                         ELSE IF a.v = "Switching"
                         THEN StartSwitching([a.p EXCEPT !.bypass_stage = 0], vin_uv, vbat_uv)
                         ELSE StartBypass(a.p, vin_uv, vbat_uv, vfaults)
             ready   == Then(sampled, wdtOff)
  <1>1. PICK w \in ready : IF w.ok THEN o \in Start(w) ELSE o = Err(w.p)
    <2>1. o \in Then(ready, Start)
      BY DEF charge_on
    <2> HIDE DEF Start, ready
    <2> QED
      BY <2>1 DEF Then
  <1>2. PICK s \in sampled : IF s.ok THEN w \in wdtOff(s) ELSE w = Err(s.p)
    <2> HIDE DEF wdtOff, sampled
    <2> QED
      BY DEF Then
  <1>3. PICK r \in rcpOff : IF r.ok THEN s \in sample_mode(r.p, vin_uv, vbat_uv) ELSE s = Err(r.p)
    BY DEF Then
  <1> HIDE DEF sampled, ready, Start, wdtOff
  <1>4. /\ Within(p, M, I, p) /\ "Standby" \in M /\ p.ctrl \in M
        /\ vin_uv >= ELEVATED_MIN_VIN_UV => "Switching" \in M
        /\ Window(vin_uv) => Room(p, M, I)
        /\ TaperCode(p) \in I
    BY DEF Within, StartModes, StartIins, Room
  <1> HIDE DEF M, I
  <1>5. vin_uv \in Nat
    BY VoltageAssumption
  <1>6. Within(p, M, I, r.p) /\ r.ok \in BOOLEAN /\ (r.ok => r.p = p) /\ (~r.ok => ~Clean(r))
    BY <1>4, TouchOutcome
  <1> HIDE DEF rcpOff
  <1>7. CASE ~r.ok
    <2>1. s.p = r.p /\ ~s.ok
      BY <1>3, <1>7, ErrFields
    <2>2. w.p = s.p /\ ~w.ok
      BY <1>2, <2>1, ErrFields
    <2>3. o.p = w.p /\ o.ok \in BOOLEAN
      BY <1>1, <2>2, ErrFields
    <2> QED
      BY <1>6, <1>7, <2>1, <2>2, <2>3 DEF Clean, M, I
  <1>8. CASE r.ok
    <2>1. /\ Within(p, M, I, s.p) /\ s.ok
          /\ s.v = "Bypass" => Window(vin_uv)
          /\ s.v = "Switching" => vin_uv >= ELEVATED_MIN_VIN_UV
          /\ s.v \in {"Switching", "Bypass", NoMode}
          /\ Clean(s) => s.p = p /\ s.v = mode
      BY <1>3, <1>5, <1>6, <1>8, SampleOutcome
    <2>2. /\ Within(p, M, I, w.p) /\ w.ok /\ w.v = s.v
          /\ Clean(w) => w.p = p /\ w.v = mode
      <3>1. PICK q \in (IF s.v = NoMode THEN {s} ELSE Touch(s.p)) : w = Ok(q.p, s.v)
        BY <1>2, <2>1 DEF wdtOff
      <3>2. Within(p, M, I, q.p) /\ (Clean(q) => q.p = s.p)
        <4>1. CASE s.v = NoMode
          BY <2>1, <3>1, <4>1
        <4>2. CASE s.v # NoMode
          <5>1. q \in Touch(s.p)
            BY <3>1, <4>2
          <5> QED
            BY <2>1, <5>1, TouchOutcome
        <4> QED
          BY <4>1, <4>2
      <3>3. w.p = q.p /\ w.ok /\ w.v = s.v
        BY <3>1, OkFields
      <3> QED
        BY <2>1, <3>2, <3>3 DEF Clean
    <2>3. mode \in {"Switching", "Bypass", NoMode}
      BY <1>5, Admission
    <2> HIDE DEF mode
    <2>4. CASE w.v = NoMode
      <3>1. PICK q \in set_op_mode(w.p, "Standby") : o = Err(q.p)
        BY <1>1, <2>2, <2>4 DEF Start, standby
      <3>2. "Standby" \in M \cap CommandModes
        BY <1>4 DEF CommandModes
      <3>3. Reached(p, M, I, w.p, "Standby", w.p.iin, q)
        BY <2>2, <3>1, <3>2, ModeReached
      <3>4. o.p = q.p /\ ~o.ok /\ o.ok \in BOOLEAN /\ o.v = "err"
        BY <3>1, ErrFields
      <3> QED
        BY <2>2, <2>4, <3>3, <3>4 DEF Reached, Started, Clean, mode, M, I, NoMode
    <2>5. CASE w.v = "Switching"
      <3> DEFINE q == [w.p EXCEPT !.bypass_stage = 0]
      <3>1. o \in StartSwitching(q, vin_uv, vbat_uv)
        BY <1>1, <2>2, <2>5 DEF Start, NoMode
      <3>2. Within(p, M, I, q) /\ q.bus = w.p.bus /\ q.iin = w.p.iin
        BY <2>2 DEF Within, Pumps
      <3> HIDE DEF q
      <3>3. /\ Within(p, M, I, o.p) /\ o.ok \in BOOLEAN
            /\ o.ok => o.v = "Switching"
            /\ ~o.ok => o.v = "err"
            /\ Clean(o) => StartedSwitching(p, q, TaperDue(p, vin_uv, vbat_uv), o)
        BY <1>4, <1>5, <2>1, <2>2, <2>5, <3>1, <3>2, StartSwitchingOutcome
      <3>4. Clean(o) => /\ p.bus = "up" /\ mode = "Switching"
                        /\ StartedSwitching(p, p, TaperDue(p, vin_uv, vbat_uv), o)
        BY <2>2, <2>5, <3>2, <3>3 DEF StartedSwitching, Clean
      <3> QED
        BY <3>3, <3>4 DEF Started, mode, M, I, NoMode
    <2>6. CASE w.v = "Bypass"
      <3>1. o \in StartBypass(w.p, vin_uv, vbat_uv, vfaults)
        BY <1>1, <2>2, <2>6 DEF Start, NoMode
      <3>2. /\ Within(p, M, I, o.p) /\ o.ok \in BOOLEAN
            /\ o.ok => o.v = "Bypass"
            /\ ~o.ok => o.v = "err"
            /\ Clean(o) => StartedBypass(p, w.p, TaperDue(p, vin_uv, vbat_uv), o)
        BY <1>4, <2>1, <2>2, <2>6, <3>1, StartBypassOutcome
      <3>3. Clean(o) => /\ p.bus = "up" /\ mode = "Bypass"
                        /\ StartedBypass(p, p, TaperDue(p, vin_uv, vbat_uv), o)
        BY <2>2, <2>6, <3>2 DEF StartedBypass, Clean
      <3> QED
        BY <3>2, <3>3 DEF Started, mode, M, I, NoMode
    <2> QED
      BY <2>1, <2>2, <2>4, <2>5, <2>6
  <1> QED
    BY <1>6, <1>7, <1>8

-----------------------------------------------------------------------------
(* The promise.                                                            *)

\* What PumpPromise sees of a pump.
Chip(p) == [ctrl |-> p.ctrl, iin |-> p.iin, cfg_iin |-> p.cfg_iin, bus_ok |-> p.bus = "up"]

\* The promise reads inputs and encodes currents as the driver does.
LEMMA SameEncoding ==
    ASSUME NEW v, NEW b, NEW ua
    PROVE  /\ Promise!charge_mode(v, b) = charge_mode(v, b)
           /\ Promise!bypass_allowed_by_vin(v, b) = bypass_allowed_by_vin(v, b)
           /\ Promise!encode_iin_limit(ua) = encode_iin_limit(ua)
  <1>1. Promise!charge_mode(v, b) = charge_mode(v, b)
    BY DEF Promise!charge_mode, charge_mode, Promise!min_vin_for_switching_uv,
        min_vin_for_switching_uv, Promise!Greater, Greater, Promise!NoMode, NoMode,
        Promise!CHARGE_MIN_VIN_UV, CHARGE_MIN_VIN_UV, Promise!ELEVATED_MIN_VIN_UV,
        ELEVATED_MIN_VIN_UV, Promise!SWITCHING_HEADROOM_UV, SWITCHING_HEADROOM_UV
  <1>2. Promise!bypass_allowed_by_vin(v, b) = bypass_allowed_by_vin(v, b)
    BY <1>1 DEF Promise!bypass_allowed_by_vin, bypass_allowed_by_vin
  <1>3. Promise!encode_iin_limit(ua) = encode_iin_limit(ua)
    BY DEF Promise!encode_iin_limit, encode_iin_limit, Promise!Lesser, Lesser, Promise!NoValue,
        NoValue, Promise!IIN_MIN_UA, IIN_MIN_UA, Promise!IIN_STEP_UA, IIN_STEP_UA,
        Promise!IIN_CODE_MAX, IIN_CODE_MAX
  <1> QED
    BY <1>1, <1>2, <1>3

\* So its profile and its taper are those of the driver.
LEMMA SameSetpoints ==
    ASSUME NEW p
    PROVE  Promise!Profile(Chip(p)) = Setpoint(p) /\ Promise!Taper(Chip(p)) = TaperCode(p)
  BY SameEncoding DEF Promise!Profile, Promise!Taper, Setpoint, TaperCode, TaperUa, Chip,
    Promise!Lesser, Lesser, Promise!VBAT_TAPER_IIN_UA, VBAT_TAPER_IIN_UA

\* A pump with one of the modes and one of the setpoints, on a bus that worked or did not.
LEMMA CleanLeaving ==
    ASSUME NEW q, q.bus = "up", NEW p, p.bus = "up", p.cfg_iin = q.cfg_iin,
           NEW modes, p.ctrl \in modes, NEW iins, p.iin \in iins
    PROVE  Chip(p) \in Promise!Leaving(Chip(q), modes, iins)
  BY DEF Chip, Promise!Leaving

\* The same on a bus that did not.
LEMMA DirtyLeaving ==
    ASSUME NEW q, NEW p, p.bus # "up", p.cfg_iin = q.cfg_iin,
           NEW modes, p.ctrl \in modes, NEW iins, p.iin \in iins
    PROVE  Chip(p) \in Promise!Leaving(Promise!Dirty(Chip(q)), modes, iins)
  BY DEF Chip, Promise!Leaving, Promise!Dirty

\* A chip as a record, on a bus that worked and on one that did not.
ChipRecord(ctrl, iin, cfg, ok) == [ctrl |-> ctrl, iin |-> iin, cfg_iin |-> cfg, bus_ok |-> ok]
BusOk == TRUE
BusFailed == FALSE

\* Which of the two a pump is follows from its bus.
LEMMA ChipIs ==
    ASSUME NEW p
    PROVE  /\ p.bus = "up" => Chip(p) = ChipRecord(p.ctrl, p.iin, p.cfg_iin, BusOk)
           /\ p.bus # "up" => Chip(p) = ChipRecord(p.ctrl, p.iin, p.cfg_iin, BusFailed)
  <1>1. ASSUME p.bus = "up"
        PROVE  Chip(p) = ChipRecord(p.ctrl, p.iin, p.cfg_iin, BusOk)
    BY <1>1, Zenon DEF Chip, ChipRecord, BusOk
  <1>2. ASSUME p.bus # "up"
        PROVE  Chip(p) = ChipRecord(p.ctrl, p.iin, p.cfg_iin, BusFailed)
    BY <1>2, Zenon DEF Chip, ChipRecord, BusFailed
  <1> QED
    BY <1>1, <1>2

\* A chip whose bus failed.
LEMMA ChipDirty ==
    ASSUME NEW ctrl, NEW iin, NEW cfg, NEW ok
    PROVE  Promise!Dirty(ChipRecord(ctrl, iin, cfg, ok)) = ChipRecord(ctrl, iin, cfg, BusFailed)
  <1>1. Promise!Dirty(ChipRecord(ctrl, iin, cfg, ok))
            = [ChipRecord(ctrl, iin, cfg, ok) EXCEPT !.bus_ok = BusFailed]
    BY Zenon DEF Promise!Dirty, BusFailed
  <1>2. [ChipRecord(ctrl, iin, cfg, ok) EXCEPT !.bus_ok = BusFailed]
            = ChipRecord(ctrl, iin, cfg, BusFailed)
    BY SMT DEF ChipRecord
  <1> QED
    BY <1>1, <1>2, Zenon

\* What answers the promises: q is the pump when the call starts, p when it returns.  First an
\* idle pump, or a dirty one that is idle or was not idled.
LEMMA IdlePromised ==
    ASSUME NEW q, q.bus = "up", NEW p, p.cfg_iin = q.cfg_iin, p.iin = q.iin,
           p.ctrl \in {q.ctrl, "Standby"}, p.bus = "up" => p.ctrl = "Standby"
    PROVE  \E a \in Promise!Idle(Chip(q)) : Chip(p) = a.c
  <1> DEFINE c == Chip(q)
             d == [Chip(q) EXCEPT !.ctrl = "Standby"]
             answer(x, ok) == [c |-> x, ok |-> ok]
  <1>1. /\ c = ChipRecord(q.ctrl, q.iin, q.cfg_iin, BusOk)
        /\ d = ChipRecord("Standby", q.iin, q.cfg_iin, BusOk)
    <2>1. Chip(q) = ChipRecord(q.ctrl, q.iin, q.cfg_iin, BusOk)
      BY ChipIs
    <2> QED
      BY <2>1, SMT DEF ChipRecord
  <1>2. Promise!Dirty(c) = ChipRecord(q.ctrl, q.iin, q.cfg_iin, BusFailed)
    BY <1>1, ChipDirty
  <1>3. Promise!Dirty(d) = ChipRecord("Standby", q.iin, q.cfg_iin, BusFailed)
    BY <1>1, ChipDirty
  <1>4. Promise!Idle(c) = {answer(d, TRUE), answer(Promise!Dirty(c), FALSE),
                           answer(Promise!Dirty(d), FALSE)}
    BY DEF Promise!Idle, Promise!Written, Promise!Outcome
  <1> HIDE DEF c, d
  <1>5. Chip(p) \in {d, Promise!Dirty(c), Promise!Dirty(d)}
    BY <1>1, <1>2, <1>3, ChipIs
  <1>6. \E a \in Promise!Idle(c) : Chip(p) = a.c
    BY <1>4, <1>5
  <1> QED
    BY <1>6 DEF c

\* A pump whose mode and setpoint are those it had.
LEMMA QuietPromised ==
    ASSUME NEW q, q.bus = "up", NEW p, p.cfg_iin = q.cfg_iin, p.iin = q.iin, p.ctrl = q.ctrl
    PROVE  Chip(p) \in {Chip(q), Promise!Dirty(Chip(q))}
  BY ChipIs, ChipDirty

\* A configured pump, or a dirty one on the way.
LEMMA SetupPromised ==
    ASSUME NEW q, q.bus = "up", NEW p, p.cfg_iin = q.cfg_iin,
           p.ctrl \in {q.ctrl, "Standby"}, p.iin \in {q.iin, Setpoint(q)},
           p.bus = "up" => p.ctrl = "Standby" /\ p.iin = Setpoint(q)
    PROVE  \E a \in Promise!Setup(Chip(q)) : Chip(p) = a.c
  <1>1. Chip(q).ctrl = q.ctrl /\ Chip(q).iin = q.iin
    BY DEF Chip
  <1>2. CASE p.bus = "up"
    <2>1. Chip(p) \in Promise!Leaving(Chip(q), {"Standby"}, {Promise!Profile(Chip(q))})
      BY <1>2, SameSetpoints, CleanLeaving
    <2>2. [c |-> Chip(p), ok |-> TRUE] \in Promise!Setup(Chip(q))
      BY <2>1 DEF Promise!Setup
    <2> QED
      BY <2>2
  <1>3. CASE p.bus # "up"
    <2>1. Chip(p) \in Promise!Leaving(Promise!Dirty(Chip(q)), {Chip(q).ctrl, "Standby"},
                                      {Chip(q).iin, Promise!Profile(Chip(q))})
      BY <1>1, <1>3, SameSetpoints, DirtyLeaving
    <2>2. [c |-> Chip(p), ok |-> FALSE] \in Promise!Setup(Chip(q))
      BY <2>1 DEF Promise!Setup
    <2> QED
      BY <2>2
  <1> QED
    BY <1>2, <1>3

\* A pump that has the limit asked for and knows it, or a dirty one that has it or not.
LEMMA LimitPromised ==
    ASSUME NEW q, q.bus = "up", NEW ua, NEW p, p.ctrl = q.ctrl,
           encode_iin_limit(ua) = NoValue => p.bus = "up" /\ p.iin = q.iin /\ p.cfg_iin = q.cfg_iin,
           encode_iin_limit(ua) # NoValue /\ p.bus = "up" =>
               p.iin = encode_iin_limit(ua) /\ p.cfg_iin = ua,
           encode_iin_limit(ua) # NoValue /\ p.bus # "up" =>
               p.iin \in {q.iin, encode_iin_limit(ua)} /\ p.cfg_iin = q.cfg_iin
    PROVE  \E a \in Promise!SetIin(Chip(q), ua) : Chip(p) = a.c
  <1> DEFINE code == encode_iin_limit(ua)
             c == Chip(q)
             d == [c EXCEPT !.iin = code]
             e == [d EXCEPT !.cfg_iin = ua]
             answer(x, ok) == [c |-> x, ok |-> ok]
  <1>1. Promise!encode_iin_limit(ua) = code /\ (Promise!NoValue = NoValue)
    BY SameEncoding DEF Promise!NoValue, NoValue
  <1>2. /\ c = ChipRecord(q.ctrl, q.iin, q.cfg_iin, BusOk)
        /\ d = ChipRecord(q.ctrl, code, q.cfg_iin, BusOk)
        /\ e = ChipRecord(q.ctrl, code, ua, BusOk)
    <2>1. Chip(q) = ChipRecord(q.ctrl, q.iin, q.cfg_iin, BusOk)
      BY ChipIs
    <2>2. d = ChipRecord(q.ctrl, code, q.cfg_iin, BusOk)
      BY <2>1, SMT DEF ChipRecord
    <2> HIDE DEF d, code
    <2>3. e = ChipRecord(q.ctrl, code, ua, BusOk)
      BY <2>2, SMT DEF ChipRecord
    <2> QED
      BY <2>1, <2>2, <2>3
  <1>3. CASE code = NoValue
    <2>1. Promise!SetIin(c, ua) = {answer(c, FALSE)}
      BY <1>1, <1>3 DEF Promise!SetIin, Promise!Outcome
    <2>2. Chip(p) = c
      BY <1>2, <1>3, ChipIs
    <2> QED
      BY <2>1, <2>2
  <1>4. CASE code # NoValue
    <2>1. /\ answer(d, TRUE) \in Promise!Written(c, d)
          /\ answer(Promise!Dirty(c), FALSE) \in Promise!Written(c, d)
          /\ answer(Promise!Dirty(d), FALSE) \in Promise!Written(c, d)
      BY DEF Promise!Written, Promise!Outcome
    <2>2. \A w \in Promise!Written(c, d) :
              (IF w.ok THEN answer([w.c EXCEPT !.cfg_iin = ua], TRUE) ELSE w) \in Promise!SetIin(c, ua)
      BY <1>1, <1>4 DEF Promise!SetIin, Promise!Outcome
    <2>3. /\ Promise!Dirty(c) = ChipRecord(q.ctrl, q.iin, q.cfg_iin, BusFailed)
          /\ Promise!Dirty(d) = ChipRecord(q.ctrl, code, q.cfg_iin, BusFailed)
      BY <1>2, ChipDirty
    <2> HIDE DEF c, d
    <2>4. /\ answer(e, TRUE) \in Promise!SetIin(c, ua)
          /\ answer(Promise!Dirty(c), FALSE) \in Promise!SetIin(c, ua)
          /\ answer(Promise!Dirty(d), FALSE) \in Promise!SetIin(c, ua)
      BY <2>1, <2>2
    <2> HIDE DEF e
    <2>5. Chip(p) \in {e, Promise!Dirty(c), Promise!Dirty(d)}
      BY <1>2, <1>4, <2>3, ChipIs
    <2>6. \E a \in Promise!SetIin(c, ua) : Chip(p) = a.c
      BY <2>4, <2>5
    <2> QED
      BY <2>6 DEF c
  <1> QED
    BY <1>3, <1>4

\* A pump in 2:1, or a dirty one that is or that stayed.
LEMMA Force21Promised ==
    ASSUME NEW q, q.bus = "up", NEW p, p.cfg_iin = q.cfg_iin, p.iin = q.iin,
           p.ctrl \in {q.ctrl, "Switching"}, p.bus = "up" => p.ctrl = "Switching"
    PROVE  \E a \in Promise!Force21(Chip(q)) : Chip(p) = a.c
  <1>1. Chip(q).iin = q.iin
    BY DEF Chip
  <1>2. CASE p.ctrl = "Switching"
    <2>1. Chip(p) \in Promise!Leaving(Chip(q), {"Switching"}, {Chip(q).iin})
                      \cup Promise!Leaving(Promise!Dirty(Chip(q)), {"Switching"}, {Chip(q).iin})
      BY <1>1, <1>2, CleanLeaving, DirtyLeaving
    <2>2. [c |-> Chip(p), ok |-> FALSE] \in Promise!Force21(Chip(q))
      BY <2>1 DEF Promise!Force21
    <2> QED
      BY <2>2
  <1>3. CASE p.ctrl # "Switching"
    <2>1. Chip(p) = Promise!Dirty(Chip(q))
      BY <1>3, ChipIs, ChipDirty
    <2>2. [c |-> Chip(p), ok |-> FALSE] \in Promise!Force21(Chip(q))
      BY <2>1 DEF Promise!Force21
    <2> QED
      BY <2>2
  <1> QED
    BY <1>2, <1>3

\* A pump in 1:1 inside the window, or one that stayed as it was.
LEMMA BypassPromised ==
    ASSUME NEW q, q.bus = "up", NEW v \in Nat, NEW p, p.cfg_iin = q.cfg_iin, p.iin = q.iin,
           p.ctrl \in {q.ctrl} \cup (IF Window(v) THEN {"Bypass"} ELSE {})
    PROVE  \E a \in Promise!Bypass(Chip(q), v) : Chip(p) = a.c
  <1>1. Chip(q).iin = q.iin
    BY DEF Chip
  <1>2. Promise!bypass_allowed_by_vin(v, 0) = Window(v)
    <2>1. bypass_allowed_by_vin(v, 0) <=> Window(v)
      BY Admission
    <2>2. bypass_allowed_by_vin(v, 0) = Window(v)
      BY <2>1 DEF bypass_allowed_by_vin, Window
    <2> QED
      BY <2>2, SameEncoding
  <1>3. CASE p.ctrl = q.ctrl
    <2>1. Chip(p) \in {Chip(q), Promise!Dirty(Chip(q))}
      BY <1>3, QuietPromised
    <2>2. [c |-> Chip(p), ok |-> FALSE] \in Promise!Bypass(Chip(q), v)
      BY <2>1 DEF Promise!Bypass
    <2> QED
      BY <2>2
  <1>4. CASE Window(v) /\ p.ctrl = "Bypass"
    <2>1. Chip(p) \in Promise!Leaving(Chip(q), {"Bypass"}, {Chip(q).iin})
                      \cup Promise!Leaving(Promise!Dirty(Chip(q)), {"Bypass"}, {Chip(q).iin})
      BY <1>1, <1>4, CleanLeaving, DirtyLeaving
    <2>2. [c |-> Chip(p), ok |-> FALSE] \in Promise!Bypass(Chip(q), v)
      BY <1>2, <1>4, <2>1 DEF Promise!Bypass
    <2> QED
      BY <2>2
  <1> QED
    BY <1>3, <1>4

\* A session that starts over, or that could not be opened.
LEMMA SessionPromised ==
    ASSUME NEW q, q.bus = "up", NEW p, p.bus = "up", p.ctrl = q.ctrl, p.iin = q.iin,
           p.cfg_iin \in {q.cfg_iin, ProfileIin}
    PROVE  \E a \in Promise!NewSession(Chip(q)) : Chip(p) = a.c
  <1> DEFINE c == Chip(q)
             d == [c EXCEPT !.cfg_iin = ProfileIin]
             answer(x, ok) == [c |-> x, ok |-> ok]
  <1>1. c = ChipRecord(q.ctrl, q.iin, q.cfg_iin, BusOk)
    BY ChipIs
  <1>2. d = ChipRecord(q.ctrl, q.iin, ProfileIin, BusOk)
    BY <1>1, SMT DEF ChipRecord
  <1>3. Promise!NewSession(c) = {answer(d, TRUE), answer(c, FALSE)}
    BY DEF Promise!NewSession, Promise!Outcome
  <1> HIDE DEF c, d
  <1>4. Chip(p) \in {c, d}
    BY <1>1, <1>2, ChipIs
  <1>5. \E a \in Promise!NewSession(c) : Chip(p) = a.c
    BY <1>3, <1>4
  <1> QED
    BY <1>5 DEF c

\* A pump reset to its own limit, or a dirty one that was not.
LEMMA ResetPromised ==
    ASSUME NEW q, q.bus = "up", NEW p, p.cfg_iin = q.cfg_iin,
           \/ p.ctrl = "Standby" /\ p.iin = PorIin
           \/ p.bus # "up" /\ p.ctrl = q.ctrl /\ p.iin = q.iin
    PROVE  \E a \in Promise!Reset(Chip(q)) : Chip(p) = a.c
  <1>1. CASE p.ctrl = "Standby" /\ p.iin = PorIin
    <2>1. Chip(p) \in Promise!Leaving(Chip(q), {"Standby"}, {PorIin})
                      \cup Promise!Leaving(Promise!Dirty(Chip(q)), {"Standby"}, {PorIin})
      BY <1>1, CleanLeaving, DirtyLeaving
    <2>2. [c |-> Chip(p), ok |-> FALSE] \in Promise!Reset(Chip(q))
      BY <2>1 DEF Promise!Reset
    <2> QED
      BY <2>2
  <1>2. CASE p.bus # "up" /\ p.ctrl = q.ctrl /\ p.iin = q.iin
    <2>1. Chip(p) = Promise!Dirty(Chip(q))
      BY <1>2, ChipIs, ChipDirty
    <2>2. [c |-> Chip(p), ok |-> FALSE] \in Promise!Reset(Chip(q))
      BY <2>1 DEF Promise!Reset
    <2> QED
      BY <2>2
  <1> QED
    BY <1>1, <1>2

\* A pump that was started, or a dirty one where the input allows it.
LEMMA StartPromised ==
    ASSUME NEW q, q.bus = "up", NEW vin_uv \in Nat, NEW vbat_uv \in Nat, NEW o,
           o.p.cfg_iin = q.cfg_iin, o.ok \in BOOLEAN,
           o.p.ctrl \in StartModes(q, vin_uv), o.p.iin \in StartIins(q),
           Clean(o) => Started(q, vin_uv, vbat_uv, o)
    PROVE  \E a \in Promise!Start(Chip(q), vin_uv, vbat_uv) : Chip(o.p) = a.c
  <1> DEFINE c == Chip(q)
             p == o.p
             mode == charge_mode(vin_uv, vbat_uv)
  <1>1. c.ctrl = q.ctrl /\ c.iin = q.iin
    BY DEF Chip
  <1>2. Promise!Profile(c) = Setpoint(q) /\ Promise!Taper(c) = TaperCode(q)
    BY SameSetpoints
  <1>3. Promise!bypass_allowed_by_vin(vin_uv, 0) = Window(vin_uv)
    <2>1. bypass_allowed_by_vin(vin_uv, 0) <=> Window(vin_uv)
      BY Admission
    <2>2. bypass_allowed_by_vin(vin_uv, 0) = Window(vin_uv)
      BY <2>1 DEF bypass_allowed_by_vin, Window
    <2> QED
      BY <2>2, SameEncoding
  <1>4. Promise!charge_mode(vin_uv, vbat_uv) = mode /\ mode \in {"Switching", "Bypass", NoMode}
    BY SameEncoding, Admission
  <1>5. CASE p.bus # "up"
    <2> DEFINE modes == {c.ctrl, "Standby"}
                        \cup (IF vin_uv >= Promise!ELEVATED_MIN_VIN_UV THEN {"Switching"} ELSE {})
                        \cup (IF Promise!bypass_allowed_by_vin(vin_uv, 0) THEN {"Bypass"} ELSE {})
               iins == {c.iin, Promise!Profile(c), Promise!Taper(c), PorIin}
    <2>1. p.ctrl \in modes
      BY <1>1, <1>3 DEF StartModes, ELEVATED_MIN_VIN_UV, Promise!ELEVATED_MIN_VIN_UV
    <2>2. p.iin \in iins
      BY <1>1, <1>2 DEF StartIins
    <2> HIDE DEF modes, iins
    <2>3. Chip(p) \in Promise!Leaving(Promise!Dirty(c), modes, iins)
      BY <1>5, <2>1, <2>2, DirtyLeaving
    <2> HIDE DEF p
    <2>4. [c |-> Chip(p), ok |-> FALSE] \in Promise!DirtyStart(c, vin_uv)
      BY <2>3 DEF Promise!DirtyStart, modes, iins
    <2>5. [c |-> Chip(p), ok |-> FALSE] \in Promise!Start(c, vin_uv, vbat_uv)
      BY <2>4 DEF Promise!Start
    <2> QED
      BY <2>5 DEF p
  <1>6. CASE p.bus = "up"
    <2> DEFINE Here(m, iins) == Chip(p) \in Promise!Leaving(c, {m}, iins)
    <2>1. Started(q, vin_uv, vbat_uv, o)
      BY <1>6 DEF Clean
    <2>2. ASSUME NEW m, p.ctrl = m, NEW iins, p.iin \in iins
          PROVE  Here(m, iins)
      BY <1>6, <2>2, CleanLeaving
    <2>3. CASE mode = "Switching"
      <3>1. /\ p.iin \in {c.iin, Promise!Taper(c)}
            /\ o.ok => p.ctrl = "Switching"
            /\ ~o.ok => p.ctrl = "Standby"
        BY <1>1, <1>2, <2>1, <2>3 DEF Started, StartedSwitching
      <3>2. \/ Here("Switching", {c.iin, Promise!Taper(c)})
            \/ Here("Standby", {c.iin, Promise!Taper(c)})
        BY <2>2, <3>1
      <3> HIDE DEF c, p, mode
      <3> DEFINE taken   == Promise!Leaving(c, {"Switching"}, {c.iin, Promise!Taper(c)})
                 refused == Promise!Leaving(c, {"Standby"}, {c.iin, Promise!Taper(c)})
      <3>3. Promise!CleanStart(c, vin_uv, vbat_uv) = [c : taken, ok : {TRUE}] \cup [c : refused, ok : {FALSE}]
        <4>1. Promise!charge_mode(vin_uv, vbat_uv) = "Switching"
          BY <1>4, <2>3
        <4> QED
          BY <4>1, Zenon DEF Promise!CleanStart, taken, refused
      <3> HIDE DEF taken, refused
      <3>4. \/ [c |-> Chip(p), ok |-> TRUE] \in Promise!CleanStart(c, vin_uv, vbat_uv)
            \/ [c |-> Chip(p), ok |-> FALSE] \in Promise!CleanStart(c, vin_uv, vbat_uv)
        <4>1. Chip(p) \in taken \/ Chip(p) \in refused
          BY <3>2 DEF taken, refused
        <4> QED
          BY <3>3, <4>1
      <3> QED
        BY <3>4 DEF Promise!Start, c, p
    <2>4. CASE mode = "Bypass"
      <3>1. \/ p.iin \in {c.iin, Promise!Profile(c), Promise!Taper(c)} /\ o.ok
            \/ p.iin \in {c.iin, Promise!Profile(c)} /\ ~o.ok
        BY <1>1, <1>2, <2>1, <2>4 DEF Started, StartedBypass
      <3>2. p.ctrl = "Bypass"
        BY <2>1, <2>4 DEF Started, StartedBypass
      <3>3. \/ Here("Bypass", {c.iin, Promise!Profile(c), Promise!Taper(c)})
            \/ Here("Bypass", {c.iin, Promise!Profile(c)})
        BY <2>2, <3>1, <3>2
      <3> HIDE DEF c, p, mode
      <3> DEFINE taken   == Promise!Leaving(c, {"Bypass"}, {c.iin, Promise!Profile(c), Promise!Taper(c)})
                 refused == Promise!Leaving(c, {"Bypass"}, {c.iin, Promise!Profile(c)})
      <3>4. Promise!CleanStart(c, vin_uv, vbat_uv) = [c : taken, ok : {TRUE}] \cup [c : refused, ok : {FALSE}]
        <4>1. Promise!charge_mode(vin_uv, vbat_uv) = "Bypass"
          BY <1>4, <2>4
        <4> QED
          BY <4>1, Zenon DEF Promise!CleanStart, taken, refused
      <3> HIDE DEF taken, refused
      <3>5. \/ [c |-> Chip(p), ok |-> TRUE] \in Promise!CleanStart(c, vin_uv, vbat_uv)
            \/ [c |-> Chip(p), ok |-> FALSE] \in Promise!CleanStart(c, vin_uv, vbat_uv)
        <4>1. Chip(p) \in taken \/ Chip(p) \in refused
          BY <3>3 DEF taken, refused
        <4> QED
          BY <3>4, <4>1
      <3> QED
        BY <3>5 DEF Promise!Start, c, p
    <2>5. CASE mode = NoMode
      <3>1. p.ctrl = "Standby" /\ p.iin = c.iin
        BY <1>1, <2>1, <2>5 DEF Started
      <3>2. Here("Standby", {c.iin})
        BY <2>2, <3>1
      <3> HIDE DEF c, p, mode
      <3>3. [c |-> Chip(p), ok |-> FALSE] \in Promise!CleanStart(c, vin_uv, vbat_uv)
        BY <1>4, <2>5, <3>2 DEF Promise!CleanStart, NoMode, Promise!NoMode
      <3> QED
        BY <3>3 DEF Promise!Start, c, p
    <2> QED
      BY <1>4, <2>3, <2>4, <2>5
  <1> QED
    BY <1>5, <1>6

-----------------------------------------------------------------------------
(* The other calls.                                                        *)

\* A pump that is open is within its own mode and setpoint, and any others.
LEMMA Self ==
    ASSUME NEW p \in Pumps, p.state # "Closed", NEW M, p.ctrl \in M, NEW I, p.iin \in I
    PROVE  Within(p, M, I, p)
  BY DEF Within

\* Stopping a charge idles the pump, unless an access fails.
LEMMA ChargeOffOutcome ==
    ASSUME NEW p \in Pumps, p.state # "Closed", NEW o \in charge_off(p)
    PROVE  /\ Within(p, {p.ctrl, "Standby"}, {p.iin}, o.p)
           /\ Clean(o) => o.p.ctrl = "Standby"
  <1> DEFINE M       == {p.ctrl, "Standby"}
             I       == {p.iin}
             rcpOff  == Touch(p)
             idle    == Then(rcpOff, LAMBDA a : standby([a.p EXCEPT !.por_vin = NoValue]))
             settled == Then(idle, LAMBDA a : settle_and_read_status(a.p))
  <1>1. PICK t \in settled :
            IF t.ok THEN o = Ok([t.p EXCEPT !.state = "Configured"], t.v) ELSE o = Err(t.p)
    BY DEF charge_off, Then
  <1>2. PICK k \in idle : IF k.ok THEN t \in settle_and_read_status(k.p) ELSE t = Err(k.p)
    BY DEF Then
  <1>3. PICK a \in rcpOff :
            IF a.ok THEN k \in set_op_mode([a.p EXCEPT !.por_vin = NoValue], "Standby")
            ELSE k = Err(a.p)
    BY DEF Then, standby
  <1> HIDE DEF idle, settled
  <1>4. Within(p, M, I, p) /\ "Standby" \in M \cap CommandModes
    BY Self DEF CommandModes
  <1> HIDE DEF M, I
  <1>5. Within(p, M, I, a.p) /\ a.ok \in BOOLEAN /\ (~a.ok => ~Clean(a))
    BY <1>4, TouchOutcome
  <1> HIDE DEF rcpOff
  <1>6. Within(p, M, I, k.p) /\ k.ok \in BOOLEAN /\ (Clean(k) => k.ok /\ k.p.ctrl = "Standby")
    <2>1. CASE a.ok
      <3> DEFINE q == [a.p EXCEPT !.por_vin = NoValue]
      <3>1. Within(p, M, I, q)
        BY <1>5 DEF Within, Pumps
      <3>2. k \in set_op_mode(q, "Standby")
        BY <1>3, <2>1
      <3> HIDE DEF q
      <3>3. Reached(p, M, I, q, "Standby", q.iin, k)
        BY <1>4, <3>1, <3>2, ModeReached
      <3> QED
        BY <3>3 DEF Reached
    <2>2. CASE ~a.ok
      BY <1>3, <1>5, <2>2, ErrFields DEF Clean
    <2> QED
      BY <1>5, <2>1, <2>2
  <1>7. Within(p, M, I, t.p) /\ t.ok \in BOOLEAN /\ (Clean(t) => t.ok /\ t.p.ctrl = "Standby")
    <2>1. CASE k.ok
      <3>1. /\ Within(p, M, I, t.p) /\ t.ok \in BOOLEAN /\ (t.ok => t.p = k.p)
            /\ ~t.ok => ~Clean(t)
        BY <1>2, <1>6, <2>1, SettleOutcome
      <3> QED
        BY <1>6, <3>1 DEF Clean
    <2>2. CASE ~k.ok
      BY <1>2, <1>6, <2>2, ErrFields DEF Clean
    <2> QED
      BY <1>6, <2>1, <2>2
  <1>8. CASE t.ok
    <2> DEFINE r == [t.p EXCEPT !.state = "Configured"]
    <2>1. "Configured" \in PumpStates \ {"Closed"}
      BY DEF PumpStates
    <2>2. Within(p, M, I, r) /\ r.bus = t.p.bus /\ r.ctrl = t.p.ctrl
      BY <1>7, <2>1, SetState
    <2>3. o = Ok(r, t.v)
      BY <1>1, <1>8
    <2> HIDE DEF r
    <2>4. o.p = r
      BY <2>3, OkFields
    <2> QED
      BY <1>7, <2>2, <2>4 DEF Clean, M, I
  <1>9. CASE ~t.ok
    <2>1. o.p = t.p
      BY <1>1, <1>9, ErrFields
    <2> QED
      BY <1>7, <2>1 DEF Clean, M, I
  <1> QED
    BY <1>7, <1>8, <1>9

\* Idling, the same.
LEMMA StandbyOutcome ==
    ASSUME NEW p \in Pumps, p.state # "Closed", NEW o \in standby(p)
    PROVE  /\ Within(p, {p.ctrl, "Standby"}, {p.iin}, o.p)
           /\ Clean(o) => o.p.ctrl = "Standby"
  <1> DEFINE M == {p.ctrl, "Standby"}
             I == {p.iin}
  <1>1. Within(p, M, I, p) /\ "Standby" \in M \cap CommandModes
    BY Self DEF CommandModes
  <1>2. o \in set_op_mode(p, "Standby")
    BY DEF standby
  <1> HIDE DEF M, I
  <1>3. Reached(p, M, I, p, "Standby", p.iin, o)
    BY <1>1, <1>2, ModeReached
  <1> QED
    BY <1>3 DEF Reached, M, I, Clean

\* A limit that is asked for is the session's once the chip has it.
LEMMA SetLimitOutcome ==
    ASSUME NEW p \in Pumps, p.state # "Closed", p.bus = "up", NEW ua \in IinLimits,
           NEW o \in set_iin_limit(p, ua)
    PROVE  /\ o.p \in Pumps /\ o.p.ctrl = p.ctrl
           /\ encode_iin_limit(ua) = NoValue => o.p = p
           /\ encode_iin_limit(ua) # NoValue /\ Clean(o) =>
                  o.p.iin = encode_iin_limit(ua) /\ o.p.cfg_iin = ua
           /\ encode_iin_limit(ua) # NoValue /\ ~Clean(o) =>
                  o.p.iin \in {p.iin, encode_iin_limit(ua)} /\ o.p.cfg_iin = p.cfg_iin
  <1> DEFINE code == encode_iin_limit(ua)
             M    == {p.ctrl}
             I    == {p.iin, code}
  <1>1. PICK a \in write_iin_limit(p, ua) :
            IF a.ok THEN o = Ok([a.p EXCEPT !.cfg_iin = ua], "done") ELSE o = Err(a.p)
    BY DEF set_iin_limit, Then, Done
  <1>2. CASE code = NoValue
    <2>1. a = Err(p)
      BY <1>2 DEF write_iin_limit
    <2>2. a.p = p /\ ~a.ok
      BY <2>1, ErrFields
    <2>3. o.p = p
      BY <1>1, <2>2, ErrFields
    <2> QED
      BY <1>2, <2>3
  <1>3. CASE code # NoValue
    <2>1. ua \in Nat /\ ua >= IIN_MIN_UA
      BY <1>3, LimitAssumption DEF encode_iin_limit, IIN_MIN_UA
    <2>2. code \in 0..IIN_CODE_MAX
      BY <2>1, IinCode
    <2>3. Within(p, M, I, p) /\ code \in I \cap (0..IIN_CODE_MAX)
      BY <2>2, Self
    <2> HIDE DEF M, I
    <2>4. /\ Within(p, M, I, a.p) /\ a.ok \in BOOLEAN
          /\ a.ok => a.p.iin = code /\ a.p.bus = p.bus
          /\ ~a.ok => ~Clean(a)
      BY <1>3, <2>3, LimitOutcome
    <2>5. CASE a.ok
      <3> DEFINE r == [a.p EXCEPT !.cfg_iin = ua]
      <3>1. r \in Pumps /\ r.bus = a.p.bus /\ r.ctrl = p.ctrl /\ r.iin = a.p.iin /\ r.cfg_iin = ua
        BY <2>4 DEF Within, Pumps, M
      <3>2. o = Ok(r, "done")
        BY <1>1, <2>5
      <3> HIDE DEF r
      <3>3. o.p = r
        BY <3>2, OkFields
      <3> QED
        BY <1>3, <2>4, <2>5, <3>1, <3>3 DEF Clean
    <2>6. CASE ~a.ok
      <3>1. o.p = a.p
        BY <1>1, <2>6, ErrFields
      <3>2. ~Clean(o) /\ o.p \in Pumps /\ o.p.ctrl = p.ctrl /\ o.p.iin \in {p.iin, code}
            /\ o.p.cfg_iin = p.cfg_iin
        BY <2>4, <2>6, <3>1 DEF Within, Clean, M, I
      <3> QED
        BY <1>3, <3>2
    <2> QED
      BY <2>4, <2>5, <2>6
  <1> QED
    BY <1>2, <1>3

\* Neither does a float voltage touch mode or current.
LEMMA SetFloatOutcome ==
    ASSUME NEW p \in Pumps, p.state # "Closed", NEW uv \in Floats, NEW o \in set_vbat_float(p, uv)
    PROVE  /\ o.p \in Pumps /\ o.p.ctrl = p.ctrl /\ o.p.iin = p.iin /\ o.p.cfg_iin = p.cfg_iin
  <1> DEFINE M == {p.ctrl}
             I == {p.iin}
  <1>1. PICK a \in Update(p, [p EXCEPT !.vfloat = encode_vbat_float(uv)]) :
            IF a.ok THEN o = Ok([a.p EXCEPT !.cfg_float = uv], "done") ELSE o = Err(a.p)
    BY DEF set_vbat_float, Then, Done
  <1>2. Within(p, M, I, p)
    BY Self
  <1> HIDE DEF M, I
  <1>3. Within(p, M, I, a.p) /\ a.ok \in BOOLEAN
    <2>1. encode_vbat_float(uv) \in 0..255
      BY LimitAssumption, FloatCode
    <2>2. Reached(p, M, I, p, p.ctrl, p.iin, a)
      BY <1>2, <2>1, FloatReached
    <2> QED
      BY <2>2 DEF Reached
  <1>4. CASE a.ok
    <2> DEFINE r == [a.p EXCEPT !.cfg_float = uv]
    <2>1. r \in Pumps /\ r.ctrl = p.ctrl /\ r.iin = p.iin /\ r.cfg_iin = p.cfg_iin
      BY <1>3 DEF Within, Pumps, M, I
    <2>2. o = Ok(r, "done")
      BY <1>1, <1>4
    <2> HIDE DEF r
    <2> QED
      BY <2>1, <2>2, OkFields
  <1>5. CASE ~a.ok
    <2>1. o.p = a.p
      BY <1>1, <1>5, ErrFields
    <2> QED
      BY <1>3, <2>1 DEF Within, M, I
  <1> QED
    BY <1>3, <1>4, <1>5

\* Closing idles the pump, unless an access fails.
LEMMA CloseOutcome ==
    ASSUME NEW p \in Pumps, p.state # "Closed", NEW o \in close(p)
    PROVE  /\ o.p \in Pumps /\ o.p.ctrl \in {p.ctrl, "Standby"}
           /\ o.p.iin = p.iin /\ o.p.cfg_iin = p.cfg_iin
           /\ Clean(o) => o.p.ctrl = "Standby"
  <1> DEFINE M == {p.ctrl, "Standby"}
             I == {p.iin}
             Left(x) == /\ x.p \in Pumps /\ x.p.ctrl \in {p.ctrl, "Standby"}
                        /\ x.p.iin = p.iin /\ x.p.cfg_iin = p.cfg_iin
                        /\ Clean(x) => x.p.ctrl = "Standby"
  <1>1. PICK a \in set_op_mode(p, "Standby") : o = Ok([a.p EXCEPT !.state = "Closed"], "done")
    BY DEF close, After, Done, set_op_mode
  <1>2. Within(p, M, I, p) /\ "Standby" \in M \cap CommandModes
    BY Self DEF CommandModes
  <1> HIDE DEF M, I
  <1>3. Reached(p, M, I, p, "Standby", p.iin, a)
    BY <1>2, ModeReached
  <1>4. Left(a)
    BY <1>3 DEF Reached, Within, M, I
  <1> DEFINE r == [a.p EXCEPT !.state = "Closed"]
  <1>5. /\ r \in Pumps /\ r.bus = a.p.bus /\ r.ctrl = a.p.ctrl /\ r.iin = a.p.iin
        /\ r.cfg_iin = a.p.cfg_iin
    BY <1>4 DEF Pumps, PumpStates
  <1>6. o = Ok(r, "done")
    BY <1>1
  <1> HIDE DEF r
  <1>7. o.p = r
    BY <1>6, OkFields
  <1> QED
    BY <1>4, <1>5, <1>7 DEF Clean

\* A session that starts leaves the chip's registers.
LEMMA OpenOutcome ==
    ASSUME NEW p \in Pumps, NEW o \in open(p, ProfileIin, ProfileFloat)
    PROVE  /\ o.p \in Pumps /\ o.p.ctrl = p.ctrl /\ o.p.iin = p.iin /\ o.p.bus = p.bus
           /\ o.p.cfg_iin \in {p.cfg_iin, ProfileIin}
  <1> DEFINE q == [p EXCEPT !.state = "Probed"]
             r == [q EXCEPT !.bypass_stage = 0]
             s == [r EXCEPT !.por_vin = NoValue]
             t == [s EXCEPT !.cfg_iin = ProfileIin]
             u == [t EXCEPT !.cfg_float = ProfileFloat]
  <1>1. q \in Pumps /\ q.ctrl = p.ctrl /\ q.iin = p.iin /\ q.bus = p.bus
    BY DEF Pumps, PumpStates
  <1>2. r \in Pumps /\ r.ctrl = q.ctrl /\ r.iin = q.iin /\ r.bus = q.bus
    <2>1. 0 \in 0..3
      OBVIOUS
    <2> HIDE DEF q
    <2> QED
      BY <1>1, <2>1 DEF Pumps
  <1>3. s \in Pumps /\ s.ctrl = r.ctrl /\ s.iin = r.iin /\ s.bus = r.bus
    BY <1>2 DEF Pumps
  <1>4. t \in Pumps /\ t.ctrl = s.ctrl /\ t.iin = s.iin /\ t.bus = s.bus /\ t.cfg_iin = ProfileIin
    BY <1>3 DEF Pumps
  <1>5. u \in Pumps /\ u.ctrl = t.ctrl /\ u.iin = t.iin /\ u.bus = t.bus /\ u.cfg_iin = t.cfg_iin
    BY <1>4 DEF Pumps
  <1>6. CASE o = Ok(u, "done")
    <2>1. o.p = u
      BY <1>6, OkFields
    <2> HIDE DEF q, r, s, t, u
    <2> QED
      BY <1>1, <1>2, <1>3, <1>4, <1>5, <2>1
  <1>7. CASE o = Err(p)
    BY <1>7, ErrFields
  <1>8. o = Ok(u, "done") \/ o = Err(p)
    BY DEF open, Pumps
  <1> QED
    BY <1>6, <1>7, <1>8

-----------------------------------------------------------------------------
(* The invariant and the step.                                             *)

\* The inductive invariant: the configured limit is always one the chip can be set to, which
\* is what configure() relies on to leave that limit behind.
IInv ==
    /\ TypeOK
    /\ pump.cfg_iin >= IIN_MIN_UA
    /\ RefusedStartIsIdle
    /\ RefusedBypassUnmasks
    /\ NearFullStartIsTapered

\* The pump at the start of a call.
LEMMA FreshIs ==
    ASSUME IInv
    PROVE  /\ Fresh \in Pumps /\ Fresh.bus = "up" /\ Fresh.state = pump.state
           /\ Fresh.ctrl = pump.ctrl /\ Fresh.iin = pump.iin
           /\ Fresh.cfg_iin = pump.cfg_iin /\ Fresh.cfg_float = pump.cfg_float
           /\ Configured(Fresh)
  <1>1. /\ Fresh \in Pumps /\ Fresh.bus = "up" /\ Fresh.state = pump.state
        /\ Fresh.ctrl = pump.ctrl /\ Fresh.iin = pump.iin
        /\ Fresh.cfg_iin = pump.cfg_iin /\ Fresh.cfg_float = pump.cfg_float
    BY DEF IInv, TypeOK, PumpRecord, Pumps, Fresh
  <1>2. pump.cfg_iin \in Nat /\ pump.cfg_iin >= IIN_MIN_UA
    BY LimitAssumption DEF IInv, TypeOK, PumpRecord
  <1> QED
    BY <1>1, <1>2 DEF Configured

\* The pump once a call has returned.
LEMMA ReturnedIs ==
    ASSUME NEW p \in Pumps
    PROVE  LET q == Returned(p) IN
           /\ q \in PumpRecord /\ (q.bus = "up" <=> p.bus = "up")
           /\ q.ctrl = p.ctrl /\ q.iin = p.iin /\ q.cfg_iin = p.cfg_iin
           /\ q.cfg_float = p.cfg_float /\ q.masks = p.masks /\ q.bypass_stage = p.bypass_stage
  <1>1. CASE p.bus = "up"
    BY <1>1 DEF Returned, Pumps, PumpRecord
  <1>2. CASE p.bus # "up"
    BY <1>2 DEF Returned, Pumps, PumpRecord
  <1> QED
    BY <1>1, <1>2

\* A call that is not a start keeps the invariant.
LEMMA QuietCall ==
    ASSUME IInv, NEW p \in Pumps, p.cfg_iin >= IIN_MIN_UA, pump' = Returned(p),
           verdict' = "none", UNCHANGED <<vin, vbat>>
    PROVE  IInv'
  <1>1. pump' \in PumpRecord /\ pump'.cfg_iin = p.cfg_iin
    BY ReturnedIs
  <1>2. TypeOK'
    BY <1>1 DEF IInv, TypeOK
  <1> QED
    BY <1>1, <1>2 DEF IInv, RefusedStartIsIdle, RefusedBypassUnmasks, NearFullStartIsTapered

\* What a call returns answers the promise its outcome answers.
LEMMA Answered ==
    ASSUME NEW p \in Pumps, pump' = Returned(p), NEW outs, \E a \in outs : Chip(p) = a.c
    PROVE  Promise!Answer(outs)
  <1>1. Chip(Returned(p)) = Chip(p)
    <2> DEFINE q == Returned(p)
    <2>1. /\ q.bus = "up" <=> p.bus = "up"
          /\ q.ctrl = p.ctrl /\ q.iin = p.iin /\ q.cfg_iin = p.cfg_iin
      BY ReturnedIs
    <2> HIDE DEF q
    <2>2. Chip(q) = Chip(p)
      BY <2>1, ChipIs
    <2> QED
      BY <2>2 DEF q
  <1>2. [ctrl |-> pump'.ctrl, iin |-> pump'.iin, cfg_iin |-> pump'.cfg_iin,
         bus_ok |-> pump'.bus = "up"] = Chip(p)
    BY <1>1, Zenon DEF Chip
  <1>3. PICK a \in outs : Chip(p) = a.c
    OBVIOUS
  <1> QED
    BY <1>2, <1>3, Zenon DEF Promise!Answer

\* The chip at the start of a call.
LEMMA FreshChip ==
    ASSUME IInv
    PROVE  Promise!Fresh = Chip(Fresh)
  <1>1. Chip(pump) = ChipRecord(pump.ctrl, pump.iin, pump.cfg_iin, pump.bus = "up")
    BY Zenon DEF Chip, ChipRecord
  <1>2. Promise!Fresh = [Chip(pump) EXCEPT !.bus_ok = BusOk]
    BY Zenon DEF Promise!Fresh, Chip, BusOk
  <1>3. ASSUME NEW ok
        PROVE  [ChipRecord(pump.ctrl, pump.iin, pump.cfg_iin, ok) EXCEPT !.bus_ok = BusOk]
                   = ChipRecord(pump.ctrl, pump.iin, pump.cfg_iin, BusOk)
    BY SMT DEF ChipRecord
  <1>4. Promise!Fresh = ChipRecord(pump.ctrl, pump.iin, pump.cfg_iin, BusOk)
    BY <1>1, <1>2, <1>3, Zenon
  <1>5. Chip(Fresh) = ChipRecord(pump.ctrl, pump.iin, pump.cfg_iin, BusOk)
    BY FreshIs, ChipIs
  <1> QED
    BY <1>4, <1>5

\* What every step of a session does: it keeps the invariant, it is a step of the promise, and
\* it commands 1:1 inside the window only.
Kept ==
    /\ IInv'
    /\ Promise!Next
    /\ pump'.ctrl = "Bypass" /\ pump.ctrl # "Bypass" => Window(vin)

\* A call other than a start, whose outcome answers the promise, is such a step.
LEMMA CallKept ==
    ASSUME IInv, NEW p \in Pumps, p.cfg_iin >= IIN_MIN_UA, pump' = Returned(p),
           verdict' = "none", UNCHANGED <<vin, vbat>>,
           p.ctrl = "Bypass" => pump.ctrl = "Bypass" \/ Window(vin),
           NEW outs, \E a \in outs : Chip(p) = a.c,
           Promise!Answer(outs) /\ UNCHANGED <<vin, vbat>> => Promise!Next
    PROVE  Kept
  <1>1. IInv'
    BY QuietCall
  <1>2. Promise!Next
    BY Answered
  <1>3. pump'.ctrl = p.ctrl
    BY ReturnedIs
  <1> QED
    BY <1>1, <1>2, <1>3 DEF Kept

\* Opening a session.
LEMMA OpenKept ==
    ASSUME IInv, Open
    PROVE  Kept
  <1> DEFINE outs == Promise!NewSession(Chip(Fresh))
  <1>1. PICK o \in open(Fresh, ProfileIin, ProfileFloat) : pump' = Returned(o.p)
    BY DEF Open, Call
  <1>2. verdict' = "none" /\ UNCHANGED <<vin, vbat>>
    BY DEF Open, Call
  <1>3. /\ o.p \in Pumps /\ o.p.ctrl = Fresh.ctrl /\ o.p.iin = Fresh.iin /\ o.p.bus = "up"
        /\ o.p.cfg_iin \in {Fresh.cfg_iin, ProfileIin}
    BY FreshIs, OpenOutcome
  <1>4. o.p.cfg_iin >= IIN_MIN_UA /\ o.p.ctrl = pump.ctrl
    BY <1>3, FreshIs, LimitAssumption DEF IInv
  <1>5. \E a \in outs : Chip(o.p) = a.c
    BY <1>3, FreshIs, SessionPromised
  <1>6. Promise!Answer(outs) /\ UNCHANGED <<vin, vbat>> => Promise!Next
    BY FreshChip DEF Promise!Next, Promise!Call, Promise!Adjust
  <1> HIDE DEF outs
  <1> QED
    BY <1>1, <1>2, <1>3, <1>4, <1>5, <1>6, CallKept

\* Configuring.
LEMMA ConfigureKept ==
    ASSUME IInv, Configure
    PROVE  Kept
  <1> DEFINE outs == Promise!Setup(Chip(Fresh))
             M == {Fresh.ctrl, "Standby"}
             I == {Fresh.iin, Setpoint(Fresh)}
  <1>1. PICK o \in configure(Fresh) : pump' = Returned(o.p)
    BY DEF Configure, Call
  <1>2. verdict' = "none" /\ UNCHANGED <<vin, vbat>> /\ Fresh.state # "Closed"
    BY FreshIs DEF Configure, Call, IsOpen
  <1>3. Within(Fresh, M, I, Fresh) /\ "Standby" \in M /\ Setpoint(Fresh) \in I
    BY <1>2, FreshIs, Self
  <1> HIDE DEF M, I
  <1>4. Reached(Fresh, M, I, Fresh, "Standby", Setpoint(Fresh), o)
    BY <1>3, FreshIs, ConfigureOutcome
  <1>5. /\ o.p \in Pumps /\ o.p.cfg_iin = Fresh.cfg_iin /\ o.p.ctrl \in {Fresh.ctrl, "Standby"}
        /\ o.p.iin \in {Fresh.iin, Setpoint(Fresh)}
        /\ o.p.bus = "up" => o.p.ctrl = "Standby" /\ o.p.iin = Setpoint(Fresh)
    BY <1>4 DEF Reached, Within, M, I, Clean
  <1>6. \E a \in outs : Chip(o.p) = a.c
    BY <1>5, FreshIs, SetupPromised
  <1>7. Promise!Answer(outs) /\ UNCHANGED <<vin, vbat>> => Promise!Next
    BY FreshChip DEF Promise!Next, Promise!Call
  <1>8. o.p.cfg_iin >= IIN_MIN_UA /\ (o.p.ctrl = "Bypass" => pump.ctrl = "Bypass")
    BY <1>5, FreshIs DEF IInv
  <1> HIDE DEF outs
  <1> QED
    BY <1>1, <1>2, <1>5, <1>6, <1>7, <1>8, CallKept

\* What idles the pump answers the same promise.
LEMMA IdleKept ==
    ASSUME IInv, NEW p \in Pumps, pump' = Returned(p), verdict' = "none", UNCHANGED <<vin, vbat>>,
           p.cfg_iin = Fresh.cfg_iin, p.iin = Fresh.iin, p.ctrl \in {Fresh.ctrl, "Standby"},
           p.bus = "up" => p.ctrl = "Standby"
    PROVE  Kept
  <1> DEFINE outs == Promise!Idle(Chip(Fresh))
  <1>1. \E a \in outs : Chip(p) = a.c
    BY FreshIs, IdlePromised
  <1>2. Promise!Answer(outs) /\ UNCHANGED <<vin, vbat>> => Promise!Next
    BY FreshChip DEF Promise!Next, Promise!Call, Promise!Adjust
  <1>3. p.cfg_iin >= IIN_MIN_UA /\ (p.ctrl = "Bypass" => pump.ctrl = "Bypass")
    BY FreshIs DEF IInv
  <1> HIDE DEF outs
  <1> QED
    BY <1>1, <1>2, <1>3, CallKept

\* Stopping a charge, idling and closing.
LEMMA IdlingKept ==
    ASSUME IInv, ChargeOff \/ Standby \/ Close
    PROVE  Kept
  <1>1. PICK o \in charge_off(Fresh) \cup standby(Fresh) \cup close(Fresh) : pump' = Returned(o.p)
    BY DEF ChargeOff, Standby, Close, Call
  <1>2. verdict' = "none" /\ UNCHANGED <<vin, vbat>> /\ Fresh.state # "Closed" /\ Fresh \in Pumps
    BY FreshIs DEF ChargeOff, Standby, Close, Call, IsOpen
  <1>3. /\ o.p \in Pumps /\ o.p.cfg_iin = Fresh.cfg_iin /\ o.p.iin = Fresh.iin
        /\ o.p.ctrl \in {Fresh.ctrl, "Standby"}
        /\ o.p.bus = "up" => o.p.ctrl = "Standby"
    <2>1. CASE o \in charge_off(Fresh)
      BY <1>2, <2>1, ChargeOffOutcome DEF Within, Clean
    <2>2. CASE o \in standby(Fresh)
      BY <1>2, <2>2, StandbyOutcome DEF Within, Clean
    <2>3. CASE o \in close(Fresh)
      BY <1>2, <2>3, CloseOutcome DEF Clean
    <2> QED
      BY <2>1, <2>2, <2>3
  <1> QED
    BY <1>1, <1>2, <1>3, IdleKept

\* 2:1 commanded directly.
LEMMA SwitchingKept ==
    ASSUME IInv, EnableSwitching
    PROVE  Kept
  <1> DEFINE outs == Promise!Force21(Chip(Fresh))
             M == {Fresh.ctrl, "Switching"}
             I == {Fresh.iin}
  <1>1. PICK o \in enable_switching(Fresh) : pump' = Returned(o.p)
    BY DEF EnableSwitching, Call
  <1>2. verdict' = "none" /\ UNCHANGED <<vin, vbat>> /\ Fresh.state # "Closed"
    BY FreshIs DEF EnableSwitching, Call, IsOpen
  <1>3. Within(Fresh, M, I, Fresh) /\ "Switching" \in M
    BY <1>2, FreshIs, Self
  <1> HIDE DEF M, I
  <1>4. Within(Fresh, M, I, o.p) /\ (Clean(o) => o.p.ctrl = "Switching")
    BY <1>3, SwitchingOutcome
  <1>5. /\ o.p \in Pumps /\ o.p.cfg_iin = Fresh.cfg_iin /\ o.p.iin = Fresh.iin
        /\ o.p.ctrl \in {Fresh.ctrl, "Switching"} /\ (o.p.bus = "up" => o.p.ctrl = "Switching")
    BY <1>4 DEF Within, M, I, Clean
  <1>6. \E a \in outs : Chip(o.p) = a.c
    BY <1>5, FreshIs, Force21Promised
  <1>7. Promise!Answer(outs) /\ UNCHANGED <<vin, vbat>> => Promise!Next
    BY FreshChip DEF Promise!Next, Promise!Call
  <1>8. o.p.cfg_iin >= IIN_MIN_UA /\ (o.p.ctrl = "Bypass" => pump.ctrl = "Bypass")
    BY <1>5, FreshIs DEF IInv
  <1> HIDE DEF outs
  <1> QED
    BY <1>1, <1>2, <1>5, <1>6, <1>7, <1>8, CallKept

\* 1:1, inside its window.
LEMMA BypassKept ==
    ASSUME IInv, EnableBypass
    PROVE  Kept
  <1> DEFINE outs == Promise!Bypass(Chip(Fresh), vin)
             M == {Fresh.ctrl} \cup (IF Window(vin) THEN {"Bypass"} ELSE {})
             I == {Fresh.iin}
  <1>1. PICK o \in enable_bypass(Fresh, vin, vbat) : pump' = Returned(o.p)
    BY DEF EnableBypass, Call
  <1>2. verdict' = "none" /\ UNCHANGED <<vin, vbat>> /\ Fresh.state # "Closed"
    BY FreshIs DEF EnableBypass, Call, IsOpen
  <1>3. Within(Fresh, M, I, Fresh) /\ (Window(vin) => "Bypass" \in M)
    BY <1>2, FreshIs, Self
  <1>4. vin \in Nat /\ vbat \in Nat
    BY VoltageAssumption DEF IInv, TypeOK
  <1> HIDE DEF M, I
  <1>5. Within(Fresh, M, I, o.p)
    BY <1>3, <1>4, BypassOutcome
  <1>6. /\ o.p \in Pumps /\ o.p.cfg_iin = Fresh.cfg_iin /\ o.p.iin = Fresh.iin /\ o.p.ctrl \in M
    BY <1>5 DEF Within, I
  <1>7. \E a \in outs : Chip(o.p) = a.c
    BY <1>4, <1>6, FreshIs, BypassPromised DEF M
  <1>8. Promise!Answer(outs) /\ UNCHANGED <<vin, vbat>> => Promise!Next
    BY FreshChip DEF Promise!Next, Promise!Call
  <1>9. o.p.cfg_iin >= IIN_MIN_UA /\ (o.p.ctrl = "Bypass" => pump.ctrl = "Bypass" \/ Window(vin))
    BY <1>6, FreshIs DEF IInv, M
  <1> HIDE DEF outs
  <1> QED
    BY <1>1, <1>2, <1>6, <1>7, <1>8, <1>9, CallKept

\* An input-current limit.
LEMMA LimitKept ==
    ASSUME IInv, SetIinLimit
    PROVE  Kept
  <1>1. PICK ua \in IinLimits : Call(set_iin_limit(Fresh, ua))
    BY DEF SetIinLimit
  <1>2. PICK o \in set_iin_limit(Fresh, ua) : pump' = Returned(o.p)
    BY <1>1 DEF Call
  <1>3. verdict' = "none" /\ UNCHANGED <<vin, vbat>> /\ Fresh.state # "Closed"
    BY <1>1, FreshIs DEF SetIinLimit, Call, IsOpen
  <1> DEFINE outs == Promise!SetIin(Chip(Fresh), ua)
             code == encode_iin_limit(ua)
  <1>4. /\ o.p \in Pumps /\ o.p.ctrl = Fresh.ctrl
        /\ code = NoValue => o.p = Fresh
        /\ code # NoValue /\ o.p.bus = "up" => o.p.iin = code /\ o.p.cfg_iin = ua
        /\ code # NoValue /\ o.p.bus # "up" =>
               o.p.iin \in {Fresh.iin, code} /\ o.p.cfg_iin = Fresh.cfg_iin
    BY <1>3, FreshIs, SetLimitOutcome DEF Clean
  <1>5. code # NoValue => ua >= IIN_MIN_UA
    BY LimitAssumption DEF encode_iin_limit, IIN_MIN_UA
  <1> HIDE DEF code
  <1>6. /\ code = NoValue => o.p.bus = "up" /\ o.p.iin = Fresh.iin /\ o.p.cfg_iin = Fresh.cfg_iin
        /\ o.p.ctrl = pump.ctrl /\ o.p.cfg_iin >= IIN_MIN_UA
    BY <1>4, <1>5, FreshIs DEF IInv
  <1>7. \E a \in outs : Chip(o.p) = a.c
    BY <1>4, <1>6, FreshIs, LimitPromised DEF code
  <1>8. Promise!Answer(outs) /\ UNCHANGED <<vin, vbat>> => Promise!Next
    BY FreshChip DEF Promise!Next, Promise!Call, Promise!Adjust
  <1> HIDE DEF outs
  <1> QED
    BY <1>2, <1>3, <1>4, <1>6, <1>7, <1>8, CallKept

\* What touches neither mode nor current.
LEMMA QuietKept ==
    ASSUME IInv, SetVbatFloat \/ ClearLatchedFaults
    PROVE  Kept
  <1> DEFINE outs == {Promise!Outcome(Chip(Fresh), TRUE),
                      Promise!Outcome(Promise!Dirty(Chip(Fresh)), FALSE)}
             M == {Fresh.ctrl}
             I == {Fresh.iin}
             Quiet(o) == /\ o.p \in Pumps /\ o.p.ctrl = Fresh.ctrl /\ o.p.iin = Fresh.iin
                         /\ o.p.cfg_iin = Fresh.cfg_iin
  <1>1. verdict' = "none" /\ UNCHANGED <<vin, vbat>> /\ Fresh.state # "Closed" /\ Fresh \in Pumps
    BY FreshIs DEF SetVbatFloat, ClearLatchedFaults, Call, IsOpen
  <1>2. \E o : Quiet(o) /\ pump' = Returned(o.p)
    <2>1. CASE SetVbatFloat
      <3>1. PICK uv \in Floats : \E o \in set_vbat_float(Fresh, uv) : pump' = Returned(o.p)
        BY <2>1 DEF SetVbatFloat, Call
      <3>2. PICK o \in set_vbat_float(Fresh, uv) : pump' = Returned(o.p)
        BY <3>1
      <3>3. Quiet(o)
        BY <1>1, SetFloatOutcome
      <3> QED
        BY <3>2, <3>3
    <2>2. CASE ClearLatchedFaults
      <3>1. PICK o \in clear_latched_faults(Fresh) : pump' = Returned(o.p)
        BY <2>2 DEF ClearLatchedFaults, Call
      <3>2. Within(Fresh, M, I, Fresh)
        BY <1>1, Self
      <3> HIDE DEF M, I
      <3>3. Within(Fresh, M, I, o.p)
        BY <3>2, ClearOutcome
      <3>4. Quiet(o)
        BY <3>3 DEF Within, M, I
      <3> QED
        BY <3>1, <3>4
    <2> QED
      BY <2>1, <2>2
  <1>3. PICK o : Quiet(o) /\ pump' = Returned(o.p)
    BY <1>2
  <1>4. \E a \in outs : Chip(o.p) = a.c
    <2>1. Chip(o.p) \in {Chip(Fresh), Promise!Dirty(Chip(Fresh))}
      BY <1>3, FreshIs, QuietPromised
    <2> QED
      BY <2>1 DEF Promise!Outcome
  <1>5. Promise!Answer(outs) /\ UNCHANGED <<vin, vbat>> => Promise!Next
    BY FreshChip DEF Promise!Next, Promise!Call, Promise!Adjust
  <1>6. o.p.cfg_iin >= IIN_MIN_UA /\ (o.p.ctrl = "Bypass" => pump.ctrl = "Bypass")
    BY <1>3, FreshIs DEF IInv
  <1> HIDE DEF outs
  <1> QED
    BY <1>1, <1>3, <1>4, <1>5, <1>6, CallKept

\* A power-on reset.
LEMMA ResetKept ==
    ASSUME IInv, SoftReset
    PROVE  Kept
  <1> DEFINE outs == Promise!Reset(Chip(Fresh))
             M == {Fresh.ctrl}
             I == {Fresh.iin}
  <1>1. PICK o \in soft_reset(Fresh) : pump' = Returned(o.p)
    BY DEF SoftReset, Call
  <1>2. verdict' = "none" /\ UNCHANGED <<vin, vbat>> /\ Fresh.state # "Closed"
    BY FreshIs DEF SoftReset, Call, IsOpen
  <1>3. Within(Fresh, M, I, Fresh)
    BY <1>2, FreshIs, Self
  <1> HIDE DEF M, I
  <1>4. /\ Within(Fresh, M, I, o.p) \/ Within(Fresh, {"Standby"}, {PorIin}, o.p)
        /\ Clean(o) => Within(Fresh, {"Standby"}, {PorIin}, o.p)
    BY <1>3, ResetOutcome
  <1>5. /\ o.p \in Pumps /\ o.p.cfg_iin = Fresh.cfg_iin
        /\ \/ o.p.ctrl = "Standby" /\ o.p.iin = PorIin
           \/ o.p.bus # "up" /\ o.p.ctrl = Fresh.ctrl /\ o.p.iin = Fresh.iin
    BY <1>4 DEF Within, M, I, Clean
  <1>6. \E a \in outs : Chip(o.p) = a.c
    BY <1>5, FreshIs, ResetPromised
  <1>7. Promise!Answer(outs) /\ UNCHANGED <<vin, vbat>> => Promise!Next
    BY FreshChip DEF Promise!Next, Promise!Call
  <1>8. o.p.cfg_iin >= IIN_MIN_UA /\ (o.p.ctrl = "Bypass" => pump.ctrl = "Bypass")
    BY <1>5, FreshIs DEF IInv
  <1> HIDE DEF outs
  <1> QED
    BY <1>1, <1>2, <1>5, <1>6, <1>7, <1>8, CallKept

\* A start whose accesses went through leaves what its verdict says.
LEMMA VerdictHolds ==
    ASSUME IInv, NEW o, Within(Fresh, StartModes(Fresh, vin), StartIins(Fresh), o.p),
           o.ok \in BOOLEAN, Started(Fresh, vin, vbat, o),
           pump' = Returned(o.p), verdict' = o.v, UNCHANGED <<vin, vbat>>
    PROVE  IInv'
  <1> DEFINE mode == charge_mode(vin, vbat)
             due  == TaperDue(Fresh, vin, vbat)
  <1>1. vin \in Nat /\ vbat \in Nat
    BY VoltageAssumption DEF IInv, TypeOK
  <1>2. /\ mode \in {"Switching", "Bypass", NoMode}
        /\ vin >= ELEVATED_MIN_VIN_UV => mode # "Bypass"
    BY <1>1, Admission
  <1>3. /\ pump' \in PumpRecord
        /\ pump'.ctrl = o.p.ctrl /\ pump'.iin = o.p.iin /\ pump'.masks = o.p.masks
        /\ pump'.bypass_stage = o.p.bypass_stage
        /\ pump'.cfg_iin = Fresh.cfg_iin /\ pump'.cfg_float = Fresh.cfg_float
    <2>1. /\ o.p \in Pumps /\ o.p.cfg_iin = Fresh.cfg_iin /\ o.p.cfg_float = Fresh.cfg_float
      BY DEF Within
    <2> QED
      BY <2>1, ReturnedIs
  <1>4. /\ mode = "Switching" => StartedSwitching(Fresh, Fresh, due, o) /\ (o.ok => o.v = "Switching")
        /\ mode = "Bypass" => StartedBypass(Fresh, Fresh, due, o) /\ (o.ok => o.v = "Bypass")
        /\ mode = NoMode => ~o.ok /\ o.p.ctrl = "Standby"
        /\ ~o.ok => o.v = "err"
    BY DEF Started
  <1> HIDE DEF mode, due
  <1>5. /\ o.ok => o.v = mode /\ mode \in {"Switching", "Bypass"}
        /\ o.v = "err" <=> ~o.ok
    BY <1>2, <1>4 DEF NoMode
  <1>6. TypeOK'
    BY <1>3, <1>5 DEF IInv, TypeOK
  <1>7. pump'.cfg_iin >= IIN_MIN_UA
    BY <1>3, FreshIs DEF IInv
  <1>8. RefusedStartIsIdle'
    <2>1. ASSUME verdict' = "err", vin >= ELEVATED_MIN_VIN_UV
          PROVE  pump'.ctrl = "Standby"
      <3>1. ~o.ok /\ mode # "Bypass"
        BY <1>2, <1>5, <2>1
      <3> QED
        BY <1>2, <1>3, <1>4, <3>1 DEF StartedSwitching
    <2> QED
      BY <2>1 DEF RefusedStartIsIdle
  <1>9. RefusedBypassUnmasks'
    <2>1. ASSUME verdict' = "err", pump'.bypass_stage = 3, mode = "Bypass"
          PROVE  pump'.masks = {}
      <3>1. ~o.ok
        BY <1>5, <2>1
      <3> QED
        BY <1>3, <1>4, <2>1, <3>1 DEF StartedBypass
    <2> QED
      BY <2>1 DEF RefusedBypassUnmasks, mode
  <1>10. NearFullStartIsTapered'
    <2>1. ASSUME verdict' \in {"Switching", "Bypass"}, pump'.cfg_iin > VBAT_TAPER_IIN_UA,
                 vbat >= pump'.cfg_float - VBAT_TAPER_MARGIN_UV
          PROVE  decode_iin_limit(pump'.iin) <= VBAT_TAPER_IIN_UA
      <3>1. o.ok /\ mode \in {"Switching", "Bypass"}
        BY <1>5, <2>1
      <3>2. Fresh.cfg_float \in Nat
        BY FreshIs, LimitAssumption DEF IInv, TypeOK, PumpRecord
      <3>3. mode # NoMode
        BY <3>1 DEF NoMode
      <3>4. due
        BY <1>1, <1>3, <2>1, <3>2, <3>3, TaperIsDue DEF mode, due
      <3>5. pump'.iin = TaperCode(Fresh)
        BY <1>3, <1>4, <3>1, <3>4 DEF StartedSwitching, StartedBypass
      <3> QED
        BY <3>5, FreshIs, SetpointCodes
    <2> QED
      BY <2>1 DEF NearFullStartIsTapered
  <1> QED
    BY <1>6, <1>7, <1>8, <1>9, <1>10 DEF IInv

\* A start, clean or not.
LEMMA StartKept ==
    ASSUME IInv, ChargeOn
    PROVE  Kept
  <1>1. PICK vfaults \in BOOLEAN : \E o \in charge_on(Fresh, vin, vbat, vfaults) :
            /\ pump' = Returned(o.p)
            /\ verdict' = IF o.p.bus = "up" THEN o.v ELSE "none"
    BY DEF ChargeOn
  <1>2. PICK o \in charge_on(Fresh, vin, vbat, vfaults) :
            /\ pump' = Returned(o.p)
            /\ verdict' = IF o.p.bus = "up" THEN o.v ELSE "none"
    BY <1>1
  <1>3. UNCHANGED <<vin, vbat>> /\ Fresh.state # "Closed"
    BY FreshIs DEF ChargeOn, IsOpen
  <1>4. vin \in Vins /\ vin \in Nat /\ vbat \in Nat
    BY VoltageAssumption DEF IInv, TypeOK
  <1>5. /\ Within(Fresh, StartModes(Fresh, vin), StartIins(Fresh), o.p) /\ o.ok \in BOOLEAN
        /\ Clean(o) => Started(Fresh, vin, vbat, o)
    BY <1>3, <1>4, FreshIs, ChargeOnOutcome
  <1>6. /\ o.p \in Pumps /\ o.p.cfg_iin = Fresh.cfg_iin
        /\ o.p.ctrl \in StartModes(Fresh, vin) /\ o.p.iin \in StartIins(Fresh)
    BY <1>5 DEF Within
  <1>7. IInv'
    <2>1. CASE Clean(o)
      BY <1>2, <1>3, <1>5, <2>1, VerdictHolds DEF Clean
    <2>2. CASE ~Clean(o)
      <3>1. o.p.cfg_iin >= IIN_MIN_UA
        BY <1>6, FreshIs DEF IInv
      <3> QED
        BY <1>2, <1>3, <1>6, <2>2, <3>1, QuietCall DEF Clean
    <2> QED
      BY <2>1, <2>2
  <1>8. Promise!Next
    <2> DEFINE outs == Promise!Start(Chip(Fresh), vin, vbat)
    <2>1. \E a \in outs : Chip(o.p) = a.c
      BY <1>4, <1>5, <1>6, FreshIs, StartPromised
    <2>2. Promise!Answer(outs) /\ UNCHANGED <<vin, vbat>> => Promise!Next
      BY FreshChip DEF Promise!Next, Promise!Call
    <2> HIDE DEF outs
    <2> QED
      BY <1>2, <1>3, <1>6, <2>1, <2>2, Answered
  <1>9. pump'.ctrl = "Bypass" /\ pump.ctrl # "Bypass" => Window(vin)
    BY <1>2, <1>6, FreshIs, ReturnedIs DEF StartModes
  <1> QED
    BY <1>7, <1>8, <1>9 DEF Kept

-----------------------------------------------------------------------------
(* The theorems.                                                           *)

\* Every step is such a step, the one in which only the input moves included.
LEMMA NextKept ==
    ASSUME IInv, Next
    PROVE  Kept
  <1>1. CASE Input
    <2>1. IInv'
      BY <1>1 DEF IInv, TypeOK, Input, RefusedStartIsIdle, RefusedBypassUnmasks,
         NearFullStartIsTapered
    <2>2. Promise!Next
      BY <1>1 DEF Input, Promise!Next, Promise!Input
    <2> QED
      BY <1>1, <2>1, <2>2 DEF Kept, Input
  <1> QED
    BY <1>1, OpenKept, ConfigureKept, IdlingKept, SwitchingKept, BypassKept, LimitKept, QuietKept,
       ResetKept, StartKept DEF Next

\* A step that leaves the session alone keeps the invariant and the promise.
LEMMA StutterKept ==
    ASSUME IInv, UNCHANGED vars
    PROVE  IInv' /\ UNCHANGED Promise!pvars
  <1>1. IInv'
    BY DEF vars, IInv, TypeOK, RefusedStartIsIdle, RefusedBypassUnmasks, NearFullStartIsTapered
  <1>2. UNCHANGED Promise!pvars
    BY DEF vars, Promise!pvars
  <1> QED
    BY <1>1, <1>2

\* The chip after power-up is the one the promise starts from.
LEMMA InitHolds ==
    ASSUME Init
    PROVE  IInv /\ Promise!Init
  <1>1. IInv
    BY LimitAssumption, ResetAssumption DEF Init, IInv, TypeOK, PumpRecord, PumpStates, CommandModes,
       RefusedStartIsIdle, RefusedBypassUnmasks, NearFullStartIsTapered
  <1>2. pump.bus = "up" /\ pump.ctrl = "Standby" /\ pump.iin = PorIin /\ pump.cfg_iin = ProfileIin
    BY DEF Init
  <1>3. Chip(pump) = ChipRecord("Standby", PorIin, ProfileIin, BusOk)
    BY <1>2, ChipIs
  <1>4. [ctrl |-> pump.ctrl, iin |-> pump.iin, cfg_iin |-> pump.cfg_iin,
         bus_ok |-> pump.bus = "up"]
            = [ctrl |-> "Standby", iin |-> PorIin, cfg_iin |-> ProfileIin, bus_ok |-> TRUE]
    BY <1>3, Zenon DEF Chip, ChipRecord, BusOk
  <1> QED
    BY <1>1, <1>4, Zenon DEF Init, Promise!Init

\* The inductive invariant holds of every session.
THEOREM InvHolds == Spec => []IInv
  <1>1. Init => IInv
    BY InitHolds
  <1>2. IInv /\ [Next]_vars => IInv'
    BY NextKept, StutterKept DEF Kept
  <1> QED
    BY <1>1, <1>2, PTL DEF Spec

\* Whatever calls are made, over whatever input and on whatever bus, the session's record
\* stays well typed.
THEOREM TypeCorrect == Spec => []TypeOK
  <1>1. IInv => TypeOK
    BY DEF IInv
  <1> QED
    BY <1>1, InvHolds, PTL

\* A start that the chip refuses on a raised input idles the pump, on a bus that works.
THEOREM RefusedIdle == Spec => []RefusedStartIsIdle
  <1>1. IInv => RefusedStartIsIdle
    BY DEF IInv
  <1> QED
    BY <1>1, InvHolds, PTL

\* A 5 V start refused after the protections were masked puts them back.
THEOREM RefusedUnmasks == Spec => []RefusedBypassUnmasks
  <1>1. IInv => RefusedBypassUnmasks
    BY DEF IInv
  <1> QED
    BY <1>1, InvHolds, PTL

\* A start near the top of the battery runs at the tapered current, whatever resets and
\* configurations it went through.
THEOREM NearFullTapered == Spec => []NearFullStartIsTapered
  <1>1. IInv => NearFullStartIsTapered
    BY DEF IInv
  <1> QED
    BY <1>1, InvHolds, PTL

\* No call commands 1:1 outside its window, whichever of its accesses fail.
THEOREM OneToOne == Spec => OneToOneOnlyOnFiveVolts
  <1>1. IInv /\ [Next]_vars =>
            [pump'.ctrl = "Bypass" /\ pump.ctrl # "Bypass" =>
                CHARGE_MIN_VIN_UV <= vin /\ vin < ELEVATED_MIN_VIN_UV]_vars
    BY NextKept DEF Kept, Window
  <1> QED
    BY <1>1, InvHolds, PTL DEF Spec, OneToOneOnlyOnFiveVolts

\* A session implements the promise that the charge tick is built on.
THEOREM Implements == Spec => KeepsPromise
  <1>1. Init => Promise!Init
    BY InitHolds
  <1>2. IInv /\ [Next]_vars => [Promise!Next]_(Promise!pvars)
    BY NextKept, StutterKept DEF Kept
  <1> QED
    BY <1>1, <1>2, InvHolds, PTL DEF Spec, KeepsPromise, Promise!Spec
=============================================================================
