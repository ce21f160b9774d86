------------------------- MODULE ChargeTick_proofs -------------------------
(***************************************************************************)
(* Proofs about ChargeTick, for every input, limit and sensor value.       *)
(***************************************************************************)
EXTENDS ChargeTick, TLAPS

-----------------------------------------------------------------------------
(* What the calls on the pump leave behind.                                *)

Results == [c : ChipStates, ok : BOOLEAN]

\* A current that encode_iin_limit accepts has a code the chip stands by, and
\* the code never stands for more than was asked for.
LEMMA EncodeIin ==
    ASSUME NEW ua \in Nat, ua >= IIN_MIN_UA
    PROVE  /\ encode_iin_limit(ua) \in IinCodes
           /\ encode_iin_limit(ua) # NoValue
           /\ decode_iin_limit(encode_iin_limit(ua)) \in Nat
           /\ decode_iin_limit(encode_iin_limit(ua)) <= ua
           /\ decode_iin_limit(encode_iin_limit(ua)) >= IIN_MIN_UA
BY DEF encode_iin_limit, decode_iin_limit, IinCodes, Lesser, Greater,
       IIN_MIN_UA, IIN_STEP_UA, IIN_CODE_MAX, NoValue

\* PumpPromise encodes currents the same way.
LEMMA SameEncoding ==
    ASSUME NEW ua \in Nat
    PROVE  P!encode_iin_limit(ua) = encode_iin_limit(ua)
BY DEF P!encode_iin_limit, encode_iin_limit, P!IIN_MIN_UA, IIN_MIN_UA, P!NoValue, NoValue,
       P!Lesser, Lesser, P!IIN_STEP_UA, IIN_STEP_UA, P!IIN_CODE_MAX, IIN_CODE_MAX

\* The setpoints a start may write are codes.
LEMMA StartCodes ==
    ASSUME NEW c \in ChipStates
    PROVE  P!Taper(c) \in IinCodes /\ P!Profile(c) \in IinCodes
<1>1. c.cfg_iin \in Nat /\ c.cfg_iin >= IIN_MIN_UA
  BY DEF ChipStates
<1>2. /\ P!Lesser(c.cfg_iin, P!VBAT_TAPER_IIN_UA) \in Nat
      /\ P!Lesser(c.cfg_iin, P!VBAT_TAPER_IIN_UA) >= IIN_MIN_UA
  BY <1>1 DEF P!Lesser, P!VBAT_TAPER_IIN_UA, IIN_MIN_UA
<1> QED
  BY <1>1, <1>2, EncodeIin, SameEncoding DEF P!Taper, P!Profile

\* set_iin_limit keeps the chip well formed; it writes the code of the current
\* it was asked for or nothing, and leaves the mode alone.
LEMMA SetIinResult ==
    ASSUME NEW c \in ChipStates, NEW ua \in Nat, NEW o \in P!SetIin(c, ua)
    PROVE  /\ o \in Results
           /\ o.c.ctrl = c.ctrl
           /\ o.c.iin = c.iin \/ (ua >= IIN_MIN_UA /\ o.c.iin = encode_iin_limit(ua))
           /\ o.ok => ua >= IIN_MIN_UA
           /\ ~c.bus_ok => ~o.c.bus_ok
<1>1. CASE ua < IIN_MIN_UA
  <2>1. encode_iin_limit(ua) = NoValue
    BY <1>1 DEF encode_iin_limit, IIN_MIN_UA
  <2>2. o = P!Outcome(c, FALSE)
    BY <2>1, SameEncoding DEF P!SetIin, P!NoValue, NoValue
  <2> QED
    BY <2>2 DEF P!Outcome, Results, ChipStates
<1>2. CASE ua >= IIN_MIN_UA
  <2>1. encode_iin_limit(ua) \in IinCodes /\ encode_iin_limit(ua) # NoValue
    BY <1>2, EncodeIin
  <2> DEFINE d == [c EXCEPT !.iin = encode_iin_limit(ua)]
  <2>2. PICK w \in P!Written(c, d) :
            o = IF w.ok THEN P!Outcome([w.c EXCEPT !.cfg_iin = ua], TRUE) ELSE w
    BY <2>1, SameEncoding DEF P!SetIin, P!NoValue, NoValue
  <2>3. d \in ChipStates
    BY <2>1 DEF ChipStates
  <2>4. CASE w = P!Outcome(d, TRUE)
    BY <1>2, <2>1, <2>2, <2>3, <2>4 DEF P!Outcome, Results, ChipStates
  <2>5. CASE w = P!Outcome(P!Dirty(c), FALSE)
    BY <1>2, <2>1, <2>2, <2>3, <2>5 DEF P!Outcome, P!Dirty, Results, ChipStates
  <2>6. CASE w = P!Outcome(P!Dirty(d), FALSE)
    BY <1>2, <2>1, <2>2, <2>3, <2>6 DEF P!Outcome, P!Dirty, Results, ChipStates
  <2> QED
    BY <2>2, <2>4, <2>5, <2>6 DEF P!Written
<1> QED
  BY <1>1, <1>2 DEF IIN_MIN_UA

\* Register writes and bus failures on a well-formed chip.
LEMMA DirtyChip ==
    ASSUME NEW c \in ChipStates
    PROVE  /\ P!Dirty(c) \in ChipStates
           /\ P!Dirty(c).ctrl = c.ctrl /\ P!Dirty(c).iin = c.iin
           /\ P!Dirty(c).cfg_iin = c.cfg_iin /\ P!Dirty(c).bus_ok = FALSE
BY DEF P!Dirty, ChipStates

\* A bus failure with one more setpoint written leaves a well-formed chip.
LEMMA LeavingChip ==
    ASSUME NEW c \in ChipStates, NEW modes \in SUBSET CommandModes,
           NEW iins \in SUBSET IinCodes
    PROVE  P!Leaving(c, modes, iins) \subseteq ChipStates
BY DEF P!Leaving, ChipStates

\* standby ends idle unless the bus failed, and writes nothing else.
LEMMA IdleResult ==
    ASSUME NEW c \in ChipStates, NEW o \in P!Idle(c)
    PROVE  /\ o \in Results
           /\ o.c.iin = c.iin
           /\ o.c.bus_ok => o.c.ctrl = "Standby"
           /\ c.ctrl = "Standby" => o.c.ctrl = "Standby"
<1> DEFINE d == [c EXCEPT !.ctrl = "Standby"]
<1>1. d \in ChipStates /\ d.ctrl = "Standby" /\ d.iin = c.iin
  BY DEF ChipStates, CommandModes
<1>2. \/ o = P!Outcome(d, TRUE)
      \/ o = P!Outcome(P!Dirty(c), FALSE)
      \/ o = P!Outcome(P!Dirty(d), FALSE)
  BY DEF P!Idle, P!Written
<1> HIDE DEF d
<1>3. CASE o = P!Outcome(d, TRUE)
  BY <1>1, <1>3 DEF P!Outcome, Results
<1>4. CASE o = P!Outcome(P!Dirty(c), FALSE)
  BY <1>4, DirtyChip DEF P!Outcome, Results
<1>5. CASE o = P!Outcome(P!Dirty(d), FALSE)
  <2>1. P!Dirty(d) \in ChipStates /\ P!Dirty(d).ctrl = "Standby" /\ P!Dirty(d).iin = c.iin
    BY <1>1, DirtyChip
  <2> QED
    BY <1>5, <2>1 DEF P!Outcome, Results
<1> QED
  BY <1>2, <1>3, <1>4, <1>5

\* enable_bypass writes no setpoint.
LEMMA BypassResult ==
    ASSUME NEW c \in ChipStates, NEW v \in Nat, NEW o \in P!Bypass(c, v)
    PROVE  o \in Results /\ o.c.iin = c.iin
<1>1. c.iin \in IinCodes
  BY DEF ChipStates
<1>2. /\ P!Leaving(c, {"Bypass"}, {c.iin}) \subseteq ChipStates
      /\ P!Leaving(P!Dirty(c), {"Bypass"}, {c.iin}) \subseteq ChipStates
  BY <1>1, DirtyChip, LeavingChip DEF CommandModes
<1>3. \A d : \A e \in P!Leaving(d, {"Bypass"}, {c.iin}) : e.iin = c.iin
  BY DEF P!Leaving
<1> QED
  BY <1>2, <1>3, DirtyChip DEF P!Bypass, Results

\* enable_switching writes no setpoint and ends in one of the commanded modes.
LEMMA Force21Result ==
    ASSUME NEW c \in ChipStates, NEW o \in P!Force21(c)
    PROVE  o \in Results
<1>1. c.iin \in IinCodes
  BY DEF ChipStates
<1>2. /\ P!Leaving(c, {"Switching"}, {c.iin}) \subseteq ChipStates
      /\ P!Leaving(P!Dirty(c), {"Switching"}, {c.iin}) \subseteq ChipStates
  BY <1>1, DirtyChip, LeavingChip DEF CommandModes
<1> QED
  BY <1>2, DirtyChip DEF P!Force21, Results

\* configure writes the profile and its current, or fails on the way.
LEMMA SetupResult ==
    ASSUME NEW c \in ChipStates, NEW o \in P!Setup(c)
    PROVE  o \in Results
<1>1. /\ c.iin \in IinCodes /\ P!Profile(c) \in IinCodes
      /\ {c.ctrl, "Standby"} \subseteq CommandModes
  BY StartCodes DEF ChipStates, CommandModes
<1>2. /\ P!Leaving(c, {"Standby"}, {P!Profile(c)}) \subseteq ChipStates
      /\ P!Leaving(P!Dirty(c), {c.ctrl, "Standby"}, {c.iin, P!Profile(c)}) \subseteq ChipStates
  BY <1>1, DirtyChip, LeavingChip
<1> QED
  BY <1>2 DEF P!Setup, Results

\* soft_reset puts the setpoint back to its power-on code and keeps the session.
LEMMA ResetResult ==
    ASSUME NEW c \in ChipStates, NEW o \in P!Reset(c)
    PROVE  o \in Results
<1>1. PorIin \in IinCodes
  BY RequestAssumption
<1>2. /\ P!Leaving(c, {"Standby"}, {PorIin}) \subseteq ChipStates
      /\ P!Leaving(P!Dirty(c), {"Standby"}, {PorIin}) \subseteq ChipStates
  BY <1>1, DirtyChip, LeavingChip DEF CommandModes
<1> QED
  BY <1>2, DirtyChip DEF P!Reset, Results

\* set_charging(true) leaves a well-formed chip, whatever it tried on the way.
LEMMA StartResult ==
    ASSUME NEW c \in ChipStates, NEW v \in Nat, NEW b \in Nat, NEW o \in P!Start(c, v, b)
    PROVE  o \in Results
<1>1. /\ P!Taper(c) \in IinCodes /\ P!Profile(c) \in IinCodes /\ PorIin \in IinCodes
      /\ c.iin \in IinCodes /\ c.ctrl \in CommandModes
      /\ {"Standby", "Switching", "Bypass"} \subseteq CommandModes
  BY StartCodes, RequestAssumption DEF ChipStates, CommandModes
<1>2. P!charge_mode(v, b) \in {"Switching", "Bypass", P!NoMode}
  BY DEF P!charge_mode
<1>3. CASE o \in P!CleanStart(c, v, b)
  <2>1. \A m \in CommandModes, iins \in SUBSET IinCodes :
            P!Leaving(c, {m}, iins) \subseteq ChipStates
    BY LeavingChip
  <2>2. PICK m \in CommandModes, iins \in SUBSET IinCodes, ok \in BOOLEAN :
            o \in [c : P!Leaving(c, {m}, iins), ok : {ok}]
    BY <1>1, <1>2, <1>3 DEF P!CleanStart, P!NoMode
  <2> QED
    BY <2>1, <2>2 DEF Results
<1>4. CASE o \in P!DirtyStart(c, v)
  <2> DEFINE modes == {c.ctrl, "Standby"}
                      \cup (IF v >= P!ELEVATED_MIN_VIN_UV THEN {"Switching"} ELSE {})
                      \cup (IF P!bypass_allowed_by_vin(v, 0) THEN {"Bypass"} ELSE {})
             codes == {c.iin, P!Profile(c), P!Taper(c), PorIin}
  <2>1. modes \subseteq CommandModes /\ codes \subseteq IinCodes
    BY <1>1
  <2>2. o \in [c : P!Leaving(P!Dirty(c), modes, codes), ok : BOOLEAN]
    BY <1>4, Zenon DEF P!DirtyStart
  <2> HIDE DEF modes, codes
  <2>3. P!Leaving(P!Dirty(c), modes, codes) \subseteq ChipStates
    BY <2>1, DirtyChip, LeavingChip
  <2> QED
    BY <2>2, <2>3 DEF Results
<1> QED
  BY <1>3, <1>4 DEF P!Start

\* So does a start after the latched faults were cleared.
LEMMA StartedResult ==
    ASSUME NEW c \in ChipStates, NEW v \in Nat, vbat \in Nat, NEW o \in Started(c, v)
    PROVE  o \in Results
BY DirtyChip, StartResult DEF Started

\* So do the resets, reconfigurations and starts of recover_ln_shutdown.
LEMMA RebuiltResult ==
    ASSUME NEW c \in ChipStates, NEW v \in Nat, vbat \in Nat, NEW o \in Rebuilt(c, v)
    PROVE  o \in Results
<1>1. PICK r \in P!Reset(c) : o \in UNION {P!Start(q.c, v, vbat) : q \in P!Setup(r.c)}
  BY DEF Rebuilt
<1>2. r.c \in ChipStates
  BY ResetResult DEF Results
<1>3. PICK q \in P!Setup(r.c) : o \in P!Start(q.c, v, vbat)
  BY <1>1
<1>4. q.c \in ChipStates
  BY <1>2, SetupResult DEF Results
<1> QED
  BY <1>3, <1>4, StartResult

-----------------------------------------------------------------------------
(* The inductive invariant.                                                *)

Deciding == pc \in {"walk", "attempt", "left", "negotiate"}

\* The target stays under the ceiling and the temperatures and the floor keep their value,
\* whatever SET_LIMITS writes.
LimitsInv ==
    /\ limits \in GuardLimits
    /\ limits.temp_reduce = InitLimits.temp_reduce
    /\ limits.temp_bypass = InitLimits.temp_bypass
    /\ limits.temp_stop = InitLimits.temp_stop
    /\ limits.iin_floor = InitLimits.iin_floor
    /\ limits.iin_target <= limits.iin_max

\* The most the guard may ask for: the ceiling, or the floor where that is higher.
Most(lim) == Greater(lim.iin_max, lim.iin_floor)

\* What the decision that Protect is about to apply says of the chip.
DecisionInv ==
    pc = "protect" =>
        /\ action.kind = "ReduceCurrent" =>
              action.to < decode_iin_limit(chip.iin) /\ action.to <= limits.iin_max
        /\ action.kind = "RestoreCurrent" =>
              sample.temp < limits.temp_reduce /\ action.to <= Most(limits)

\* A denial is remembered until the guard is satisfied or the die has cooled.
DenialInv ==
    denials >= 1 /\ ~(pc = "protect" /\ action.kind # "FallbackToBypass") => strikes = 1

\* After the guard has stopped the charge, or a second denial has, the decision
\* of the tick is a change, and the pump is idle.
StoppedInv ==
    Deciding => /\ denials >= 1 => action.kind = "FallbackToBypass"
                /\ /\ action.kind = "Stop" \/ denials = 2
                   /\ chip.bus_ok
                   => chip.ctrl = "Standby"

Inv == TypeOK /\ LimitsInv /\ DecisionInv /\ DenialInv /\ StoppedInv

-----------------------------------------------------------------------------
(* What the guard can decide.                                              *)

GuardKinds == {"None", "ReduceCurrent", "RestoreCurrent", "FallbackToBypass", "Stop"}

\* A decision a on the sample s: a reduction is one and stays under the ceiling,
\* a restore under the ceiling or the floor, and it needs a cool die; 1:1 is asked for by a hot one.
SoundDecision(a, s, lim, applied) ==
    /\ a.kind \in GuardKinds /\ a.to \in Nat
    /\ a.kind = "ReduceCurrent" => a.to < applied /\ a.to <= lim.iin_max
    /\ a.kind = "RestoreCurrent" =>
          die_temp_usable(s) /\ s.die_temp < lim.temp_reduce /\ a.to <= Most(lim)
    /\ a.kind = "FallbackToBypass" => die_temp_usable(s) /\ s.die_temp >= lim.temp_bypass

\* A restore asks for no more than the ceiling of the limits, or their floor.
LEMMA RestoreUnderCeiling ==
    ASSUME NEW lim \in GuardLimits, NEW deliberate \in Nat \cup {NoValue}
    PROVE  /\ restore_ceiling(lim, deliberate) \in Nat
           /\ restore_ceiling(lim, deliberate) <= Most(lim)
<1>1. lim.iin_floor \in Nat /\ lim.iin_max \in Nat /\ lim.iin_profile \in Nat
  BY DEF GuardLimits
<1>2. restore_iin_ua(lim) \in Nat /\ restore_iin_ua(lim) <= Most(lim) /\ Most(lim) \in Nat
  BY <1>1 DEF restore_iin_ua, Greater, Most
<1> QED
  BY <1>1, <1>2 DEF restore_ceiling, Lesser, NoValue

\* A fold-back is a decrease of the setpoint, or nothing.
LEMMA CapReduces ==
    ASSUME NEW s, NEW lim, NEW applied \in Nat, NEW to \in Nat,
           lim.iin_max \in Nat, to <= lim.iin_max
    PROVE  SoundDecision(cap(applied, to), s, lim, applied)
<1>1. CASE applied <= to
  BY <1>1 DEF cap, NoAction, Action, SoundDecision, GuardKinds
<1>2. CASE ~(applied <= to)
  BY <1>2 DEF cap, NoAction, Action, SoundDecision, GuardKinds
<1> QED
  BY <1>1, <1>2

\* The current branch decides inside the ceiling, and only lowers when hot.
LEMMA EvaluateCurrentSound ==
    ASSUME NEW s, die_temp_usable(s), s.die_temp \in Int, s.iin \in Nat, s.vbat \in Nat, s.vbus \in Nat,
           NEW lim \in GuardLimits,
           lim.iin_target <= lim.iin_max,
           NEW applied \in Nat, NEW deliberate \in Nat \cup {NoValue}
    PROVE  SoundDecision(evaluate_current(s, lim, applied, deliberate), s, lim, applied)
<1>1. /\ lim.iin_max \in Nat /\ lim.iin_target \in Nat /\ lim.temp_reduce \in Int
      /\ band_iin_ua(lim) \in Nat /\ band_iin_ua(lim) <= lim.iin_max
  BY DEF GuardLimits, band_iin_ua, Lesser
<1>2. /\ SoundDecision(cap(applied, band_iin_ua(lim)), s, lim, applied)
      /\ SoundDecision(cap(applied, lim.iin_target), s, lim, applied)
  BY <1>1, CapReduces
<1>3. SoundDecision(NoAction, s, lim, applied)
  BY DEF NoAction, Action, SoundDecision, GuardKinds
<1>4. s.die_temp < lim.temp_reduce =>
          SoundDecision(Action("RestoreCurrent", restore_ceiling(lim, deliberate)),
                        s, lim, applied)
  BY RestoreUnderCeiling DEF Action, SoundDecision, GuardKinds
<1>5. s.die_temp <= lim.temp_reduce - TEMP_REDUCE_HYST_DC => s.die_temp < lim.temp_reduce
  BY <1>1 DEF TEMP_REDUCE_HYST_DC
<1> QED
  BY <1>2, <1>3, <1>4, <1>5 DEF evaluate_current

\* So does the whole decision.
LEMMA EvaluateSound ==
    ASSUME NEW s, s.die_temp \in Int, s.iin \in Nat, s.vbat \in Nat, s.vbus \in Nat,
           NEW lim \in GuardLimits,
           lim.iin_target <= lim.iin_max,
           NEW applied \in Nat \cup {NoValue}, NEW deliberate \in Nat \cup {NoValue}
    PROVE  SoundDecision(evaluate(s, lim, applied, deliberate), s, lim, applied)
<1>1. SoundDecision(NoAction, s, lim, applied) /\ SoundDecision(Action("Stop", 0), s, lim, applied)
  BY DEF NoAction, Action, SoundDecision, GuardKinds
<1>2. die_temp_usable(s) /\ s.die_temp >= lim.temp_bypass =>
          SoundDecision(Action("FallbackToBypass", 0), s, lim, applied)
  BY DEF Action, SoundDecision, GuardKinds
<1>3. applied # NoValue /\ die_temp_usable(s) =>
          SoundDecision(evaluate_current(s, lim, applied, deliberate), s, lim, applied)
  BY EvaluateCurrentSound
<1> QED
  BY <1>1, <1>2, <1>3 DEF evaluate

-----------------------------------------------------------------------------
(* Every step keeps the invariant.                                         *)

\* The start of a session establishes the invariant.
LEMMA InitEstablishes == Init => Inv
<1> SUFFICES ASSUME Init PROVE Inv
  OBVIOUS
<1>1. chip \in ChipStates /\ vin \in Vins /\ vbat \in Vbats
  BY RequestAssumption DEF Init, P!Init, ChipStates, CommandModes
<1>2. TypeOK
  <2>1. sample \in [vbus : Nat, vbat : Nat, mode : OpModes, temp : Int,
                    desired : {"Switching", "Bypass", NoMode}, fault : AllFaults,
                    transferring : BOOLEAN, walk : BOOLEAN]
    BY DEF Init, NoSample, OpModes, AllFaults
  <2>2. action.kind = "None" /\ action.to = 0
    BY DEF Init, NoAction, Action
  <2>3. /\ strikes \in 0..BYPASS_DENIED_STRIKES_BEFORE_STOP
        /\ failed \in 0..(CHARGE_FAILS_BEFORE_RESET - 1) /\ denials \in 0..2
    BY DEF Init, BYPASS_DENIED_STRIKES_BEFORE_STOP, CHARGE_FAILS_BEFORE_RESET
  <2>4. float \in Nat /\ limits \in GuardLimits /\ pc \in Stages /\ reset \in BOOLEAN
    BY LimitsAssumption, RequestAssumption DEF Init, Stages
  <2> QED
    BY <1>1, <2>1, <2>2, <2>3, <2>4 DEF TypeOK
<1>3. LimitsInv
  BY LimitsAssumption DEF Init, LimitsInv, is_consistent
<1>4. DecisionInv /\ DenialInv /\ StoppedInv
  BY DEF Init, DecisionInv, DenialInv, StoppedInv, Deciding
<1> QED
  BY <1>2, <1>3, <1>4 DEF Inv

\* A sample and the decision on it keep the invariant.
LEMMA SampleKeeps == Inv /\ Sample => Inv'
<1> SUFFICES ASSUME Inv, Sample PROVE Inv'
  OBVIOUS
<1> USE DEF Inv
<1>1. PICK lost \in Losses, fault \in Faults, fg \in Gauges, i \in Iins, peak \in Iins,
           t \in DieTemps, mode \in {chip.ctrl, "Standby", "Unknown"} :
         LET b == IF "vbat" \in lost THEN 0 ELSE vbat
             v == IF "vbus" \in lost THEN 0 ELSE vin
             iin == IF "iin" \in lost THEN 0 ELSE i
             s == [vbat |-> b, vbus |-> v, iin |-> iin, mode |-> mode, vbat_valid |-> b > 0,
                   die_temp |-> t, die_temp_valid |-> "die_temp" \notin lost,
                   input_present |-> /\ ~has_critical_fault(fault) /\ v > 0
                                     /\ ~phantom_input(iin, mode, fault, b, v)]
         IN  /\ peak >= iin
             /\ Decide(s, fault, anchor_cell_vbat_uv(fg, b), peak, lost)
  BY DEF Sample
<1> DEFINE b == IF "vbat" \in lost THEN 0 ELSE vbat
           v == IF "vbus" \in lost THEN 0 ELSE vin
           iin == IF "iin" \in lost THEN 0 ELSE i
           s == [vbat |-> b, vbus |-> v, iin |-> iin, mode |-> mode, vbat_valid |-> b > 0,
                 die_temp |-> t, die_temp_valid |-> "die_temp" \notin lost,
                 input_present |-> /\ ~has_critical_fault(fault) /\ v > 0
                                   /\ ~phantom_input(iin, mode, fault, b, v)]
           cell == anchor_cell_vbat_uv(fg, b)
           applied == IF "iin_ctrl" \in lost THEN NoValue ELSE decode_iin_limit(chip.iin)
           deliberate ==
               IF vbat_near_float_with_vin(b, float, fault = "vbat_ov", v)
               THEN Lesser(chip.cfg_iin, VBAT_TAPER_IIN_UA) ELSE NoValue
<1>2. /\ b \in Nat /\ v \in Nat /\ iin \in Nat /\ t \in Int /\ fault \in AllFaults
      /\ mode \in OpModes /\ cell \in Nat
  BY SensorAssumption DEF TypeOK, ChipStates, OpModes, CommandModes, anchor_cell_vbat_uv
<1>3. /\ s.die_temp = t /\ s.iin = iin /\ s.vbat = b /\ s.vbus = v /\ s.mode = mode
      /\ s.die_temp_valid = ("die_temp" \notin lost)
  OBVIOUS
<1>4. Decide(s, fault, cell, peak, lost)
  BY <1>1
<1> HIDE DEF s, cell, b, v, iin
<1>5. /\ strikes' = IF bypass_strikes_expired(s, limits) THEN 0 ELSE strikes
      /\ action' = evaluate(s, limits, applied, deliberate)
  BY <1>3, <1>4 DEF Decide
<1>6. /\ sample'.temp = IF die_temp_usable(s) THEN s.die_temp ELSE 0
      /\ sample' \in [vbus : Nat, vbat : Nat, mode : OpModes, temp : Int,
                      desired : {"Switching", "Bypass", NoMode}, fault : AllFaults,
                      transferring : BOOLEAN, walk : BOOLEAN]
  <2>1. \A alive : DesiredMode(alive, v, cell) \in {"Switching", "Bypass", NoMode}
    BY DEF DesiredMode, charge_mode
  <2>2. \A dead, tr : WalkDue(v, cell, dead, tr) \in BOOLEAN
    BY DEF WalkDue
  <2> QED
    BY <1>2, <1>3, <1>4, <2>1, <2>2 DEF Decide
<1>7. decode_iin_limit(chip.iin) \in Nat /\ chip.cfg_iin \in Nat
  BY DEF TypeOK, ChipStates, IinCodes, decode_iin_limit, Greater,
         IIN_MIN_UA, IIN_STEP_UA, IIN_CODE_MAX
<1>8. applied \in Nat \cup {NoValue} /\ deliberate \in Nat \cup {NoValue}
  BY <1>7 DEF Lesser, VBAT_TAPER_IIN_UA
<1>9. limits \in GuardLimits /\ limits.iin_target <= limits.iin_max
  BY DEF LimitsInv, GuardLimits
<1>10. SoundDecision(action', s, limits, applied)
  BY <1>2, <1>3, <1>5, <1>8, <1>9, EvaluateSound
<1> HIDE DEF applied, deliberate
<1>11. TypeOK'
  <2>1. chip' \in ChipStates
    BY DEF Sample, TypeOK, ChipStates
  <2>2. strikes' \in 0..BYPASS_DENIED_STRIKES_BEFORE_STOP
    BY <1>5 DEF TypeOK, BYPASS_DENIED_STRIKES_BEFORE_STOP
  <2>3. action'.kind \in GuardKinds /\ action'.to \in Nat
    BY <1>10 DEF SoundDecision
  <2> QED
    BY <1>6, <2>1, <2>2, <2>3
       DEF Sample, TypeOK, Stages, GuardKinds, input
<1>12. LimitsInv'
  BY DEF Sample, LimitsInv
<1>13. chip'.iin = chip.iin
  BY DEF Sample, TypeOK, ChipStates
<1>14. DecisionInv'
  <2>1. ASSUME action'.kind = "ReduceCurrent"
        PROVE  action'.to < decode_iin_limit(chip.iin) /\ action'.to <= limits.iin_max
    BY <1>7, <1>10, <2>1 DEF SoundDecision, applied, NoValue
  <2>2. ASSUME action'.kind = "RestoreCurrent"
        PROVE  sample'.temp < limits.temp_reduce /\ action'.to <= Most(limits)
    BY <1>6, <1>10, <2>2 DEF SoundDecision
  <2> QED
    BY <1>13, <2>1, <2>2 DEF DecisionInv, Sample
<1>15. DenialInv'
  <2> SUFFICES ASSUME denials >= 1, action'.kind = "FallbackToBypass" PROVE strikes' = 1
    BY DEF DenialInv, Sample
  <2>1. strikes = 1
    BY DEF DenialInv, Sample
  <2>2. ~bypass_strikes_expired(s, limits)
    BY <1>2, <1>3, <1>10, LimitsAssumption
       DEF bypass_strikes_expired, SoundDecision, LimitsInv, GuardLimits, TEMP_REDUCE_HYST_DC
  <2> QED
    BY <1>5, <2>1, <2>2
<1>16. StoppedInv'
  BY DEF StoppedInv, Deciding, Sample
<1> QED
  BY <1>11, <1>12, <1>14, <1>15, <1>16

\* What apply_guard leaves behind.
LEMMA ApplyGuardResult ==
    ASSUME Inv, pc = "protect", NEW o \in apply_guard(chip)
    PROVE  /\ o \in Results
           /\ o.c.iin # chip.iin => decode_iin_limit(o.c.iin) <= Most(limits)
           /\ sample.temp >= limits.temp_reduce =>
                 \/ decode_iin_limit(o.c.iin) <= decode_iin_limit(chip.iin)
                 \/ Denied /\ o.c.iin = encode_iin_limit(limits.iin_floor)
           /\ action.kind = "Stop" /\ o.c.bus_ok => o.c.ctrl = "Standby"
           /\ Denied /\ strikes = 1 /\ o.c.bus_ok => o.c.ctrl = "Standby"
<1> DEFINE resolution == resolve_bypass(sample.vbus, sample.vbat, strikes, limits)
           step == IF action.kind = "FallbackToBypass" THEN resolution ELSE action
<1>1. /\ chip \in ChipStates /\ vin \in Nat /\ limits \in GuardLimits
      /\ action.kind \in GuardKinds /\ action.to \in Nat /\ strikes \in 0..1
      /\ limits.iin_floor \in Nat /\ limits.iin_max \in Nat /\ Most(limits) \in Nat
      /\ limits.iin_floor <= Most(limits) /\ limits.iin_max <= Most(limits)
      /\ limits.temp_reduce \in Int /\ sample.temp \in Int
  BY SensorAssumption, LimitsAssumption
     DEF Inv, TypeOK, LimitsInv, GuardLimits, GuardKinds, BYPASS_DENIED_STRIKES_BEFORE_STOP, Most, Greater
<1>2. chip.iin \in Nat /\ IIN_MIN_UA <= decode_iin_limit(chip.iin)
      /\ decode_iin_limit(chip.iin) \in Nat
  BY <1>1 DEF ChipStates, IinCodes, decode_iin_limit, Greater,
              IIN_MIN_UA, IIN_STEP_UA, IIN_CODE_MAX
<1>3. \/ step = action /\ action.kind \in {"None", "ReduceCurrent", "RestoreCurrent", "Stop"}
      \/ step.kind = "Allowed" /\ ~Denied /\ action.kind = "FallbackToBypass"
      \/ step.kind = "Stop"
      \/ step.kind = "ReduceCurrent" /\ step.to = limits.iin_floor /\ strikes # 1
         /\ action.kind = "FallbackToBypass" /\ Denied
  BY <1>1 DEF resolve_bypass, Action, Denied, GuardKinds, BYPASS_DENIED_STRIKES_BEFORE_STOP
<1>4. Denied => action.kind = "FallbackToBypass" /\ step = resolution
  BY DEF Denied
<1>5. \/ step.kind = "None" /\ o = P!Outcome(chip, TRUE)
      \/ step.kind \in {"ReduceCurrent", "RestoreCurrent"} /\ o \in P!SetIin(chip, step.to)
      \/ step.kind = "Allowed" /\ o \in P!Bypass(chip, vin)
      \/ step.kind = "Stop" /\ o \in P!Idle(chip)
  BY <1>3 DEF apply_guard
<1> HIDE DEF step
<1>6. CASE step.kind = "None" /\ o = P!Outcome(chip, TRUE)
  BY <1>1, <1>2, <1>3, <1>4, <1>6 DEF P!Outcome, Results, Denied
<1>7. CASE step.kind = "Allowed" /\ o \in P!Bypass(chip, vin)
  BY <1>1, <1>2, <1>3, <1>7, BypassResult
<1>8. CASE step.kind = "Stop" /\ o \in P!Idle(chip)
  BY <1>1, <1>2, <1>8, IdleResult
<1>9. CASE step.kind \in {"ReduceCurrent", "RestoreCurrent"} /\ o \in P!SetIin(chip, step.to)
  <2>1. step.to \in Nat /\ step.to <= Most(limits)
    BY <1>1, <1>3, <1>9 DEF Inv, DecisionInv
  <2>2. sample.temp >= limits.temp_reduce =>
            step.to <= decode_iin_limit(chip.iin) \/ (Denied /\ step.to = limits.iin_floor)
    BY <1>1, <1>2, <1>3, <1>9 DEF Inv, DecisionInv
  <2>3. action.kind # "Stop" /\ ~(Denied /\ strikes = 1)
    BY <1>3, <1>4, <1>9 DEF Denied
  <2>4. /\ o \in Results
        /\ o.c.iin = chip.iin
           \/ (step.to >= IIN_MIN_UA /\ o.c.iin = encode_iin_limit(step.to))
    BY <1>1, <1>9, <2>1, SetIinResult
  <2>5. step.to >= IIN_MIN_UA =>
            /\ decode_iin_limit(encode_iin_limit(step.to)) <= step.to
            /\ decode_iin_limit(encode_iin_limit(step.to)) \in Nat
    BY <2>1, EncodeIin
  <2> QED
    BY <1>1, <1>2, <2>1, <2>2, <2>3, <2>4, <2>5
<1> QED
  BY <1>5, <1>6, <1>7, <1>8, <1>9

\* Acting on the decision (apply_guard) keeps it: here the parts on denials and stops meet.
LEMMA ProtectKeeps == Inv /\ Protect => Inv'
<1> SUFFICES ASSUME Inv, Protect PROVE Inv'
  OBVIOUS
<1>1. PICK o \in apply_guard(chip) :
          chip' \in IF sample.fault \in {"vbat_ov", "watchdog"}
                    THEN {o.c, P!Dirty(o.c)} ELSE {o.c}
  BY DEF Protect
<1>2. /\ o \in Results
      /\ action.kind = "Stop" /\ o.c.bus_ok => o.c.ctrl = "Standby"
      /\ Denied /\ strikes = 1 /\ o.c.bus_ok => o.c.ctrl = "Standby"
  BY ApplyGuardResult DEF Protect
<1>3. o.c \in ChipStates /\ P!Dirty(o.c) \in ChipStates /\ P!Dirty(o.c).bus_ok = FALSE
  BY <1>2, DirtyChip DEF Results
<1>4. /\ chip' \in ChipStates
      /\ action.kind = "Stop" /\ chip'.bus_ok => chip'.ctrl = "Standby"
      /\ Denied /\ strikes = 1 /\ chip'.bus_ok => chip'.ctrl = "Standby"
  BY <1>1, <1>2, <1>3
<1>5. /\ strikes \in 0..1 /\ denials \in 0..2 /\ action.kind \in GuardKinds
      /\ strikes' = StrikesAfter
      /\ denials' = IF Denied THEN Lesser(denials + 1, 2) ELSE 0
      /\ pc = "protect" /\ pc' = "walk" /\ action' = action
  BY DEF Inv, TypeOK, Protect, GuardKinds, BYPASS_DENIED_STRIKES_BEFORE_STOP
<1>6. Denied => strikes' = 1 /\ is_change(action) /\ action.kind = "FallbackToBypass"
  BY <1>5 DEF StrikesAfter, Denied, is_change, BYPASS_DENIED_STRIKES_BEFORE_STOP
<1>7. strikes' \in 0..1 /\ denials' \in 0..2
  BY <1>5, <1>6 DEF StrikesAfter, Lesser, BYPASS_DENIED_STRIKES_BEFORE_STOP
<1>8. denials' = 2 => Denied /\ strikes = 1
  BY <1>5 DEF Lesser, Inv, DenialInv, Denied
<1>9. TypeOK'
  <2>1. sample' \in [vbus : Nat, vbat : Nat, mode : OpModes, temp : Int,
                     desired : {"Switching", "Bypass", NoMode}, fault : AllFaults,
                     transferring : BOOLEAN, walk : BOOLEAN]
    BY DEF Inv, TypeOK, Protect, AllFaults
  <2> QED
    BY <1>4, <1>7, <2>1
       DEF Inv, TypeOK, Protect, input, Stages, BYPASS_DENIED_STRIKES_BEFORE_STOP
<1>10. LimitsInv'
  BY DEF Inv, LimitsInv, Protect
<1>11. DecisionInv' /\ DenialInv'
  BY <1>5, <1>6 DEF DecisionInv, DenialInv
<1>12. StoppedInv'
  BY <1>4, <1>5, <1>6, <1>8 DEF StoppedInv
<1> QED
  BY <1>9, <1>10, <1>11, <1>12 DEF Inv

\* The walk into the window keeps it: it only ever leaves 1:1.
LEMMA WalkKeeps == Inv /\ Walk => Inv'
<1> SUFFICES ASSUME Inv, Walk PROVE Inv'
  OBVIOUS
<1>1. /\ chip \in ChipStates /\ pc = "walk" /\ pc' \in {"attempt", "left"} /\ vin' \in Vins
      /\ sample' = [sample EXCEPT !.walk = FALSE]
  BY DEF Walk, Inv, TypeOK
<1>2. /\ chip' \in ChipStates
      /\ chip.ctrl = "Standby" => chip'.ctrl = "Standby"
      /\ chip'.bus_ok => chip.bus_ok \/ chip'.ctrl = "Standby"
  <2>1. CASE chip' = chip
    BY <1>1, <2>1
  <2>2. CASE \E o \in P!Idle(chip) : chip' = o.c
    BY <1>1, <2>2, IdleResult DEF Results
  <2> QED
    BY <2>1, <2>2 DEF Walk
<1>3. TypeOK'
  <2>1. sample' \in [vbus : Nat, vbat : Nat, mode : OpModes, temp : Int,
                     desired : {"Switching", "Bypass", NoMode}, fault : AllFaults,
                     transferring : BOOLEAN, walk : BOOLEAN]
    BY <1>1 DEF Inv, TypeOK
  <2> QED
    BY <1>1, <1>2, <2>1 DEF Inv, TypeOK, Walk, session, history, Stages
<1>4. LimitsInv' /\ DecisionInv' /\ DenialInv'
  BY <1>1 DEF Inv, LimitsInv, DecisionInv, DenialInv, Walk, session, history
<1>5. StoppedInv'
  BY <1>1, <1>2 DEF Inv, StoppedInv, Deciding, Walk, session, history
<1> QED
  BY <1>3, <1>4, <1>5 DEF Inv

\* An attempt leaves a well-formed chip and a counter below its limit.
LEMMA TryChargeResult ==
    ASSUME Inv, TryCharge
    PROVE  /\ chip' \in ChipStates /\ reset' \in BOOLEAN
           /\ failed' \in 0..(CHARGE_FAILS_BEFORE_RESET - 1)
<1>1. chip \in ChipStates /\ vin \in Nat /\ vbat \in Nat
      /\ failed \in 0..(CHARGE_FAILS_BEFORE_RESET - 1)
  BY SensorAssumption DEF Inv, TypeOK
<1>2. PICK rebuilt \in BOOLEAN :
        \E o \in IF rebuilt THEN Rebuilt(chip, vin) ELSE Started(chip, vin) :
            \/ o.ok /\ chip' = o.c /\ failed' = 0 /\ reset' = FALSE
            \/ /\ ~o.ok /\ failed + 1 < CHARGE_FAILS_BEFORE_RESET
               /\ chip' = o.c /\ failed' = failed + 1 /\ reset' = FALSE
            \/ /\ ~o.ok /\ failed + 1 >= CHARGE_FAILS_BEFORE_RESET
               /\ LastResort(o.c, rebuilt) /\ failed' = 0
  BY DEF TryCharge
<1>3. PICK o \in IF rebuilt THEN Rebuilt(chip, vin) ELSE Started(chip, vin) :
            \/ chip' = o.c /\ failed' = 0 /\ reset' = FALSE
            \/ /\ failed + 1 < CHARGE_FAILS_BEFORE_RESET
               /\ chip' = o.c /\ failed' = failed + 1 /\ reset' = FALSE
            \/ LastResort(o.c, rebuilt) /\ failed' = 0
  BY <1>2
<1>4. o.c \in ChipStates
  BY <1>1, <1>3, StartedResult, RebuiltResult DEF Results
<1>5. P!Dirty(o.c) \in ChipStates /\ \A r \in Rebuilt(o.c, vin) : r.c \in ChipStates
  BY <1>1, <1>4, DirtyChip, RebuiltResult DEF Results
<1>6. LastResort(o.c, rebuilt) => chip' \in ChipStates /\ reset' \in BOOLEAN
  BY <1>4, <1>5 DEF LastResort
<1>7. chip' \in ChipStates /\ reset' \in BOOLEAN
  BY <1>3, <1>4, <1>6
<1>8. failed' \in 0..(CHARGE_FAILS_BEFORE_RESET - 1)
  BY <1>1, <1>3 DEF CHARGE_FAILS_BEFORE_RESET
<1> QED
  BY <1>7, <1>8

\* The mode decision keeps it: after a change of the guard it does nothing.
LEMMA AttemptKeeps == Inv /\ Attempt => Inv'
<1> SUFFICES ASSUME Inv, Attempt PROVE Inv'
  OBVIOUS
<1>1. /\ pc \in {"attempt", "left"} /\ pc' = "negotiate" /\ action' = action
      /\ sample' = [NoSample EXCEPT !.temp = sample.temp, !.vbus = sample.vbus]
      /\ strikes' = strikes /\ denials' = denials /\ limits' = limits
      /\ vin' = vin /\ vbat' = vbat /\ float' = float
  BY DEF Attempt, input
<1>2. \/ ~is_change(action) /\ TryCharge
      \/ ~is_change(action) /\ StopCharge
      \/ UNCHANGED <<chip, failed, reset>>
  BY DEF Attempt
<1>3. /\ chip' \in ChipStates /\ reset' \in BOOLEAN
      /\ failed' \in 0..(CHARGE_FAILS_BEFORE_RESET - 1)
  <2>1. CASE TryCharge
    BY <2>1, TryChargeResult
  <2>2. CASE StopCharge
    BY <2>2, IdleResult DEF StopCharge, Results, Inv, TypeOK
  <2>3. CASE UNCHANGED <<chip, failed, reset>>
    BY <2>3 DEF Inv, TypeOK
  <2> QED
    BY <1>2, <2>1, <2>2, <2>3
<1>4. TypeOK'
  <2>1. sample' \in [vbus : Nat, vbat : Nat, mode : OpModes, temp : Int,
                     desired : {"Switching", "Bypass", NoMode}, fault : AllFaults,
                     transferring : BOOLEAN, walk : BOOLEAN]
    BY <1>1 DEF Inv, TypeOK, NoSample, OpModes, AllFaults
  <2> QED
    BY <1>1, <1>3, <2>1 DEF Inv, TypeOK, Stages
<1>5. LimitsInv' /\ DecisionInv' /\ DenialInv'
  BY <1>1 DEF Inv, LimitsInv, DecisionInv, DenialInv
<1>6. StoppedInv'
  BY <1>1, <1>2 DEF Inv, StoppedInv, Deciding, is_change
<1> QED
  BY <1>4, <1>5, <1>6 DEF Inv

\* Landing leaves a well-formed chip.
LEMMA LandResult ==
    ASSUME Inv, NEW v \in Nat, run_hvdcp_and_land(v)
    PROVE  chip' \in ChipStates /\ failed' \in {0, failed}
<1>1. chip \in ChipStates /\ P!Dirty(chip) \in ChipStates /\ vbat \in Nat
  BY SensorAssumption, DirtyChip DEF Inv, TypeOK
<1> DEFINE five == bypass_allowed_by_vin(v, vbat) /\ v < FIVE_V_STAY_MAX_UV
           set(c) == IF five THEN {o.c : o \in P!SetIin(c, FIVE_V_BYPASS_IIN_UA)} ELSE {c}
<1>2. PICK d \in set(chip) \cup set(P!Dirty(chip)) \cup {P!Dirty(chip)} :
          \E o \in Started(d, v) \cup Rebuilt(d, v) :
              chip' = o.c /\ failed' = IF o.ok THEN 0 ELSE failed
  BY DEF run_hvdcp_and_land
<1>3. ASSUME NEW c \in ChipStates PROVE set(c) \subseteq ChipStates
  <2>1. \A o \in P!SetIin(c, FIVE_V_BYPASS_IIN_UA) : o.c \in ChipStates
    BY SetIinResult DEF Results, FIVE_V_BYPASS_IIN_UA
  <2> QED
    BY <2>1
<1>4. set(chip) \subseteq ChipStates /\ set(P!Dirty(chip)) \subseteq ChipStates
  BY <1>1, <1>3
<1> HIDE DEF five, set
<1>5. d \in ChipStates
  BY <1>1, <1>2, <1>4
<1>6. PICK o \in Started(d, v) \cup Rebuilt(d, v) :
          chip' = o.c /\ failed' = IF o.ok THEN 0 ELSE failed
  BY <1>2
<1>7. o.c \in ChipStates
  BY <1>1, <1>5, <1>6, StartedResult, RebuiltResult DEF Results
<1> QED
  BY <1>6, <1>7

\* The negotiation keeps it: it ends the tick the history parts speak of.
LEMMA NegotiateKeeps == Inv /\ Negotiate => Inv'
<1> SUFFICES ASSUME Inv, Negotiate PROVE Inv'
  OBVIOUS
<1>1. /\ pc' = "idle" /\ sample' = NoSample /\ action' = NoAction /\ pc = "negotiate"
      /\ strikes' = strikes /\ denials' = denials /\ limits' = limits /\ reset' = reset
      /\ vbat' = vbat /\ float' = float
  BY DEF Negotiate, history
<1>2. vin' \in Vins /\ chip' \in ChipStates /\ failed' \in 0..(CHARGE_FAILS_BEFORE_RESET - 1)
  <2>1. CASE UNCHANGED <<chip, vin, failed>>
    BY <2>1 DEF Inv, TypeOK
  <2>2. CASE vin' \in Vins /\ run_hvdcp_and_land(vin')
    BY <2>2, LandResult, SensorAssumption DEF Inv, TypeOK, CHARGE_FAILS_BEFORE_RESET
  <2> QED
    BY <2>1, <2>2 DEF Negotiate
<1>3. TypeOK'
  <2>1. sample' \in [vbus : Nat, vbat : Nat, mode : OpModes, temp : Int,
                     desired : {"Switching", "Bypass", NoMode}, fault : AllFaults,
                     transferring : BOOLEAN, walk : BOOLEAN]
    BY <1>1 DEF NoSample, OpModes, AllFaults
  <2>2. action'.kind = "None" /\ action'.to = 0
    BY <1>1 DEF NoAction, Action
  <2> QED
    BY <1>1, <1>2, <2>1, <2>2 DEF Inv, TypeOK, Stages
<1>4. LimitsInv' /\ DecisionInv' /\ DenialInv' /\ StoppedInv'
  BY <1>1 DEF Inv, LimitsInv, DecisionInv, DenialInv, StoppedInv, Deciding
<1> QED
  BY <1>3, <1>4 DEF Inv

\* An IOCTL that leaves the limits alone.
LEMMA IoctlKeeps ==
    ASSUME Inv, Ioctl, limits' = limits, float' = float, vin' \in Vins,
           chip' \in ChipStates, failed' \in {0, failed}
    PROVE  Inv'
<1>1. /\ pc = "idle" /\ pc' = pc /\ sample' = sample /\ action' = action
      /\ strikes' = strikes /\ vbat' = vbat /\ denials' = denials /\ reset' = reset
  BY DEF Ioctl, history
<1>2. TypeOK'
  BY <1>1 DEF Inv, TypeOK, CHARGE_FAILS_BEFORE_RESET
<1>3. LimitsInv' /\ DecisionInv' /\ DenialInv' /\ StoppedInv'
  BY <1>1 DEF Inv, LimitsInv, DecisionInv, DenialInv, StoppedInv, Deciding
<1> QED
  BY <1>2, <1>3 DEF Inv

\* SET_LIMITS keeps it: ceiling and target move together, wherever the floor is.
LEMMA SetLimitsKeeps == Inv /\ SetLimits => Inv'
<1> SUFFICES ASSUME Inv, SetLimits PROVE Inv'
  OBVIOUS
<1>1. /\ pc = "idle" /\ pc' = pc /\ sample' = sample /\ action' = action
      /\ strikes' = strikes /\ vbat' = vbat /\ denials' = denials /\ reset' = reset
      /\ vin' = vin /\ failed' = failed
  BY DEF SetLimits, Ioctl, history
<1>2. float' \in Nat
  BY RequestAssumption DEF SetLimits, Inv, TypeOK
<1>3. chip' \in ChipStates /\ LimitsInv'
  <2>1. CASE UNCHANGED <<chip, limits>>
    BY <2>1 DEF Inv, TypeOK, LimitsInv
  <2>2. ASSUME NEW ua \in IinLimits \ {0},
               NEW o \in P!SetIin([chip EXCEPT !.bus_ok = TRUE], ua),
               chip' = o.c, limits' = LimitsAfter(o.ok, ua)
        PROVE  chip' \in ChipStates /\ LimitsInv'
    <3>1. ua \in Nat /\ [chip EXCEPT !.bus_ok = TRUE] \in ChipStates
      BY RequestAssumption DEF Inv, TypeOK, ChipStates
    <3>2. o.c \in ChipStates /\ (o.ok => ua >= IIN_MIN_UA)
      BY <3>1, SetIinResult DEF Results
    <3>3. ASSUME o.ok PROVE LimitsInv'
      <4> DEFINE applied == decode_iin_limit(encode_iin_limit(ua))
      <4>1. applied \in Nat /\ applied >= IIN_MIN_UA
        BY <3>1, <3>2, <3>3, EncodeIin
      <4>2. limits' = [limits EXCEPT !.iin_max = applied, !.iin_target = applied]
        BY <2>2, <3>3 DEF LimitsAfter
      <4> HIDE DEF applied
      <4>4. limits' \in GuardLimits
        BY <4>1, <4>2 DEF Inv, LimitsInv, GuardLimits
      <4>5. limits'.iin_max = applied /\ limits'.iin_target = applied
        BY <4>2 DEF Inv, LimitsInv, GuardLimits
      <4>6. /\ limits'.temp_reduce = limits.temp_reduce
            /\ limits'.temp_bypass = limits.temp_bypass
            /\ limits'.temp_stop = limits.temp_stop
            /\ limits'.iin_floor = limits.iin_floor
        BY <4>2 DEF Inv, LimitsInv, GuardLimits
      <4> QED
        BY <4>1, <4>4, <4>5, <4>6, SMT DEF Inv, LimitsInv
    <3>4. ASSUME ~o.ok PROVE LimitsInv'
      BY <2>2, <3>4 DEF LimitsAfter, Inv, LimitsInv
    <3> QED
      BY <2>2, <3>2, <3>3, <3>4
  <2> QED
    BY <2>1, <2>2 DEF SetLimits
<1>4. TypeOK'
  BY <1>1, <1>2, <1>3 DEF Inv, TypeOK, LimitsInv
<1>5. DecisionInv' /\ DenialInv' /\ StoppedInv'
  BY <1>1 DEF Inv, DecisionInv, DenialInv, StoppedInv, Deciding
<1> QED
  BY <1>3, <1>4, <1>5 DEF Inv

\* SET_MODE keeps it.
LEMMA SetModeKeeps == Inv /\ SetMode => Inv'
<1> SUFFICES ASSUME Inv, SetMode PROVE Inv'
  OBVIOUS
<1> DEFINE c == [chip EXCEPT !.bus_ok = TRUE]
<1>1. c \in ChipStates /\ vin \in Nat
  BY SensorAssumption DEF Inv, TypeOK, ChipStates
<1>2. PICK o \in P!Idle(c) \cup P!Bypass(c, vin) \cup P!Force21(c) : chip' = o.c
  BY DEF SetMode
<1> HIDE DEF c
<1>3. chip' \in ChipStates
  BY <1>1, <1>2, IdleResult, BypassResult, Force21Result DEF Results
<1> QED
  BY <1>3, IoctlKeeps DEF SetMode, Inv, TypeOK

\* SET_CHARGE keeps it.
LEMMA SetChargeKeeps == Inv /\ SetCharge => Inv'
<1> SUFFICES ASSUME Inv, SetCharge PROVE Inv'
  OBVIOUS
<1> DEFINE c == [chip EXCEPT !.bus_ok = TRUE]
<1>1. c \in ChipStates /\ vin \in Nat /\ vbat \in Nat
  BY SensorAssumption DEF Inv, TypeOK, ChipStates
<1>2. PICK o \in Started(c, vin) \cup Rebuilt(c, vin) \cup P!Idle(c) : chip' = o.c
  BY DEF SetCharge
<1> HIDE DEF c
<1>3. chip' \in ChipStates
  BY <1>1, <1>2, IdleResult, StartedResult, RebuiltResult DEF Results
<1> QED
  BY <1>3, IoctlKeeps DEF SetCharge, Inv, TypeOK

\* RUN_HVDCP keeps it.
LEMMA RunHvdcpKeeps == Inv /\ RunHvdcp => Inv'
<1> SUFFICES ASSUME Inv, RunHvdcp PROVE Inv'
  OBVIOUS
<1>1. vin' \in Vins /\ vin' \in Nat /\ limits' = limits /\ float' = float
  BY SensorAssumption DEF RunHvdcp
<1>2. chip' \in ChipStates /\ failed' \in {0, failed}
  BY <1>1, LandResult DEF RunHvdcp
<1> QED
  BY <1>1, <1>2, IoctlKeeps DEF RunHvdcp

\* The world moves none of the driver's state.
LEMMA InputKeeps == Inv /\ Input => Inv'
BY DEF Input, session, history, Inv, TypeOK, LimitsInv, DecisionInv, DenialInv,
       StoppedInv, Deciding

\* A stuttering step changes nothing.
LEMMA StutterKeeps == Inv /\ UNCHANGED vars => Inv'
BY DEF vars, Inv, TypeOK, LimitsInv, DecisionInv, DenialInv, StoppedInv, Deciding

\* The invariant is inductive.
LEMMA StepKeeps == Inv /\ [Next]_vars => Inv'
BY SampleKeeps, ProtectKeeps, WalkKeeps, AttemptKeeps, NegotiateKeeps, SetLimitsKeeps,
   SetModeKeeps, SetChargeKeeps, RunHvdcpKeeps, InputKeeps, StutterKeeps DEF Next

-----------------------------------------------------------------------------
(* The theorems.                                                           *)

\* Whatever the sensors read, the bus loses and the IOCTLs ask for, the state of
\* the timer stays well formed and the four parts of Inv hold.
THEOREM InvHolds == Spec => []Inv
<1>1. Init => Inv
  BY InitEstablishes
<1>2. Inv /\ [Next]_vars => Inv'
  BY StepKeeps
<1> QED
  BY <1>1, <1>2, PTL DEF Spec

\* The counters of DriverState (bypass_denied_strikes, failed_attempts) stay below
\* the thresholds that apply_guard and the attempts compare them with, and the
\* setpoint is always a code that encode_iin_limit can produce.
THEOREM TypeCorrect == Spec => []TypeOK
<1>1. Inv => TypeOK
  BY DEF Inv
<1> QED
  BY <1>1, InvHolds, PTL

\* A Stop of the guard holds through the walk and the mode decision of its tick.
THEOREM StopHolds == Spec => []StopHoldsUntilNegotiation
<1>1. Inv => StopHoldsUntilNegotiation
  BY DEF Inv, StoppedInv, Deciding, StopHoldsUntilNegotiation
<1> QED
  BY <1>1, InvHolds, PTL

\* The second denial of 1:1 in a row (apply_guard, bypass_strikes_expired) stops
\* the charge for the decisions of its tick.
THEOREM SecondDenialStops == Spec => []DeniedTwiceStops
<1>1. Inv => DeniedTwiceStops
  BY DEF Inv, StoppedInv, Deciding, DeniedTwiceStops
<1> QED
  BY <1>1, InvHolds, PTL

\* What Protect does to the setpoint, with the clearing of latched faults.
LEMMA ProtectSetpoint ==
    ASSUME Inv, Protect
    PROVE  /\ chip'.iin # chip.iin => decode_iin_limit(chip'.iin) <= Most(limits)
           /\ sample.temp >= limits.temp_reduce =>
                 \/ ~(decode_iin_limit(chip'.iin) > decode_iin_limit(chip.iin))
                 \/ Denied /\ chip'.iin = encode_iin_limit(limits.iin_floor)
<1>1. PICK o \in apply_guard(chip) :
          chip' \in IF sample.fault \in {"vbat_ov", "watchdog"}
                    THEN {o.c, P!Dirty(o.c)} ELSE {o.c}
  BY DEF Protect
<1>2. /\ o \in Results
      /\ o.c.iin # chip.iin => decode_iin_limit(o.c.iin) <= Most(limits)
      /\ sample.temp >= limits.temp_reduce =>
            \/ decode_iin_limit(o.c.iin) <= decode_iin_limit(chip.iin)
            \/ Denied /\ o.c.iin = encode_iin_limit(limits.iin_floor)
  BY ApplyGuardResult DEF Protect
<1>3. chip'.iin = o.c.iin
  BY <1>1, <1>2, DirtyChip DEF Results
<1>4. \A iin \in IinCodes : decode_iin_limit(iin) \in Nat
  BY DEF IinCodes, decode_iin_limit, Greater, IIN_MIN_UA, IIN_STEP_UA, IIN_CODE_MAX
<1>5. decode_iin_limit(chip.iin) \in Nat /\ decode_iin_limit(o.c.iin) \in Nat
  BY <1>2, <1>4 DEF Inv, TypeOK, ChipStates, Results
<1> QED
  BY <1>2, <1>3, <1>5

\* Only Protect takes the timer from "protect" to "walk".
LEMMA OnlyProtect ==
    ASSUME [Next]_vars, pc = "protect", pc' = "walk"
    PROVE  Protect
BY DEF vars, Next, Sample, Walk, Attempt, Negotiate, SetLimits, SetMode, SetCharge,
       RunHvdcp, Ioctl, Input

\* The guard answers a hot die by raising the setpoint only where a denied 1:1 writes the
\* floor (evaluate_current, resolve_bypass), whatever the taper or an operator has written
\* before and wherever the registry has put the floor.
THEOREM HotProtectionLowers == Spec => OnlyTheFloorRaisesHot
<1>1. Inv /\ [Next]_vars =>
        [/\ pc = "protect" /\ pc' = "walk"
         /\ sample.temp >= limits.temp_reduce
         /\ decode_iin_limit(chip'.iin) > decode_iin_limit(chip.iin)
         => Denied /\ chip'.iin = encode_iin_limit(limits.iin_floor)]_vars
  BY OnlyProtect, ProtectSetpoint
<1> QED
  BY <1>1, InvHolds, PTL DEF Spec, OnlyTheFloorRaisesHot

\* What the guard writes stays under GuardLimits::iin_max or the floor, whichever is
\* higher (cap, restore_iin_ua and the floor of a denied 1:1).
THEOREM CeilingKept == Spec => GuardKeepsCeiling
<1>1. Inv /\ [Next]_vars =>
        [pc = "protect" /\ pc' = "walk" /\ chip'.iin # chip.iin
         => decode_iin_limit(chip'.iin) <= Greater(limits.iin_max, limits.iin_floor)]_vars
  BY OnlyProtect, ProtectSetpoint DEF Most
<1> QED
  BY <1>1, InvHolds, PTL DEF Spec, GuardKeepsCeiling
=============================================================================
