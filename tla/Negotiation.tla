---------------------------- MODULE Negotiation ----------------------------
(***************************************************************************)
(* The negotiation of the bus voltage with the brick, over the PMIC's      *)
(* USBIN registers: negotiate_on_bus and the walk into the transfer band   *)
(* of crates/ln8000-kmdf/src/hvdcp.rs, with hvdcp_policy.rs and            *)
(* qc35_auth.rs of crates/ln8000, and the landing of lib.rs after it.      *)
(*                                                                         *)
(* A loop of the source is one step per pulse or per poll, so the cable    *)
(* moves and an access fails between any two of them.  A walk sends its    *)
(* pulses without a look at the ADC and is one step.  The bus is counted   *)
(* in units of 20 mV, a QC3.5 step; readings of the ADC are microvolts.    *)
(* When to negotiate is in Renegotiation; what the pump then does is in    *)
(* ChargeTick.                                                             *)
(***************************************************************************)
EXTENDS Encoding, FiniteSets

CONSTANTS Cells,              \* voltages the cell may have
          Bricks,             \* what may be plugged in
          FineStep,           \* a QC3.5 brick's step, in units of 20 mV: one
          Top,                \* the most a brick gives, in the same units
          SrcCaps,            \* what such a brick may put on the bus when asked for its power
          Settle, Extend, HardCap   \* FORCE9V_SETTLE_MS, _EXTEND_MS, _HARD_CAP_MS, in polls

Kinds == {"sdp", "dcp", "qc2", "qc3", "qc35"}

CELL_MIN_UV == 3100000        \* no cell that runs the device is lower

ASSUME NegotiationAssumption ==
    /\ Bricks \subseteq Kinds
    /\ \A c \in Cells : c \in Nat /\ CELL_MIN_UV <= c /\ c <= VBAT_FLOAT_MAX_UV
    /\ {Settle, Extend, HardCap} \subseteq Nat \ {0} /\ Settle < HardCap
    /\ FineStep \in 1 .. 10 /\ Top \in 450 .. 600 /\ SrcCaps \subseteq 250 .. Top

VARIABLES brick,              \* what is plugged in
          bus,                \* what it holds on the bus, in units of 20 mV
          fine,               \* the brick has been moved to QC3.5: it steps by FineStep
          forced,             \* FORCE_9V is set in CMD_HVDCP_2
          icl,                \* USBIN_ICL_CFG
          cell,               \* the cell's voltage
          gauge,              \* the fuel gauge has given a plausible sample of it
          latched,            \* HvdcpState::force9v_latched
          pc, job,            \* where the negotiation is, and its locals
          calm,               \* from here on no access fails and nobody touches the cable
          abandoned           \* history: the latch was dropped and FORCE_9V was not

wires == <<brick, bus, fine, forced>>
vars == <<wires, icl, cell, gauge, latched, pc, job, calm, abandoned>>

None == "none"
Volt == 1000000
QC3_STEP_UV == 200000
FiveVolts == 250              \* and another level of the bus
NineVolts == 450
MAX_PULSE_CNT == 23
MAX_TRIM_DEC == 20
FORCE9V_CONFIRM_N == 2
FORCE9V_RISE_UV == 5600000
PUMP_VIN_TRIM_UV == 10500000
PUMP_VIN_TARGET_MIN_UV == 9500000
PUMP_VIN_TARGET_CEIL_UV == 9600000
QC35_PREP_MAX_INC == 8
UNREAD_VBAT_UV == 4000000
Least == 54                   \* limits below 3 A are one

uv(b) == 20000 * b

-----------------------------------------------------------------------------
(* The transfer band.                                                      *)

\* The centre of the band of a cell; 9.5 V for a cell that was not read.
target_vbus_uv(vbat) ==
    IF vbat = 0 THEN PUMP_VIN_TARGET_MIN_UV
    ELSE Lesser(Greater(2 * vbat + 300000, ELEVATED_MIN_VIN_UV), PUMP_VIN_TARGET_CEIL_UV)

trim_target_uv(vbat) ==
    IF vbat = 0 THEN PUMP_VIN_TARGET_MIN_UV ELSE Lesser(2 * vbat + 400000, PUMP_VIN_TRIM_UV)

band_floor_uv(vbat) ==
    IF vbat = 0 THEN PUMP_VIN_TARGET_MIN_UV
    ELSE Greater(window_floor_uv(vbat), ELEVATED_MIN_VIN_UV)

\* Pulses over a distance in microvolts.
Steps(distance) == (distance + QC3_STEP_UV - 1) \div QC3_STEP_UV

pulses_toward_target(vbat) == Lesser(Steps(target_vbus_uv(vbat) - 5 * Volt), MAX_PULSE_CNT)

vin_in_switching_window(vin, vbat) ==
    window_floor_uv(vbat) <= vin /\ vin <= 2 * vbat + 400000

-----------------------------------------------------------------------------
(* The brick and the PMIC.                                                 *)

\* What the ADC reads of a bus: its level; on the way to nine volts a slow QC2 brick and
\* the spike of a QC3 one; zero when the access fails.
ReadingsAt(level) ==
    {uv(level)} \cup (IF forced /\ brick = "qc2" THEN {6500000} ELSE {})
              \cup (IF forced /\ brick \in {"qc3", "qc35"} THEN {8200000} ELSE {})
              \cup (IF calm THEN {} ELSE {0})
Readings == ReadingsAt(bus)

\* The pump's own Vbat channel: the cell; half the input while 2:1 runs, which takes twice
\* the cell; zero when it sleeps.  Undisturbed it reads the cell.
VbatChannel ==
    {cell} \cup IF calm THEN {} ELSE {0} \cup {v \in {uv(bus) \div 2} : v >= cell}

\* anchor_cell_vbat_uv: the gauge's sample when there is one, else that channel.
Anchors == IF gauge THEN {cell} ELSE VbatChannel

\* Whether an access can fail.
Failing == ~calm

\* A pulse is followed by a brick with a continuous mode, up to its top.
Follows == brick \in {"qc3", "qc35"} /\ ~forced
Moved(level, n) ==
    IF Follows THEN Lesser(level + n * (IF fine THEN FineStep ELSE 10), Top) ELSE level

\* What the bus detection reports of a brick: APSD_STATUS, APSD_RESULT_STATUS, and
\* the continuous bit of QC_CHANGE_STATUS.  A QC brick may pass for a DCP or for none the
\* PMIC knows, with or without QC_CHARGER.
Nothing == [status |-> {}, result |-> {}, continuous |-> FALSE]
Reports ==
    {r \in [status : {{"DONE"}, {"DONE", "QC_CHARGER"}},
           result : {{}, {"DCP"}, {"QC2"}, {"DCP", "QC2"}, {"DCP", "QC3"}},
           continuous : BOOLEAN] :
        /\ "QC_CHARGER" \in r.status => brick \in {"qc2", "qc3", "qc35"}
        /\ "QC_CHARGER" \notin r.status => r.result \subseteq {"DCP"} /\ ~r.continuous
        /\ "DCP" \in r.result => brick # "sdp"
        /\ "QC3" \in r.result \/ r.continuous => brick \in {"qc3", "qc35"}}

\* Before the rerun the detection may not be done, and each register may not answer.
PreReports ==
    {Nothing} \cup (IF brick = None THEN {} ELSE Reports) \cup
    IF calm \/ brick = None THEN {}
    ELSE {[r EXCEPT !.status = {}] : r \in Reports} \cup {[r EXCEPT !.result = {}] : r \in Reports}

-----------------------------------------------------------------------------
(* The classification.                                                     *)

already_qc3(pre) == "QC3" \in pre.result \/ pre.continuous

already_qc2(pre) ==
    \/ "QC2" \in pre.result
    \/ "QC_CHARGER" \in pre.status /\ "DCP" \in pre.result /\ ~already_qc3(pre)

skip_apsd_rerun(pre) == "DONE" \in pre.status /\ (already_qc3(pre) \/ already_qc2(pre))

\* Mutant of Demoted: what the detection said before the rerun is forgotten.
Demoted_trusting(pre, post) == FALSE

\* A rerun that made a DCP of a QC brick is not believed.
Demoted(pre, post) ==
    /\ "DCP" \in post.result
    /\ \E qc \in {"QC2", "QC3"} : qc \in pre.result /\ qc \notin post.result

promote_qc_charger(result, status) ==
    IF "QC_CHARGER" \in status /\ "QC3" \notin result THEN result \cup {"DCP", "QC2"} ELSE result

apsd_elevate_path(result, continuous) ==
    CASE "QC3" \in result \/ continuous -> "Qc3Pulse"
      [] ~("QC3" \in result \/ continuous) /\ result \cap {"QC2", "DCP"} # {} -> "Force9v"
      [] OTHER -> "Reject"

-----------------------------------------------------------------------------
(* Accesses.  The locals of a negotiation are the cell it was told, the    *)
(* report before the rerun, the path, pulse_cnt, the pulses left and the   *)
(* wait for nine volts; and, as history, whether the rerun made a DCP or a *)
(* QC3 brick of it, the bus where the raising began and whether every      *)
(* reading since has answered.  Where it lands only the cell is left; the  *)
(* count is only published between negotiations, and is left out there.    *)

NoWait == [waited |-> 0, deadline |-> 0, extended |-> FALSE, confirm |-> 0]
NoJob == [vbat |-> 0, pre |-> Nothing, post |-> {}, qc2 |-> FALSE, pulse_cnt |-> 0, left |-> 0,
          wait |-> NoWait, base |-> 0, seen |-> TRUE]

\* The locals after a reading.  A loop reads after each pulse; here the reading is the next
\* step's.
Saw(vin) == [job EXCEPT !.seen = @ /\ vin # 0]

\* The limit is raised and never lowered.
ensure_icl_at_least(target) == icl' \in {Greater(icl, target)} \cup (IF Failing THEN {icl} ELSE {})
ensure_icl_floor_500ma == ensure_icl_at_least(10)

\* pulse_inc_gap, pulse_dec_gap: n pulses go out; under the latch none is written, and the
\* loop does not know.
Pulses(n) ==
    /\ bus' = IF latched THEN bus ELSE Moved(bus, n)
    /\ UNCHANGED <<brick, fine, forced, latched, abandoned>>

\* The count after them stands under the latch.
Counted(j, n) == IF latched THEN j ELSE [j EXCEPT !.pulse_cnt = Lesser(@ + n, MAX_PULSE_CNT)]

\* The bus back to five volts, best effort: the latch is dropped whether or not the
\* write got through.
safe_force_5v ==
    /\ latched' = FALSE
    /\ \/ /\ forced' = FALSE /\ bus' = IF brick = None THEN bus ELSE FiveVolts
          /\ abandoned' = FALSE /\ UNCHANGED <<brick, fine>>
       \/ /\ Failing /\ abandoned' = forced
          /\ UNCHANGED wires

\* Nobody negotiates; the bus is only walked.
OffBus == pc \in {"idle", "land", "landed"}

\* The negotiation is over, done or failed, and lands with the cell it was told.
LandWith(vbat) == pc' = "land" /\ job' = [NoJob EXCEPT !.vbat = vbat]
Over == LandWith(job.vbat)

-----------------------------------------------------------------------------
Init ==
    /\ brick = None /\ bus = 0 /\ fine = FALSE /\ forced = FALSE
    /\ icl = Least /\ cell \in Cells /\ gauge = FALSE
    /\ latched = FALSE /\ pc = "idle" /\ job = NoJob /\ calm = FALSE
    /\ abandoned = FALSE

-----------------------------------------------------------------------------
(* The surroundings.                                                       *)

\* The PMIC forgets FORCE_9V with the input.
Unplug ==
    /\ ~calm /\ brick # None
    /\ brick' = None /\ bus' = 0 /\ fine' = FALSE /\ forced' = FALSE /\ abandoned' = FALSE
    /\ job' = [job EXCEPT !.base = 0]
    /\ UNCHANGED <<icl, cell, gauge, latched, pc, calm>>

Plug ==
    /\ ~calm /\ brick = None
    /\ brick' \in Bricks /\ bus' = FiveVolts
    /\ job' = IF OffBus THEN job ELSE [job EXCEPT !.base = FiveVolts]
    /\ UNCHANGED <<fine, forced, icl, cell, gauge, latched, pc, calm, abandoned>>

\* A poll of the gauge between negotiations; an implausible sample is as good as none.
Sample ==
    /\ ~calm /\ pc = "idle"
    /\ gauge' = ~gauge
    /\ UNCHANGED <<wires, icl, cell, latched, pc, job, calm, abandoned>>

\* What a negotiation leaves is arbitrary before this, so that none needs to be under way.
Calm ==
    /\ ~calm /\ pc = "idle" /\ calm' = TRUE
    /\ UNCHANGED <<wires, icl, cell, gauge, latched, pc, job, abandoned>>

-----------------------------------------------------------------------------
(* The start of a negotiation, up to the path.                             *)

\* Mutant of RunNegotiate: every negotiation drops the latch, as one after a replug does.
RunNegotiate_fresh ==
    /\ pc = "idle"
    /\ calm => brick # None /\ uv(bus) < ELEVATED_MIN_VIN_UV
    /\ \E vbat \in Anchors :
        /\ latched' = FALSE /\ pc' = "setup" /\ job' = [NoJob EXCEPT !.vbat = vbat, !.base = bus]
    /\ UNCHANGED <<wires, icl, cell, gauge, calm, abandoned>>

\* A replug edge, which a reading of zero can fake, drops the latch; a retry, a
\* re-elevation of a bus at five volts and a request do not.  The cell is the anchor, or
\* four volts when the pump's channel is needed and not read.  Without a transport it
\* lands at once.
RunNegotiate ==
    /\ pc = "idle"
    /\ calm => brick # None /\ uv(bus) < ELEVATED_MIN_VIN_UV
    /\ \E replug \in IF calm THEN {FALSE} ELSE BOOLEAN,
          vbat \in Anchors \cup (IF Failing /\ ~gauge THEN {UNREAD_VBAT_UV} ELSE {}) :
        /\ abandoned' = (abandoned \/ (replug /\ forced))
        /\ latched' = (latched /\ ~replug)
        /\ \/ pc' = "setup" /\ job' = [NoJob EXCEPT !.vbat = vbat, !.base = bus]
           \/ Failing /\ LandWith(vbat)
    /\ UNCHANGED <<wires, icl, cell, gauge, calm>>

\* The gate on the Type-C pin, the limit of 500 mA, the voltage gates, the report
\* before the rerun, and the enable; the first and the last must succeed.
Setup ==
    /\ pc = "setup"
    /\ ensure_icl_floor_500ma
    /\ \/ /\ pc' = "detect"
          /\ \E pre \in PreReports : job' = [job EXCEPT !.pre = pre]
       \/ Failing /\ Over
    /\ UNCHANGED <<wires, cell, gauge, latched, calm, abandoned>>

\* The path of a report r after the rerun's own, post: the detection before the rerun has
\* the last word on the continuous mode.
Take(r, post) ==
    LET result == promote_qc_charger(r.result, r.status)
        path == apsd_elevate_path(result, job.pre.continuous)
    IN  CASE path = "Qc3Pulse" ->
                /\ ensure_icl_floor_500ma
                /\ pc' = "prep" /\ job' = [job EXCEPT !.pre = Nothing, !.left = QC35_PREP_MAX_INC]
          [] path = "Force9v" ->
                /\ pc' = "force" /\ job' = [job EXCEPT !.qc2 = "QC2" \in result, !.post = post.result \cap {"DCP", "QC3"}]
                /\ UNCHANGED icl
          [] path = "Reject" -> Over /\ UNCHANGED icl

\* wait_apsd_done gives up: nothing is plugged in, or a register does not answer.
ApsdTimeout == (Failing \/ brick = None) /\ Over /\ UNCHANGED icl

\* The rerun, unless the brick is known to be a QC one, and the wait for its report.
Detect ==
    /\ pc = "detect"
    /\ \/ skip_apsd_rerun(job.pre) /\ Take(job.pre, job.pre)
       \/ /\ ~skip_apsd_rerun(job.pre) /\ brick # None
          /\ \E post \in Reports : Take(IF Demoted(job.pre, post) THEN job.pre ELSE post, post)
       \/ ~skip_apsd_rerun(job.pre) /\ ApsdTimeout
    /\ UNCHANGED <<wires, cell, gauge, latched, calm, abandoned>>

-----------------------------------------------------------------------------
(* QC3: the QC3.5 authentication, then pulses up to the target.            *)

WINDOW_END_UV == 6400000
Attemptable(vin) == 0 < vin /\ vin < WINDOW_END_UV
qc35_detect_window(vin) == 5500000 < vin /\ vin < WINDOW_END_UV

\* Whether the wait for the window may see it come, and may time out.
wait_vin_window == {qc35_detect_window(vin) : vin \in Readings}

\* The limit of the power a level stands for, 18 and 27 W or 40 W; none in the gaps, nor
\* outside of the window where an answer is waited for.
qc35_limit(vin) ==
    CASE \/ 6650000 <= vin /\ vin <= 7350000
         \/ 7600000 <= vin /\ vin <= 8400000 -> 40
      [] 8550000 <= vin /\ vin <= 9800000 -> 60
      [] OTHER -> 0

\* The raise starts where the authentication left the bus, and its pulses count.
RaiseFrom(j) == pc' = "raise" /\ job' = [j EXCEPT !.left = pulses_toward_target(job.vbat)]

\* prep_qc35_detect_window: pulses into the window, then a wait for it.
Prep ==
    /\ pc = "prep"
    /\ \E vin \in Readings :
        LET near == Attemptable(vin)
            more == ~qc35_detect_window(vin) /\ job.left > 0
        IN  \/ ~near /\ RaiseFrom(Saw(vin)) /\ UNCHANGED <<wires, latched, abandoned>>
            \/ /\ near /\ more /\ Pulses(1) /\ pc' = pc
               /\ job' = [Counted(Saw(vin), 1) EXCEPT !.left = @ - 1]
            \/ near /\ more /\ Failing /\ RaiseFrom(Saw(vin)) /\ UNCHANGED <<wires, latched, abandoned>>
            \/ /\ near /\ ~more /\ UNCHANGED <<wires, latched, abandoned>>
               /\ \/ TRUE \in wait_vin_window /\ pc' = "auth" /\ job' = Saw(vin)
                  \/ FALSE \in wait_vin_window /\ RaiseFrom(Saw(vin))
    /\ UNCHANGED <<icl, cell, gauge, calm>>

\* Where +-+-+- may take the bus: a QC3.5 brick answers it with its power, any other comes
\* back to where it was.
Asked == {bus} \cup IF brick = "qc35" /\ Follows /\ ~latched THEN SrcCaps ELSE {}

\* attempt_qc35_authenticate in the window: +-+-+- asks for the power, and if the level is
\* that of one, ++-- takes it; the brick then takes small steps.  No answer, a gap between
\* the powers and an access that fails leave the bus where it is, a cut train up to two
\* pulses higher.  The level the brick chose is none of the driver's pulses.
Authenticate ==
    /\ pc = "auth"
    /\ \E level \in Asked, n \in 0 .. 2 :
        LET limits == {qc35_limit(vin) : vin \in ReadingsAt(level)} IN
        /\ bus' = IF latched THEN bus ELSE Moved(level, n)
        /\ RaiseFrom(Counted([job EXCEPT !.base = @ + (level - bus)], n))
        /\ \/ n = 0 /\ 0 \in limits /\ UNCHANGED <<fine, icl>>
           \/ /\ n = 0 /\ \E limit \in limits \ {0} : ensure_icl_at_least(limit)
              /\ fine' = (fine \/ (brick = "qc35" /\ Follows /\ ~latched))
           \/ /\ Failing /\ ((level = bus /\ n < 2) \/ limits # {0})
              /\ UNCHANGED <<fine, icl>>
    /\ UNCHANGED <<brick, forced, latched, abandoned, cell, gauge, calm>>

\* Mutant of Raise: the count starts over after the authentication.
Raise_restarted ==
    /\ pc = "raise"
    /\ \E vin \in Readings :
        LET more == job.left > 0 /\ vin < target_vbus_uv(job.vbat) /\ vin <= trim_target_uv(job.vbat)
        IN  \/ ~more /\ Over /\ UNCHANGED <<wires, latched, abandoned>>
            \/ more /\ Pulses(1) /\ pc' = pc /\ job' = [Counted(Saw(vin), 1) EXCEPT !.left = @ - 1]
            \/ more /\ Failing /\ safe_force_5v /\ Over
    /\ UNCHANGED <<icl, cell, gauge, calm>>

\* A pulse at a time, until the target, the top of the band, the budget or the counter's
\* limit; an access that fails gives the bus back.
Raise ==
    /\ pc = "raise"
    /\ \E vin \in Readings :
        LET more == /\ job.left > 0 /\ job.pulse_cnt < MAX_PULSE_CNT
                    /\ vin < target_vbus_uv(job.vbat) /\ vin <= trim_target_uv(job.vbat)
        IN  \/ ~more /\ Over /\ UNCHANGED <<wires, latched, abandoned>>
            \/ more /\ Pulses(1) /\ pc' = pc /\ job' = [Counted(Saw(vin), 1) EXCEPT !.left = @ - 1]
            \/ more /\ Failing /\ safe_force_5v /\ Over
    /\ UNCHANGED <<icl, cell, gauge, calm>>

-----------------------------------------------------------------------------
(* QC2 and DCP: nine volts at once.  A DCP that does not hold them is a    *)
(* QC3 brick in disguise, and gets pulses, or is no QC brick at all.       *)

\* A brick asked for nine volts: QC2 goes there, QC3 shows a spike and returns.
Answers9 ==
    /\ bus' = IF brick = "qc2" THEN NineVolts ELSE bus
    /\ UNCHANGED <<brick, fine>>

\* force_9v, and the limit of 1.5 A.
Force9v ==
    /\ pc = "force"
    /\ \/ /\ forced' = (brick # None) /\ Answers9
          /\ latched' = TRUE /\ abandoned' = FALSE
          /\ ensure_icl_at_least(30)
          /\ IF job.qc2 THEN Over
             ELSE pc' = "rise" /\ job' = [NoJob EXCEPT !.vbat = job.vbat, !.wait.deadline = Settle]
       \/ Failing /\ safe_force_5v /\ Over /\ UNCHANGED icl
    /\ UNCHANGED <<cell, gauge, calm>>

force9v_extended_deadline(deadline) == Lesser(deadline + Extend, HardCap)

\* The wait after one more poll: the deadline moves once, when the brick answers.
Polled(w, vin) ==
    LET low == vin < SWITCHING_MIN_VIN_UV
        moved == low /\ w.waited < w.deadline /\ ~w.extended /\ vin >= FORCE9V_RISE_UV
    IN  [waited |-> w.waited + 1,
         deadline |-> IF moved THEN force9v_extended_deadline(w.deadline) ELSE w.deadline,
         extended |-> w.extended \/ moved,
         confirm |-> IF low THEN 0 ELSE w.confirm + 1]

\* Mutant of Rise: the hard cap is checked a poll too late.
Rise_late ==
    /\ pc = "rise"
    /\ \E vin \in Readings :
        LET w == Polled(job.wait, vin)
            stop == \/ w.confirm >= FORCE9V_CONFIRM_N
                    \/ vin < SWITCHING_MIN_VIN_UV /\ job.wait.waited >= job.wait.deadline
                    \/ job.wait.waited > HardCap
        IN  IF stop THEN pc' = "hold" /\ job' = [job EXCEPT !.wait = NoWait]
            ELSE pc' = pc /\ job' = [job EXCEPT !.wait = w]
    /\ UNCHANGED <<wires, icl, cell, gauge, latched, calm, abandoned>>

\* wait_force9v_rise stops on two samples over the gate, on a low one past the deadline
\* and at the hard cap.
Rise ==
    /\ pc = "rise"
    /\ \E vin \in Readings :
        LET w == Polled(job.wait, vin)
            stop == \/ w.confirm >= FORCE9V_CONFIRM_N
                    \/ vin < SWITCHING_MIN_VIN_UV /\ job.wait.waited >= job.wait.deadline
                    \/ job.wait.waited >= HardCap
        IN  IF stop THEN pc' = "hold" /\ job' = [job EXCEPT !.wait = NoWait]
            ELSE pc' = pc /\ job' = [job EXCEPT !.wait = w]
    /\ UNCHANGED <<wires, icl, cell, gauge, latched, calm, abandoned>>

\* The level holds if two samples on end say so; otherwise the bus goes back to five
\* volts and the pulses begin there, counted anew.
Hold ==
    /\ pc = "hold"
    /\ \/ /\ \E vin \in Readings : vin >= SWITCHING_MIN_VIN_UV
          /\ Over /\ UNCHANGED <<wires, latched, abandoned>>
       \/ /\ \E vin \in Readings : vin < SWITCHING_MIN_VIN_UV
          /\ safe_force_5v
          /\ pc' = "walk" /\ job' = [job EXCEPT !.left = MAX_PULSE_CNT, !.base = bus']
    /\ UNCHANGED <<icl, cell, gauge, calm>>

\* Mutant of BlindWalk: only the target ends it.
BlindWalk_unbounded ==
    /\ pc = "walk"
    /\ \E vin \in Readings :
        LET more == vin < target_vbus_uv(job.vbat) IN
        \/ more /\ Pulses(1) /\ UNCHANGED <<pc, job, icl>>
        \/ ~more /\ Over /\ ensure_icl_at_least(30) /\ UNCHANGED <<wires, latched, abandoned>>
    /\ UNCHANGED <<cell, gauge, calm>>

\* Pulses until the target or the budget; a reading of zero does not end them.  A bus
\* that did not move is given back, at the 2 A of a DCP.
BlindWalk ==
    /\ pc = "walk"
    /\ \E vin \in Readings :
        LET more == vin < target_vbus_uv(job.vbat) /\ job.left > 0 /\ job.pulse_cnt < MAX_PULSE_CNT
        IN  \/ /\ more /\ Pulses(1) /\ UNCHANGED <<pc, icl>>
               /\ job' = [Counted(Saw(vin), 1) EXCEPT !.left = @ - 1]
            \/ /\ (~more \/ Failing) /\ Over
               /\ IF vin < FORCE9V_RISE_UV
                  THEN safe_force_5v /\ ensure_icl_at_least(40)
                  ELSE ensure_icl_at_least(30) /\ UNCHANGED <<wires, latched, abandoned>>
    /\ UNCHANGED <<cell, gauge, calm>>

-----------------------------------------------------------------------------
(* The walk into the band, and the landing.                                *)

\* Mutant of nudge_pulses: the walk goes to the far end of the band.
nudge_pulses_across(vin, vbat, dead) ==
    IF vin <= 0 \/ vbat = 0 \/ latched THEN 0
    ELSE IF vin > trim_target_uv(vbat) THEN -Steps(vin - band_floor_uv(vbat))
    ELSE IF vin < band_floor_uv(vbat) THEN Steps(trim_target_uv(vbat) - vin)
    ELSE 0

\* nudge_vin_into_window with trim_vin_for_pump, boost_vin_for_pump and one_dec_pulse: the
\* pulses it means to send, each taken to be 200 mV.  The top of the band is only looked at
\* after a pulse.
nudge_pulses(vin, vbat, dead) ==
    LET target == target_vbus_uv(vbat)
        floor == band_floor_uv(vbat)
    IN  IF vin <= 0 \/ vbat = 0 \/ latched THEN 0
        ELSE IF vin > trim_target_uv(vbat)
        THEN -Lesser(Steps(SatSub(vin, Greater(target, floor))), MAX_TRIM_DEC)
        ELSE IF vin < target /\ (dead \/ vin < floor)
        THEN Lesser(Steps(target - vin), MAX_PULSE_CNT)
        ELSE IF dead /\ vin > floor THEN -1 ELSE 0

\* All of them go out, or those before an access that fails.
Nudge(vin, vbat, dead) ==
    LET n == nudge_pulses(vin, vbat, dead) IN
    \E m \in IF Failing THEN Lesser(n, 0) .. Greater(n, 0) ELSE {n} : Pulses(m)

\* A landing on 2:1 walks and takes 3 A, one on five volts 2.7 A.
Landing(vin, vbat) ==
    CASE charge_mode(vin, vbat) = "Switching" -> Nudge(vin, vbat, FALSE) /\ ensure_icl_at_least(60)
      [] charge_mode(vin, vbat) = "Bypass" ->
            ensure_icl_at_least(54) /\ UNCHANGED <<wires, latched, abandoned>>
      [] charge_mode(vin, vbat) = NoMode -> UNCHANGED <<wires, icl, latched, abandoned>>

\* run_hvdcp_and_land: a raised bus that does not admit 2:1 is walked first.  The cell is
\* the anchor anew; the pump's channel, when it does not answer, stands where it was.
Land ==
    /\ pc = "land"
    /\ \E vin \in Readings, vbat \in Anchors \cup (IF Failing /\ ~gauge THEN {job.vbat} ELSE {}) :
        IF charge_mode(vin, vbat) # "Switching" /\ vin >= ELEVATED_MIN_VIN_UV
        THEN Nudge(vin, vbat, FALSE) /\ pc' = "landed" /\ job' = [job EXCEPT !.vbat = vbat]
             /\ UNCHANGED icl
        ELSE Landing(vin, vbat) /\ pc' = "idle" /\ job' = NoJob
    /\ UNCHANGED <<cell, gauge, calm>>

Landed ==
    /\ pc = "landed" /\ pc' = "idle" /\ job' = NoJob
    /\ \E vin \in Readings : Landing(vin, job.vbat)
    /\ UNCHANGED <<cell, gauge, calm>>

\* The correction of the telemetry tick on a raised bus; a pump that carries current is not
\* pulled down.  Outside the band, and undisturbed, it carries none.
WalkWindow ==
    /\ pc = "idle"
    /\ \E vin \in Readings, vbat \in Anchors, dead, transferring \in BOOLEAN :
        /\ vin >= ELEVATED_MIN_VIN_UV /\ vbat > 0
        /\ ~(dead /\ transferring) /\ (calm => ~dead /\ ~transferring)
        /\ ~vin_in_switching_window(vin, vbat) \/ dead
        /\ dead \/ ~transferring \/ vin < window_floor_uv(vbat)
        /\ Nudge(vin, vbat, dead)
    /\ UNCHANGED <<icl, cell, gauge, pc, job, calm>>

-----------------------------------------------------------------------------
Negotiate == Setup \/ Detect \/ Prep \/ Authenticate \/ Raise \/ Force9v \/ Rise \/ Hold \/ BlindWalk
             \/ Land \/ Landed
Next == Unplug \/ Plug \/ Sample \/ Calm \/ RunNegotiate \/ Negotiate \/ WalkWindow

\* A negotiation is a call that goes on to its end; the tick comes again.
Fairness == WF_vars(Negotiate) /\ WF_vars(WalkWindow)
Spec == Init /\ [][Next]_vars /\ Fairness

-----------------------------------------------------------------------------
(* Properties.                                                             *)

\* The kinds of the state; one for the module.
TypeOK ==
    /\ brick \in Bricks \cup {None} /\ bus \in 0 .. Top
    /\ {fine, forced, gauge, latched, calm, abandoned} \subseteq BOOLEAN
    /\ icl \in {Least, 60} /\ cell \in Cells
    /\ pc \in {"idle", "setup", "detect", "prep", "auth", "raise", "force", "rise", "hold", "walk",
               "land", "landed"}
    /\ job.pulse_cnt \in 0 .. MAX_PULSE_CNT /\ job.left \in 0 .. MAX_PULSE_CNT
    /\ job.wait.confirm < FORCE9V_CONFIRM_N /\ job.wait.waited \in 0 .. HardCap
    /\ pc = "idle" => job = NoJob

\* The pulses of one negotiation, those of the authentication included, raise a bus by no
\* more than the 23 steps of MAX_PULSE_CNT; as long as the ADC answers they take it no further
\* than a pulse past the top of the band it was told.  A walk stays as near to the band of the
\* cell if the gauge knows the cell, and to 9.6 V if only the pump's channel does, which
\* follows the bus: both under 10.5 V, where the pump latches VIN_OV.  The level a QC3.5
\* brick answers the authentication with is its own (negotiate_on_bus, hvdcp.rs 1285-1318;
\* nudge_vin_into_window; lib.rs 3209-3220).
BusHasACeiling ==
    [][bus' > bus /\ brick' = brick /\ ~forced' /\ pc # "auth" =>
        IF OffBus
        THEN uv(bus') <= (IF gauge THEN trim_target_uv(cell) ELSE PUMP_VIN_TARGET_CEIL_UV) + QC3_STEP_UV
        ELSE /\ bus' <= job.base + 10 * MAX_PULSE_CNT
             /\ job'.seen => uv(bus') <= trim_target_uv(job.vbat) + QC3_STEP_UV]_vars

\* While FORCE_9V stands in the PMIC the latch keeps every pulse off the bus, unless the
\* driver gave the latch up without the bit: a return to five volts that failed, or a replug
\* edge on a brick that never left (pulse_cmd_bit, safe_force_5v, lib.rs 3662).
ForcedIsLatched == forced => latched \/ abandoned

\* A brick the PMIC knew as QC3 before the rerun is not asked for nine volts: never if it was
\* in its continuous mode, and otherwise only after a rerun that makes neither a QC3 brick nor
\* a DCP of it, which the demotion guard lets pass (negotiate_on_bus, hvdcp.rs 1151-1170 and
\* 1211-1250).
Qc3IsNotForced ==
    pc = "force" =>
        /\ ~job.pre.continuous
        /\ "QC3" \in job.pre.result => job.post = {}

\* "QC3 / QC3.5 continuous must keep the pulse path", a test of hvdcp_policy.rs: it does not
\* when the rerun leaves no DCP bit for the demotion guard to see.
KnownQc3KeepsPulses == pc = "force" => ~already_qc3(job.pre)

\* Every negotiation comes to an end, whatever the brick and the bus do in the meantime: no
\* source holds the SUPERUSER session (wait_force9v_rise, MAX_PULSE_CNT, APSD_WAIT_MS).
NegotiationEnds == pc # "idle" ~> pc = "idle"

Walked == calm /\ pc = "idle" /\ Follows /\ ~latched /\ uv(bus) >= ELEVATED_MIN_VIN_UV
InBand == \E vin \in {uv(bus)}, vbat \in {cell} : vin_in_switching_window(vin, vbat)

\* Undisturbed, the walk brings the bus of a brick with a continuous mode into the band, to
\* stay: no pulse of 200 mV jumps over a band of 200 mV for ever (nudge_vin_into_window).
WalkSettles == [](Walked => <>[]InBand)
=============================================================================
