------------------------------ MODULE Battery ------------------------------
(***************************************************************************)
(* The AC and charging flags Windows is given: update_from_telemetry of    *)
(* crates/ln8000-kmdf/src/battery.rs and its three callers in lib.rs, the  *)
(* telemetry tick, IOCTL_GET_STATUS and prepare.  The callers hold the     *)
(* state mutex for the whole update, so each is one step.                  *)
(*                                                                         *)
(* The cable, the comparator (FAULT1 bit 4, which also pulses with the     *)
(* cable in), the transfer and the hibernation of the ADC may all have     *)
(* changed between two updates, so each update finds them as they happen   *)
(* to be.  Percentages and notifications are left out.                     *)
(***************************************************************************)
EXTENDS Holds

CONSTANTS Cell,             \* the cell voltage
          Bricks,           \* input voltages an adapter may show
          Floating,         \* input voltages an unplugged node may show
          Current           \* an input current that charges

ASSUME ReadingAssumption ==
    /\ {Cell, Current} \cup Bricks \cup Floating \subseteq Nat \ {0}
    /\ IIN_CHARGING_UA <= Current
    \* The five volts of an adapter, or more, stand clear of the cell.
    /\ \A v \in Bricks : v < VBUS_ELEVATED_UV =>
          v >= VBUS_CHARGING_MIN_UV /\ v >= Cell + VBUS_ABOVE_VBAT_UV

VARIABLES last,             \* Telemetry::last_sample: vbat, vin, iin; its cable is history
          online, charging, \* ONLINE_HOLD, CHARGING_HOLD
          unplug_run,       \* UNPLUG_RUN
          trend,            \* SOC_TREND
          peak,             \* DriverState::max_iin_ua
          seen,             \* history: what the last update found, see Found
          unseen            \* history: time since the last update that witnessed a charge

holds == <<online, charging, unplug_run>>
vars == <<last, holds, trend, peak, seen, unseen>>

\* FG_MONOTONIC_SOC samples: what they say is whether they rise or fall.
Raws == {SOC_MAX - 1, SOC_MAX}

-----------------------------------------------------------------------------
\* What the ADC measures: a brick with or without current, a floating node, or zeros
\* while it hibernates.  Of the voltages it is enough that one cannot be read and
\* comes out as zero; the 39 mA floor, a current that cannot be read and no current
\* are all under every threshold, and are zero here.
Measured ==
    [vbat : {Cell}, vin : {0} \cup Bricks, iin : {0, Current}, cable : {TRUE}]
    \cup [vbat : {Cell}, vin : {0} \cup Floating, iin : {0}, cable : {FALSE}]
    \cup [vbat : {0}, vin : {0}, iin : {0}, cable : BOOLEAN]

\* The sample of an update; input_readings_usable is the same in the three callers.
AsSample(m, b) ==
    [vbat |-> m.vbat, vin |-> m.vin, iin |-> m.iin, cable |-> m.cable, bit |-> b,
     usable |-> m.vbat > 0 /\ m.vin > 0]

\* Mutant of OnlineAfter: the unplug verdict waits for the window like any other.
OnlineAfter_windowed(s, run) ==
    hold_update_evidence(online, online_raw_with_evidence(s), OnlineHold, HOLD_FRONT_RUN)

\* The online hold after a sample: a full run of unplug verdicts ends it at once.
OnlineAfter(s, run) ==
    IF run = UNPLUG_RELEASE_RUN
    THEN hold_update(online, FALSE, 0, HOLD_FRONT_RUN)
    ELSE hold_update_evidence(online, online_raw_with_evidence(s), OnlineHold, HOLD_FRONT_RUN)

Found(s) ==
    [cable |-> s.cable, bit |-> s.bit, current |-> s.iin >= IIN_CHARGING_UA, usable |-> s.usable]

\* The flags; the charging witness needs the new online flag.
update_from_telemetry(s, crest) ==
    LET run == unplug_run_after(s, unplug_run)
        on == OnlineAfter(s, run)
        witnessed == charging_raw(on.held, s.iin, crest, trend.rising)
    IN  /\ unplug_run' = run /\ online' = on
        /\ charging' = hold_update(charging, witnessed, ChargingHold, HOLD_ARM_RUN)
        /\ unseen' = IF witnessed THEN 0 ELSE unseen
        /\ seen' = Found(s)

Init ==
    /\ last = [vbat |-> 0, vin |-> 0, iin |-> 0, cable |-> FALSE]
    /\ online = Cold(OnlineHold) /\ charging = Cold(ChargingHold)
    /\ unplug_run = 0 /\ trend = NoTrend /\ peak = 0
    /\ unseen = ChargingHold
    /\ seen = [cable |-> FALSE, bit |-> FALSE, current |-> FALSE, usable |-> FALSE]

\* The gauge in the tick, after the flags: not due or failed, or a sample
\* (set_gauge_raw).
Gauge == UNCHANGED trend \/ \E raw \in Raws : trend' = trend_update(trend, raw)

\* The tick: the sample, the flags, the window of the current peak, which may end here.
Tick ==
    /\ \E m \in Measured, b \in BOOLEAN :
          /\ last' = m
          /\ update_from_telemetry(AsSample(m, b), peak)
          /\ peak' \in {Greater(peak, m.iin), m.iin}
    /\ Gauge

\* IOCTL_GET_STATUS: the comparator is read now, and counts as clear when that fails;
\* the voltages and the current are those of the last tick.
GetStatus ==
    /\ last.vbat > 0 \/ last.vin > 0
    /\ \E b \in BOOLEAN : update_from_telemetry(AsSample(last, b), peak)
    /\ UNCHANGED <<last, trend, peak>>

\* evt_prepare_hardware publishes a first sample that the ring does not see.
Prepare ==
    /\ \E m \in Measured, b \in BOOLEAN :
          update_from_telemetry(AsSample(m, b), Greater(peak, m.iin))
    /\ UNCHANGED <<last, trend, peak>>

Pass ==
    /\ online' = [online EXCEPT !.age = Older(@, OnlineHold)]
    /\ charging' = [charging EXCEPT !.age = Older(@, ChargingHold)]
    /\ trend' = [trend EXCEPT !.age = Older(@, SocRiseHold)]
    /\ unseen' = Older(unseen, ChargingHold)
    /\ UNCHANGED <<last, unplug_run, peak, seen>>

Next == Tick \/ GetStatus \/ Prepare \/ Pass

\* The timer re-arms itself on every path of its handler, and time passes.
Fairness == WF_vars(Tick) /\ WF_vars(Pass)

Spec == Init /\ [][Next]_vars /\ Fairness

-----------------------------------------------------------------------------
\* What build_status shows: charging only with AC.
ShowsCharging == charging.held /\ online.held

\* The type invariant.  A flag that is up was true within its window or is about to
\* be taken down by the next false sample.
TypeOK ==
    /\ last \in Measured
    /\ online \in HoldType(OnlineHold) /\ charging \in HoldType(ChargingHold)
    /\ unplug_run \in 0..UNPLUG_RELEASE_RUN
    /\ trend \in [prev : Raws \cup {SOC_MAX}, rising : BOOLEAN, age : Ages(SocRiseHold)]
    /\ peak \in {0, Current} /\ unseen \in Ages(ChargingHold)
    /\ seen \in [cable : BOOLEAN, bit : BOOLEAN, current : BOOLEAN, usable : BOOLEAN]
    /\ unplug_run = UNPLUG_RELEASE_RUN => ~online.held

\* AC is never taken away while the cable is in and the comparator clear: not on the
\* pump's own reflection, not on an unread or sleeping ADC, not by a status request
\* that replays such a sample (battery_policy.rs: "a cable must not be declared gone
\* on the strength of the pump's own reflection").
MotionlessCableKeepsAc ==
    [][online.held /\ ~online'.held => ~seen'.cable \/ seen'.bit]_vars

\* Charging is shown for at most CHARGING_HOLD_MS after the last update in which a
\* current, a peak or a rising percentage witnessed it, through any run of pulses,
\* returns of the cable and requests in between.
ChargingIsWitnessed ==
    [][~Pass => (ShowsCharging' => unseen' < ChargingHold)]_vars

\* Once the comparator keeps saying that VBUS is gone and nothing flows, AC goes and
\* stays away, whatever the floating node reads and whoever asks.
RemovalShows == <>[](seen.bit /\ ~seen.current) => <>[]~online.held

\* A current into the pack raises AC and keeps it up, also with a comparator that
\* claims otherwise, as long as the voltages are read.
AdapterShows ==
    <>[](seen.current /\ seen.usable) => <>[]online.held
=============================================================================
