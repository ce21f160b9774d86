------------------------------- MODULE Holds -------------------------------
(***************************************************************************)
(* What one telemetry sample says about the adapter, and how the reported  *)
(* flags lag behind it: the pure functions of                              *)
(* crates/ln8000/src/battery_policy.rs.                                    *)
(*                                                                         *)
(* A timestamp is kept as its age in ticks, capped where every comparison  *)
(* with it has been decided.  A sample is [vbat, vin, iin, bit, usable]:   *)
(* microvolts and microamperes, FAULT1 bit 4 (vac_unplug), and whether the *)
(* voltages were measured at all.                                          *)
(***************************************************************************)
EXTENDS Encoding

CONSTANTS OnlineHold,       \* ONLINE_HOLD_MS
          ChargingHold,     \* CHARGING_HOLD_MS
          SocRiseHold       \* SOC_RISE_HOLD_MS

ASSUME HoldAssumption ==
    OnlineHold \in Nat \ {0} /\ ChargingHold \in Nat \ {0} /\ SocRiseHold \in Nat \ {0}

IIN_CHARGING_UA     == 80000
VBUS_ONLINE_UV      == 4600000
VBUS_CHARGING_MIN_UV == 4200000
VBUS_ABOVE_VBAT_UV  == 200000
VBUS_ELEVATED_UV    == 6000000
HOLD_ARM_RUN        == 2
UNPLUG_RELEASE_RUN  == 3
SOC_MAX             == 255       \* u8::MAX: exactly full, and "nothing seen yet"

Ages(hold) == 0..hold
Older(age, hold) == Lesser(age + 1, hold)

-----------------------------------------------------------------------------
(* Hold: a flag, the age of the last true sample that counted, and the run *)
(* of true samples, which matters up to HOLD_ARM_RUN.                      *)

HoldType(hold) == [held : BOOLEAN, age : Ages(hold), run : 0..HOLD_ARM_RUN]

\* A hold that was never true; front is the run that arms it while cold.
Cold(hold) == [held |-> FALSE, age |-> hold, run |-> 0]
HOLD_FRONT_RUN == 1

\* Mutant of hold_update: a false sample inside the window extends it.
hold_update_extends(h, raw, hold, front) ==
    LET run == Lesser(h.run + 1, HOLD_ARM_RUN)
    IN  CASE raw /\ run >= (IF h.held THEN HOLD_ARM_RUN ELSE front) ->
                [held |-> TRUE, age |-> 0, run |-> run]
          [] raw /\ run < (IF h.held THEN HOLD_ARM_RUN ELSE front) -> [h EXCEPT !.run = run]
          [] ~raw -> [h EXCEPT !.held = @ /\ h.age < hold, !.age = 0, !.run = 0]

\* Mutant of hold_update: the window is forgotten, a false sample only ends the run.
hold_update_stuck(h, raw, hold, front) ==
    LET run == Lesser(h.run + 1, HOLD_ARM_RUN)
    IN  CASE raw /\ run >= (IF h.held THEN HOLD_ARM_RUN ELSE front) ->
                [held |-> TRUE, age |-> 0, run |-> run]
          [] raw /\ run < (IF h.held THEN HOLD_ARM_RUN ELSE front) -> [h EXCEPT !.run = run]
          [] ~raw -> [h EXCEPT !.run = 0]

\* Hold::update: a cold hold arms on its front run, a held one is extended by a run
\* of HOLD_ARM_RUN; a false sample ends it once the last counted one is hold old.
hold_update(h, raw, hold, front) ==
    LET run == Lesser(h.run + 1, HOLD_ARM_RUN)
        needed == IF h.held THEN HOLD_ARM_RUN ELSE front
    IN  CASE raw /\ run >= needed -> [held |-> TRUE, age |-> 0, run |-> run]
          [] raw /\ run < needed  -> [h EXCEPT !.run = run]
          [] ~raw                 -> [h EXCEPT !.held = @ /\ h.age < hold, !.run = 0]

\* Hold::update_evidence: a tick without evidence leaves the hold as it was.
hold_update_evidence(h, evidence, hold, front) ==
    IF evidence = "none" THEN h ELSE hold_update(h, evidence = "yes", hold, front)

-----------------------------------------------------------------------------
(* SocTrend: the direction of the fuel counter.                            *)

NoTrend == [prev |-> SOC_MAX, rising |-> FALSE, age |-> SocRiseHold]

\* SocTrend::update: a rise opens the window, a fall ends it on the spot.
trend_update(t, raw) ==
    CASE raw > t.prev -> [prev |-> raw, rising |-> TRUE, age |-> 0]
      [] raw < t.prev -> [t EXCEPT !.prev = raw, !.rising = FALSE]
      [] raw = t.prev -> [t EXCEPT !.rising = @ /\ t.age < SocRiseHold]

-----------------------------------------------------------------------------
(* The verdict of one sample.                                              *)

\* The pump's own 2 * VBAT on an unloaded input node.
is_reflection_tick(s) ==
    /\ ~(s.vin >= VBUS_CHARGING_MIN_UV /\ s.iin >= IIN_CHARGING_UA)
    /\ ~s.bit
    /\ s.vin >= VBUS_ONLINE_UV
    /\ vin_is_doubled_vbat(s.vbat, s.vin)

\* Current wins over the comparator, the comparator over the voltage; below the
\* elevated rail the input must also stand clear of the cell.
online_raw(s) ==
    \/ s.vin >= VBUS_CHARGING_MIN_UV /\ s.iin >= IIN_CHARGING_UA
    \/ /\ ~s.bit /\ ~is_reflection_tick(s)
       /\ \/ s.vin >= VBUS_ELEVATED_UV
          \/ /\ s.vin >= VBUS_CHARGING_MIN_UV
             /\ s.vbat > 0 => s.vin >= s.vbat + VBUS_ABOVE_VBAT_UV

\* Mutant of online_raw_with_evidence: the reflection is taken for an empty input.
online_raw_with_evidence_reflected(s) ==
    CASE s.usable -> IF online_raw(s) THEN "yes" ELSE "no"
      [] ~s.usable /\ s.bit -> "no"
      [] ~s.usable /\ ~s.bit -> "none"

\* The sample's verdict on the adapter: "yes", "no", or "none" when it only shows
\* the pump itself or nothing.
online_raw_with_evidence(s) ==
    CASE s.usable /\ is_reflection_tick(s) -> "none"
      [] s.usable /\ ~is_reflection_tick(s) -> IF online_raw(s) THEN "yes" ELSE "no"
      [] ~s.usable /\ s.bit -> "no"
      [] ~s.usable /\ ~s.bit -> "none"

\* Mutant of unplug_run_after: the current into the pack is not asked.
unplug_run_after_blind(s, run) ==
    IF ~s.bit THEN 0 ELSE Lesser(run + 1, UNPLUG_RELEASE_RUN)

\* unplug_release: the run of samples that say "VBUS gone" with no current; the
\* window ends when the run is UNPLUG_RELEASE_RUN long.
unplug_run_after(s, run) ==
    IF ~s.bit \/ s.iin >= IIN_CHARGING_UA THEN 0 ELSE Lesser(run + 1, UNPLUG_RELEASE_RUN)

charging_raw(online, iin, peak, rising) ==
    online /\ (iin >= IIN_CHARGING_UA \/ peak >= IIN_CHARGING_UA \/ rising)
=============================================================================
