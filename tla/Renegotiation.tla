--------------------------- MODULE Renegotiation ---------------------------
(***************************************************************************)
(* When the driver negotiates with the brick: at the start of the device,  *)
(* on a cable edge, on a retry for a full SUPERUSER slot, on a re-elevation *)
(* of a bus left at five volts, and on request (evt_telemetry_timer of     *)
(* crates/ln8000-kmdf/src/lib.rs, predicates of hvdcp_policy.rs).          *)
(*                                                                         *)
(* The cable is only visible through the pump's ADC, which falls asleep on *)
(* an idle pump and then reads zero in every channel; the tick wakes it on *)
(* the comparator of the chip (battery_policy::adc_wake_needed).  What the *)
(* driver believes of the ADC (adc_awake) and what the chip does (adc) are *)
(* two variables.                                                          *)
(*                                                                         *)
(* Deadlines are countdowns that Pass lowers; Unset is a deadline of zero. *)
(* A tick is two steps, because the cable may move between the sample and  *)
(* the negotiation it asks for.  Every negotiation ends in a phase that    *)
(* admits the next one, so the phase is left out.                          *)
(***************************************************************************)
EXTENDS Integers

CONSTANTS RetryDelay,         \* HVDCP_SUPERUSER_RETRY_MS
          RetryMax,           \* HVDCP_SUPERUSER_RETRY_MAX
          ElevateFirst,       \* RE_ELEVATE_FIRST_MS
          ElevateMax          \* RE_ELEVATE_BACKOFF_MAX_MS

ASSUME DelayAssumption ==
    /\ RetryDelay \in Nat \ {0} /\ RetryMax \in Nat \ {0}
    /\ ElevateFirst \in Nat \ {0} /\ ElevateMax \in Nat /\ ElevateFirst <= ElevateMax

VARIABLES cable, level,       \* the brick is plugged in; what its bus carries
          slot,               \* a negotiation finds a way to the PMIC
          transfer,           \* the pump carries current
          adc,                \* the chip's ADC: "normal", "auto" (still awake), "asleep"
          adc_awake,          \* DriverState::adc_awake
          present, armed,     \* last_input_present, hvdcp_edge_armed
          retry,              \* pending, attempts, in: the hvdcp_retry fields
          elevate,            \* in, backoff: the re_elevate fields
          prepared,           \* the hardware is prepared: the pump is there
          want,               \* what the sample of this tick asks for
          sampled,            \* history: the quality of the last sample, see Qualities
          sinceRetry, sinceElevate   \* history: time since the last one was decided

external == <<cable, level, slot>>
edge == <<present, armed>>
since == <<sinceRetry, sinceElevate>>
vars == <<external, transfer, adc, adc_awake, edge, retry, elevate, prepared, want,
          sampled, since>>

Unset == -1
Lesser(a, b) == IF a <= b THEN a ELSE b

Levels == {"five", "raised"}
Codes == {"ok", "other", "unavailable"}
Wants == {"nothing", "replug", "retry", "reelevate"}

\* A tick in which an access failed, in which all succeeded, and in which moreover
\* nothing but the bus speaks against a re-elevation: no critical fault, the cell
\* below its gate, no current in the window.
Qualities == {"failed", "read", "plain"}

-----------------------------------------------------------------------------
(* What the ADC reads of the input.                                        *)

\* An unplugged node floats at twice the cell and looks raised, or has collapsed.
Readings(mode) ==
    CASE mode = "asleep" -> {"zero"}
      [] mode # "asleep" /\ cable -> {level}
      [] mode # "asleep" /\ ~cable -> {"phantom", "zero"}

input_present_from_vin(vin) == vin # "zero"

should_renegotiate_on_input_edge(vin) == ~present /\ input_present_from_vin(vin)

superuser_retry_due == retry.pending /\ retry.attempts < RetryMax /\ retry.in <= 0

-----------------------------------------------------------------------------
(* Negotiating and landing.                                                *)

\* A charge attempt: on a chip in shutdown it starts with a reset and configure(),
\* after which the ADC is back in automatic hibernation and adc_awake is not told;
\* otherwise a transfer needs an input that is seen.
ChargeAttempt(mode) ==
    \/ adc' = mode /\ transfer' \in IF mode = "asleep" THEN {FALSE, transfer} ELSE {FALSE, cable}
    \/ adc' = "auto" /\ transfer' \in {FALSE, cable}

\* run_negotiate and the landing after it: without a transport the bus stays.
RunHvdcp(mode, code) ==
    /\ code \in IF slot THEN {"ok", "other"} ELSE {"unavailable"}
    /\ IF slot /\ cable THEN level' \in Levels ELSE UNCHANGED level
    /\ ChargeAttempt(mode)

\* Mutant of schedule_or_clear_superuser_retry: the limit is tested one too late.
schedule_or_clear_superuser_retry_late(code, r) ==
    CASE code # "unavailable" -> [pending |-> FALSE, attempts |-> 0, in |-> Unset]
      [] code = "unavailable" /\ r.attempts > RetryMax -> [r EXCEPT !.pending = FALSE]
      [] code = "unavailable" /\ r.attempts <= RetryMax ->
            [r EXCEPT !.pending = TRUE, !.in = IF @ = Unset THEN RetryDelay ELSE @]

\* schedule_or_clear_superuser_retry on the retry fields r.
schedule_or_clear_superuser_retry(code, r) ==
    CASE code # "unavailable" -> [pending |-> FALSE, attempts |-> 0, in |-> Unset]
      [] code = "unavailable" /\ r.attempts >= RetryMax -> [r EXCEPT !.pending = FALSE]
      [] code = "unavailable" /\ r.attempts < RetryMax ->
            [r EXCEPT !.pending = TRUE, !.in = IF @ = Unset THEN RetryDelay ELSE @]

\* The baseline of the next edge.  A failed read, and an ADC that has fallen asleep
\* during the negotiation, count as an absent cable.
arm_hvdcp_input_edge(mode) ==
    /\ armed' = TRUE
    /\ \E vin \in Readings(mode) \cup {"zero"} : present' = input_present_from_vin(vin)

\* Run, schedule from the retry fields r, and after the codes in rearming set the
\* baseline.
Negotiate(mode, r, rearming) ==
    \E code \in Codes :
        /\ RunHvdcp(mode, code)
        /\ retry' = schedule_or_clear_superuser_retry(code, r)
        /\ IF code \in rearming THEN arm_hvdcp_input_edge(mode) ELSE UNCHANGED edge

-----------------------------------------------------------------------------
Init ==
    /\ cable \in BOOLEAN /\ level = "five" /\ slot \in BOOLEAN
    /\ transfer = FALSE /\ adc = "auto" /\ adc_awake = FALSE
    /\ present = FALSE /\ armed = FALSE
    /\ retry = [pending |-> FALSE, attempts |-> 0, in |-> Unset]
    /\ elevate = [in |-> Unset, backoff |-> 0]
    /\ prepared = FALSE /\ want = "nothing" /\ sampled = "failed"
    /\ sinceRetry = RetryDelay /\ sinceElevate = ElevateMax

\* evt_prepare_hardware on a device just added: open and configure, then the first
\* negotiation.  What a device loses that is prepared again without is in Device.
Prepare ==
    /\ ~prepared /\ prepared' = TRUE
    /\ Negotiate("auto", retry, Codes)
    /\ UNCHANGED <<cable, slot, adc_awake, elevate, want, sampled, since>>

\* evt_release_hardware: the counters, the deadlines and adc_awake stay as they are,
\* and so may the transfer, when the standby fails.
Release ==
    /\ prepared /\ want = "nothing" /\ prepared' = FALSE
    /\ transfer' \in {FALSE, transfer}
    /\ retry' = [retry EXCEPT !.pending = FALSE]
    /\ armed' = FALSE /\ present' = FALSE
    /\ UNCHANGED <<external, adc, adc_awake, elevate, want, sampled, since>>

\* IOCTL_RUN_HVDCP.
RunOnRequest ==
    /\ prepared /\ want = "nothing"
    /\ Negotiate(adc, retry, Codes)
    /\ UNCHANGED <<cable, slot, adc_awake, elevate, prepared, want, sampled, since>>

-----------------------------------------------------------------------------
(* The tick.                                                               *)

\* Mutant of AdcAfter: only configure() wakes the ADC.
AdcAfter_no_wake(usable, quality) ==
    IF ~cable /\ adc_awake THEN {<<"auto", FALSE>>} ELSE {<<adc, adc_awake>>}

\* What the tick may leave of the ADC's mode and of adc_awake: a write succeeds, or
\* it fails and may still have reached the chip.
AdcAfter(usable, quality) ==
    LET write(mode, awake) ==
            {<<mode, awake>>} \cup
            (IF quality = "failed" THEN {<<adc, adc_awake>>, <<mode, adc_awake>>} ELSE {})
    IN  CASE ~cable /\ adc_awake -> write("auto", FALSE)
          [] cable /\ ~usable /\ ~adc_awake -> write("normal", TRUE)
          [] OTHER -> {<<adc, adc_awake>>}

\* What a tick of the given quality may have seen: the input, and whether the sample
\* is good enough for the power decision.
Samples(quality) ==
    IF quality = "failed"
    THEN {s \in (Readings(adc) \cup {"zero"}) \X BOOLEAN : s[2] => s[1] # "zero"}
    ELSE {<<vin, vin # "zero">> : vin \in Readings(adc)}

reelevate_owns_negotiation(vin, quality) ==
    quality = "plain" /\ vin = "five" /\ ~transfer

\* Mutant of NextBackoff: the cap is forgotten.
NextBackoff_uncapped ==
    IF elevate.backoff = 0 THEN ElevateFirst ELSE 2 * elevate.backoff

NextBackoff ==
    IF elevate.backoff = 0 THEN ElevateFirst ELSE Lesser(2 * elevate.backoff, ElevateMax)

\* Mutant of ElevateAfter: the deadline is set before the backoff is doubled.
ElevateAfter_swapped(owns) ==
    CASE ~owns -> [in |-> Unset, backoff |-> 0]
      [] owns /\ elevate.in = Unset -> [elevate EXCEPT !.in = ElevateFirst]
      [] owns /\ elevate.in > 0 -> elevate
      [] owns /\ elevate.in = 0 ->
            [in |-> IF elevate.backoff = 0 THEN ElevateFirst ELSE elevate.backoff,
             backoff |-> NextBackoff]

\* Mutant of ElevateAfter: each tick of the episode sets the deadline anew.
ElevateAfter_restarted(owns) ==
    CASE ~owns -> [in |-> Unset, backoff |-> 0]
      [] owns /\ elevate.in # 0 -> [elevate EXCEPT !.in = ElevateFirst]
      [] owns /\ elevate.in = 0 -> [in |-> NextBackoff, backoff |-> NextBackoff]

\* The re-elevation clock: an episode opens with the first delay, each elevation
\* sets the next one, and a sample outside the episode closes it.
ElevateAfter(owns) ==
    CASE ~owns -> [in |-> Unset, backoff |-> 0]
      [] owns /\ elevate.in = Unset -> [elevate EXCEPT !.in = ElevateFirst]
      [] owns /\ elevate.in > 0 -> elevate
      [] owns /\ elevate.in = 0 -> [in |-> NextBackoff, backoff |-> NextBackoff]

ReElevates(owns) == owns /\ elevate.in = 0

\* The first decision the tail of the tick acts on.
Wanted(vin, owns) ==
    CASE armed /\ should_renegotiate_on_input_edge(vin) -> "replug"
      [] ~(armed /\ should_renegotiate_on_input_edge(vin)) /\ superuser_retry_due -> "retry"
      [] OTHER -> IF ReElevates(owns) THEN "reelevate" ELSE "nothing"

\* Up to the decisions: sample, see to the ADC, run the charge stage (which needs a
\* bus that reads as something, and may reconfigure the chip), decide.
Sample ==
    /\ prepared /\ want = "nothing"
    /\ \E quality \in Qualities : \E s \in Samples(quality) :
          LET vin == s[1]
              owns == reelevate_owns_negotiation(vin, quality)
          IN  /\ sampled' = quality
              /\ \E a \in AdcAfter(s[2], quality) :
                    /\ adc_awake' = a[2]
                    /\ adc' \in {a[1]} \cup (IF vin = "zero" THEN {} ELSE {"auto"})
              /\ transfer' \in IF vin \in Levels THEN BOOLEAN ELSE {FALSE, transfer}
              /\ want' = Wanted(vin, owns)
              /\ elevate' = ElevateAfter(owns)
              /\ sinceElevate' = IF ReElevates(owns) THEN 0 ELSE sinceElevate
              /\ present' = input_present_from_vin(vin)
    /\ UNCHANGED <<external, armed, retry, prepared, sinceRetry>>

\* Mutant of Retried: the next retry is not given a deadline.
Retried_at_once == [retry EXCEPT !.attempts = @ + 1]

\* The retry fields a retry starts with.
Retried == [retry EXCEPT !.attempts = @ + 1, !.in = RetryDelay]

\* The tail of the tick: what the sample asked for, on whatever is plugged in by now.
Act ==
    /\ want # "nothing" /\ want' = "nothing"
    /\ \/ want \in {"replug", "reelevate"} /\ Negotiate(adc, retry, Codes) /\ UNCHANGED sinceRetry
       \/ /\ want = "retry"
          /\ Negotiate(adc, Retried, {"ok"})
          /\ sinceRetry' = 0
    /\ UNCHANGED <<cable, slot, adc_awake, elevate, prepared, sampled, sinceElevate>>

-----------------------------------------------------------------------------
(* The world around the driver.                                            *)

Quiet == UNCHANGED <<adc_awake, edge, prepared, want, sampled>>

Unplug ==
    /\ cable /\ cable' = FALSE /\ level' = "five" /\ transfer' = FALSE
    /\ UNCHANGED <<slot, adc, retry, elevate, since>> /\ Quiet

Plug ==
    /\ ~cable /\ cable' = TRUE
    /\ UNCHANGED <<level, slot, transfer, adc, retry, elevate, since>> /\ Quiet

\* The brick falls back to five volts.
LoseLevel ==
    /\ cable /\ level = "raised" /\ level' = "five"
    /\ UNCHANGED <<cable, slot, transfer, adc, retry, elevate, since>> /\ Quiet

\* A latched fault of the chip, or the end of the charge.
TransferEnds ==
    /\ transfer /\ transfer' = FALSE
    /\ UNCHANGED <<external, adc, retry, elevate, since>> /\ Quiet

\* Another holder of SUPERUSER comes or goes.
SlotMoves ==
    /\ slot' = ~slot
    /\ UNCHANGED <<cable, level, transfer, adc, retry, elevate, since>> /\ Quiet

\* The chip's own hibernation of the ADC on an idle pump.
Hibernate ==
    /\ adc = "auto" /\ ~transfer /\ adc' = "asleep"
    /\ UNCHANGED <<external, transfer, retry, elevate, since>> /\ Quiet

\* One unit of time.
Pass ==
    LET sooner(t) == IF t > 0 THEN t - 1 ELSE t
    IN  /\ retry' = [retry EXCEPT !.in = sooner(@)]
        /\ elevate' = [elevate EXCEPT !.in = sooner(@)]
        /\ sinceRetry' = Lesser(sinceRetry + 1, RetryDelay)
        /\ sinceElevate' = Lesser(sinceElevate + 1, ElevateMax)
        /\ UNCHANGED <<external, transfer, adc>> /\ Quiet

Next ==
    \/ Prepare \/ Release \/ RunOnRequest \/ Sample \/ Act
    \/ Unplug \/ Plug \/ LoseLevel \/ TransferEnds \/ SlotMoves \/ Hibernate \/ Pass

\* The timer re-arms itself on every path of the handler, and time passes.
Fairness == WF_vars(Sample) /\ WF_vars(Act) /\ WF_vars(Pass)

Spec == Init /\ [][Next]_vars /\ Fairness

-----------------------------------------------------------------------------
\* The type invariant.  A deadline is never in the past of its unset value, a busy
\* slot is retried a bounded number of times, and the backoff keeps its cap; a
\* transfer needs a cable.
TypeOK ==
    /\ {cable, slot, transfer, adc_awake, present, armed, prepared} \subseteq BOOLEAN
    /\ level \in Levels /\ adc \in {"normal", "auto", "asleep"}
    /\ retry \in [pending : BOOLEAN, attempts : 0..RetryMax, in : Unset..RetryDelay]
    /\ elevate \in [in : Unset..ElevateMax, backoff : 0..ElevateMax]
    /\ want \in Wants /\ sampled \in Qualities
    /\ sinceRetry \in 0..RetryDelay /\ sinceElevate \in 0..ElevateMax
    /\ transfer => cable

\* Two retries for a full slot are at least HVDCP_SUPERUSER_RETRY_MS apart, whatever
\* edges, requests, releases and re-elevations happen between them
\* (hvdcp_policy.rs: "Delay between SUPERUSER open retries").
RetriesSpaced == [][want = "retry" /\ want' = "nothing" => sinceRetry >= RetryDelay]_vars

\* A re-elevation resets the input: the time since the one before is at least the
\* backoff in force, even when the last one gave way to an edge or a retry, and at
\* least the first delay across episodes.
ReElevationsBackOff ==
    [][want = "nothing" /\ want' = "reelevate" =>
            sinceElevate >= IF elevate.backoff = 0 THEN ElevateFirst ELSE elevate.backoff]_vars

\* A cable the last reading missed is found, asleep ADC or not, as long as reads keep
\* succeeding and the chip does not sleep behind adc_awake (PresentVbusWakesAdc says
\* that it does): the tick that finds it asks for a negotiation.
UnseenCableIsFound ==
    (/\ []<>(sampled # "failed")
     /\ <>[](adc_awake => adc # "asleep"))
        => ((prepared /\ cable /\ ~present) ~> (present \/ ~cable \/ ~prepared))

\* A negotiation that found the slot full is repeated once the slot is free: a
\* pending retry never stays pending for ever.
FreedSlotIsUsed == <>[](slot /\ prepared) => (retry.pending ~> ~retry.pending)

\* A bus that sits at five volts without a transfer is renegotiated again and again,
\* without waiting for the cable to be plugged again.
StarvedInputIsRenegotiated ==
    <>[](prepared /\ cable /\ level = "five" /\ ~transfer /\ adc # "asleep" /\ sampled = "plain")
        => []<><<Act>>_vars

\* What the comment on the ADC wake in evt_telemetry_timer says: "VBUS present with
\* unusable samples means the chip is in AutoHibernate - wake it and the next tick
\* carries real samples".
PresentVbusWakesAdc ==
    []<>(sampled # "failed") =>
        ((prepared /\ cable /\ adc = "asleep") ~> (adc # "asleep" \/ ~cable \/ ~prepared))
=============================================================================
