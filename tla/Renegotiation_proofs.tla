------------------------ MODULE Renegotiation_proofs ------------------------
(***************************************************************************)
(* Theorems about Renegotiation, for every value of its constants: the     *)
(* type invariant, the spacing of the retries and that of the              *)
(* re-elevations.  Each spacing follows from a sum that no step lowers: a  *)
(* running deadline and the time since the last negotiation of its kind    *)
(* together are at least the delay.                                        *)
(***************************************************************************)
EXTENDS Renegotiation, TLAPS

Retries == [pending : BOOLEAN, attempts : 0..RetryMax, in : Unset..RetryDelay]
Clocks == [in : Unset..ElevateMax, backoff : 0..ElevateMax]

\* The delay the running episode is under.
Backoff(e) == IF e.backoff = 0 THEN ElevateFirst ELSE e.backoff

\* Retry fields that agree with the time s since the last retry.
RetryOK(r, s) ==
    /\ r \in Retries
    /\ r.pending => r.in # Unset
    /\ r.in # Unset => s + r.in >= RetryDelay

\* A re-elevation clock that agrees with the time s since the last re-elevation.
ClockOK(e, s) ==
    /\ e \in Clocks
    /\ IF e.in = Unset THEN e.backoff = 0 ELSE s + e.in >= Backoff(e)

\* The inductive invariant.
Inv ==
    /\ TypeOK
    /\ RetryOK(retry, sinceRetry)
    /\ want = "retry" => retry.attempts < RetryMax /\ sinceRetry >= RetryDelay
    /\ ClockOK(elevate, sinceElevate)

USE DelayAssumption DEF DelayAssumption, Unset

-----------------------------------------------------------------------------
(* The operators.                                                          *)

\* What schedule_or_clear_superuser_retry returns is well formed and keeps the sum;
\* it never raises the number of attempts.
LEMMA ScheduleKeeps ==
    ASSUME NEW r, NEW s \in 0..RetryDelay, NEW code \in Codes, RetryOK(r, s)
    PROVE  LET n == schedule_or_clear_superuser_retry(code, r)
           IN  RetryOK(n, s) /\ n.attempts <= r.attempts
  <1> DEFINE n == schedule_or_clear_superuser_retry(code, r)
  <1>1. /\ r \in Retries /\ r.attempts \in 0..RetryMax /\ r.in \in Unset..RetryDelay
        /\ r.in # Unset => s + r.in >= RetryDelay
        /\ r.pending \in BOOLEAN /\ (r.pending => r.in # Unset)
    BY DEF RetryOK, Retries
  <1>2. CASE code # "unavailable"
    BY <1>2 DEF schedule_or_clear_superuser_retry, RetryOK, Retries
  <1>3. CASE code = "unavailable" /\ r.attempts >= RetryMax
    <2>1. ~(r.attempts < RetryMax)
      BY <1>1, <1>3
    <2>2. n = [r EXCEPT !.pending = FALSE]
      BY <1>3, <2>1 DEF schedule_or_clear_superuser_retry
    <2>3. n \in Retries /\ n.pending = FALSE /\ n.in = r.in /\ n.attempts = r.attempts
      BY <1>1, <2>2, Zenon DEF Retries
    <2> QED
      BY <1>1, <2>3 DEF RetryOK
  <1>4. CASE code = "unavailable" /\ r.attempts < RetryMax
    <2> DEFINE in == IF r.in = Unset THEN RetryDelay ELSE r.in
    <2>1. ~(r.attempts >= RetryMax)
      BY <1>1, <1>4
    <2>2. n = [r EXCEPT !.pending = TRUE, !.in = in]
      BY <1>4, <2>1 DEF schedule_or_clear_superuser_retry
    <2>3. in \in Unset..RetryDelay /\ in # Unset /\ s + in >= RetryDelay
      BY <1>1
    <2>4. n \in Retries /\ n.in = in /\ n.attempts = r.attempts
      BY <1>1, <2>2, <2>3 DEF Retries
    <2> QED
      BY <1>1, <2>3, <2>4 DEF RetryOK
  <1> QED
    BY <1>1, <1>2, <1>3, <1>4

\* The re-elevation clock after a tick is well formed and keeps its sum, also when it
\* is set anew by a re-elevation.
LEMMA ClockKeeps ==
    ASSUME NEW owns \in BOOLEAN, sinceElevate \in 0..ElevateMax,
           ClockOK(elevate, sinceElevate)
    PROVE  ClockOK(ElevateAfter(owns), IF ReElevates(owns) THEN 0 ELSE sinceElevate)
  <1>1. CASE ~owns
    BY <1>1 DEF ElevateAfter, ClockOK, Clocks, Unset
  <1>2. CASE owns /\ elevate.in = Unset
    <2>1. ElevateAfter(owns) = [elevate EXCEPT !.in = ElevateFirst]
      BY <1>2 DEF ElevateAfter, Unset, ClockOK, Clocks
    <2>2. ~ReElevates(owns)
      BY <1>2 DEF ReElevates, Unset
    <2>3. elevate \in Clocks /\ elevate.backoff = 0
      BY <1>2 DEF ClockOK
    <2>4. /\ ElevateAfter(owns) \in Clocks
          /\ ElevateAfter(owns).in = ElevateFirst /\ ElevateAfter(owns).backoff = 0
      BY <2>1, <2>3 DEF Clocks
    <2> QED
      BY <2>2, <2>4 DEF ClockOK, Backoff
  <1>3. CASE owns /\ elevate.in > 0
    <2>1. ElevateAfter(owns) = elevate /\ ~ReElevates(owns)
      BY <1>3 DEF ElevateAfter, ReElevates, Unset, ClockOK, Clocks
    <2> QED
      BY <2>1
  <1>4. CASE owns /\ elevate.in = 0
    <2>1. ElevateAfter(owns) = [in |-> NextBackoff, backoff |-> NextBackoff] /\ ReElevates(owns)
      BY <1>4 DEF ElevateAfter, ReElevates, Unset
    <2>2. NextBackoff \in 1..ElevateMax
      BY DEF NextBackoff, Lesser, ClockOK, Clocks
    <2> QED
      BY <2>1, <2>2 DEF ClockOK, Clocks, Backoff, Unset
  <1> QED
    BY <1>1, <1>2, <1>3, <1>4 DEF ClockOK, Clocks, Unset

\* A negotiation keeps what is known of the retry fields, for the retry fields r it
\* schedules from and the time s since the last retry.
LEMMA NegotiateKeeps ==
    ASSUME TypeOK, NEW mode \in {"normal", "auto", "asleep"}, NEW r, NEW s \in 0..RetryDelay,
           NEW rearming \in SUBSET Codes, RetryOK(r, s), Negotiate(mode, r, rearming),
           UNCHANGED cable
    PROVE  /\ RetryOK(retry', s) /\ retry'.attempts <= r.attempts
           /\ level' \in Levels /\ adc' \in {"normal", "auto", "asleep"}
           /\ transfer' \in BOOLEAN /\ (transfer' => cable)
           /\ present' \in BOOLEAN /\ armed' \in BOOLEAN
  <1>1. PICK code \in Codes :
            /\ RunHvdcp(mode, code)
            /\ retry' = schedule_or_clear_superuser_retry(code, r)
            /\ IF code \in rearming THEN arm_hvdcp_input_edge(mode) ELSE UNCHANGED edge
    BY DEF Negotiate
  <1>2. RetryOK(retry', s) /\ retry'.attempts <= r.attempts
    BY <1>1, ScheduleKeeps
  <1>3. /\ level' \in Levels /\ adc' \in {"normal", "auto", "asleep"}
        /\ transfer' \in BOOLEAN /\ (transfer' => cable)
    <2>1. cable \in BOOLEAN /\ transfer \in BOOLEAN /\ (transfer => cable) /\ level \in Levels
      BY DEF TypeOK
    <2>2. level' \in Levels
      BY <1>1, <2>1 DEF RunHvdcp
    <2>3. adc' \in {"normal", "auto", "asleep"}
      BY <1>1 DEF RunHvdcp, ChargeAttempt
    <2>4. transfer' = FALSE \/ transfer' = transfer \/ transfer' = cable
      BY <1>1 DEF RunHvdcp, ChargeAttempt
    <2>5. transfer' \in BOOLEAN /\ (transfer' => cable)
      <3>1. CASE transfer' = FALSE
        BY <3>1
      <3>2. CASE transfer' = transfer
        BY <2>1, <3>2
      <3>3. CASE transfer' = cable
        BY <2>1, <3>3
      <3> QED
        BY <2>4, <3>1, <3>2, <3>3
    <2> QED
      BY <2>2, <2>3, <2>5
  <1>4. present' \in BOOLEAN /\ armed' \in BOOLEAN
    BY <1>1 DEF arm_hvdcp_input_edge, input_present_from_vin, edge, TypeOK
  <1> QED
    BY <1>2, <1>3, <1>4

-----------------------------------------------------------------------------
(* The steps.                                                              *)

\* A negotiation from the retry fields as they are, at the start of the device or on
\* request.
LEMMA ExtraNegotiationKeeps ==
    ASSUME Inv, NEW mode \in {"normal", "auto", "asleep"}, Negotiate(mode, retry, Codes),
           UNCHANGED <<cable, slot, adc_awake, elevate, want, sampled, since>>,
           prepared' \in BOOLEAN
    PROVE  Inv'
  <1>1. /\ RetryOK(retry', sinceRetry) /\ retry'.attempts <= retry.attempts
        /\ level' \in Levels /\ adc' \in {"normal", "auto", "asleep"}
        /\ transfer' \in BOOLEAN /\ (transfer' => cable)
        /\ present' \in BOOLEAN /\ armed' \in BOOLEAN
    BY NegotiateKeeps DEF Inv, TypeOK
  <1>2. UNCHANGED <<cable, slot, adc_awake, elevate, want, sampled, sinceRetry, sinceElevate>>
    BY DEF since
  <1>3. TypeOK'
    BY <1>1, <1>2 DEF Inv, TypeOK, RetryOK, Retries
  <1>4. RetryOK(retry, sinceRetry)'
    BY <1>1, <1>2 DEF RetryOK
  <1>5. (want = "retry" => retry.attempts < RetryMax /\ sinceRetry >= RetryDelay)'
    BY <1>1, <1>2 DEF Inv, RetryOK, Retries
  <1>6. ClockOK(elevate, sinceElevate)'
    BY <1>2 DEF Inv, ClockOK, Backoff
  <1> QED
    BY <1>3, <1>4, <1>5, <1>6 DEF Inv

\* evt_prepare_hardware negotiates, and leaves the deadlines what a negotiation leaves.
LEMMA PrepareKeeps ==
    ASSUME Inv, Prepare
    PROVE  Inv'
  BY ExtraNegotiationKeeps DEF Prepare

\* So does IOCTL_RUN_HVDCP.
LEMMA RequestKeeps ==
    ASSUME Inv, RunOnRequest
    PROVE  Inv'
  BY ExtraNegotiationKeeps DEF RunOnRequest, Inv, TypeOK

\* evt_release_hardware leaves the counters and the deadlines alone.
LEMMA ReleaseKeeps ==
    ASSUME Inv, Release
    PROVE  Inv'
  <1>1. /\ retry' = [retry EXCEPT !.pending = FALSE]
        /\ retry \in Retries /\ retry' \in Retries
        /\ retry'.attempts = retry.attempts /\ retry'.in = retry.in /\ retry'.pending = FALSE
    BY DEF Release, Inv, TypeOK, Retries
  <1>2. UNCHANGED <<cable, level, slot, adc, adc_awake, elevate, want, sampled,
                    sinceRetry, sinceElevate>>
        /\ prepared' = FALSE /\ armed' = FALSE /\ present' = FALSE
    BY DEF Release, since, external
  <1>t. transfer' \in BOOLEAN /\ (transfer' => cable)
    <2>1. CASE transfer' = FALSE
      BY <2>1
    <2>2. CASE transfer' = transfer
      BY <2>2 DEF Inv, TypeOK
    <2> QED
      BY <2>1, <2>2 DEF Release
  <1>3. TypeOK'
    BY <1>1, <1>2, <1>t DEF Inv, TypeOK, Retries
  <1>4. RetryOK(retry, sinceRetry)'
    BY <1>1, <1>2 DEF Inv, RetryOK
  <1>5. (want = "retry" => retry.attempts < RetryMax /\ sinceRetry >= RetryDelay)'
    BY <1>1, <1>2 DEF Inv
  <1>6. ClockOK(elevate, sinceElevate)'
    BY <1>2 DEF Inv, ClockOK, Backoff
  <1> QED
    BY <1>3, <1>4, <1>5, <1>6 DEF Inv

\* What the tick may leave of the ADC is well formed.
LEMMA AdcAfterSound ==
    ASSUME TypeOK, NEW usable, NEW quality, NEW a \in AdcAfter(usable, quality)
    PROVE  a[1] \in {"normal", "auto", "asleep"} /\ a[2] \in BOOLEAN
  <1>1. adc \in {"normal", "auto", "asleep"} /\ adc_awake \in BOOLEAN
    BY DEF TypeOK
  <1>2. \/ a = <<adc, adc_awake>>
        \/ a = <<"auto", FALSE>> \/ a = <<"auto", adc_awake>>
        \/ a = <<"normal", TRUE>> \/ a = <<"normal", adc_awake>>
    <2>1. CASE ~cable /\ adc_awake
      BY <2>1 DEF AdcAfter
    <2>2. CASE cable /\ ~usable /\ ~adc_awake
      BY <2>2 DEF AdcAfter
    <2>3. CASE ~(~cable /\ adc_awake) /\ ~(cable /\ ~usable /\ ~adc_awake)
      BY <2>3 DEF AdcAfter
    <2> QED
      BY <2>1, <2>2, <2>3
  <1>3. CASE a = <<adc, adc_awake>>
    <2>1. a[1] = adc /\ a[2] = adc_awake
      BY <1>3
    <2> QED
      BY <1>1, <2>1
  <1>4. CASE a = <<"auto", FALSE>> \/ a = <<"normal", TRUE>>
    <2>1. CASE a = <<"auto", FALSE>>
      <3>1. a[1] = "auto" /\ a[2] = FALSE
        BY <2>1
      <3> QED
        BY <3>1
    <2>2. CASE a = <<"normal", TRUE>>
      <3>1. a[1] = "normal" /\ a[2] = TRUE
        BY <2>2
      <3> QED
        BY <3>1
    <2> QED
      BY <1>4, <2>1, <2>2
  <1>5. CASE a = <<"auto", adc_awake>> \/ a = <<"normal", adc_awake>>
    <2>1. a[1] \in {"auto", "normal"} /\ a[2] = adc_awake
      BY <1>5
    <2> QED
      BY <1>1, <2>1
  <1> QED
    BY <1>2, <1>3, <1>4, <1>5

\* A tick asks for a retry only when one is due, and then the time since the last one
\* is at least the delay, because the deadline has run out.
LEMMA SampleKeeps ==
    ASSUME Inv, Sample
    PROVE  Inv'
  <1>q. PICK quality \in Qualities : \E s \in Samples(quality) :
            LET vin == s[1]
                owns == reelevate_owns_negotiation(vin, quality)
            IN  /\ sampled' = quality
                /\ \E a \in AdcAfter(s[2], quality) :
                      /\ adc_awake' = a[2]
                      /\ adc' \in {a[1]} \cup (IF vin = "zero" THEN {} ELSE {"auto"})
                /\ transfer' \in IF vin \in Levels THEN BOOLEAN ELSE {FALSE, transfer}
                /\ want' = Wanted(vin, owns)
                /\ elevate' = ElevateAfter(owns)
                /\ sinceElevate' = IF ReElevates(owns) THEN 0 ELSE sinceElevate
                /\ present' = input_present_from_vin(vin)
    BY DEF Sample
  <1>1. PICK s \in Samples(quality) :
            LET vin == s[1]
                owns == reelevate_owns_negotiation(vin, quality)
            IN  /\ sampled' = quality
                /\ \E a \in AdcAfter(s[2], quality) :
                      /\ adc_awake' = a[2]
                      /\ adc' \in {a[1]} \cup (IF vin = "zero" THEN {} ELSE {"auto"})
                /\ transfer' \in IF vin \in Levels THEN BOOLEAN ELSE {FALSE, transfer}
                /\ want' = Wanted(vin, owns)
                /\ elevate' = ElevateAfter(owns)
                /\ sinceElevate' = IF ReElevates(owns) THEN 0 ELSE sinceElevate
                /\ present' = input_present_from_vin(vin)
    BY <1>q
  <1> DEFINE vin == s[1]
             owns == reelevate_owns_negotiation(vin, quality)
  <1>2. UNCHANGED <<cable, level, slot, armed, retry, prepared, sinceRetry>>
    BY DEF Sample, external
  <1>3. vin \in Readings(adc) \cup {"zero"}
    BY DEF Samples
  <1>4. vin \in Levels => cable
    BY <1>3 DEF Readings, Levels
  <1>5. transfer' \in BOOLEAN /\ (transfer' => cable)
    <2>1. cable \in BOOLEAN /\ transfer \in BOOLEAN /\ (transfer => cable)
      BY DEF Inv, TypeOK
    <2>2. CASE vin \in Levels
      BY <1>1, <1>4, <2>1, <2>2
    <2>3. CASE vin \notin Levels
      <3>1. CASE transfer' = FALSE
        BY <3>1
      <3>2. CASE transfer' = transfer
        BY <2>1, <3>2
      <3> QED
        BY <1>1, <2>3, <3>1, <3>2
    <2> QED
      BY <2>2, <2>3
  <1>6. adc' \in {"normal", "auto", "asleep"} /\ adc_awake' \in BOOLEAN
    <2>1. PICK a \in AdcAfter(s[2], quality) :
              adc_awake' = a[2] /\ adc' \in {a[1]} \cup (IF vin = "zero" THEN {} ELSE {"auto"})
      BY <1>1
    <2>2. adc' = a[1] \/ adc' = "auto"
      BY <2>1
    <2>3. a[1] \in {"normal", "auto", "asleep"} /\ a[2] \in BOOLEAN
      BY AdcAfterSound DEF Inv
    <2> QED
      BY <2>1, <2>2, <2>3
  <1>7. owns \in BOOLEAN
    BY DEF reelevate_owns_negotiation
  <1>8. ClockOK(elevate, sinceElevate)'
    BY <1>1, <1>7, ClockKeeps DEF Inv, TypeOK, ClockOK, Backoff
  <1>9. want' \in Wants /\ (want' = "retry" => superuser_retry_due)
    BY <1>1 DEF Wanted, Wants
  <1>10. present' \in BOOLEAN
    BY <1>1 DEF input_present_from_vin
  <1>11. sinceElevate' \in 0..ElevateMax
    BY <1>1 DEF Inv, TypeOK
  <1>12. TypeOK'
    BY <1>1, <1>2, <1>5, <1>6, <1>8, <1>9, <1>10, <1>11 DEF Inv, TypeOK, ClockOK, Clocks
  <1>13. (want = "retry" => retry.attempts < RetryMax /\ sinceRetry >= RetryDelay)'
    BY <1>2, <1>9 DEF superuser_retry_due, Inv, RetryOK, Retries, TypeOK
  <1>14. RetryOK(retry, sinceRetry)'
    BY <1>2 DEF Inv, RetryOK
  <1> QED
    BY <1>8, <1>12, <1>13, <1>14 DEF Inv

\* A retry gives the next one a full delay and is counted under the limit.
LEMMA ActKeeps ==
    ASSUME Inv, Act
    PROVE  Inv'
  <1>1. /\ want' = "nothing"
        /\ UNCHANGED <<cable, slot, adc_awake, elevate, prepared, sampled, sinceElevate>>
    BY DEF Act
  <1>2. /\ RetryOK(retry', sinceRetry') /\ sinceRetry' \in 0..RetryDelay
        /\ level' \in Levels /\ adc' \in {"normal", "auto", "asleep"}
        /\ transfer' \in BOOLEAN /\ (transfer' => cable)
        /\ present' \in BOOLEAN /\ armed' \in BOOLEAN
    <2>1. CASE want \in {"replug", "reelevate"}
      <3>1. Negotiate(adc, retry, Codes) /\ UNCHANGED sinceRetry
        BY <2>1 DEF Act
      <3> QED
        BY <1>1, <3>1, NegotiateKeeps DEF Inv, TypeOK
    <2>2. CASE want = "retry"
      <3>1. Negotiate(adc, Retried, {"ok"}) /\ sinceRetry' = 0
        BY <2>2 DEF Act
      <3>2. retry \in Retries /\ retry.attempts < RetryMax /\ retry.attempts \in 0..RetryMax
        BY <2>2 DEF Inv, RetryOK, Retries
      <3>3. /\ Retried \in Retries /\ Retried.in = RetryDelay
        <4>1. retry.attempts + 1 \in 0..RetryMax /\ RetryDelay \in Unset..RetryDelay
          BY <3>2
        <4> QED
          BY <3>2, <4>1 DEF Retried, Retries
      <3>4. RetryOK(Retried, 0)
        BY <3>3 DEF RetryOK
      <3>5. 0 \in 0..RetryDelay /\ {"ok"} \in SUBSET Codes
        BY DEF Codes
      <3> QED
        BY <1>1, <3>1, <3>4, <3>5, NegotiateKeeps DEF Inv, TypeOK
    <2> QED
      BY <2>1, <2>2 DEF Act
  <1>3. TypeOK'
    BY <1>1, <1>2 DEF Inv, TypeOK, RetryOK, Retries, Wants
  <1>4. RetryOK(retry, sinceRetry)'
    BY <1>2 DEF RetryOK
  <1>5. ClockOK(elevate, sinceElevate)'
    BY <1>1 DEF Inv, ClockOK, Backoff
  <1> QED
    BY <1>1, <1>3, <1>4, <1>5 DEF Inv

\* The world moves no counter and no deadline, and a cable that goes takes the
\* transfer with it.
LEMMA WorldKeeps ==
    ASSUME Inv, Unplug \/ Plug \/ LoseLevel \/ TransferEnds \/ SlotMoves \/ Hibernate
    PROVE  Inv'
  <1>1. UNCHANGED <<adc_awake, present, armed, prepared, want, sampled, retry, elevate,
                    sinceRetry, sinceElevate>>
    BY DEF Unplug, Plug, LoseLevel, TransferEnds, SlotMoves, Hibernate, Quiet, edge, since
  <1>2. /\ cable' \in BOOLEAN /\ slot' \in BOOLEAN /\ level' \in Levels
        /\ adc' \in {"normal", "auto", "asleep"}
        /\ transfer' \in BOOLEAN /\ (transfer' => cable')
    <2>1. /\ cable \in BOOLEAN /\ slot \in BOOLEAN /\ level \in Levels
          /\ adc \in {"normal", "auto", "asleep"} /\ transfer \in BOOLEAN /\ (transfer => cable)
      BY DEF Inv, TypeOK
    <2>2. CASE Unplug
      BY <2>1, <2>2 DEF Unplug, Levels
    <2>3. CASE Plug
      BY <2>1, <2>3 DEF Plug
    <2>4. CASE LoseLevel
      BY <2>1, <2>4 DEF LoseLevel, Levels
    <2>5. CASE TransferEnds
      BY <2>1, <2>5 DEF TransferEnds, external
    <2>6. CASE SlotMoves
      BY <2>1, <2>6 DEF SlotMoves
    <2>7. CASE Hibernate
      BY <2>1, <2>7 DEF Hibernate, external
    <2> QED
      BY <2>2, <2>3, <2>4, <2>5, <2>6, <2>7
  <1>3. TypeOK'
    BY <1>1, <1>2 DEF Inv, TypeOK
  <1> QED
    BY <1>1, <1>3 DEF Inv, RetryOK, ClockOK, Backoff

\* A unit of time lowers a running deadline by what it adds to the time since the last
\* negotiation, until that time reaches the longest delay.
LEMMA PassKeeps ==
    ASSUME Inv, Pass
    PROVE  Inv'
  <1> DEFINE sooner(t) == IF t > 0 THEN t - 1 ELSE t
  <1>1. /\ retry' = [retry EXCEPT !.in = sooner(retry.in)]
        /\ elevate' = [elevate EXCEPT !.in = sooner(elevate.in)]
        /\ sinceRetry' = Lesser(sinceRetry + 1, RetryDelay)
        /\ sinceElevate' = Lesser(sinceElevate + 1, ElevateMax)
        /\ UNCHANGED <<cable, level, slot, transfer, adc, adc_awake, present, armed,
                       prepared, want, sampled>>
    BY DEF Pass, Quiet, external, edge
  <1>2. retry \in Retries /\ elevate \in Clocks
    BY DEF Inv, RetryOK, ClockOK
  <1>3. retry.in \in Unset..RetryDelay /\ elevate.in \in Unset..ElevateMax
        /\ elevate.backoff \in 0..ElevateMax /\ retry.attempts \in 0..RetryMax
        /\ sinceRetry \in 0..RetryDelay /\ sinceElevate \in 0..ElevateMax
    BY <1>2 DEF Inv, TypeOK, Retries, Clocks
  <1>4. sooner(retry.in) \in Unset..RetryDelay /\ sooner(elevate.in) \in Unset..ElevateMax
    BY <1>3
  <1>5. /\ retry' \in Retries /\ retry'.in = sooner(retry.in)
        /\ retry'.pending = retry.pending /\ retry'.attempts = retry.attempts
    BY <1>1, <1>2, <1>4 DEF Retries
  <1>6. /\ elevate' \in Clocks /\ elevate'.in = sooner(elevate.in)
        /\ elevate'.backoff = elevate.backoff
    BY <1>1, <1>2, <1>4 DEF Clocks
  <1>7. sinceRetry' \in 0..RetryDelay /\ sinceElevate' \in 0..ElevateMax
    BY <1>1, <1>3 DEF Lesser
  <1>8. TypeOK'
    BY <1>1, <1>5, <1>6, <1>7 DEF Inv, TypeOK, Retries, Clocks
  <1>9. retry.in # Unset => /\ retry'.in # Unset
                            /\ sinceRetry' + retry'.in >= RetryDelay
    BY <1>1, <1>3, <1>5 DEF Lesser, Inv, RetryOK
  <1>10. RetryOK(retry, sinceRetry)'
    <2>1. retry.in = Unset => retry'.in = Unset
      BY <1>3, <1>5
    <2> QED
      BY <1>5, <1>9, <2>1 DEF Inv, RetryOK
  <1>11. Backoff(elevate) \in 0..ElevateMax /\ Backoff(elevate') = Backoff(elevate)
    BY <1>3, <1>6 DEF Backoff
  <1>12. elevate.in # Unset => /\ elevate'.in # Unset
                               /\ sinceElevate' + elevate'.in >= Backoff(elevate)
    BY <1>1, <1>3, <1>6, <1>11 DEF Lesser, Inv, ClockOK
  <1>13. ClockOK(elevate, sinceElevate)'
    <2>1. elevate.in = Unset => elevate'.in = Unset
      BY <1>3, <1>6
    <2> QED
      BY <1>6, <1>11, <1>12, <2>1 DEF Inv, ClockOK
  <1>14. (want = "retry" => retry.attempts < RetryMax /\ sinceRetry >= RetryDelay)'
    BY <1>1, <1>3, <1>5 DEF Lesser, Inv
  <1> QED
    BY <1>8, <1>10, <1>13, <1>14 DEF Inv

-----------------------------------------------------------------------------
(* The theorems.                                                           *)

\* Driver entry satisfies the invariant.
LEMMA InitHolds == Init => Inv
  <1> SUFFICES ASSUME Init PROVE Inv
    OBVIOUS
  <1>1. TypeOK
    <2>1. {cable, slot, transfer, adc_awake, present, armed, prepared} \subseteq BOOLEAN
      BY DEF Init
    <2>2. retry \in Retries /\ elevate \in Clocks
      BY DEF Init, Retries, Clocks
    <2>3. sinceRetry \in 0..RetryDelay /\ sinceElevate \in 0..ElevateMax
      BY DEF Init
    <2>4. level \in Levels /\ adc \in {"normal", "auto", "asleep"} /\ want \in Wants
          /\ sampled \in Qualities /\ (transfer => cable)
      BY DEF Init, Levels, Wants, Qualities
    <2> QED
      BY <2>1, <2>2, <2>3, <2>4 DEF TypeOK, Retries, Clocks
  <1> QED
    BY <1>1 DEF Init, Inv, RetryOK, ClockOK, Retries, Clocks

\* Every step of the schedule keeps the invariant, the clocks' sums included.
LEMMA StepKeeps == Inv /\ [Next]_vars => Inv'
  <1> SUFFICES ASSUME Inv, [Next]_vars PROVE Inv'
    OBVIOUS
  <1>1. CASE Prepare
    BY <1>1, PrepareKeeps
  <1>2. CASE Release
    BY <1>2, ReleaseKeeps
  <1>3. CASE RunOnRequest
    BY <1>3, RequestKeeps
  <1>4. CASE Sample
    BY <1>4, SampleKeeps
  <1>5. CASE Act
    BY <1>5, ActKeeps
  <1>6. CASE Unplug \/ Plug \/ LoseLevel \/ TransferEnds \/ SlotMoves \/ Hibernate
    BY <1>6, WorldKeeps
  <1>7. CASE Pass
    BY <1>7, PassKeeps
  <1>8. CASE UNCHANGED vars
    BY <1>8 DEF vars, external, edge, since, Inv, TypeOK, RetryOK, ClockOK, Backoff
  <1> QED
    BY <1>1, <1>2, <1>3, <1>4, <1>5, <1>6, <1>7, <1>8 DEF Next

\* The inductive invariant: a well-formed state, a retry under way that is due, and the
\* two sums of deadline and time.
THEOREM InvHolds == Spec => []Inv
  BY InitHolds, StepKeeps, PTL DEF Spec

\* The state of the schedule is well formed; in particular the retries of a full slot
\* are counted up to their limit and never past it, and the backoff keeps its cap.
THEOREM TypeCorrect == Spec => []TypeOK
  <1>1. Inv => TypeOK
    BY DEF Inv
  <1> QED
    BY <1>1, InvHolds, PTL

\* Retries for a full SUPERUSER slot keep their distance.
THEOREM RetriesKeepDistance == Spec => RetriesSpaced
  <1>1. Inv => [want = "retry" /\ want' = "nothing" => sinceRetry >= RetryDelay]_vars
    BY DEF Inv
  <1> QED
    BY <1>1, InvHolds, PTL DEF RetriesSpaced

\* Re-elevations keep the distance of their backoff.
THEOREM ReElevationsKeepDistance == Spec => ReElevationsBackOff
  <1>1. ASSUME Inv, [Next]_vars, want = "nothing", want' = "reelevate"
        PROVE  sinceElevate >= Backoff(elevate)
    <2>1. Sample
      BY <1>1 DEF Next, vars, Prepare, Release, RunOnRequest, Act, Unplug, Plug, LoseLevel,
                  TransferEnds, SlotMoves, Hibernate, Pass, Quiet
    <2>2. elevate.in = 0
      BY <2>1, <1>1 DEF Sample, Wanted, ReElevates
    <2> QED
      BY <1>1, <2>2 DEF Inv, TypeOK, ClockOK
  <1>2. Inv /\ [Next]_vars =>
            [want = "nothing" /\ want' = "reelevate" =>
                sinceElevate >= IF elevate.backoff = 0 THEN ElevateFirst
                                ELSE elevate.backoff]_vars
    BY <1>1 DEF Backoff
  <1> QED
    BY <1>2, InvHolds, PTL DEF ReElevationsBackOff, Spec
=============================================================================
