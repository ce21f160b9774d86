--------------------------- MODULE Battery_proofs ---------------------------
(***************************************************************************)
(* Theorems about Battery, for every value of its constants: the type      *)
(* invariant, that a cable which does not move keeps AC, and that charging *)
(* has a recent witness.                                                   *)
(***************************************************************************)
EXTENDS Battery, TLAPS

\* The inductive invariant: every sample that counted for the charging hold was a
\* witness, so the last witness is at most as old as the hold.
Inv == TypeOK /\ unseen <= charging.age

USE HoldAssumption DEF HoldAssumption

-----------------------------------------------------------------------------
(* The holds.                                                              *)

\* What a sample does to a hold: only a true one rejuvenates it, and only a false one
\* that comes after its window takes it down.
LEMMA HoldUpdated ==
    ASSUME NEW cap \in Nat, NEW h \in HoldType(cap), NEW raw \in BOOLEAN,
           NEW hold \in Nat, NEW front \in Nat
    PROVE  LET n == hold_update(h, raw, hold, front) IN
           /\ n \in HoldType(cap)
           /\ raw => n.age \in {0, h.age}
           /\ ~raw => n.age = h.age
           /\ ~raw /\ n.held => h.held /\ h.age < hold
           /\ raw /\ h.held => n.held
  <1> DEFINE run == Lesser(h.run + 1, HOLD_ARM_RUN)
             needed == IF h.held THEN HOLD_ARM_RUN ELSE front
             n == hold_update(h, raw, hold, front)
  <1>1. h.held \in BOOLEAN /\ h.age \in 0..cap /\ h.run \in 0..HOLD_ARM_RUN
    BY DEF HoldType, Ages
  <1>2. run \in 0..HOLD_ARM_RUN /\ needed \in Nat
    BY <1>1 DEF Lesser, HOLD_ARM_RUN
  <1>3. CASE raw /\ run >= needed
    <2>0. ~(run < needed)
      BY <1>2, <1>3
    <2>1. n = [held |-> TRUE, age |-> 0, run |-> run]
      BY <1>3, <2>0, Zenon DEF hold_update
    <2>2. 0 \in 0..cap
      OBVIOUS
    <2> HIDE DEF n, run
    <2>3. n \in HoldType(cap) /\ n.age = 0 /\ n.held = TRUE
      BY <1>2, <2>1, <2>2 DEF HoldType, Ages
    <2> QED
      BY <1>3, <2>3 DEF n
  <1>4. CASE raw /\ run < needed
    <2>1. ~(run >= needed)
      BY <1>2, <1>4
    <2>2. n = [h EXCEPT !.run = run]
      BY <1>4, <2>1, Zenon DEF hold_update
    <2> HIDE DEF n, run
    <2>3. n \in HoldType(cap) /\ n.age = h.age /\ n.held = h.held
      BY <1>2, <2>2 DEF HoldType, Ages
    <2> QED
      BY <1>4, <2>3 DEF n
  <1>5. CASE ~raw
    <2> DEFINE held == h.held /\ h.age < hold
    <2>1. n = [h EXCEPT !.held = held, !.run = 0]
      BY <1>5 DEF hold_update
    <2>2. held \in BOOLEAN /\ 0 \in 0..HOLD_ARM_RUN
      BY <1>1 DEF HOLD_ARM_RUN
    <2> HIDE DEF held, n
    <2>3. n \in HoldType(cap) /\ n.age = h.age /\ n.held = held
      BY <2>1, <2>2, Zenon DEF HoldType
    <2> QED
      BY <1>5, <2>3 DEF held, n
  <1> QED
    BY <1>2, <1>3, <1>4, <1>5

\* Time ages a hold.
LEMMA HoldAges ==
    ASSUME NEW cap \in Nat, NEW h \in HoldType(cap)
    PROVE  LET n == [h EXCEPT !.age = Older(@, cap)] IN
           n \in HoldType(cap) /\ n.held = h.held /\ n.age = Lesser(h.age + 1, cap)
  BY DEF HoldType, Ages, Older, Lesser

\* The trend keeps its shape.
LEMMA TrendUpdated ==
    ASSUME NEW raw \in Raws, trend \in [prev : Raws \cup {SOC_MAX}, rising : BOOLEAN, age : Ages(SocRiseHold)]
    PROVE  trend_update(trend, raw) \in [prev : Raws \cup {SOC_MAX}, rising : BOOLEAN, age : Ages(SocRiseHold)]
  <1> DEFINE rising == trend.rising /\ trend.age < SocRiseHold
  <1>1. raw \in Int /\ trend.prev \in Int /\ rising \in BOOLEAN /\ 0 \in Ages(SocRiseHold)
    BY DEF Raws, SOC_MAX, Ages
  <1>2. CASE raw > trend.prev
    <2>0. ~(raw < trend.prev) /\ raw # trend.prev
      BY <1>1, <1>2
    <2>1. trend_update(trend, raw) = [prev |-> raw, rising |-> TRUE, age |-> 0]
      BY <1>2, <2>0, Zenon DEF trend_update
    <2> QED
      BY <1>1, <2>1
  <1>3. CASE raw < trend.prev
    <2>1. trend_update(trend, raw) = [trend EXCEPT !.prev = raw, !.rising = FALSE]
      BY <1>1, <1>3 DEF trend_update
    <2> QED
      BY <2>1
  <1>4. CASE raw = trend.prev
    <2>1. trend_update(trend, raw) = [trend EXCEPT !.rising = rising]
      <3>1. ~(raw > trend.prev) /\ ~(raw < trend.prev)
        BY <1>1, <1>4
      <3> QED
        BY <1>4, <3>1, Zenon DEF trend_update
    <2> HIDE DEF rising
    <2> QED
      BY <1>1, <2>1
  <1> QED
    BY <1>1, <1>2, <1>3, <1>4

-----------------------------------------------------------------------------
(* The samples.                                                            *)

Samples == {AsSample(m, b) : m \in Measured, b \in BOOLEAN}

\* The constants are voltages and a current.
LEMMA Constants ==
    /\ Cell \in Nat /\ Current \in Nat
    /\ \A v \in Bricks \cup Floating : v \in Nat
    /\ \A v \in Bricks : v < VBUS_ELEVATED_UV =>
          v >= VBUS_CHARGING_MIN_UV /\ v >= Cell + VBUS_ABOVE_VBAT_UV
  BY ReadingAssumption DEF ReadingAssumption

\* A reading is one of a brick, of a floating node, or of a sleeping ADC.
LEMMA ReadingKinds ==
    ASSUME NEW m \in Measured
    PROVE  \/ m.vbat = Cell /\ m.vin \in {0} \cup Bricks /\ m.iin \in {0, Current} /\ m.cable = TRUE
           \/ m.vbat = Cell /\ m.vin \in {0} \cup Floating /\ m.iin = 0 /\ m.cable = FALSE
           \/ m.vbat = 0 /\ m.vin = 0 /\ m.iin = 0 /\ m.cable \in BOOLEAN
  BY Zenon DEF Measured

\* The shape of a sample.
LEMMA SampleShape ==
    ASSUME NEW s \in Samples
    PROVE  /\ s.vbat \in Nat /\ s.vin \in Nat /\ s.iin \in {0, Current}
           /\ s.bit \in BOOLEAN /\ s.cable \in BOOLEAN /\ s.usable \in BOOLEAN
  <1>1. PICK m \in Measured, b \in BOOLEAN : s = AsSample(m, b)
    BY DEF Samples
  <1>2. m.vbat \in Nat /\ m.vin \in Nat /\ m.iin \in {0, Current}
    <2>1. CASE m.vbat = Cell /\ m.vin \in {0} \cup Bricks /\ m.iin \in {0, Current} /\ m.cable = TRUE
      BY <2>1, Constants
    <2>2. CASE m.vbat = Cell /\ m.vin \in {0} \cup Floating /\ m.iin = 0 /\ m.cable = FALSE
      BY <2>2, Constants
    <2>3. CASE m.vbat = 0 /\ m.vin = 0 /\ m.iin = 0 /\ m.cable \in BOOLEAN
      BY <2>3
    <2> QED
      BY <2>1, <2>2, <2>3, ReadingKinds
  <1>3. m.cable \in BOOLEAN
    BY ReadingKinds, Zenon
  <1>4. /\ s.vbat = m.vbat /\ s.vin = m.vin /\ s.iin = m.iin /\ s.bit = b /\ s.cable = m.cable
        /\ s.usable = (m.vbat > 0 /\ m.vin > 0)
    BY <1>1, Zenon DEF AsSample
  <1>5. s.usable \in BOOLEAN
    BY <1>4, Zenon
  <1> QED
    BY <1>2, <1>3, <1>4, <1>5, Zenon

\* With the cable in and the comparator clear no sample says "no": an adapter stands
\* clear of the cell, and what does not is the pump's reflection or not measured.
LEMMA CableIsNotDenied ==
    ASSUME NEW s \in Samples, s.cable, ~s.bit
    PROVE  online_raw_with_evidence(s) # "no"
  <1>1. PICK m \in Measured, b \in BOOLEAN : s = AsSample(m, b)
    BY DEF Samples
  <1>2. s.usable \in BOOLEAN /\ is_reflection_tick(s) \in BOOLEAN
    BY SampleShape DEF is_reflection_tick
  <1>3. CASE ~s.usable
    BY <1>3 DEF online_raw_with_evidence
  <1>4. CASE s.usable /\ is_reflection_tick(s)
    BY <1>4 DEF online_raw_with_evidence
  <1>5. CASE s.usable /\ ~is_reflection_tick(s)
    <2>1. s.vbat = Cell /\ s.vin \in Bricks
      <3>1. m.vbat > 0 /\ m.vin > 0 /\ m.cable /\ s.vbat = m.vbat /\ s.vin = m.vin
        BY <1>1, <1>5 DEF AsSample
      <3>2. /\ ~(m.vbat = Cell /\ m.vin \in {0} \cup Floating /\ m.iin = 0 /\ m.cable = FALSE)
            /\ ~(m.vbat = 0 /\ m.vin = 0 /\ m.iin = 0 /\ m.cable \in BOOLEAN)
        BY <3>1
      <3>3. m.vbat = Cell /\ m.vin \in {0} \cup Bricks
        BY <3>2, ReadingKinds
      <3> QED
        BY <3>1, <3>3
    <2>2. online_raw(s)
      <3>1. s.vin \in Nat /\ Cell \in Nat
        BY <2>1, Constants
      <3>2. CASE s.vin >= VBUS_ELEVATED_UV
        BY <1>5, <3>2 DEF online_raw
      <3>3. CASE s.vin < VBUS_ELEVATED_UV
        <4>1. s.vin >= VBUS_CHARGING_MIN_UV /\ s.vin >= s.vbat + VBUS_ABOVE_VBAT_UV
          BY <2>1, <3>3, Constants
        <4> QED
          BY <1>5, <4>1, Zenon DEF online_raw
      <3> QED
        BY <3>1, <3>2, <3>3 DEF VBUS_ELEVATED_UV
    <2>3. online_raw_with_evidence(s) = "yes"
      BY <1>5, <2>2 DEF online_raw_with_evidence
    <2> QED
      BY <2>3
  <1> QED
    BY <1>2, <1>3, <1>4, <1>5

-----------------------------------------------------------------------------
(* An update.                                                              *)

\* What an update leaves of the flags: their shape and the age of the witness, and why
\* a flag went or stayed.
LEMMA UpdateKeeps ==
    ASSUME Inv, NEW s \in Samples, NEW crest \in {0, Current}, update_from_telemetry(s, crest)
    PROVE  /\ online' \in HoldType(OnlineHold) /\ charging' \in HoldType(ChargingHold)
           /\ unplug_run' \in 0..UNPLUG_RELEASE_RUN
           /\ unplug_run' = UNPLUG_RELEASE_RUN => ~online'.held
           /\ seen' \in [cable : BOOLEAN, bit : BOOLEAN, current : BOOLEAN, usable : BOOLEAN]
           /\ unseen' \in Ages(ChargingHold) /\ unseen' <= charging'.age
           /\ online.held /\ ~online'.held => ~seen'.cable \/ seen'.bit
           /\ charging'.held => unseen' < ChargingHold
  <1> DEFINE run == unplug_run_after(s, unplug_run)
             witnessed == charging_raw(online'.held, s.iin, crest, trend.rising)
  <1>1. /\ unplug_run' = run /\ online' = OnlineAfter(s, run)
        /\ charging' = hold_update(charging, witnessed, ChargingHold, HOLD_ARM_RUN)
        /\ unseen' = IF witnessed THEN 0 ELSE unseen
        /\ seen' = Found(s)
    BY DEF update_from_telemetry
  <1>2. /\ online \in HoldType(OnlineHold) /\ charging \in HoldType(ChargingHold)
        /\ unplug_run \in 0..UNPLUG_RELEASE_RUN /\ unseen \in 0..ChargingHold
        /\ trend.rising \in BOOLEAN /\ unseen <= charging.age
        /\ charging.age \in 0..ChargingHold
    BY DEF Inv, TypeOK, HoldType, Ages
  <1>3. /\ s.iin \in Nat /\ s.bit \in BOOLEAN /\ s.cable \in BOOLEAN /\ s.usable \in BOOLEAN
    <2>1. s.iin \in Nat
      BY SampleShape, Constants
    <2> QED
      BY <2>1, SampleShape, Zenon
  <1>4. /\ run \in 0..UNPLUG_RELEASE_RUN
        /\ run = UNPLUG_RELEASE_RUN => s.bit
    BY <1>2, <1>3 DEF unplug_run_after, Lesser, UNPLUG_RELEASE_RUN, IIN_CHARGING_UA
  <1>5. /\ online' \in HoldType(OnlineHold)
        /\ run = UNPLUG_RELEASE_RUN => ~online'.held
        /\ online.held /\ ~online'.held => s.bit \/ online_raw_with_evidence(s) = "no"
    <2> DEFINE e == online_raw_with_evidence(s)
    <2>1. CASE run = UNPLUG_RELEASE_RUN
      <3>1. online' = hold_update(online, FALSE, 0, HOLD_FRONT_RUN)
        BY <1>1, <2>1 DEF OnlineAfter
      <3>2. HOLD_FRONT_RUN \in Nat /\ online.age \in Nat
        BY <1>2 DEF HOLD_FRONT_RUN, HoldType, Ages
      <3> DEFINE n == hold_update(online, FALSE, 0, HOLD_FRONT_RUN)
      <3>3. n \in HoldType(OnlineHold) /\ (n.held => online.held /\ online.age < 0)
        <4> DEFINE raw == FALSE
                   m == hold_update(online, raw, 0, HOLD_FRONT_RUN)
        <4>1. raw \in BOOLEAN /\ 0 \in Nat /\ ~raw /\ OnlineHold \in Nat
          OBVIOUS
        <4> HIDE DEF raw
        <4>2. m \in HoldType(OnlineHold) /\ (~raw /\ m.held => online.held /\ online.age < 0)
          BY <1>2, <3>2, <4>1, HoldUpdated
        <4> QED
          BY <4>1, <4>2 DEF raw
      <3>4. online' = n
        BY <3>1
      <3> HIDE DEF n
      <3>5. ~n.held
        BY <3>2, <3>3
      <3>6. online' \in HoldType(OnlineHold) /\ ~online'.held
        BY <3>3, <3>4, <3>5
      <3> QED
        BY <1>4, <2>1, <3>6
    <2>2. CASE run # UNPLUG_RELEASE_RUN /\ e = "none"
      <3>1. online' = online
        BY <1>1, <2>2 DEF OnlineAfter, hold_update_evidence
      <3> QED
        BY <1>2, <2>2, <3>1
    <2>3. CASE run # UNPLUG_RELEASE_RUN /\ e # "none"
      <3>1. online' = hold_update(online, e = "yes", OnlineHold, HOLD_FRONT_RUN)
        BY <1>1, <2>3 DEF OnlineAfter, hold_update_evidence
      <3>2. HOLD_FRONT_RUN \in Nat /\ (e = "yes") \in BOOLEAN
        BY DEF HOLD_FRONT_RUN
      <3>3. e \in {"yes", "no", "none"}
        <4>1. is_reflection_tick(s) \in BOOLEAN
          BY DEF is_reflection_tick
        <4> QED
          BY <1>3, <4>1, Zenon DEF online_raw_with_evidence
      <3> HIDE DEF e, run
      <3>4. /\ online' \in HoldType(OnlineHold)
            /\ e = "yes" /\ online.held => online'.held
        BY <1>2, <3>1, <3>2, HoldUpdated
      <3> QED
        BY <2>3, <3>3, <3>4 DEF e
    <2> QED
      BY <2>1, <2>2, <2>3
  <1>6. witnessed \in BOOLEAN
    BY DEF charging_raw
  <1>7. /\ charging' \in HoldType(ChargingHold)
        /\ unseen' \in Ages(ChargingHold) /\ unseen' <= charging'.age
        /\ charging'.held => unseen' < ChargingHold
    <2>1. HOLD_ARM_RUN \in Nat /\ ChargingHold \in Nat
      BY DEF HOLD_ARM_RUN
    <2> HIDE DEF witnessed
    <2>2. /\ charging' \in HoldType(ChargingHold)
          /\ witnessed => charging'.age \in {0, charging.age}
          /\ ~witnessed => charging'.age = charging.age
          /\ ~witnessed /\ charging'.held => charging.age < ChargingHold
      <3> DEFINE n == hold_update(charging, witnessed, ChargingHold, HOLD_ARM_RUN)
      <3>1. charging' = n
        BY <1>1 DEF witnessed
      <3>2. /\ n \in HoldType(ChargingHold)
            /\ witnessed => n.age \in {0, charging.age}
            /\ ~witnessed => n.age = charging.age
            /\ ~witnessed /\ n.held => charging.held /\ charging.age < ChargingHold
        <4>1. ASSUME NEW w \in BOOLEAN
              PROVE  LET m == hold_update(charging, w, ChargingHold, HOLD_ARM_RUN) IN
                     /\ m \in HoldType(ChargingHold)
                     /\ w => m.age \in {0, charging.age}
                     /\ ~w => m.age = charging.age
                     /\ ~w /\ m.held => charging.held /\ charging.age < ChargingHold
          <5> DEFINE m == hold_update(charging, w, ChargingHold, HOLD_ARM_RUN)
          <5>1. charging \in HoldType(ChargingHold)
            BY <1>2
          <5>2. /\ m \in HoldType(ChargingHold)
                /\ w => m.age \in {0, charging.age}
                /\ ~w => m.age = charging.age
            BY <2>1, <5>1, HoldUpdated
          <5>3. ~w /\ m.held => charging.held /\ charging.age < ChargingHold
            BY <2>1, <5>1, HoldUpdated
          <5> QED
            BY <5>2, <5>3
        <4> QED
          BY <1>6, <4>1
      <3> HIDE DEF n
      <3> QED
        BY <3>1, <3>2
    <2>3. unseen' = IF witnessed THEN 0 ELSE unseen
      BY <1>1 DEF witnessed
    <2>4. CASE witnessed
      BY <1>2, <2>2, <2>3, <2>4 DEF Ages
    <2>5. CASE ~witnessed
      BY <1>2, <2>2, <2>3, <2>5 DEF Ages
    <2> QED
      BY <1>6, <2>4, <2>5
  <1>8. seen' \in [cable : BOOLEAN, bit : BOOLEAN, current : BOOLEAN, usable : BOOLEAN]
    BY <1>1, <1>3 DEF Found
  <1>9. online.held /\ ~online'.held => ~seen'.cable \/ seen'.bit
    <2>1. seen'.cable = s.cable /\ seen'.bit = s.bit
      BY <1>1 DEF Found
    <2> QED
      BY <1>5, <2>1, CableIsNotDenied
  <1> QED
    BY <1>1, <1>4, <1>5, <1>7, <1>8, <1>9

-----------------------------------------------------------------------------
(* The steps.                                                              *)

\* The start.
LEMMA InitHolds == Init => Inv
  <1> SUFFICES ASSUME Init PROVE Inv
    OBVIOUS
  <1>1. last \in [vbat : {0}, vin : {0}, iin : {0}, cable : BOOLEAN]
    BY DEF Init
  <1>2. last \in Measured
    BY <1>1, Zenon DEF Measured
  <1>3. online \in HoldType(OnlineHold) /\ charging \in HoldType(ChargingHold)
    BY DEF Init, Cold, HoldType, Ages, HOLD_ARM_RUN
  <1>4. /\ unplug_run = 0 /\ 0 \in 0..UNPLUG_RELEASE_RUN /\ 0 # UNPLUG_RELEASE_RUN
        /\ peak = 0 /\ unseen = ChargingHold /\ unseen \in Ages(ChargingHold)
    BY DEF Init, UNPLUG_RELEASE_RUN, Ages
  <1>5. trend \in [prev : Raws \cup {SOC_MAX}, rising : BOOLEAN, age : Ages(SocRiseHold)]
    BY DEF Init, NoTrend, Ages
  <1>6. seen \in [cable : BOOLEAN, bit : BOOLEAN, current : BOOLEAN, usable : BOOLEAN]
    BY DEF Init
  <1>7. unseen <= charging.age
    BY DEF Init, Cold
  <1> QED
    BY <1>2, <1>3, <1>4, <1>5, <1>6, <1>7 DEF Inv, TypeOK

\* The three callers of an update.
Update == Tick \/ GetStatus \/ Prepare

\* Each of them feeds the update a sample and a peak.
LEMMA UpdateCalls ==
    ASSUME Inv, Update
    PROVE  \E s \in Samples, crest \in {0, Current} : update_from_telemetry(s, crest)
  <1>1. last \in Measured /\ peak \in {0, Current}
    BY DEF Inv, TypeOK
  <1>2. CASE Tick
    BY <1>1, <1>2 DEF Tick, Samples
  <1>3. CASE GetStatus
    BY <1>1, <1>3 DEF GetStatus, Samples
  <1>4. CASE Prepare
    <2>1. PICK m \in Measured, b \in BOOLEAN : update_from_telemetry(AsSample(m, b), Greater(peak, m.iin))
      BY <1>4 DEF Prepare
    <2>2. m.iin \in {0, Current}
      BY ReadingKinds
    <2>3. Greater(peak, m.iin) \in {0, Current}
      BY <1>1, <2>2 DEF Greater
    <2> QED
      BY <2>1, <2>3 DEF Samples
  <1> QED
    BY <1>2, <1>3, <1>4 DEF Update

\* An update keeps the invariant, keeps AC on a cable that does not move, and shows
\* charging only with a recent witness.
LEMMA UpdateStep ==
    ASSUME Inv, Update
    PROVE  /\ Inv'
           /\ online.held /\ ~online'.held => ~seen'.cable \/ seen'.bit
           /\ charging'.held => unseen' < ChargingHold
  <1>1. PICK s \in Samples, crest \in {0, Current} : update_from_telemetry(s, crest)
    BY UpdateCalls
  <1>2. /\ online' \in HoldType(OnlineHold) /\ charging' \in HoldType(ChargingHold)
        /\ unplug_run' \in 0..UNPLUG_RELEASE_RUN
        /\ unplug_run' = UNPLUG_RELEASE_RUN => ~online'.held
        /\ seen' \in [cable : BOOLEAN, bit : BOOLEAN, current : BOOLEAN, usable : BOOLEAN]
        /\ unseen' \in Ages(ChargingHold) /\ unseen' <= charging'.age
        /\ online.held /\ ~online'.held => ~seen'.cable \/ seen'.bit
        /\ charging'.held => unseen' < ChargingHold
    BY <1>1, UpdateKeeps
  <1>3. /\ last \in Measured /\ peak \in {0, Current}
        /\ trend \in [prev : Raws \cup {SOC_MAX}, rising : BOOLEAN, age : Ages(SocRiseHold)]
    BY DEF Inv, TypeOK
  <1>4. trend' \in [prev : Raws \cup {SOC_MAX}, rising : BOOLEAN, age : Ages(SocRiseHold)]
    BY <1>3, TrendUpdated DEF Update, Tick, Gauge, GetStatus, Prepare
  <1>5. last' \in Measured /\ peak' \in {0, Current}
    <2>1. CASE Tick
      <3>1. PICK m \in Measured : last' = m /\ peak' \in {Greater(peak, m.iin), m.iin}
        BY <2>1 DEF Tick
      <3>2. m.iin \in {0, Current}
        BY ReadingKinds
      <3> QED
        BY <1>3, <3>1, <3>2 DEF Greater
    <2>2. CASE GetStatus \/ Prepare
      BY <1>3, <2>2 DEF GetStatus, Prepare
    <2> QED
      BY <2>1, <2>2 DEF Update
  <1> QED
    BY <1>2, <1>4, <1>5 DEF Inv, TypeOK

\* Time ages the holds and the witness alike.
LEMMA PassKeeps == Inv /\ Pass => Inv'
  <1> SUFFICES ASSUME Inv, Pass PROVE Inv'
    OBVIOUS
  <1>1. /\ online \in HoldType(OnlineHold) /\ charging \in HoldType(ChargingHold)
        /\ unseen \in 0..ChargingHold /\ unseen <= charging.age /\ charging.age \in 0..ChargingHold
        /\ trend \in [prev : Raws \cup {SOC_MAX}, rising : BOOLEAN, age : Ages(SocRiseHold)]
    BY DEF Inv, TypeOK, Ages, HoldType
  <1>2. /\ online' \in HoldType(OnlineHold) /\ online'.held = online.held
        /\ charging' \in HoldType(ChargingHold) /\ charging'.age = Lesser(charging.age + 1, ChargingHold)
    BY <1>1, HoldAges DEF Pass
  <1>3. unseen' \in Ages(ChargingHold) /\ unseen' <= charging'.age
    BY <1>1, <1>2 DEF Pass, Older, Lesser, Ages
  <1>4. trend' \in [prev : Raws \cup {SOC_MAX}, rising : BOOLEAN, age : Ages(SocRiseHold)]
    <2> DEFINE age == Older(trend.age, SocRiseHold)
    <2>1. age \in Ages(SocRiseHold)
      BY <1>1 DEF Older, Lesser, Ages
    <2>2. trend' = [trend EXCEPT !.age = age]
      BY DEF Pass
    <2> HIDE DEF age
    <2> QED
      BY <1>1, <2>1, <2>2
  <1>5. UNCHANGED <<last, unplug_run, peak, seen>>
    BY DEF Pass
  <1> QED
    BY <1>2, <1>3, <1>4, <1>5 DEF Inv, TypeOK

\* Every step keeps the invariant.
LEMMA StepKeeps == Inv /\ [Next]_vars => Inv'
  <1> SUFFICES ASSUME Inv, [Next]_vars PROVE Inv'
    OBVIOUS
  <1>1. CASE UNCHANGED vars
    BY <1>1 DEF vars, holds, Inv, TypeOK
  <1> QED
    BY <1>1, UpdateStep, PassKeeps DEF Next, Update

-----------------------------------------------------------------------------
(* The theorems.                                                           *)

\* The inductive invariant: a well-formed state, and a witness no older than the last
\* sample that counted for the charging hold.
THEOREM InvHolds == Spec => []Inv
  BY InitHolds, StepKeeps, PTL DEF Spec

\* The state is well formed; in particular a full run of unplug verdicts leaves AC off.
THEOREM TypeCorrect == Spec => []TypeOK
  <1>1. Inv => TypeOK
    BY DEF Inv
  <1> QED
    BY <1>1, InvHolds, PTL

\* AC is not taken away while the cable is in and the comparator clear.
THEOREM MotionlessKeepsAc == Spec => MotionlessCableKeepsAc
  <1>1. ASSUME Inv, [Next]_vars, online.held, ~online'.held PROVE ~seen'.cable \/ seen'.bit
    <2>1. ~Pass
      <3>1. ASSUME Pass PROVE FALSE
        <4>1. online \in HoldType(OnlineHold)
          BY <1>1 DEF Inv, TypeOK
        <4>2. online'.held = online.held
          BY <3>1, <4>1, HoldAges DEF Pass
        <4> QED
          BY <1>1, <4>2
      <3> QED
        BY <3>1
    <2>2. Update
      BY <1>1, <2>1 DEF Next, Update, vars, holds
    <2> QED
      BY <1>1, <2>2, UpdateStep
  <1>2. Inv /\ [Next]_vars => [online.held /\ ~online'.held => ~seen'.cable \/ seen'.bit]_vars
    BY <1>1
  <1> QED
    BY <1>2, InvHolds, PTL DEF MotionlessCableKeepsAc, Spec

\* Charging is shown for less than a hold after its last witness.
THEOREM ChargingWitnessed == Spec => ChargingIsWitnessed
  <1>1. ASSUME Inv, Next, ~Pass, ShowsCharging' PROVE unseen' < ChargingHold
    BY <1>1, UpdateStep DEF Next, Update, ShowsCharging
  <1>2. Inv /\ [Next]_vars => [~Pass => (ShowsCharging' => unseen' < ChargingHold)]_vars
    BY <1>1
  <1> QED
    BY <1>2, InvHolds, PTL DEF ChargingIsWitnessed, Spec
=============================================================================
