------------------------ MODULE Negotiation_proofs ------------------------
(***************************************************************************)
(* Theorems about Negotiation, for every value of its constants: the type  *)
(* invariant, the ceiling of the bus, the latch over FORCE_9V, and the     *)
(* brick that is not asked for nine volts.  The ceiling counts pulses: on  *)
(* the way up the bus is never more than ten units per counted pulse above *)
(* where the negotiation found it, or the authentication left it.  A       *)
(* negotiation has a bounded number of steps.                              *)
(***************************************************************************)
EXTENDS Negotiation, TLAPS

Buses == 0 .. Top

\* What the driver takes for the cell: nothing, or no less than a cell has.
Vbats == {v \in Nat : v = 0 \/ v >= CELL_MIN_UV}

ReportType ==
    [status : SUBSET {"DONE", "QC_CHARGER"}, result : SUBSET {"DCP", "QC2", "QC3"},
     continuous : BOOLEAN]

WaitType ==
    [waited : 0 .. HardCap, deadline : Nat, extended : BOOLEAN, confirm : 0 .. FORCE9V_CONFIRM_N - 1]

JobType ==
    [vbat : Vbats, pre : ReportType, post : SUBSET {"DCP", "QC3"}, qc2 : BOOLEAN,
     pulse_cnt : 0 .. MAX_PULSE_CNT, left : 0 .. MAX_PULSE_CNT, wait : WaitType, base : Int,
     seen : BOOLEAN]

\* The parts of the type invariant, one kind of state each.
WiresOK ==
    /\ brick \in Bricks \cup {None} /\ bus \in Buses
    /\ fine \in BOOLEAN /\ forced \in BOOLEAN
    /\ brick # None => bus >= FiveVolts

PcOK ==
    /\ pc \in {"idle", "setup", "detect", "prep", "auth", "raise", "force", "rise", "hold", "walk",
               "land", "landed"}
    /\ pc = "idle" => job = NoJob

FlagsOK ==
    /\ latched \in BOOLEAN /\ calm \in BOOLEAN /\ abandoned \in BOOLEAN
    /\ icl \in {Least, 60} /\ cell \in Cells /\ gauge \in BOOLEAN

\* The steps before and during which the bus is raised by pulses: the count of the pulses
\* bounds it.
Climbing == pc \in {"setup", "detect", "prep", "auth", "raise", "walk"}

ClimbOK ==
    /\ Climbing => bus <= job.base + 10 * job.pulse_cnt
    /\ pc \in {"setup", "detect"} => job.pulse_cnt = 0
    /\ pc = "prep" => job.pulse_cnt + job.left <= QC35_PREP_MAX_INC
    /\ pc = "auth" => job.pulse_cnt <= QC35_PREP_MAX_INC

\* A negotiation whose cell the gauge knew is told that cell, to its end.
Told == pc # "idle" /\ gauge => job.vbat = cell

\* The inductive invariant, with Told.
Inv ==
    /\ WiresOK /\ FlagsOK /\ PcOK /\ job \in JobType
    /\ ClimbOK
    /\ ForcedIsLatched
    /\ Qc3IsNotForced

\* What BusHasACeiling says of a step.
Ceiling ==
    bus' > bus /\ brick' = brick /\ ~forced' /\ pc # "auth" =>
        IF OffBus
        THEN uv(bus') <= (IF gauge THEN trim_target_uv(cell) ELSE PUMP_VIN_TARGET_CEIL_UV) + QC3_STEP_UV
        ELSE /\ bus' <= job.base + 10 * MAX_PULSE_CNT
             /\ job'.seen => uv(bus') <= trim_target_uv(job.vbat) + QC3_STEP_UV

USE NegotiationAssumption DEF NegotiationAssumption

-----------------------------------------------------------------------------
(* Arithmetic.                                                             *)

\* A step of up to ten units, n times.
LEMMA Product ==
    ASSUME NEW n \in Nat, NEW s \in 1 .. 10
    PROVE  n * s \in Nat /\ n * s <= 10 * n /\ n <= n * s
  <1>1. s \in {1, 2, 3, 4, 5, 6, 7, 8, 9, 10}
    OBVIOUS
  <1>2. CASE s \in {1, 2, 3, 4, 5}
    BY <1>2
  <1>3. CASE s \in {6, 7, 8, 9, 10}
    BY <1>3
  <1> QED
    BY <1>1, <1>2, <1>3

\* A count of pulses covers its distance and overshoots it by less than one pulse.
LEMMA StepsCover ==
    ASSUME NEW d \in Int
    PROVE  /\ Steps(d) \in Int
           /\ d <= QC3_STEP_UV * Steps(d) /\ QC3_STEP_UV * Steps(d) < d + QC3_STEP_UV
           /\ d >= 0 => Steps(d) \in Nat
  BY SMT DEF Steps, QC3_STEP_UV

\* n pulses take a bus b to a; k of them cover the distance to a target t under a top u.
Overshoots(a, b, n, k, t, u) ==
    /\ a <= b + 10 * n /\ n <= k
    /\ QC3_STEP_UV * k < t - uv(b) + QC3_STEP_UV /\ t <= u
    => uv(a) <= u + QC3_STEP_UV

\* Such pulses overshoot the top by at most one.
LEMMA Overshoot ==
    ASSUME NEW a \in Nat, NEW b \in Nat, NEW n \in Int, NEW k \in Int, NEW t \in Nat, NEW u \in Nat
    PROVE  Overshoots(a, b, n, k, t, u)
  BY SMT DEF Overshoots, uv, QC3_STEP_UV

\* A level in microvolts.
LEMMA HigherUv ==
    ASSUME NEW a \in Nat, NEW b \in Nat, a <= b
    PROVE  uv(a) \in Nat /\ uv(b) \in Nat /\ uv(a) <= uv(b)
  BY SMT DEF uv

\* The band of a cell: raised, with its target at or under its top and 9.6 V.
LEMMA Band ==
    ASSUME NEW vbat \in Vbats
    PROVE  /\ target_vbus_uv(vbat) \in Nat /\ target_vbus_uv(vbat) >= ELEVATED_MIN_VIN_UV
           /\ trim_target_uv(vbat) \in Nat /\ trim_target_uv(vbat) >= WINDOW_END_UV + QC3_STEP_UV
           /\ band_floor_uv(vbat) \in Nat /\ band_floor_uv(vbat) >= ELEVATED_MIN_VIN_UV
           /\ target_vbus_uv(vbat) <= trim_target_uv(vbat)
           /\ target_vbus_uv(vbat) <= PUMP_VIN_TARGET_CEIL_UV
  BY SMT DEF Vbats, target_vbus_uv, trim_target_uv, band_floor_uv, window_floor_uv, Lesser, Greater,
       SWITCHING_WINDOW_FLOOR_UV, ELEVATED_MIN_VIN_UV, PUMP_VIN_TARGET_CEIL_UV, PUMP_VIN_TRIM_UV,
       PUMP_VIN_TARGET_MIN_UV, CELL_MIN_UV, WINDOW_END_UV, QC3_STEP_UV

\* The budget of a raise.
LEMMA Budget ==
    ASSUME NEW vbat \in Vbats
    PROVE  pulses_toward_target(vbat) \in 0 .. MAX_PULSE_CNT
  <1>1. target_vbus_uv(vbat) - 5 * Volt \in Nat
    BY Band, SMT DEF ELEVATED_MIN_VIN_UV, Volt, PUMP_VIN_TARGET_CEIL_UV
  <1>2. Steps(target_vbus_uv(vbat) - 5 * Volt) \in Nat
    BY <1>1, StepsCover
  <1> QED
    BY <1>2 DEF pulses_toward_target, Lesser, MAX_PULSE_CNT

\* A reading is the bus, unless nine volts are asked for, or nothing.
LEMMA Reading ==
    ASSUME WiresOK, NEW vin \in Readings
    PROVE  vin \in Nat /\ (~forced => vin \in {uv(bus), 0})
  <1>1. uv(bus) \in Nat
    BY SMT DEF WiresOK, Buses, uv
  <1> QED
    BY <1>1, SMT DEF Readings, ReadingsAt

\* The anchor may stand for a cell; with the gauge it is the cell.
LEMMA Anchor ==
    ASSUME WiresOK, cell \in Cells, NEW vbat \in Anchors
    PROVE  vbat \in Vbats /\ (gauge => vbat = cell)
  <1>1. uv(bus) \div 2 \in Nat /\ cell \in Nat /\ cell >= CELL_MIN_UV
    BY SMT DEF WiresOK, Buses, uv
  <1>2. vbat = cell \/ (~gauge /\ (vbat = 0 \/ (vbat = uv(bus) \div 2 /\ vbat >= cell)))
    BY DEF Anchors, VbatChannel
  <1>3. CELL_MIN_UV \in Nat
    BY SMT DEF CELL_MIN_UV
  <1> QED
    BY <1>1, <1>2, <1>3 DEF Vbats

-----------------------------------------------------------------------------
(* Locals.                                                                 *)

\* The locals of a negotiation that is over are well-formed.
LEMMA NoJobIsJob ==
    /\ NoJob \in JobType /\ NoJob.pulse_cnt = 0
    /\ NoJob.pre = Nothing /\ ~already_qc3(Nothing)
  BY SMT DEF NoJob, JobType, NoWait, WaitType, Nothing, ReportType, Vbats, Buses,
         FORCE9V_CONFIRM_N, MAX_PULSE_CNT, already_qc3

\* The locals after a reading and a count of n pulses.
LEMMA SawCounted ==
    ASSUME job \in JobType, NEW vin \in Nat, NEW n \in 0 .. 2, NEW j \in {job, Saw(vin)}
    PROVE  /\ j \in JobType /\ Counted(j, n) \in JobType
           /\ j = [job EXCEPT !.seen = j.seen]
           /\ j.seen => job.seen
           /\ j = Saw(vin) /\ j.seen => vin # 0
           /\ Counted(j, n) = [j EXCEPT !.pulse_cnt = Counted(j, n).pulse_cnt]
           /\ latched => Counted(j, n).pulse_cnt = j.pulse_cnt
           /\ ~latched => Counted(j, n).pulse_cnt = Lesser(j.pulse_cnt + n, MAX_PULSE_CNT)
  <1> DEFINE s == job.seen /\ vin # 0
  <1>0. s \in BOOLEAN /\ (s => job.seen /\ vin # 0)
    BY DEF JobType
  <1> HIDE DEF s
  <1>1. /\ Saw(vin) = [job EXCEPT !.seen = s]
        /\ Saw(vin) \in JobType /\ Saw(vin).seen = s
    <2>1. Saw(vin) = [job EXCEPT !.seen = s]
      BY DEF Saw, s, JobType
    <2> QED
      BY <1>0, <2>1 DEF JobType
  <1>2. /\ j \in JobType /\ j = [job EXCEPT !.seen = j.seen] /\ (j.seen => job.seen)
        /\ j = Saw(vin) /\ j.seen => vin # 0
    <2>1. CASE j = job
      BY <1>0, <1>1, <2>1 DEF JobType
    <2>2. CASE j = Saw(vin)
      BY <1>0, <1>1, <2>2
    <2> QED
      BY <2>1, <2>2
  <1> DEFINE c == Lesser(j.pulse_cnt + n, MAX_PULSE_CNT)
  <1>3. c \in 0 .. MAX_PULSE_CNT
    BY <1>2 DEF JobType, Lesser, MAX_PULSE_CNT
  <1> HIDE DEF c
  <1>4. CASE latched
    BY <1>2, <1>4 DEF Counted, JobType
  <1>5. CASE ~latched
    <2>1. Counted(j, n) = [j EXCEPT !.pulse_cnt = c]
      BY <1>5 DEF Counted, c, JobType
    <2> QED
      BY <1>2, <1>3, <1>5, <2>1 DEF c, JobType
  <1> QED
    BY <1>2, <1>4, <1>5

-----------------------------------------------------------------------------
(* Pulses.                                                                 *)

\* Pulses up raise the bus of a brick that follows, by at most ten units each.
LEMMA PulsesUp ==
    ASSUME WiresOK, NEW n \in Nat, Pulses(n)
    PROVE  /\ WiresOK' /\ UNCHANGED <<brick, fine, forced, latched, abandoned>>
           /\ bus' \in Buses /\ bus <= bus' /\ bus' <= bus + 10 * n
           /\ latched => bus' = bus
           /\ bus' > bus => ~forced
  <1> DEFINE s == IF fine THEN FineStep ELSE 10
  <1>1. /\ UNCHANGED <<brick, fine, forced, latched, abandoned>>
        /\ bus' = IF latched THEN bus ELSE Moved(bus, n)
    BY DEF Pulses
  <1>2. bus \in Nat /\ bus <= Top /\ Top \in Nat
    BY DEF WiresOK, Buses
  <1>3. s \in 1 .. 10
    OBVIOUS
  <1>4. Moved(bus, n) = IF Follows THEN Lesser(bus + n * s, Top) ELSE bus
    BY DEF Moved
  <1> HIDE DEF s
  <1>5. n * s \in Nat /\ n * s <= 10 * n
    BY <1>3, Product
  <1>6. /\ bus' \in Nat /\ bus' <= Top /\ bus <= bus' /\ bus' <= bus + 10 * n
        /\ latched => bus' = bus
        /\ bus' > bus => Follows
    BY <1>1, <1>2, <1>4, <1>5, SMT DEF Lesser
  <1>7. WiresOK'
    BY <1>1, <1>2, <1>6, SMT DEF WiresOK, Buses, FiveVolts
  <1> QED
    BY <1>1, <1>2, <1>6, <1>7 DEF Follows, Buses

\* And those down lower it by at most as much.
LEMMA PulsesDown ==
    ASSUME WiresOK, NEW n \in Nat, Pulses(-n)
    PROVE  /\ UNCHANGED <<brick, fine, forced, latched, abandoned>>
           /\ bus' \in Int /\ bus' <= bus /\ bus' >= bus - 10 * n
           /\ latched \/ ~Follows => bus' = bus
  <1> DEFINE s == IF fine THEN FineStep ELSE 10
  <1>1. /\ UNCHANGED <<brick, fine, forced, latched, abandoned>>
        /\ bus' = IF latched THEN bus ELSE Moved(bus, -n)
    BY DEF Pulses
  <1>2. bus \in Nat /\ bus <= Top /\ Top \in Nat
    BY DEF WiresOK, Buses
  <1>3. s \in 1 .. 10
    OBVIOUS
  <1>4. Moved(bus, -n) = IF Follows THEN Lesser(bus + (-n) * s, Top) ELSE bus
    BY DEF Moved
  <1> HIDE DEF s
  <1>5. n * s \in Nat /\ n * s <= 10 * n
    BY <1>3, Product
  <1>6. (-n) * s = -(n * s)
    BY <1>3
  <1> QED
    BY <1>1, <1>2, <1>4, <1>5, <1>6, SMT DEF Lesser

\* A walk never leaves the raised bus below five volts, and takes it no further than a pulse
\* past the top of the band of the cell it is told, nor past 9.6 V.
LEMMA NudgeKeeps ==
    ASSUME WiresOK, NEW vbat \in Vbats, NEW vin \in Readings, NEW dead \in BOOLEAN,
           Nudge(vin, vbat, dead)
    PROVE  /\ WiresOK' /\ UNCHANGED <<brick, fine, forced, latched, abandoned>>
           /\ bus' > bus => /\ uv(bus') <= trim_target_uv(vbat) + QC3_STEP_UV
                           /\ uv(bus') <= PUMP_VIN_TARGET_CEIL_UV + QC3_STEP_UV
  <1> DEFINE n == nudge_pulses(vin, vbat, dead)
             target == target_vbus_uv(vbat)
             floor == band_floor_uv(vbat)
             trim == trim_target_uv(vbat)
             over == SatSub(vin, Greater(target, floor))
             ceil == PUMP_VIN_TARGET_CEIL_UV
  <1>1. /\ target \in Nat /\ target >= ELEVATED_MIN_VIN_UV
        /\ floor \in Nat /\ floor >= ELEVATED_MIN_VIN_UV
        /\ trim \in Nat /\ target <= trim
        /\ ceil \in Nat /\ target <= ceil
    BY Band DEF PUMP_VIN_TARGET_CEIL_UV
  <1>2. vin \in Nat /\ (~forced => vin \in {uv(bus), 0})
    BY Reading
  <1>3. /\ bus \in Nat /\ bus <= Top
        /\ brick # None => bus >= FiveVolts
    BY DEF WiresOK, Buses
  <1>4. \/ n = 0
        \/ /\ ~latched /\ vin > trim
           /\ n = -Lesser(Steps(over), MAX_TRIM_DEC)
        \/ /\ ~latched /\ 0 < vin /\ vin < target
           /\ n = Lesser(Steps(target - vin), MAX_PULSE_CNT)
        \/ /\ ~latched /\ vin > floor
           /\ n = -1
    BY <1>2, SMT DEF nudge_pulses
  <1>o. over \in Nat /\ (over = 0 \/ over = vin - Greater(target, floor))
    BY <1>1, <1>2, SMT DEF SatSub, Greater
  <1>5. n \in Int
    <2>1. Steps(target - vin) \in Int /\ Steps(over) \in Int
      <3>1. target - vin \in Int /\ over \in Int
        BY <1>1, <1>2, <1>o
      <3> QED
        BY <3>1, StepsCover
    <2> QED
      BY <1>4, <2>1 DEF Lesser, MAX_PULSE_CNT, MAX_TRIM_DEC
  <1> HIDE DEF n, target, floor, trim, over, ceil
  <1>6. PICK m \in Int : m \in Lesser(n, 0) .. Greater(n, 0) /\ Pulses(m)
    <2>1. n \in Lesser(n, 0) .. Greater(n, 0)
      BY <1>5 DEF Lesser, Greater
    <2>2. \E m \in IF Failing THEN Lesser(n, 0) .. Greater(n, 0) ELSE {n} : Pulses(m)
      BY DEF Nudge, n
    <2> QED
      BY <1>5, <2>1, <2>2 DEF Lesser, Greater
  <1>7. CASE m >= 0
    <2>1. /\ WiresOK' /\ UNCHANGED <<brick, fine, forced, latched, abandoned>>
          /\ bus' \in Nat /\ bus' <= bus + 10 * m
          /\ latched => bus' = bus
          /\ bus' > bus => ~forced
      BY <1>6, <1>7, PulsesUp DEF Buses
    <2>2. ASSUME bus' > bus PROVE uv(bus') <= trim + QC3_STEP_UV /\ uv(bus') <= ceil + QC3_STEP_UV
      <3>1. m > 0 /\ n > 0 /\ m <= n /\ ~latched
        <4>1. m > 0 /\ ~latched
          BY <1>3, <1>7, <2>1, <2>2
        <4>2. m <= Greater(n, 0)
          BY <1>5, <1>6 DEF Lesser, Greater
        <4> QED
          BY <1>5, <4>1, <4>2 DEF Greater
      <3>2. vin > 0 /\ vin < target /\ n <= Steps(target - vin) /\ vin = uv(bus)
        <4>1. vin > 0 /\ vin < target /\ n = Lesser(Steps(target - vin), MAX_PULSE_CNT)
          <5>1. ~(n = 0) /\ ~(n = -1)
            BY <1>5, <3>1
          <5>2. ~(n = -Lesser(Steps(over), MAX_TRIM_DEC))
            <6>1. Steps(over) \in Nat
              BY <1>o, StepsCover
            <6> QED
              BY <1>5, <3>1, <6>1 DEF Lesser, MAX_TRIM_DEC
          <5> QED
            BY <1>4, <5>1, <5>2
        <4>2. vin = uv(bus)
          BY <1>2, <2>1, <2>2, <4>1
        <4>3. Steps(target - vin) \in Int
          BY <1>1, <1>2, StepsCover
        <4> QED
          BY <4>1, <4>2, <4>3 DEF Lesser, MAX_PULSE_CNT
      <3>3. QC3_STEP_UV * Steps(target - vin) < target - vin + QC3_STEP_UV
            /\ Steps(target - vin) \in Int
        BY <1>1, <1>2, StepsCover
      <3> DEFINE k == Steps(target - vin)
      <3>4. k \in Int /\ n <= k /\ QC3_STEP_UV * k < target - vin + QC3_STEP_UV
        BY <3>2, <3>3
      <3> HIDE DEF k
      <3>5. bus' <= bus + 10 * n
        BY <1>3, <1>5, <1>6, <2>1, <3>1
      <3>6. QC3_STEP_UV * k < target - uv(bus) + QC3_STEP_UV
        BY <3>2, <3>4, Zenon
      <3>7. /\ bus' \in Nat /\ bus \in Nat /\ n \in Int /\ k \in Int /\ target \in Nat /\ trim \in Nat
            /\ ceil \in Nat /\ bus' <= bus + 10 * n /\ n <= k /\ target <= trim /\ target <= ceil
        BY <1>1, <1>3, <1>5, <2>1, <3>4, <3>5
      <3>8. Overshoots(bus', bus, n, k, target, trim) /\ Overshoots(bus', bus, n, k, target, ceil)
        BY <3>7, Overshoot
      <3> QED
        BY <3>6, <3>7, <3>8, Zenon DEF Overshoots
    <2> QED
      BY <2>1, <2>2 DEF trim, ceil
  <1>8. CASE m < 0
    <2>1. -m \in Nat /\ Pulses(-(-m))
      BY <1>6, <1>8
    <2>2. /\ UNCHANGED <<brick, fine, forced, latched, abandoned>>
          /\ bus' \in Int /\ bus' <= bus /\ bus' >= bus - 10 * (-m)
          /\ latched \/ ~Follows => bus' = bus
      BY <2>1, PulsesDown
    <2>3. ASSUME ~latched, Follows PROVE bus' >= FiveVolts
      <3>1. n < 0 /\ n <= m
        <4>1. n < 0
          BY <1>5, <1>6, <1>8 DEF Lesser, Greater
        <4> QED
          BY <1>5, <1>6, <4>1 DEF Lesser, Greater
      <3>2. ~forced /\ vin \in {uv(bus), 0}
        BY <1>2, <2>3 DEF Follows
      <3>3. CASE vin > trim /\ n = -Lesser(Steps(over), MAX_TRIM_DEC)
        <4>1. vin = uv(bus)
          BY <1>1, <3>2, <3>3
        <4> DEFINE top == Greater(target, floor)
                   k == Steps(over)
        <4>2. top \in Nat /\ top >= ELEVATED_MIN_VIN_UV
          BY <1>1 DEF Greater
        <4>3. k \in Int /\ QC3_STEP_UV * k < over + QC3_STEP_UV
          BY <1>o, StepsCover
        <4>4. -m <= k /\ k > 0
          <5>1. n = -Lesser(k, MAX_TRIM_DEC)
            BY <3>3
          <5> HIDE DEF k
          <5> QED
            BY <1>5, <3>1, <4>3, <5>1 DEF Lesser, MAX_TRIM_DEC
        <4>5. over = vin - top
          <5>1. Steps(0) = 0
            BY SMT DEF Steps, QC3_STEP_UV
          <5> QED
            BY <1>o, <4>4, <5>1
        <4> HIDE DEF k, top
        <4> QED
          BY <1>3, <2>2, <4>1, <4>2, <4>3, <4>4, <4>5, SMT
             DEF uv, QC3_STEP_UV, ELEVATED_MIN_VIN_UV, FiveVolts
      <3>4. CASE vin > floor /\ n = -1
        <4>1. vin = uv(bus) /\ -m <= 1
          BY <1>1, <1>8, <3>1, <3>2, <3>4
        <4> QED
          BY <1>1, <1>3, <2>2, <3>4, <4>1, SMT DEF uv, ELEVATED_MIN_VIN_UV, FiveVolts
      <3>5. ~(vin < target /\ n = Lesser(Steps(target - vin), MAX_PULSE_CNT))
        <4>1. vin < target => target - vin \in Nat
          BY <1>1, <1>2
        <4>2. vin < target => Steps(target - vin) \in Nat
          BY <4>1, StepsCover
        <4> QED
          BY <1>5, <3>1, <4>2 DEF Lesser, MAX_PULSE_CNT
      <3> QED
        BY <1>4, <1>5, <3>1, <3>3, <3>4, <3>5
    <2>4. /\ bus' \in Buses /\ (brick # None => bus' >= FiveVolts)
      <3>1. bus' = bus \/ bus' >= FiveVolts
        BY <2>2, <2>3
      <3>2. bus' >= 0 /\ bus' <= Top
        BY <1>3, <2>2, <3>1, SMT DEF FiveVolts
      <3>3. brick # None => bus' >= FiveVolts
        BY <1>3, <3>1
      <3> QED
        BY <2>2, <3>2, <3>3 DEF Buses
    <2> QED
      BY <1>3, <2>2, <2>4 DEF WiresOK
  <1> QED
    BY <1>6, <1>7, <1>8

-----------------------------------------------------------------------------
(* Parts of the steps.                                                     *)

\* A negotiation that is over leaves nothing behind.
LEMMA LandWithKeeps ==
    ASSUME NEW vbat \in Vbats, LandWith(vbat)
    PROVE  PcOK' /\ job' \in JobType /\ ClimbOK' /\ Qc3IsNotForced' /\ job'.vbat = vbat
  <1>1. pc' = "land" /\ job' \in JobType /\ job'.vbat = vbat
    BY NoJobIsJob DEF LandWith, JobType
  <1> QED
    BY <1>1 DEF PcOK, ClimbOK, Climbing, Qc3IsNotForced

\* The same with the cell it was told.
LEMMA OverKeeps ==
    ASSUME job \in JobType, Over
    PROVE  PcOK' /\ job' \in JobType /\ ClimbOK' /\ Qc3IsNotForced' /\ job'.vbat = job.vbat
  <1>1. job.vbat \in Vbats
    BY DEF JobType
  <1> QED
    BY <1>1, LandWithKeeps DEF Over

\* The limit stays one of the two.
LEMMA IclKeeps ==
    ASSUME icl \in {Least, 60}, NEW target \in {10, 30, 40, 54, 60}, ensure_icl_at_least(target)
    PROVE  icl' \in {Least, 60}
  BY DEF ensure_icl_at_least, Greater, Least

\* Giving the bus back lowers it, and the latch is not dropped over FORCE_9V unnoticed.
LEMMA FiveVoltsKeep ==
    ASSUME WiresOK, latched \in BOOLEAN, abandoned \in BOOLEAN, ForcedIsLatched, safe_force_5v
    PROVE  /\ WiresOK' /\ latched' \in BOOLEAN /\ abandoned' \in BOOLEAN /\ ForcedIsLatched'
           /\ bus' \in Buses /\ bus' <= bus /\ brick' = brick
  <1>1. CASE UNCHANGED wires /\ abandoned' = forced /\ latched' = FALSE
    <2>1. brick' = brick /\ bus' = bus /\ fine' = fine /\ forced' = forced
      BY <1>1 DEF wires
    <2>2. ForcedIsLatched'
      BY <1>1, <2>1 DEF ForcedIsLatched
    <2>3. abandoned' \in BOOLEAN
      BY <1>1 DEF WiresOK
    <2>4. bus' \in Buses /\ bus' <= bus
      BY <2>1 DEF WiresOK, Buses
    <2> QED
      BY <1>1, <2>1, <2>2, <2>3, <2>4 DEF WiresOK
  <1>2. CASE /\ forced' = FALSE /\ bus' = (IF brick = None THEN bus ELSE FiveVolts)
             /\ abandoned' = FALSE /\ UNCHANGED <<brick, fine>> /\ latched' = FALSE
    <2>1. bus' \in Buses /\ bus' <= bus /\ (brick # None => bus' >= FiveVolts)
      BY <1>2, SMT DEF WiresOK, Buses, FiveVolts
    <2> QED
      BY <1>2, <2>1 DEF WiresOK, ForcedIsLatched
  <1> QED
    BY <1>1, <1>2 DEF safe_force_5v

\* A step that does not raise the bus keeps it under the ceiling.
LEMMA NotRaised ==
    ASSUME WiresOK, bus' \in Buses, bus' <= bus
    PROVE  Ceiling
  BY DEF Ceiling, WiresOK, Buses

\* Nothing on the wires, and nothing about the latch.
LEMMA WiresKeep ==
    ASSUME WiresOK, ForcedIsLatched, UNCHANGED <<wires, latched, abandoned>>
    PROVE  /\ WiresOK' /\ ForcedIsLatched' /\ Ceiling
           /\ UNCHANGED <<brick, bus, fine, forced, latched, abandoned>>
  <1>1. UNCHANGED <<brick, bus, fine, forced, latched, abandoned>>
    BY DEF wires
  <1>2. bus' \in Buses /\ bus' <= bus
    BY <1>1 DEF WiresOK, Buses
  <1> QED
    BY <1>1, <1>2, NotRaised DEF WiresOK, ForcedIsLatched

-----------------------------------------------------------------------------
(* The surroundings.                                                       *)

\* The locals with another bus to start from; at rest it is none.
LEMMA Rebased ==
    ASSUME NEW b \in Int, NEW j \in JobType
    PROVE  LET k == [j EXCEPT !.base = b] IN
           /\ k \in JobType /\ k.base = b
           /\ k.vbat = j.vbat /\ k.pulse_cnt = j.pulse_cnt /\ k.left = j.left /\ k.pre = j.pre
           /\ k.post = j.post /\ k.wait = j.wait /\ k.seen = j.seen
           /\ j.base = b => k = j
  BY DEF JobType

\* The locals with another cell.
LEMMA Retold ==
    ASSUME NEW v \in Vbats, NEW j \in JobType
    PROVE  LET k == [j EXCEPT !.vbat = v] IN
           k \in JobType /\ k.vbat = v /\ k.pulse_cnt = j.pulse_cnt /\ k.wait = j.wait
  BY DEF JobType

\* The locals a negotiation begins with.
LEMMA Started ==
    ASSUME NEW v \in Vbats, NEW b \in Int
    PROVE  LET k == [NoJob EXCEPT !.vbat = v, !.base = b] IN
           k \in JobType /\ k.vbat = v /\ k.base = b /\ k.pulse_cnt = 0
  <1> DEFINE n == NoJob
             m == [n EXCEPT !.vbat = v]
  <1>1. n \in JobType /\ n.pulse_cnt = 0
    BY NoJobIsJob
  <1> HIDE DEF n
  <1>2. m \in JobType /\ m.vbat = v /\ m.pulse_cnt = 0
    BY <1>1, Retold
  <1>3. [n EXCEPT !.vbat = v, !.base = b] = [m EXCEPT !.base = b]
    BY <1>1 DEF JobType
  <1> HIDE DEF m
  <1>4. LET k == [m EXCEPT !.base = b] IN
        k \in JobType /\ k.vbat = v /\ k.base = b /\ k.pulse_cnt = 0
    BY <1>2, Rebased
  <1> QED
    BY <1>3, <1>4 DEF n

\* Pulling the cable clears what is on the wires and nothing else the call holds.
LEMMA UnplugKeeps == Inv /\ Unplug => Inv' /\ Ceiling
  <1> SUFFICES ASSUME Inv, Unplug PROVE Inv' /\ Ceiling
    OBVIOUS
  <1>1. /\ brick' = None /\ bus' = 0 /\ fine' = FALSE /\ forced' = FALSE /\ abandoned' = FALSE
        /\ icl' = icl /\ cell' = cell /\ gauge' = gauge /\ latched' = latched /\ pc' = pc
        /\ job' = [job EXCEPT !.base = 0] /\ calm' = calm
    BY DEF Unplug
  <1> DEFINE z == 0
  <1>z. z \in Int /\ job' = [job EXCEPT !.base = z] /\ z = 0
    BY <1>1
  <1> HIDE DEF z
  <1>2. bus' \in Buses /\ bus' <= bus
    BY <1>1 DEF Inv, WiresOK, Buses
  <1>3. /\ job' \in JobType /\ job'.base = 0
        /\ job'.pulse_cnt = job.pulse_cnt /\ job'.left = job.left /\ job'.pre = job.pre
        /\ job'.post = job.post
        /\ job.base = 0 => job' = job
    BY <1>z, Rebased DEF Inv
  <1>4. WiresOK' /\ FlagsOK' /\ ForcedIsLatched' /\ Qc3IsNotForced'
    BY <1>1, <1>2, <1>3 DEF Inv, WiresOK, FlagsOK, ForcedIsLatched, Qc3IsNotForced
  <1>5. PcOK'
    <2>1. NoJob.base = 0
      BY DEF NoJob
    <2> QED
      BY <1>1, <1>3, <2>1 DEF Inv, PcOK
  <1>6. ClimbOK'
    <2>1. job.pulse_cnt \in Nat /\ job.left \in Nat
      BY DEF Inv, JobType, MAX_PULSE_CNT
    <2>2. bus' <= job'.base + 10 * job'.pulse_cnt
      BY <1>1, <1>3, <2>1
    <2> QED
      BY <1>1, <1>3, <2>2 DEF Inv, ClimbOK
  <1> QED
    BY <1>2, <1>3, <1>4, <1>5, <1>6, NotRaised DEF Inv

\* A brick is plugged in at five volts; a job under way keeps its locals.
LEMMA PlugKeeps == Inv /\ Plug => Inv' /\ Ceiling
  <1> SUFFICES ASSUME Inv, Plug PROVE Inv' /\ Ceiling
    OBVIOUS
  <1>1. /\ brick = None /\ brick' \in Bricks /\ bus' = FiveVolts
        /\ job' = IF OffBus THEN job ELSE [job EXCEPT !.base = FiveVolts]
        /\ fine' = fine /\ forced' = forced /\ icl' = icl /\ cell' = cell /\ gauge' = gauge
        /\ latched' = latched /\ pc' = pc /\ calm' = calm /\ abandoned' = abandoned
    BY DEF Plug
  <1>2. FiveVolts \in Buses /\ FiveVolts \in Int /\ None \notin Bricks
    BY DEF FiveVolts, Buses, Kinds, None
  <1>3. WiresOK' /\ FlagsOK' /\ ForcedIsLatched'
    BY <1>1, <1>2 DEF Inv, WiresOK, FlagsOK, ForcedIsLatched, Buses
  <1>4. /\ job' \in JobType
        /\ job'.pulse_cnt = job.pulse_cnt /\ job'.left = job.left /\ job'.pre = job.pre
        /\ job'.post = job.post
        /\ ~OffBus => job'.base = FiveVolts
    BY <1>1, <1>2, Rebased DEF Inv
  <1>5. PcOK' /\ Qc3IsNotForced'
    BY <1>1, <1>4 DEF Inv, PcOK, OffBus, Qc3IsNotForced
  <1>6. ClimbOK'
    <2>1. Climbing' => bus' <= job'.base + 10 * job'.pulse_cnt
      <3>1. Climbing' => ~OffBus
        BY <1>1 DEF Climbing, OffBus
      <3> QED
        BY <1>1, <1>4, <3>1 DEF JobType, FiveVolts, MAX_PULSE_CNT
    <2> QED
      BY <1>1, <1>4, <2>1 DEF Inv, ClimbOK
  <1>7. Ceiling
    BY <1>1, <1>2 DEF Ceiling
  <1> QED
    BY <1>3, <1>4, <1>5, <1>6, <1>7 DEF Inv

\* The end of the disturbances changes nothing that is measured, nor does a poll of the gauge.
LEMMA CalmKeeps == Inv /\ (Calm \/ Sample) => Inv' /\ Ceiling
  <1> SUFFICES ASSUME Inv, Calm \/ Sample PROVE Inv' /\ Ceiling
    OBVIOUS
  <1>1. /\ UNCHANGED <<wires, latched, abandoned>>
        /\ calm' \in BOOLEAN /\ gauge' \in BOOLEAN /\ UNCHANGED <<icl, cell, pc, job>>
    BY DEF Calm, Sample, Inv, FlagsOK
  <1>2. /\ WiresOK' /\ ForcedIsLatched' /\ Ceiling
        /\ UNCHANGED <<brick, bus, fine, forced, latched, abandoned>>
    BY <1>1, WiresKeep DEF Inv
  <1>3. FlagsOK' /\ PcOK' /\ job' \in JobType /\ ClimbOK' /\ Qc3IsNotForced'
    BY <1>1, <1>2 DEF Inv, FlagsOK, PcOK, ClimbOK, Climbing, Qc3IsNotForced
  <1> QED
    BY <1>2, <1>3 DEF Inv

-----------------------------------------------------------------------------
(* The start of a negotiation, up to the path.                             *)

\* The bus stays where it is.
LEMMA WiresStay ==
    ASSUME WiresOK, UNCHANGED wires
    PROVE  /\ WiresOK' /\ Ceiling
           /\ brick' = brick /\ bus' = bus /\ fine' = fine /\ forced' = forced
  <1>1. brick' = brick /\ bus' = bus /\ fine' = fine /\ forced' = forced
    BY DEF wires
  <1>2. bus' \in Buses /\ bus' <= bus
    BY <1>1 DEF WiresOK, Buses
  <1> QED
    BY <1>1, <1>2, NotRaised DEF WiresOK

\* run_negotiation starts with an empty pulse count and no base.
LEMMA RunKeeps == Inv /\ RunNegotiate => Inv' /\ Ceiling
  <1> SUFFICES ASSUME Inv, RunNegotiate PROVE Inv' /\ Ceiling
    OBVIOUS
  <1>1. PICK replug \in BOOLEAN, vbat \in Vbats :
          /\ abandoned' = (abandoned \/ (replug /\ forced))
          /\ latched' = (latched /\ ~replug)
          /\ \/ pc' = "setup" /\ job' = [NoJob EXCEPT !.vbat = vbat, !.base = bus]
             \/ LandWith(vbat)
    <2>1. UNREAD_VBAT_UV \in Vbats
      BY SMT DEF Vbats, UNREAD_VBAT_UV, CELL_MIN_UV
    <2>2. \A vbat \in Anchors : vbat \in Vbats
      BY Anchor DEF Inv, FlagsOK
    <2> QED
      BY <2>1, <2>2 DEF RunNegotiate
  <1>2. UNCHANGED wires /\ icl' = icl /\ cell' = cell /\ gauge' = gauge /\ calm' = calm
    BY DEF RunNegotiate
  <1>3. /\ WiresOK' /\ Ceiling
        /\ brick' = brick /\ bus' = bus /\ fine' = fine /\ forced' = forced
    BY <1>2, WiresStay DEF Inv
  <1>4. FlagsOK' /\ ForcedIsLatched'
    <2>1. abandoned' \in BOOLEAN /\ latched' \in BOOLEAN
      BY <1>1 DEF Inv, FlagsOK, WiresOK
    <2>2. ForcedIsLatched'
      BY <1>1, <1>3 DEF Inv, ForcedIsLatched
    <2> QED
      BY <1>2, <2>1, <2>2 DEF Inv, FlagsOK
  <1>5. PcOK' /\ job' \in JobType /\ ClimbOK' /\ Qc3IsNotForced'
    <2>1. CASE LandWith(vbat)
      BY <2>1, LandWithKeeps
    <2>2. CASE pc' = "setup" /\ job' = [NoJob EXCEPT !.vbat = vbat, !.base = bus]
      <3>1. job' \in JobType /\ job'.pulse_cnt = 0 /\ job'.base = bus
        <4>1. bus \in Int
          BY DEF Inv, WiresOK, Buses
        <4> QED
          BY <2>2, <4>1, Started, Zenon
      <3>2. bus' <= job'.base + 10 * job'.pulse_cnt
        BY <1>3, <3>1 DEF Inv, WiresOK, Buses
      <3> QED
        BY <2>2, <3>1, <3>2 DEF PcOK, ClimbOK, Climbing, Qc3IsNotForced
    <2> QED
      BY <1>1, <2>1, <2>2
  <1> QED
    BY <1>3, <1>4, <1>5 DEF Inv

\* What the detection may report is a report.
LEMMA ReportShape ==
    ASSUME NEW r \in Reports
    PROVE  r \in ReportType
  <1>1. r \in [status : {{"DONE"}, {"DONE", "QC_CHARGER"}},
               result : {{}, {"DCP"}, {"QC2"}, {"DCP", "QC2"}, {"DCP", "QC3"}},
               continuous : BOOLEAN]
    BY DEF Reports
  <1>2. {{"DONE"}, {"DONE", "QC_CHARGER"}} \subseteq SUBSET {"DONE", "QC_CHARGER"}
    OBVIOUS
  <1>3. {{}, {"DCP"}, {"QC2"}, {"DCP", "QC2"}, {"DCP", "QC3"}} \subseteq SUBSET {"DCP", "QC2", "QC3"}
    OBVIOUS
  <1> QED
    BY <1>1, <1>2, <1>3 DEF ReportType

\* So is what the first phase reads, before any detection of its own.
LEMMA PreReportShape ==
    ASSUME NEW r \in PreReports
    PROVE  r \in ReportType
  <1>1. Nothing \in ReportType
    BY DEF Nothing, ReportType
  <1>2. ASSUME NEW q \in Reports
        PROVE  /\ q \in ReportType
               /\ [q EXCEPT !.status = {}] \in ReportType /\ [q EXCEPT !.result = {}] \in ReportType
    <2>1. q \in ReportType
      BY ReportShape
    <2> QED
      BY <2>1 DEF ReportType
  <1> HIDE DEF Nothing
  <1>3. \/ r = Nothing \/ r \in Reports
        \/ \E q \in Reports : r = [q EXCEPT !.status = {}] \/ r = [q EXCEPT !.result = {}]
    BY Zenon DEF PreReports
  <1>4. CASE \E q \in Reports : r = [q EXCEPT !.status = {}] \/ r = [q EXCEPT !.result = {}]
    <2>1. PICK q \in Reports : r = [q EXCEPT !.status = {}] \/ r = [q EXCEPT !.result = {}]
      BY <1>4
    <2> DEFINE s == [q EXCEPT !.status = {}]
               t == [q EXCEPT !.result = {}]
    <2>2. (r = s \/ r = t) /\ s \in ReportType /\ t \in ReportType
      BY <1>2, <2>1
    <2> HIDE DEF s, t
    <2> QED
      BY <2>2
  <1> QED
    BY <1>1, <1>2, <1>3, <1>4

\* The first phase of negotiate_on_bus touches the limit and the report only.
LEMMA SetupKeeps == Inv /\ Setup => Inv' /\ Ceiling
  <1> SUFFICES ASSUME Inv, Setup PROVE Inv' /\ Ceiling
    OBVIOUS
  <1>1. /\ pc = "setup" /\ ensure_icl_at_least(10)
        /\ \/ pc' = "detect" /\ \E pre \in PreReports : job' = [job EXCEPT !.pre = pre]
           \/ Over
        /\ UNCHANGED wires /\ cell' = cell /\ gauge' = gauge /\ latched' = latched
        /\ calm' = calm /\ abandoned' = abandoned
    BY DEF Setup, ensure_icl_floor_500ma
  <1>2. /\ WiresOK' /\ Ceiling
        /\ brick' = brick /\ bus' = bus /\ fine' = fine /\ forced' = forced
    BY <1>1, WiresStay DEF Inv
  <1>3. icl' \in {Least, 60}
    BY <1>1, IclKeeps DEF Inv, FlagsOK
  <1>4. FlagsOK' /\ ForcedIsLatched'
    BY <1>1, <1>2, <1>3 DEF Inv, FlagsOK, ForcedIsLatched
  <1>5. PcOK' /\ job' \in JobType /\ ClimbOK' /\ Qc3IsNotForced'
    <2>1. CASE Over
      BY <2>1, OverKeeps DEF Inv
    <2>2. ASSUME pc' = "detect", NEW pre \in PreReports, job' = [job EXCEPT !.pre = pre]
          PROVE  PcOK' /\ job' \in JobType /\ ClimbOK' /\ Qc3IsNotForced'
      <3>1. job' \in JobType /\ job'.pulse_cnt = job.pulse_cnt /\ job'.base = job.base
        BY <2>2, PreReportShape DEF Inv, JobType
      <3> QED
        BY <1>1, <1>2, <2>2, <3>1 DEF Inv, PcOK, ClimbOK, Climbing, Qc3IsNotForced
    <2> QED
      BY <1>1, <2>1, <2>2
  <1> QED
    BY <1>2, <1>4, <1>5 DEF Inv

\* A report from which a QC3 brick can be told takes the path of the pulses; so does one of
\* none after a rerun that made a DCP or a QC3 brick of it.
LEMMA TakeKeeps ==
    ASSUME Inv, pc = "detect", UNCHANGED <<wires, cell, gauge, latched, calm, abandoned>>,
           NEW r \in ReportType, NEW post \in ReportType, Take(r, post),
           "QC3" \in job.pre.result =>
               "QC3" \in r.result \/ post.result \cap {"DCP", "QC3"} = {}
    PROVE  Inv' /\ Ceiling
  <1> DEFINE result == promote_qc_charger(r.result, r.status)
             path == apsd_elevate_path(result, job.pre.continuous)
             seen == post.result \cap {"DCP", "QC3"}
  <1>1. /\ WiresOK' /\ Ceiling
        /\ brick' = brick /\ bus' = bus /\ fine' = fine /\ forced' = forced
    BY WiresStay DEF Inv
  <1>2. job \in JobType /\ job.pulse_cnt = 0 /\ bus <= job.base + 10 * job.pulse_cnt
    BY DEF Inv, ClimbOK, Climbing
  <1>3. path \in {"Qc3Pulse", "Force9v", "Reject"} /\ (path = "Force9v" => ~job.pre.continuous /\ "QC3" \notin result)
    <2> DEFINE qc3 == "QC3" \in result \/ job.pre.continuous
               slow == result \cap {"QC2", "DCP"} # {}
    <2>1. path = CASE qc3 -> "Qc3Pulse" [] ~qc3 /\ slow -> "Force9v" [] OTHER -> "Reject"
      BY DEF apsd_elevate_path
    <2>2. ~qc3 => ~job.pre.continuous /\ "QC3" \notin result
      OBVIOUS
    <2>3. qc3 \in BOOLEAN /\ slow \in BOOLEAN
      BY <1>2 DEF JobType, ReportType
    <2> HIDE DEF qc3, slow, path
    <2> QED
      BY <2>1, <2>2, <2>3, Zenon
  <1>s. "QC3" \in r.result => "QC3" \in result
    BY DEF promote_qc_charger
  <1>4. \/ ensure_icl_at_least(10) /\ pc' = "prep"
           /\ job' = [job EXCEPT !.pre = Nothing, !.left = QC35_PREP_MAX_INC]
        \/ path = "Force9v" /\ pc' = "force" /\ icl' = icl
           /\ job' = [job EXCEPT !.qc2 = "QC2" \in result, !.post = seen]
        \/ Over /\ icl' = icl
    <2>1. CASE path = "Qc3Pulse"
      BY <2>1 DEF Take, ensure_icl_floor_500ma
    <2>2. CASE path = "Force9v"
      BY <2>2 DEF Take
    <2>3. CASE path = "Reject"
      BY <2>3 DEF Take
    <2> QED
      BY <1>3, <2>1, <2>2, <2>3
  <1>t. seen \in SUBSET {"DCP", "QC3"}
    OBVIOUS
  <1>u. path = "Force9v" /\ "QC3" \in job.pre.result => seen = {}
    BY <1>3, <1>s
  <1> HIDE DEF result, path, seen
  <1>5. icl' \in {Least, 60}
    BY <1>4, IclKeeps DEF Inv, FlagsOK
  <1>6. FlagsOK' /\ ForcedIsLatched'
    BY <1>1, <1>5 DEF Inv, FlagsOK, ForcedIsLatched
  <1>7. PcOK' /\ job' \in JobType /\ ClimbOK' /\ Qc3IsNotForced'
    <2>1. CASE Over
      BY <2>1, OverKeeps DEF Inv
    <2>2. CASE pc' = "prep" /\ job' = [job EXCEPT !.pre = Nothing, !.left = QC35_PREP_MAX_INC]
      <3>1. Nothing \in ReportType /\ QC35_PREP_MAX_INC \in 0 .. MAX_PULSE_CNT
        BY DEF Nothing, ReportType, QC35_PREP_MAX_INC, MAX_PULSE_CNT
      <3> DEFINE no == Nothing
                 most == QC35_PREP_MAX_INC
                 m == [job EXCEPT !.pre = no]
      <3>a. no \in ReportType /\ most \in 0 .. MAX_PULSE_CNT
        BY <3>1
      <3>b. job' = [job EXCEPT !.pre = no, !.left = most]
        BY <2>2
      <3> HIDE DEF no, most
      <3>c. m \in JobType /\ m.pulse_cnt = 0 /\ m.base = job.base
        BY <1>2, <3>a DEF JobType
      <3>d. job' = [m EXCEPT !.left = most]
        BY <1>2, <3>b DEF JobType
      <3> HIDE DEF m
      <3>e. job' \in JobType /\ job'.pulse_cnt = 0 /\ job'.base = job.base /\ job'.left = most
        BY <3>a, <3>c, <3>d DEF JobType
      <3>2. /\ job' \in JobType /\ job'.pulse_cnt = 0 /\ job'.base = job.base
            /\ job'.left = QC35_PREP_MAX_INC
        BY <3>e DEF most
      <3> QED
        BY <1>1, <1>2, <2>2, <3>2 DEF PcOK, ClimbOK, Climbing, Qc3IsNotForced, QC35_PREP_MAX_INC
    <2>3. CASE /\ path = "Force9v" /\ pc' = "force"
               /\ job' = [job EXCEPT !.qc2 = "QC2" \in result, !.post = seen]
      <3> DEFINE q == "QC2" \in result
      <3>0. q \in BOOLEAN /\ job' = [job EXCEPT !.qc2 = q, !.post = seen]
        BY <2>3
      <3> HIDE DEF q
      <3> DEFINE m == [job EXCEPT !.qc2 = q]
      <3>a. m \in JobType /\ m.pre = job.pre
        BY <1>2, <3>0 DEF JobType
      <3>b. job' = [m EXCEPT !.post = seen]
        BY <1>2, <3>0 DEF JobType
      <3> HIDE DEF m
      <3>1. job' \in JobType /\ job'.pre = job.pre /\ job'.post = seen
        BY <1>t, <3>a, <3>b DEF JobType
      <3> QED
        BY <1>3, <1>u, <2>3, <3>1 DEF PcOK, ClimbOK, Climbing, Qc3IsNotForced
    <2> QED
      BY <1>4, <2>1, <2>2, <2>3
  <1> QED
    BY <1>1, <1>6, <1>7 DEF Inv

\* The detection leaves the bus at the level it found, and picks a path.
LEMMA DetectKeeps == Inv /\ Detect => Inv' /\ Ceiling
  <1> SUFFICES ASSUME Inv, Detect PROVE Inv' /\ Ceiling
    OBVIOUS
  <1>1. pc = "detect" /\ UNCHANGED <<wires, cell, gauge, latched, calm, abandoned>>
    BY DEF Detect
  <1>2. job.pre \in ReportType
    BY DEF Inv, JobType
  <1>3. CASE Take(job.pre, job.pre)
    BY <1>1, <1>2, <1>3, TakeKeeps
  <1>4. ASSUME NEW post \in Reports, Take(IF Demoted(job.pre, post) THEN job.pre ELSE post, post)
        PROVE  Inv' /\ Ceiling
    <2>0. post \in ReportType
      BY ReportShape
    <2>1. CASE Demoted(job.pre, post)
      BY <1>1, <1>2, <1>4, <2>0, <2>1, TakeKeeps
    <2>2. CASE ~Demoted(job.pre, post)
      <3>1. Take(post, post)
        BY <1>4, <2>2
      <3>2. "QC3" \in job.pre.result =>
               "QC3" \in post.result \/ post.result \cap {"DCP", "QC3"} = {}
        BY <2>2 DEF Demoted
      <3> QED
        BY <1>1, <2>0, <3>1, <3>2, TakeKeeps
    <2> QED
      BY <2>1, <2>2
  <1>5. CASE Over /\ icl' = icl
    <2>1. WiresOK' /\ Ceiling /\ FlagsOK' /\ ForcedIsLatched'
      <3>1. /\ WiresOK' /\ Ceiling
            /\ brick' = brick /\ bus' = bus /\ fine' = fine /\ forced' = forced
        BY <1>1, WiresStay DEF Inv
      <3> QED
        BY <1>1, <1>5, <3>1 DEF Inv, FlagsOK, ForcedIsLatched
    <2> QED
      BY <1>5, <2>1, OverKeeps DEF Inv
  <1> QED
    BY <1>3, <1>4, <1>5 DEF Detect, ApsdTimeout

-----------------------------------------------------------------------------
(* The pulses.                                                             *)

\* Pulses that are counted, and that keep a bus that was looked at under the top of the band.
LEMMA PulseStep ==
    ASSUME Inv, Climbing, NEW n \in 1 .. 2, NEW vin \in Nat, NEW j \in {job, Saw(vin)}, Pulses(n),
           job.pulse_cnt + n <= MAX_PULSE_CNT, job'.seen = j.seen,
           j.seen /\ ~forced => uv(bus + 10 * n) <= trim_target_uv(job.vbat) + QC3_STEP_UV
    PROVE  /\ WiresOK' /\ ForcedIsLatched' /\ Ceiling
           /\ UNCHANGED <<brick, fine, forced, latched, abandoned>>
           /\ bus' <= job.base + 10 * Counted(j, n).pulse_cnt /\ bus' <= bus + 10 * n
           /\ bus' \in Nat
  <1>1. /\ WiresOK' /\ UNCHANGED <<brick, fine, forced, latched, abandoned>>
        /\ bus' \in Buses /\ bus <= bus' /\ bus' <= bus + 10 * n
        /\ latched => bus' = bus
        /\ bus' > bus => ~forced
    BY PulsesUp DEF Inv
  <1>2. /\ bus \in Nat /\ bus' \in Nat /\ job.base \in Int /\ job.pulse_cnt \in Nat
        /\ bus <= job.base + 10 * job.pulse_cnt
    BY <1>1 DEF Inv, WiresOK, Buses, JobType, MAX_PULSE_CNT, ClimbOK
  <1>3. /\ j.pulse_cnt = job.pulse_cnt
        /\ latched => Counted(j, n).pulse_cnt = j.pulse_cnt
        /\ ~latched => Counted(j, n).pulse_cnt = Lesser(j.pulse_cnt + n, MAX_PULSE_CNT)
    <2>1. /\ j = [job EXCEPT !.seen = j.seen] /\ j \in JobType
          /\ latched => Counted(j, n).pulse_cnt = j.pulse_cnt
          /\ ~latched => Counted(j, n).pulse_cnt = Lesser(j.pulse_cnt + n, MAX_PULSE_CNT)
      BY SawCounted DEF Inv
    <2> QED
      BY <2>1 DEF Inv, JobType
  <1>4. bus' <= job.base + 10 * Counted(j, n).pulse_cnt
    <2>1. CASE latched
      BY <1>1, <1>2, <1>3, <2>1
    <2>2. CASE ~latched
      <3>1. Counted(j, n).pulse_cnt = job.pulse_cnt + n
        BY <1>2, <1>3, <2>2 DEF Lesser
      <3> QED
        BY <1>1, <1>2, <3>1
    <2> QED
      BY <2>1, <2>2
  <1>5. Ceiling
    <2> SUFFICES ASSUME bus' > bus
                 PROVE  /\ bus' <= job.base + 10 * MAX_PULSE_CNT
                        /\ j.seen => uv(bus') <= trim_target_uv(job.vbat) + QC3_STEP_UV
      <3>1. ~OffBus
        BY DEF Climbing, OffBus
      <3> QED
        BY <3>1 DEF Ceiling
    <2>1. bus' <= job.base + 10 * MAX_PULSE_CNT
      BY <1>1, <1>2, SMT DEF MAX_PULSE_CNT
    <2>2. ASSUME j.seen PROVE uv(bus') <= trim_target_uv(job.vbat) + QC3_STEP_UV
      <3>1. uv(bus + 10 * n) <= trim_target_uv(job.vbat) + QC3_STEP_UV
        BY <1>1, <2>2
      <3>2. uv(bus') <= uv(bus + 10 * n) /\ uv(bus') \in Nat /\ uv(bus + 10 * n) \in Nat
        BY <1>1, <1>2, HigherUv
      <3>3. trim_target_uv(job.vbat) + QC3_STEP_UV \in Nat
        BY Band DEF Inv, JobType, QC3_STEP_UV
      <3> QED
        BY <3>1, <3>2, <3>3
    <2> QED
      BY <2>1, <2>2
  <1>6. ForcedIsLatched'
    BY <1>1 DEF Inv, ForcedIsLatched
  <1> QED
    BY <1>1, <1>2, <1>4, <1>5, <1>6

\* A bus that was looked at and lies under a level is at most a pulse over it afterwards.
LEMMA LookedAt ==
    ASSUME Inv, NEW vin \in Readings, NEW level \in Nat, NEW top \in Nat, vin <= level,
           level <= top, Saw(vin).seen, ~forced
    PROVE  uv(bus + 10 * 1) <= top + QC3_STEP_UV /\ vin = uv(bus)
  <1>1. vin \in Nat /\ vin \in {uv(bus), 0}
    BY Reading DEF Inv
  <1>2. vin # 0
    BY <1>1, SawCounted DEF Inv
  <1>3. bus \in Nat /\ vin = uv(bus)
    BY <1>1, <1>2 DEF Inv, WiresOK, Buses
  <1>4. uv(bus + 10 * 1) = uv(bus) + QC3_STEP_UV /\ uv(bus) \in Nat /\ QC3_STEP_UV \in Nat
    BY <1>3, SMT DEF uv, QC3_STEP_UV
  <1> QED
    BY <1>3, <1>4

\* The raise begins with a budget of pulses and the count so far.
LEMMA RaiseBegins ==
    ASSUME Inv, NEW j \in JobType, bus' <= j.base + 10 * j.pulse_cnt, RaiseFrom(j)
    PROVE  PcOK' /\ job' \in JobType /\ ClimbOK' /\ Qc3IsNotForced' /\ job'.seen = j.seen
  <1> DEFINE b == pulses_toward_target(job.vbat)
  <1>1. b \in 0 .. MAX_PULSE_CNT
    BY Budget DEF Inv, JobType
  <1>2. pc' = "raise" /\ job' = [j EXCEPT !.left = b]
    BY DEF RaiseFrom
  <1> HIDE DEF b
  <1>3. /\ job' \in JobType /\ job'.base = j.base /\ job'.pulse_cnt = j.pulse_cnt
        /\ job'.seen = j.seen
    BY <1>1, <1>2 DEF JobType
  <1> QED
    BY <1>2, <1>3 DEF PcOK, ClimbOK, Climbing, Qc3IsNotForced

\* The preparation of QC3.5 sends at most eight pulses, and counts those that are on the bus.
LEMMA PrepKeeps == Inv /\ Prep => Inv' /\ Ceiling
  <1> SUFFICES ASSUME Inv, Prep PROVE Inv' /\ Ceiling
    OBVIOUS
  <1>1. pc = "prep" /\ icl' = icl /\ cell' = cell /\ gauge' = gauge /\ calm' = calm /\ Climbing
    BY DEF Prep, Climbing
  <1>2. PICK vin \in Readings :
          LET near == Attemptable(vin)
              more == ~qc35_detect_window(vin) /\ job.left > 0
          IN  \/ ~near /\ RaiseFrom(Saw(vin)) /\ UNCHANGED <<wires, latched, abandoned>>
              \/ /\ near /\ more /\ Pulses(1) /\ pc' = pc
                 /\ job' = [Counted(Saw(vin), 1) EXCEPT !.left = @ - 1]
              \/ near /\ more /\ Failing /\ RaiseFrom(Saw(vin)) /\ UNCHANGED <<wires, latched, abandoned>>
              \/ /\ near /\ ~more /\ UNCHANGED <<wires, latched, abandoned>>
                 /\ \/ TRUE \in wait_vin_window /\ pc' = "auth" /\ job' = Saw(vin)
                    \/ FALSE \in wait_vin_window /\ RaiseFrom(Saw(vin))
    BY DEF Prep
  <1>3. vin \in Nat
    BY Reading DEF Inv
  <1>4. /\ Saw(vin) \in JobType /\ Saw(vin) = [job EXCEPT !.seen = Saw(vin).seen]
        /\ Counted(Saw(vin), 1) \in JobType
        /\ Counted(Saw(vin), 1) = [Saw(vin) EXCEPT !.pulse_cnt = Counted(Saw(vin), 1).pulse_cnt]
        /\ latched => Counted(Saw(vin), 1).pulse_cnt = Saw(vin).pulse_cnt
        /\ ~latched => Counted(Saw(vin), 1).pulse_cnt = Lesser(Saw(vin).pulse_cnt + 1, MAX_PULSE_CNT)
    BY <1>3, SawCounted DEF Inv
  <1>5. /\ Saw(vin).base = job.base /\ Saw(vin).pulse_cnt = job.pulse_cnt /\ Saw(vin).left = job.left
        /\ job.pulse_cnt \in Nat /\ job.left \in Nat /\ job.base \in Int
    BY <1>4 DEF Inv, JobType, MAX_PULSE_CNT, Buses
  <1>6. /\ bus <= job.base + 10 * job.pulse_cnt
        /\ job.pulse_cnt + job.left <= QC35_PREP_MAX_INC
    BY <1>1 DEF Inv, ClimbOK
  <1>7. ASSUME UNCHANGED <<wires, latched, abandoned>>
        PROVE  /\ WiresOK' /\ ForcedIsLatched' /\ FlagsOK' /\ Ceiling
               /\ bus' = bus /\ forced' = forced
    BY <1>1, <1>7, WiresKeep DEF Inv, FlagsOK
  <1>8. CASE RaiseFrom(Saw(vin)) /\ UNCHANGED <<wires, latched, abandoned>>
    <2>1. bus' <= Saw(vin).base + 10 * Saw(vin).pulse_cnt
      BY <1>5, <1>6, <1>7, <1>8
    <2> QED
      BY <1>4, <1>5, <1>7, <1>8, <2>1, RaiseBegins DEF Inv
  <1>9. CASE /\ Attemptable(vin) /\ UNCHANGED <<wires, latched, abandoned>>
             /\ pc' = "auth" /\ job' = Saw(vin)
    <2>2. ClimbOK'
      <3>1. job'.pulse_cnt <= QC35_PREP_MAX_INC /\ bus' <= job'.base + 10 * job'.pulse_cnt
        BY <1>5, <1>6, <1>7, <1>9 DEF QC35_PREP_MAX_INC
      <3> QED
        BY <1>9, <3>1 DEF ClimbOK, Climbing
    <2> QED
      BY <1>4, <1>7, <1>9, <2>2 DEF Inv, PcOK, Qc3IsNotForced
  <1>10. CASE /\ Attemptable(vin) /\ job.left > 0 /\ Pulses(1) /\ pc' = pc
              /\ job' = [Counted(Saw(vin), 1) EXCEPT !.left = @ - 1]
    <2> DEFINE c == Counted(Saw(vin), 1).pulse_cnt
    <2>1. job.pulse_cnt + 1 <= MAX_PULSE_CNT
      BY <1>5, <1>6, <1>10 DEF QC35_PREP_MAX_INC, MAX_PULSE_CNT
    <2>2. c \in 0 .. MAX_PULSE_CNT /\ c <= job.pulse_cnt + 1
      BY <1>4, <1>5 DEF JobType, Lesser
    <2>3. /\ job' \in JobType /\ job'.seen = Saw(vin).seen /\ job'.base = job.base
          /\ job'.pulse_cnt = c /\ job'.left = job.left - 1
      <3> DEFINE k == Counted(Saw(vin), 1)
      <3>1. k \in JobType /\ k.left = job.left /\ k.seen = Saw(vin).seen /\ k.base = job.base
        BY <1>4, <1>5 DEF JobType
      <3>2. job' = [k EXCEPT !.left = k.left - 1]
        BY <1>10
      <3> HIDE DEF k
      <3>3. /\ job' \in JobType /\ job'.seen = k.seen /\ job'.base = k.base
            /\ job'.pulse_cnt = k.pulse_cnt /\ job'.left = k.left - 1
        BY <1>5, <1>10, <3>1, <3>2 DEF JobType, MAX_PULSE_CNT
      <3> QED
        BY <3>1, <3>3 DEF k
    <2>4. ASSUME Saw(vin).seen, ~forced
          PROVE  uv(bus + 10 * 1) <= trim_target_uv(job.vbat) + QC3_STEP_UV
      <3>1. /\ trim_target_uv(job.vbat) \in Nat
            /\ vin <= trim_target_uv(job.vbat)
        <4>1. /\ trim_target_uv(job.vbat) \in Nat
              /\ trim_target_uv(job.vbat) >= WINDOW_END_UV + QC3_STEP_UV
          BY Band DEF Inv, JobType
        <4> QED
          BY <1>3, <1>10, <4>1, SMT DEF Attemptable, WINDOW_END_UV, QC3_STEP_UV
      <3> QED
        BY <1>3, <2>4, <3>1, LookedAt
    <2> HIDE DEF c
    <2>5. /\ WiresOK' /\ ForcedIsLatched' /\ Ceiling
          /\ UNCHANGED <<brick, fine, forced, latched, abandoned>>
          /\ bus' <= job.base + 10 * c
      BY <1>1, <1>3, <1>10, <2>1, <2>3, <2>4, PulseStep DEF c
    <2>6. ClimbOK' /\ PcOK' /\ Qc3IsNotForced'
      BY <1>1, <1>5, <1>6, <1>10, <2>2, <2>3, <2>5
         DEF ClimbOK, Climbing, PcOK, Qc3IsNotForced, QC35_PREP_MAX_INC
    <2>7. FlagsOK'
      BY <1>1, <2>5 DEF Inv, FlagsOK
    <2> QED
      BY <2>3, <2>5, <2>6, <2>7 DEF Inv
  <1> QED
    BY <1>2, <1>8, <1>9, <1>10

\* Where an authentication leaves the bus: no further up than its pulses from the level the
\* brick chose.
LEMMA TrainMoves ==
    ASSUME WiresOK, NEW level \in Asked, NEW n \in 0 .. 2,
           bus' = IF latched THEN bus ELSE Moved(level, n)
    PROVE  /\ level \in Buses /\ bus' \in Buses /\ bus' <= level + 10 * n
           /\ latched => bus' = level
           /\ brick # None => bus' >= FiveVolts
  <1> DEFINE s == IF fine THEN FineStep ELSE 10
  <1>1. s \in 1 .. 10 /\ n \in Nat
    OBVIOUS
  <1>2. Moved(level, n) = IF Follows THEN Lesser(level + n * s, Top) ELSE level
    BY DEF Moved
  <1> HIDE DEF s
  <1>3. n * s \in Nat /\ n * s <= 10 * n
    BY <1>1, Product
  <1>4. level \in Nat /\ level <= Top /\ (brick # None => level >= 250)
    BY DEF Asked, WiresOK, Buses, FiveVolts
  <1>5. latched => level = bus
    BY DEF Asked
  <1>6. bus' \in Nat /\ bus' <= Top /\ bus' >= level /\ bus' <= level + 10 * n
    BY <1>1, <1>2, <1>3, <1>4, <1>5, SMT DEF Lesser
  <1> QED
    BY <1>4, <1>5, <1>6 DEF Buses, FiveVolts

\* The trains of an authentication, whole or cut short, leave the climb under its bound.
LEMMA AuthenticateKeeps == Inv /\ Authenticate => Inv' /\ Ceiling
  <1> SUFFICES ASSUME Inv, Authenticate PROVE Inv' /\ Ceiling
    OBVIOUS
  <1>1. /\ pc = "auth" /\ cell' = cell /\ gauge' = gauge /\ calm' = calm
        /\ brick' = brick /\ forced' = forced /\ latched' = latched /\ abandoned' = abandoned
    BY DEF Authenticate
  <1>2. /\ job \in JobType /\ job.pulse_cnt \in Nat /\ job.base \in Int
        /\ bus <= job.base + 10 * job.pulse_cnt
        /\ job.pulse_cnt <= QC35_PREP_MAX_INC
    BY <1>1 DEF Inv, JobType, MAX_PULSE_CNT, ClimbOK, Climbing
  <1>3. PICK level \in Asked, n \in 0 .. 2 :
          /\ bus' = IF latched THEN bus ELSE Moved(level, n)
          /\ RaiseFrom(Counted([job EXCEPT !.base = @ + (level - bus)], n))
          /\ \/ fine' = fine /\ icl' = icl
             \/ /\ \E limit \in {qc35_limit(vin) : vin \in ReadingsAt(level)} \ {0} :
                      ensure_icl_at_least(limit)
                /\ fine' = (fine \/ (brick = "qc35" /\ Follows /\ ~latched))
    BY DEF Authenticate
  <1>4. /\ level \in Buses /\ bus' \in Buses /\ bus' <= level + 10 * n
        /\ latched => bus' = level
        /\ brick # None => bus' >= FiveVolts
    BY <1>3, TrainMoves DEF Inv
  <1>5. icl' \in {Least, 60} /\ fine' \in BOOLEAN
    <2>1. ASSUME NEW vin, qc35_limit(vin) # 0, ensure_icl_at_least(qc35_limit(vin))
          PROVE  icl' \in {Least, 60}
      <3>1. qc35_limit(vin) \in {0, 40, 60}
        BY DEF qc35_limit
      <3> QED
        BY <2>1, <3>1 DEF ensure_icl_at_least, Greater, Least, Inv, FlagsOK
    <2>2. icl' \in {Least, 60}
      BY <1>3, <2>1 DEF Inv, FlagsOK
    <2> QED
      BY <1>3, <2>2 DEF Inv, WiresOK
  <1> DEFINE b == job.base + (level - bus)
             j == [job EXCEPT !.base = b]
             k == Counted(j, n)
  <1>6. b \in Int /\ level <= b + 10 * job.pulse_cnt
    BY <1>2, <1>4 DEF Inv, WiresOK, Buses
  <1>7. j \in JobType /\ j.base = b /\ j.pulse_cnt = job.pulse_cnt /\ RaiseFrom(k)
    <2> HIDE DEF b
    <2>1. RaiseFrom(Counted([job EXCEPT !.base = b], n))
      BY <1>2, <1>3 DEF b, JobType
    <2> QED
      BY <1>2, <1>6, <2>1, Rebased
  <1>8. /\ k \in JobType /\ k.base = b
        /\ bus' <= b + 10 * k.pulse_cnt
    <2> HIDE DEF b, j
    <2> DEFINE c == Lesser(j.pulse_cnt + n, MAX_PULSE_CNT)
    <2>1. c \in 0 .. MAX_PULSE_CNT /\ c = job.pulse_cnt + n
      BY <1>2, <1>7 DEF Lesser, MAX_PULSE_CNT, QC35_PREP_MAX_INC
    <2>2. k = IF latched THEN j ELSE [j EXCEPT !.pulse_cnt = c]
      BY <1>7 DEF Counted, JobType
    <2> HIDE DEF c, k
    <2>3. /\ k \in JobType /\ k.base = b
          /\ latched => k.pulse_cnt = job.pulse_cnt
          /\ ~latched => k.pulse_cnt = job.pulse_cnt + n
      BY <1>7, <2>1, <2>2 DEF JobType
    <2>4. bus' \in Nat /\ level \in Nat
      BY <1>4 DEF Buses
    <2> QED
      BY <1>2, <1>4, <1>6, <2>3, <2>4
  <1> HIDE DEF b, j, k
  <1>9. PcOK' /\ job' \in JobType /\ ClimbOK' /\ Qc3IsNotForced'
    BY <1>7, <1>8, RaiseBegins
  <1>10. WiresOK' /\ FlagsOK' /\ ForcedIsLatched'
    BY <1>1, <1>4, <1>5 DEF Inv, WiresOK, FlagsOK, ForcedIsLatched
  <1>11. Ceiling
    BY <1>1 DEF Ceiling
  <1> QED
    BY <1>9, <1>10, <1>11 DEF Inv

\* A pulse of a loop that looks at the bus before each, below a level under the top of the band.
LEMMA LoopPulse ==
    ASSUME Inv, Climbing, pc # "prep", pc # "auth", NEW vin \in Readings, Pulses(1),
           job.left > 0, job.pulse_cnt < MAX_PULSE_CNT, vin < target_vbus_uv(job.vbat),
           job' = [Counted(Saw(vin), 1) EXCEPT !.left = @ - 1],
           pc' = pc, icl' = icl, cell' = cell, gauge' = gauge, calm' = calm,
           pc \notin {"setup", "detect"}
    PROVE  Inv' /\ Ceiling
  <1>3. vin \in Nat
    BY Reading DEF Inv
  <1> DEFINE k == Counted(Saw(vin), 1)
             c == k.pulse_cnt
  <1>4. /\ Saw(vin) \in JobType /\ Saw(vin) = [job EXCEPT !.seen = Saw(vin).seen]
        /\ k \in JobType
        /\ k = [Saw(vin) EXCEPT !.pulse_cnt = c]
    BY <1>3, SawCounted DEF Inv
  <1>5. /\ k.base = job.base /\ k.left = job.left /\ k.seen = Saw(vin).seen
        /\ job.pulse_cnt \in Nat /\ job.left \in 0 .. MAX_PULSE_CNT /\ job.base \in Int
    <2>1. Saw(vin).base = job.base /\ Saw(vin).left = job.left
      BY <1>4 DEF Inv, JobType
    <2>2. k.base = Saw(vin).base /\ k.left = Saw(vin).left /\ k.seen = Saw(vin).seen
      BY <1>4 DEF JobType
    <2> QED
      BY <2>1, <2>2 DEF Inv, JobType, MAX_PULSE_CNT, Buses
  <1>6. job' = [k EXCEPT !.left = k.left - 1]
    OBVIOUS
  <1> HIDE DEF k
  <1>7. /\ job' \in JobType /\ job'.seen = Saw(vin).seen /\ job'.base = job.base
        /\ job'.pulse_cnt = c
    BY <1>4, <1>5, <1>6 DEF JobType, MAX_PULSE_CNT
  <1>8. job.pulse_cnt + 1 <= MAX_PULSE_CNT
    BY <1>5 DEF MAX_PULSE_CNT
  <1>9. ASSUME Saw(vin).seen, ~forced
        PROVE  uv(bus + 10 * 1) <= trim_target_uv(job.vbat) + QC3_STEP_UV
    <2>1. /\ trim_target_uv(job.vbat) \in Nat /\ target_vbus_uv(job.vbat) \in Nat
          /\ target_vbus_uv(job.vbat) <= trim_target_uv(job.vbat)
      BY Band DEF Inv, JobType
    <2>2. vin <= trim_target_uv(job.vbat)
      BY <1>3, <2>1
    <2> QED
      BY <1>3, <1>9, <2>1, <2>2, LookedAt
  <1>10. /\ WiresOK' /\ ForcedIsLatched' /\ Ceiling
         /\ UNCHANGED <<brick, fine, forced, latched, abandoned>>
         /\ bus' <= job.base + 10 * c
    BY <1>3, <1>7, <1>8, <1>9, PulseStep DEF k
  <1>11. ClimbOK' /\ PcOK' /\ Qc3IsNotForced'
    BY <1>7, <1>10 DEF Inv, ClimbOK, Climbing, PcOK, Qc3IsNotForced
  <1>12. FlagsOK'
    BY <1>10 DEF Inv, FlagsOK
  <1> QED
    BY <1>7, <1>10, <1>11, <1>12 DEF Inv

\* The negotiation ends, with the bus as it is or given back.
LEMMA EndKeeps ==
    ASSUME Inv, Over, UNCHANGED <<wires, latched, abandoned>> \/ safe_force_5v,
           icl' \in {Least, 60}, cell' = cell, gauge' = gauge, calm' = calm
    PROVE  Inv' /\ Ceiling
  <1>1. WiresOK' /\ ForcedIsLatched' /\ Ceiling /\ latched' \in BOOLEAN /\ abandoned' \in BOOLEAN
    <2>1. CASE UNCHANGED <<wires, latched, abandoned>>
      BY <2>1, WiresKeep DEF Inv, FlagsOK
    <2>2. CASE safe_force_5v
      BY <2>2, FiveVoltsKeep, NotRaised DEF Inv, FlagsOK
    <2> QED
      BY <2>1, <2>2
  <1>2. FlagsOK'
    BY <1>1 DEF Inv, FlagsOK
  <1> QED
    BY <1>1, <1>2, OverKeeps DEF Inv

\* A pulse of the raise is counted, and moves the bus by one pulse.
LEMMA RaiseKeeps == Inv /\ Raise => Inv' /\ Ceiling
  <1> SUFFICES ASSUME Inv, Raise PROVE Inv' /\ Ceiling
    OBVIOUS
  <1>1. pc = "raise" /\ icl' = icl /\ cell' = cell /\ gauge' = gauge /\ calm' = calm /\ Climbing
    BY DEF Raise, Climbing
  <1>2. icl' \in {Least, 60}
    BY <1>1 DEF Inv, FlagsOK
  <1>3. PICK vin \in Readings :
          \/ Over /\ UNCHANGED <<wires, latched, abandoned>>
          \/ /\ job.left > 0 /\ job.pulse_cnt < MAX_PULSE_CNT /\ vin < target_vbus_uv(job.vbat)
             /\ Pulses(1) /\ pc' = pc /\ job' = [Counted(Saw(vin), 1) EXCEPT !.left = @ - 1]
          \/ safe_force_5v /\ Over
    BY DEF Raise
  <1> QED
    BY <1>1, <1>2, <1>3, LoopPulse, EndKeeps

\* The same for the pulses after nine volts that did not hold.
LEMMA BlindWalkKeeps == Inv /\ BlindWalk => Inv' /\ Ceiling
  <1> SUFFICES ASSUME Inv, BlindWalk PROVE Inv' /\ Ceiling
    OBVIOUS
  <1>1. pc = "walk" /\ cell' = cell /\ gauge' = gauge /\ calm' = calm /\ Climbing
    BY DEF BlindWalk, Climbing
  <1>2. PICK vin \in Readings :
          \/ /\ job.left > 0 /\ job.pulse_cnt < MAX_PULSE_CNT /\ vin < target_vbus_uv(job.vbat)
             /\ Pulses(1) /\ pc' = pc /\ icl' = icl
             /\ job' = [Counted(Saw(vin), 1) EXCEPT !.left = @ - 1]
          \/ Over /\ safe_force_5v /\ ensure_icl_at_least(40)
          \/ Over /\ ensure_icl_at_least(30) /\ UNCHANGED <<wires, latched, abandoned>>
    BY DEF BlindWalk
  <1>3. ASSUME NEW limit \in {30, 40}, ensure_icl_at_least(limit)
        PROVE  icl' \in {Least, 60}
    BY <1>3, IclKeeps DEF Inv, FlagsOK
  <1> QED
    BY <1>1, <1>2, <1>3, LoopPulse, EndKeeps

-----------------------------------------------------------------------------
(* Nine volts.                                                             *)

\* FORCE_9V and its latch come together.
LEMMA ForceKeeps == Inv /\ Force9v => Inv' /\ Ceiling
  <1> SUFFICES ASSUME Inv, Force9v PROVE Inv' /\ Ceiling
    OBVIOUS
  <1>1. pc = "force" /\ cell' = cell /\ gauge' = gauge /\ calm' = calm
    BY DEF Force9v
  <1>2. CASE safe_force_5v /\ Over /\ icl' = icl
    BY <1>1, <1>2, EndKeeps DEF Inv, FlagsOK
  <1>3. CASE /\ forced' = (brick # None) /\ Answers9 /\ latched' = TRUE /\ abandoned' = FALSE
             /\ ensure_icl_at_least(30)
             /\ \/ Over
                \/ pc' = "rise" /\ job' = [NoJob EXCEPT !.vbat = job.vbat, !.wait.deadline = Settle]
    <2>1. /\ bus' = IF brick = "qc2" THEN NineVolts ELSE bus
          /\ brick' = brick /\ fine' = fine
      BY <1>3 DEF Answers9
    <2>2. /\ bus' \in Buses /\ brick # None => bus' >= FiveVolts
          /\ forced' \in BOOLEAN
      BY <1>3, <2>1, SMT DEF Inv, WiresOK, Buses, NineVolts, FiveVolts
    <2>3. WiresOK'
      <3>1. brick # None => bus' >= FiveVolts
        BY <2>1 DEF Inv, WiresOK, NineVolts, FiveVolts
      <3>2. bus' \in Buses
        BY <2>1 DEF Inv, WiresOK, Buses, NineVolts
      <3>3. forced' \in BOOLEAN
        BY <1>3
      <3> QED
        BY <2>1, <3>1, <3>2, <3>3 DEF Inv, WiresOK
    <2>4. Ceiling
      <3>1. CASE brick = None
        <4>1. bus' = bus /\ bus \in Buses
          BY <2>1, <3>1 DEF None, Inv, WiresOK
        <4>2. bus' <= bus
          BY <4>1 DEF Buses
        <4> QED
          BY <4>1, <4>2, NotRaised DEF Inv
      <3>2. CASE brick # None
        BY <1>3, <3>2 DEF Ceiling
      <3> QED
        BY <3>1, <3>2
    <2>5. FlagsOK' /\ ForcedIsLatched'
      <3>1. icl' \in {Least, 60}
        BY <1>3, IclKeeps DEF Inv, FlagsOK
      <3> QED
        BY <1>1, <1>3, <3>1 DEF Inv, FlagsOK, ForcedIsLatched
    <2>6. PcOK' /\ job' \in JobType /\ ClimbOK' /\ Qc3IsNotForced'
      <3>1. CASE Over
        BY <3>1, OverKeeps DEF Inv
      <3>2. CASE pc' = "rise" /\ job' = [NoJob EXCEPT !.vbat = job.vbat, !.wait.deadline = Settle]
        <4>1. job.vbat \in Vbats
          BY DEF Inv, JobType
        <4>2. NoJob.wait \in WaitType /\ [NoJob.wait EXCEPT !.deadline = Settle] \in WaitType
          BY NoJobIsJob DEF JobType, WaitType
        <4> DEFINE n == NoJob
                   m == [n EXCEPT !.vbat = job.vbat]
                   w == [n.wait EXCEPT !.deadline = Settle]
        <4>a. n \in JobType /\ w \in WaitType
          BY <4>2, NoJobIsJob
        <4>b. job' = [n EXCEPT !.vbat = job.vbat, !.wait.deadline = Settle]
          BY <3>2
        <4> HIDE DEF n
        <4>c. m \in JobType /\ m.wait = n.wait
          BY <4>1, <4>a, Retold
        <4>d. job' = [m EXCEPT !.wait = w]
          BY <4>a, <4>b DEF JobType
        <4> HIDE DEF m, w
        <4>3. job' \in JobType
          BY <4>a, <4>c, <4>d DEF JobType
        <4> QED
          BY <3>2, <4>3 DEF PcOK, ClimbOK, Climbing, Qc3IsNotForced
      <3> QED
        BY <1>3, <3>1, <3>2
    <2> QED
      BY <2>3, <2>4, <2>5, <2>6 DEF Inv
  <1> QED
    BY <1>2, <1>3 DEF Force9v

\* The wait for nine volts only reads the bus.
LEMMA RiseKeeps == Inv /\ Rise => Inv' /\ Ceiling
  <1> SUFFICES ASSUME Inv, Rise PROVE Inv' /\ Ceiling
    OBVIOUS
  <1>1. pc = "rise" /\ UNCHANGED <<wires, icl, cell, gauge, latched, calm, abandoned>>
    BY DEF Rise
  <1>2. PICK vin \in Readings :
          \/ pc' = "hold" /\ job' = [job EXCEPT !.wait = NoWait]
          \/ /\ pc' = pc /\ job' = [job EXCEPT !.wait = Polled(job.wait, vin)]
             /\ Polled(job.wait, vin).confirm < FORCE9V_CONFIRM_N
             /\ job.wait.waited < HardCap
    <2>1. PICK vin \in Readings :
          LET w == Polled(job.wait, vin)
              stop == \/ w.confirm >= FORCE9V_CONFIRM_N
                      \/ vin < SWITCHING_MIN_VIN_UV /\ job.wait.waited >= job.wait.deadline
                      \/ job.wait.waited >= HardCap
          IN  IF stop THEN pc' = "hold" /\ job' = [job EXCEPT !.wait = NoWait]
              ELSE pc' = pc /\ job' = [job EXCEPT !.wait = w]
      BY DEF Rise
    <2> DEFINE w == Polled(job.wait, vin)
    <2>2. w.confirm \in Nat /\ job.wait.waited \in Nat
      BY DEF Inv, JobType, WaitType, Polled, FORCE9V_CONFIRM_N
    <2>3. /\ ~(w.confirm >= FORCE9V_CONFIRM_N) => w.confirm < FORCE9V_CONFIRM_N
          /\ ~(job.wait.waited >= HardCap) => job.wait.waited < HardCap
      BY <2>2 DEF FORCE9V_CONFIRM_N
    <2> QED
      BY <2>1, <2>3
  <1>3. /\ WiresOK' /\ ForcedIsLatched' /\ Ceiling /\ FlagsOK'
    BY <1>1, WiresKeep DEF Inv, FlagsOK
  <1>4. job' \in JobType /\ pc' \in {"rise", "hold"}
    <2>1. job \in JobType /\ job.wait \in WaitType
      BY DEF Inv, JobType
    <2>2. CASE pc' = "hold" /\ job' = [job EXCEPT !.wait = NoWait]
      <3>1. NoWait \in WaitType
        BY DEF NoWait, WaitType, FORCE9V_CONFIRM_N
      <3> QED
        BY <2>1, <2>2, <3>1 DEF JobType
    <2>3. CASE /\ pc' = pc /\ job' = [job EXCEPT !.wait = Polled(job.wait, vin)]
               /\ Polled(job.wait, vin).confirm < FORCE9V_CONFIRM_N
               /\ job.wait.waited < HardCap
      <3> DEFINE low == vin < SWITCHING_MIN_VIN_UV
                 moved == /\ low /\ job.wait.waited < job.wait.deadline /\ ~job.wait.extended
                          /\ vin >= FORCE9V_RISE_UV
                 w == Polled(job.wait, vin)
      <3>1. /\ low \in BOOLEAN /\ moved \in BOOLEAN /\ job.wait.extended \in BOOLEAN
            /\ (job.wait.extended \/ moved) \in BOOLEAN
        BY <2>1 DEF WaitType
      <3>2. /\ w.waited = job.wait.waited + 1
            /\ w.deadline = IF moved THEN force9v_extended_deadline(job.wait.deadline)
                            ELSE job.wait.deadline
            /\ w.extended = (job.wait.extended \/ moved)
            /\ w.confirm = IF low THEN 0 ELSE job.wait.confirm + 1
            /\ w = [waited |-> w.waited, deadline |-> w.deadline, extended |-> w.extended,
                    confirm |-> w.confirm]
        BY DEF Polled
      <3>3. w.waited \in 0 .. HardCap
        BY <2>1, <2>3, <3>2 DEF WaitType
      <3>4. w.deadline \in Nat
        <4>1. force9v_extended_deadline(job.wait.deadline) \in Nat
          BY <2>1 DEF WaitType, force9v_extended_deadline, Lesser
        <4> QED
          BY <2>1, <3>2, <4>1 DEF WaitType
      <3>5. w.confirm \in 0 .. FORCE9V_CONFIRM_N - 1
        <4>1. w.confirm \in Nat
          BY <2>1, <3>2 DEF WaitType, FORCE9V_CONFIRM_N
        <4> QED
          BY <2>3, <4>1 DEF FORCE9V_CONFIRM_N
      <3>6. w.extended \in BOOLEAN
        BY <3>1, <3>2
      <3> HIDE DEF w
      <3>7. w \in WaitType
        BY <3>2, <3>3, <3>4, <3>5, <3>6 DEF WaitType
      <3>8. job' = [job EXCEPT !.wait = w]
        BY <2>3 DEF w
      <3> QED
        BY <1>1, <2>1, <2>3, <3>7, <3>8 DEF JobType
    <2> QED
      BY <1>2, <2>2, <2>3
  <1> QED
    BY <1>3, <1>4 DEF Inv, PcOK, ClimbOK, Climbing, Qc3IsNotForced

\* A level that does not hold goes back to five volts, where the pulses begin.
LEMMA HoldKeeps == Inv /\ Hold => Inv' /\ Ceiling
  <1> SUFFICES ASSUME Inv, Hold PROVE Inv' /\ Ceiling
    OBVIOUS
  <1>1. pc = "hold" /\ icl' = icl /\ cell' = cell /\ gauge' = gauge /\ calm' = calm
    BY DEF Hold
  <1>2. CASE Over /\ UNCHANGED <<wires, latched, abandoned>>
    BY <1>1, <1>2, EndKeeps DEF Inv, FlagsOK
  <1>3. CASE /\ safe_force_5v /\ pc' = "walk"
             /\ job' = [job EXCEPT !.left = MAX_PULSE_CNT, !.base = bus']
    <2>1. /\ WiresOK' /\ latched' \in BOOLEAN /\ abandoned' \in BOOLEAN /\ ForcedIsLatched'
          /\ bus' \in Buses /\ bus' <= bus
      BY <1>3, FiveVoltsKeep DEF Inv, FlagsOK
    <2>2. /\ job' \in JobType /\ job'.base = bus'
      <3>1. ASSUME NEW j \in JobType, NEW b \in Buses
            PROVE  LET k == [j EXCEPT !.left = MAX_PULSE_CNT, !.base = b] IN
                   k \in JobType /\ k.base = b
        <4> DEFINE m == [j EXCEPT !.left = MAX_PULSE_CNT]
        <4>1. MAX_PULSE_CNT \in 0 .. MAX_PULSE_CNT
          BY DEF MAX_PULSE_CNT
        <4>2. m \in JobType /\ b \in Int
          BY <4>1 DEF JobType, Buses
        <4>3. [j EXCEPT !.left = MAX_PULSE_CNT, !.base = b] = [m EXCEPT !.base = b]
          BY DEF JobType
        <4> HIDE DEF m
        <4> QED
          BY <4>2, <4>3 DEF JobType
      <3> QED
        BY <1>3, <2>1, <3>1 DEF Inv
    <2>3. bus' <= job'.base + 10 * job'.pulse_cnt
      BY <2>1, <2>2 DEF JobType, Buses, MAX_PULSE_CNT
    <2>4. PcOK' /\ ClimbOK' /\ Qc3IsNotForced' /\ FlagsOK'
      BY <1>1, <1>3, <2>1, <2>3
         DEF Inv, PcOK, ClimbOK, Climbing, Qc3IsNotForced, FlagsOK
    <2>5. Ceiling
      BY <2>1, NotRaised DEF Inv
    <2> QED
      BY <2>1, <2>2, <2>4, <2>5 DEF Inv
  <1> QED
    BY <1>2, <1>3 DEF Hold

-----------------------------------------------------------------------------
(* The walk and the landing.                                               *)

\* A walk between two negotiations.
LEMMA OffBusKeeps ==
    ASSUME Inv, OffBus, cell' = cell, gauge' = gauge, calm' = calm, icl' \in {Least, 60},
           \/ pc' = "idle" /\ job' = NoJob
           \/ pc' = "landed" /\ job' \in JobType,
           NEW vbat \in Vbats, gauge => vbat = cell,
           NEW vin \in Readings, NEW dead \in BOOLEAN,
           Nudge(vin, vbat, dead) \/ UNCHANGED <<wires, latched, abandoned>>
    PROVE  Inv' /\ Ceiling
  <1>1. WiresOK' /\ UNCHANGED <<forced, latched, abandoned>> /\ Ceiling
    <2>1. CASE Nudge(vin, vbat, dead)
      <3>1. /\ WiresOK' /\ UNCHANGED <<brick, fine, forced, latched, abandoned>>
            /\ bus' > bus => /\ uv(bus') <= trim_target_uv(vbat) + QC3_STEP_UV
                            /\ uv(bus') <= PUMP_VIN_TARGET_CEIL_UV + QC3_STEP_UV
        BY <2>1, NudgeKeeps DEF Inv
      <3> QED
        BY <3>1 DEF Ceiling
    <2>2. CASE UNCHANGED <<wires, latched, abandoned>>
      BY <2>2, WiresKeep DEF Inv
    <2> QED
      BY <2>1, <2>2
  <1>2. ForcedIsLatched' /\ FlagsOK'
    BY <1>1 DEF Inv, ForcedIsLatched, FlagsOK
  <1>3. PcOK' /\ job' \in JobType /\ ClimbOK' /\ Qc3IsNotForced'
    BY NoJobIsJob DEF PcOK, ClimbOK, Climbing, Qc3IsNotForced
  <1> QED
    BY <1>1, <1>2, <1>3 DEF Inv

\* What the landing does to the wires and to the limit.
LEMMA LandingDoes ==
    ASSUME icl \in {Least, 60}, NEW vin, NEW vbat, Landing(vin, vbat)
    PROVE  /\ Nudge(vin, vbat, FALSE) \/ UNCHANGED <<wires, latched, abandoned>>
           /\ icl' \in {Least, 60}
  <1>1. charge_mode(vin, vbat) \in {"Switching", "Bypass", NoMode}
    BY DEF charge_mode
  <1>2. CASE charge_mode(vin, vbat) = "Switching"
    BY <1>2, IclKeeps DEF Landing, NoMode
  <1>3. CASE charge_mode(vin, vbat) = "Bypass"
    BY <1>3, IclKeeps DEF Landing, NoMode
  <1>4. CASE charge_mode(vin, vbat) = NoMode
    BY <1>4 DEF Landing, NoMode
  <1> QED
    BY <1>1, <1>2, <1>3, <1>4

\* The cell a landing goes by: the anchor, or where the job has it.
LEMMA LandsBy ==
    ASSUME Inv, Told, pc # "idle",
           NEW vbat \in Anchors \cup (IF Failing /\ ~gauge THEN {job.vbat} ELSE {}) \cup {job.vbat}
    PROVE  vbat \in Vbats /\ (gauge => vbat = cell)
  <1>1. job.vbat \in Vbats /\ (gauge => job.vbat = cell)
    BY DEF Inv, JobType, Told
  <1>2. vbat \in Anchors \/ vbat = job.vbat
    OBVIOUS
  <1> QED
    BY <1>1, <1>2, Anchor DEF Inv, FlagsOK

\* The landing and the correction of a later tick keep what is on the wires well-formed.
LEMMA LandKeeps == Inv /\ Told /\ (Land \/ Landed \/ WalkWindow) => Inv' /\ Ceiling
  <1> SUFFICES ASSUME Inv, Told, Land \/ Landed \/ WalkWindow PROVE Inv' /\ Ceiling
    OBVIOUS
  <1>1. OffBus /\ cell' = cell /\ gauge' = gauge /\ calm' = calm
    BY DEF Land, Landed, WalkWindow, OffBus
  <1>2. icl \in {Least, 60}
    BY DEF Inv, FlagsOK
  <1>3. ASSUME NEW vin \in Readings, NEW vbat \in Vbats, gauge => vbat = cell,
               Landing(vin, vbat), pc' = "idle", job' = NoJob
        PROVE  Inv' /\ Ceiling
    <2>1. FALSE \in BOOLEAN
      OBVIOUS
    <2> QED
      BY <1>1, <1>2, <1>3, <2>1, LandingDoes, OffBusKeeps
  <1>4. ASSUME NEW vin \in Readings, NEW vbat \in Vbats, gauge => vbat = cell,
               NEW dead \in BOOLEAN, Nudge(vin, vbat, dead), icl' = icl,
               \/ pc' = "idle" /\ job' = NoJob
               \/ pc' = "landed" /\ job' \in JobType
        PROVE  Inv' /\ Ceiling
    BY <1>1, <1>2, <1>4, OffBusKeeps
  <1>5. CASE Land
    <2>1. PICK vin \in Readings, vbat \in Anchors \cup (IF Failing /\ ~gauge THEN {job.vbat} ELSE {}) :
            \/ /\ Nudge(vin, vbat, FALSE) /\ pc' = "landed" /\ job' = [job EXCEPT !.vbat = vbat]
               /\ icl' = icl
            \/ Landing(vin, vbat) /\ pc' = "idle" /\ job' = NoJob
      BY <1>5 DEF Land
    <2>2. vbat \in Vbats /\ (gauge => vbat = cell)
      <3>1. pc # "idle"
        BY <1>5 DEF Land
      <3> QED
        BY <2>1, <3>1, LandsBy
    <2>3. job' = [job EXCEPT !.vbat = vbat] => job' \in JobType
      BY <2>2 DEF Inv, JobType
    <2>4. FALSE \in BOOLEAN
      OBVIOUS
    <2> QED
      BY <1>3, <1>4, <2>1, <2>2, <2>3, <2>4
  <1>6. CASE Landed
    <2>1. PICK vin \in Readings : Landing(vin, job.vbat) /\ pc' = "idle" /\ job' = NoJob
      BY <1>6 DEF Landed
    <2>2. job.vbat \in Vbats /\ (gauge => job.vbat = cell)
      <3>1. pc # "idle"
        BY <1>6 DEF Landed
      <3> QED
        BY <3>1, LandsBy
    <2> QED
      BY <1>3, <2>1, <2>2
  <1>7. CASE WalkWindow
    <2>1. PICK vin \in Readings, vbat \in Anchors, dead \in BOOLEAN : Nudge(vin, vbat, dead)
      BY <1>7 DEF WalkWindow
    <2>2. vbat \in Vbats /\ (gauge => vbat = cell)
      BY <2>1, Anchor DEF Inv, FlagsOK
    <2>3. icl' = icl /\ pc' = "idle" /\ job' = NoJob
      BY <1>7 DEF WalkWindow, Inv, PcOK
    <2> QED
      BY <1>4, <2>1, <2>2, <2>3
  <1> QED
    BY <1>5, <1>6, <1>7

\* A step of a negotiation that goes on leaves the cell it was told.
LEMMA StillTold ==
    ASSUME Inv, Told, pc' # "idle" => job'.vbat = job.vbat, cell' = cell, gauge' = gauge, pc # "idle"
    PROVE  Told'
  BY DEF Told

\* The locals after a loop's pulse or a wait name the same cell.
LEMMA SameCell ==
    ASSUME Inv
    PROVE  /\ \A vin \in Nat : /\ Saw(vin).vbat = job.vbat
                                /\ [Counted(Saw(vin), 1) EXCEPT !.left = @ - 1].vbat = job.vbat
           /\ \A j \in JobType : RaiseFrom(j) => job'.vbat = j.vbat
           /\ Over => job'.vbat = job.vbat
  <1>1. ASSUME NEW vin \in Nat
        PROVE  /\ Saw(vin).vbat = job.vbat
               /\ [Counted(Saw(vin), 1) EXCEPT !.left = @ - 1].vbat = job.vbat
    <2> DEFINE j == Saw(vin)
               k == Counted(j, 1)
    <2>1. /\ j \in JobType /\ k \in JobType /\ j = [job EXCEPT !.seen = j.seen]
          /\ k = [j EXCEPT !.pulse_cnt = k.pulse_cnt]
      BY SawCounted DEF Inv
    <2> HIDE DEF j, k
    <2>2. j.vbat = job.vbat /\ k.vbat = j.vbat /\ [k EXCEPT !.left = @ - 1].vbat = k.vbat
      BY <2>1 DEF Inv, JobType
    <2> QED
      BY <2>2 DEF j, k
  <1>2. ASSUME NEW j \in JobType, RaiseFrom(j) PROVE job'.vbat = j.vbat
    BY <1>2 DEF RaiseFrom, JobType
  <1>3. Over => job'.vbat = job.vbat
    BY OverKeeps DEF Inv
  <1> QED
    BY <1>1, <1>2, <1>3

\* Every step of a negotiation keeps the cell that the gauge knew.
LEMMA NegotiateTells == Inv /\ Told /\ Negotiate => Told'
  <1> SUFFICES ASSUME Inv, Told, Negotiate PROVE Told'
    OBVIOUS
  <1>1. \A vin \in Readings : vin \in Nat
    BY Reading DEF Inv
  <1>2. pc # "idle" /\ cell' = cell /\ gauge' = gauge
    BY DEF Negotiate, Setup, Detect, Prep, Authenticate, Raise, Force9v, Rise, Hold, BlindWalk,
         Land, Landed
  <1>3. job \in JobType
    BY DEF Inv
  <1>4. CASE Setup
    <2>1. Over \/ \E pre \in PreReports : job' = [job EXCEPT !.pre = pre]
      BY <1>4 DEF Setup
    <2> QED
      BY <1>2, <1>3, <2>1, SameCell, StillTold DEF JobType
  <1>5. CASE Detect
    <2>1. ASSUME NEW r, NEW post, Take(r, post)
          PROVE  \/ Over
                 \/ job' = [job EXCEPT !.pre = Nothing, !.left = QC35_PREP_MAX_INC]
                 \/ \E q, w : job' = [job EXCEPT !.qc2 = q, !.post = w]
      <3> DEFINE q == "QC2" \in promote_qc_charger(r.result, r.status)
                 w == post.result \cap {"DCP", "QC3"}
                 path == apsd_elevate_path(promote_qc_charger(r.result, r.status), job.pre.continuous)
      <3>1. path \in {"Qc3Pulse", "Force9v", "Reject"}
        BY DEF apsd_elevate_path
      <3>2. \/ Over
            \/ job' = [job EXCEPT !.pre = Nothing, !.left = QC35_PREP_MAX_INC]
            \/ job' = [job EXCEPT !.qc2 = q, !.post = w]
        <4>1. CASE path = "Qc3Pulse"
          BY <2>1, <4>1 DEF Take
        <4>2. CASE path = "Force9v"
          BY <2>1, <4>2 DEF Take
        <4>3. CASE path = "Reject"
          BY <2>1, <4>3 DEF Take
        <4> QED
          BY <3>1, <4>1, <4>2, <4>3
      <3> HIDE DEF q, w, path
      <3> QED
        BY <3>2
    <2>2. \/ Over
          \/ job' = [job EXCEPT !.pre = Nothing, !.left = QC35_PREP_MAX_INC]
          \/ \E q, w : job' = [job EXCEPT !.qc2 = q, !.post = w]
      BY <1>5, <2>1 DEF Detect, ApsdTimeout
    <2> QED
      BY <1>2, <1>3, <2>2, SameCell, StillTold DEF JobType
  <1>6. CASE Prep
    <2>1. PICK vin \in Readings :
            \/ RaiseFrom(Saw(vin)) \/ job' = Saw(vin)
            \/ job' = [Counted(Saw(vin), 1) EXCEPT !.left = @ - 1]
      BY <1>6 DEF Prep
    <2>2. vin \in Nat /\ Saw(vin) \in JobType
      BY <1>1, SawCounted DEF Inv
    <2> QED
      BY <1>2, <2>1, <2>2, SameCell, StillTold
  <1>7. CASE Authenticate
    <2>1. PICK level \in Asked, n \in 0 .. 2 :
            RaiseFrom(Counted([job EXCEPT !.base = @ + (level - bus)], n))
      BY <1>7 DEF Authenticate
    <2> DEFINE k == Counted([job EXCEPT !.base = @ + (level - bus)], n)
    <2>2. k.vbat = job.vbat
      BY <1>3 DEF Counted, JobType
    <2>3. job'.vbat = k.vbat
      <3>1. DOMAIN k = DOMAIN job
        BY <1>3 DEF Counted, JobType
      <3> HIDE DEF k
      <3> QED
        BY <2>1, <3>1 DEF RaiseFrom, JobType, k
    <2> QED
      BY <1>2, <2>2, <2>3, StillTold
  <1>8. CASE Raise
    <2>1. \E vin \in Readings : Over \/ job' = [Counted(Saw(vin), 1) EXCEPT !.left = @ - 1]
      BY <1>8 DEF Raise
    <2> QED
      BY <1>1, <1>2, <2>1, SameCell, StillTold
  <1>9. CASE Force9v
    <2>1. Over \/ job' = [NoJob EXCEPT !.vbat = job.vbat, !.wait.deadline = Settle]
      BY <1>9 DEF Force9v
    <2>2. job' = [NoJob EXCEPT !.vbat = job.vbat, !.wait.deadline = Settle] => job'.vbat = job.vbat
      BY NoJobIsJob DEF JobType
    <2> QED
      BY <1>2, <2>1, <2>2, SameCell, StillTold
  <1>10. CASE Rise
    <2>1. \E w : job' = [job EXCEPT !.wait = w]
      BY <1>10 DEF Rise
    <2> QED
      BY <1>2, <1>3, <2>1, StillTold DEF JobType
  <1>11. CASE Hold
    <2>1. Over \/ job' = [job EXCEPT !.left = MAX_PULSE_CNT, !.base = bus']
      BY <1>11 DEF Hold
    <2> QED
      BY <1>2, <1>3, <2>1, SameCell, StillTold DEF JobType
  <1>12. CASE BlindWalk
    <2>1. \E vin \in Readings : Over \/ job' = [Counted(Saw(vin), 1) EXCEPT !.left = @ - 1]
      BY <1>12 DEF BlindWalk
    <2> QED
      BY <1>1, <1>2, <2>1, SameCell, StillTold
  <1>13. CASE Land
    <2>1. PICK vbat \in Anchors \cup (IF Failing /\ ~gauge THEN {job.vbat} ELSE {}) :
            pc' = "idle" \/ job' = [job EXCEPT !.vbat = vbat]
      BY <1>13 DEF Land
    <2>2. gauge => vbat = cell
      BY <1>2, <2>1, LandsBy
    <2>3. job' = [job EXCEPT !.vbat = vbat] => job'.vbat = vbat
      BY <1>3 DEF JobType
    <2> QED
      BY <1>2, <2>1, <2>2, <2>3 DEF Told
  <1>14. CASE Landed
    BY <1>14 DEF Landed, Told
  <1> QED
    BY <1>4, <1>5, <1>6, <1>7, <1>8, <1>9, <1>10, <1>11, <1>12, <1>13, <1>14 DEF Negotiate

\* And it begins with it.
LEMMA StepTells == Inv /\ Told /\ [Next]_vars => Told'
  <1> SUFFICES ASSUME Inv, Told, [Next]_vars PROVE Told'
    OBVIOUS
  <1>1. CASE UNCHANGED vars
    BY <1>1 DEF vars, Told
  <1>2. CASE Sample \/ Calm \/ WalkWindow
    BY <1>2 DEF Sample, Calm, WalkWindow, Told
  <1>3. CASE Unplug \/ Plug
    <2>1. /\ pc' = pc /\ cell' = cell /\ gauge' = gauge
          /\ job' \in {job, [job EXCEPT !.base = 0], [job EXCEPT !.base = FiveVolts]}
      BY <1>3 DEF Unplug, Plug
    <2>2. job'.vbat = job.vbat
      BY <2>1 DEF Inv, JobType
    <2> QED
      BY <2>1, <2>2 DEF Told
  <1>4. CASE RunNegotiate
    <2>1. /\ cell' = cell /\ gauge' = gauge
          /\ \E vbat \in Anchors \cup (IF Failing /\ ~gauge THEN {UNREAD_VBAT_UV} ELSE {}) :
               job' = [NoJob EXCEPT !.vbat = vbat, !.base = bus] \/ job' = [NoJob EXCEPT !.vbat = vbat]
      BY <1>4 DEF RunNegotiate, LandWith
    <2>2. PICK vbat \in Anchors \cup (IF Failing /\ ~gauge THEN {UNREAD_VBAT_UV} ELSE {}) :
            job'.vbat = vbat
      <3> DEFINE n == NoJob
                 cells == Anchors \cup (IF Failing /\ ~gauge THEN {UNREAD_VBAT_UV} ELSE {})
      <3>1. n \in JobType
        BY NoJobIsJob
      <3>2. \E vbat \in cells :
              job' = [n EXCEPT !.vbat = vbat, !.base = bus] \/ job' = [n EXCEPT !.vbat = vbat]
        BY <2>1
      <3> HIDE DEF n, cells
      <3>3. \E vbat \in cells : job'.vbat = vbat
        BY <3>1, <3>2 DEF JobType
      <3> QED
        BY <3>3 DEF cells
    <2>3. gauge => vbat = cell
      BY <2>2 DEF Anchors
    <2> QED
      BY <2>1, <2>2, <2>3 DEF Told
  <1> QED
    BY <1>1, <1>2, <1>3, <1>4, NegotiateTells DEF Next

-----------------------------------------------------------------------------
(* Init and Next.                                                          *)

\* An unplugged port at rest satisfies the invariant.
LEMMA InitHolds == Init => Inv /\ Told
  <1> SUFFICES ASSUME Init PROVE Inv /\ Told
    OBVIOUS
  <1>1. WiresOK /\ FlagsOK /\ ForcedIsLatched
    <2>1. 0 \in Buses
      BY DEF Buses
    <2>2. WiresOK
      BY <2>1, Zenon DEF Init, WiresOK
    <2>3. FlagsOK /\ ForcedIsLatched
      BY DEF Init, FlagsOK, ForcedIsLatched
    <2> QED
      BY <2>2, <2>3
  <1>2. PcOK /\ job \in JobType /\ ClimbOK /\ Qc3IsNotForced
    BY NoJobIsJob DEF Init, PcOK, ClimbOK, Climbing, Qc3IsNotForced
  <1> QED
    BY <1>1, <1>2 DEF Inv, Init, Told

\* Every step keeps the invariant, and the bus under its ceiling.
LEMMA StepKeeps == Inv /\ Told /\ [Next]_vars => Inv' /\ Told' /\ (Ceiling \/ UNCHANGED vars)
  <1> SUFFICES ASSUME Inv, Told, [Next]_vars PROVE Inv' /\ (Ceiling \/ UNCHANGED vars)
    BY StepTells
  <1>1. CASE UNCHANGED vars
    BY <1>1 DEF vars, wires, Inv, WiresOK, FlagsOK, PcOK, ClimbOK, Climbing,
         ForcedIsLatched, Qc3IsNotForced
  <1>2. CASE Next
    BY <1>2, UnplugKeeps, PlugKeeps, CalmKeeps, RunKeeps, SetupKeeps, DetectKeeps, PrepKeeps,
       AuthenticateKeeps, RaiseKeeps, ForceKeeps, RiseKeeps, HoldKeeps, BlindWalkKeeps, LandKeeps
       DEF Next, Negotiate
  <1> QED
    BY <1>1, <1>2

-----------------------------------------------------------------------------
(* How long a negotiation may take.                                        *)

\* The most steps that are left at p with the locals j: pulses, polls, and the phases to come.
StepsAt(p, j) ==
    CASE p = "idle" -> 0
      [] p = "landed" -> 1
      [] p = "land" -> 2
      [] p \in {"raise", "walk"} -> 3 + j.left
      [] p \in {"auth", "hold"} -> 4 + MAX_PULSE_CNT
      [] p = "prep" -> 5 + MAX_PULSE_CNT + j.left
      [] p = "rise" -> 5 + MAX_PULSE_CNT + (HardCap - j.wait.waited)
      [] p = "force" -> 6 + MAX_PULSE_CNT + HardCap
      [] p = "detect" -> 6 + MAX_PULSE_CNT + HardCap + QC35_PREP_MAX_INC
      [] p = "setup" -> 7 + MAX_PULSE_CNT + HardCap + QC35_PREP_MAX_INC

StepsLeft == StepsAt(pc, job)

\* No negotiation takes more than the pulses, polls and phases there are.
MostSteps == 7 + MAX_PULSE_CNT + HardCap + QC35_PREP_MAX_INC

\* The steps left, place by place.
LEMMA StepsAre ==
    ASSUME NEW j
    PROVE  /\ StepsAt("idle", j) = 0 /\ StepsAt("landed", j) = 1 /\ StepsAt("land", j) = 2
           /\ StepsAt("raise", j) = 3 + j.left /\ StepsAt("walk", j) = 3 + j.left
           /\ StepsAt("auth", j) = 4 + MAX_PULSE_CNT /\ StepsAt("hold", j) = 4 + MAX_PULSE_CNT
           /\ StepsAt("prep", j) = 5 + MAX_PULSE_CNT + j.left
           /\ StepsAt("rise", j) = 5 + MAX_PULSE_CNT + (HardCap - j.wait.waited)
           /\ StepsAt("force", j) = 6 + MAX_PULSE_CNT + HardCap
           /\ StepsAt("detect", j) = 6 + MAX_PULSE_CNT + HardCap + QC35_PREP_MAX_INC
           /\ StepsAt("setup", j) = 7 + MAX_PULSE_CNT + HardCap + QC35_PREP_MAX_INC
  BY DEF StepsAt

\* A negotiation that lands is nearly done.
LEMMA LandingIsNear ==
    ASSUME Inv, pc \notin {"idle", "land", "landed"}, Over
    PROVE  StepsLeft' < StepsLeft
  <1>1. StepsLeft' = 2
    BY StepsAre DEF StepsLeft, Over, LandWith
  <1>2. job.left \in Nat /\ job.wait.waited \in 0 .. HardCap
    BY DEF Inv, JobType, WaitType, MAX_PULSE_CNT
  <1>3. StepsLeft > 2
    BY <1>2, StepsAre DEF StepsLeft, Inv, PcOK, MAX_PULSE_CNT, QC35_PREP_MAX_INC
  <1> QED
    BY <1>1, <1>3

\* So is one that raises, from before the raise.
LEMMA RaisingIsNear ==
    ASSUME Inv, NEW j, DOMAIN j = DOMAIN job, RaiseFrom(j), pc \in {"prep", "auth"}
    PROVE  StepsLeft' < StepsLeft
  <1> DEFINE b == pulses_toward_target(job.vbat)
  <1>1. b \in 0 .. MAX_PULSE_CNT
    BY Budget DEF Inv, JobType
  <1>2. pc' = "raise" /\ job' = [j EXCEPT !.left = b]
    BY DEF RaiseFrom
  <1> HIDE DEF b
  <1>3. job'.left = b
    <2>1. "left" \in DOMAIN j
      BY DEF Inv, JobType
    <2> QED
      BY <1>2, <2>1
  <1>4. StepsLeft' = 3 + b
    BY <1>2, <1>3, StepsAre DEF StepsLeft
  <1>5. job.left \in Nat
    BY DEF Inv, JobType, MAX_PULSE_CNT
  <1>6. StepsLeft \in Nat /\ StepsLeft >= 4 + MAX_PULSE_CNT
    BY <1>5, StepsAre DEF StepsLeft, MAX_PULSE_CNT
  <1> QED
    BY <1>1, <1>4, <1>6 DEF MAX_PULSE_CNT

\* A pulse of a loop is one less.
LEMMA PulseIsSpent ==
    ASSUME Inv, NEW vin \in Nat, job' = [Counted(Saw(vin), 1) EXCEPT !.left = @ - 1], pc' = pc,
           pc \in {"prep", "raise", "walk"}
    PROVE  StepsLeft' < StepsLeft
  <1> DEFINE j == Saw(vin)
             k == Counted(j, 1)
  <1>1. /\ j \in JobType /\ k \in JobType /\ j = [job EXCEPT !.seen = j.seen]
        /\ k = [j EXCEPT !.pulse_cnt = k.pulse_cnt]
    BY SawCounted DEF Inv
  <1>2. job' = [k EXCEPT !.left = @ - 1]
    OBVIOUS
  <1> HIDE DEF j, k
  <1>3. job.left \in Nat /\ k.left = job.left /\ job'.left = job.left - 1
    BY <1>1, <1>2 DEF Inv, JobType, MAX_PULSE_CNT
  <1>4. /\ job.left \in Int /\ job'.left \in Int /\ job'.left < job.left
        /\ MAX_PULSE_CNT \in Int
    BY <1>3 DEF MAX_PULSE_CNT
  <1>5. StepsLeft = StepsAt(pc, job) /\ StepsLeft' = StepsAt(pc, job')
    BY DEF StepsLeft
  <1>6. CASE pc = "prep"
    <2>1. StepsLeft = 5 + MAX_PULSE_CNT + job.left /\ StepsLeft' = 5 + MAX_PULSE_CNT + job'.left
      BY <1>5, <1>6, StepsAre, Zenon
    <2> QED
      BY <1>4, <2>1
  <1>7. CASE pc \in {"raise", "walk"}
    <2>1. StepsLeft = 3 + job.left /\ StepsLeft' = 3 + job'.left
      <3>1. CASE pc = "raise"
        BY <1>5, <3>1, StepsAre, Zenon
      <3>2. CASE pc = "walk"
        BY <1>5, <3>2, StepsAre, Zenon
      <3> QED
        BY <1>7, <3>1, <3>2
    <2> QED
      BY <1>4, <2>1
  <1> QED
    BY <1>6, <1>7

\* Every step of a negotiation brings it nearer to its end.
LEMMA NegotiateIsNearer ==
    ASSUME Inv, Negotiate
    PROVE  StepsLeft' < StepsLeft
  <1>1. \A vin \in Readings : vin \in Nat
    BY Reading DEF Inv
  <1>2. job \in JobType /\ job.left \in Nat /\ job.wait.waited \in 0 .. HardCap
    BY DEF Inv, JobType, WaitType, MAX_PULSE_CNT
  <1>3. \A vin \in Readings : DOMAIN Saw(vin) = DOMAIN job
    BY <1>1, SawCounted DEF Inv, JobType
  <1>4. CASE Setup
    <2>1. pc = "setup" /\ (Over \/ pc' = "detect")
      BY <1>4 DEF Setup
    <2> QED
      BY <2>1, LandingIsNear, StepsAre DEF StepsLeft, MAX_PULSE_CNT, QC35_PREP_MAX_INC
  <1>5. CASE Detect
    <2>1. pc = "detect"
      BY <1>5 DEF Detect
    <2>2. ASSUME NEW r, NEW post, Take(r, post)
          PROVE  \/ Over \/ pc' = "force"
                 \/ pc' = "prep" /\ job' = [job EXCEPT !.pre = Nothing, !.left = QC35_PREP_MAX_INC]
      <3>1. apsd_elevate_path(promote_qc_charger(r.result, r.status), job.pre.continuous)
              \in {"Qc3Pulse", "Force9v", "Reject"}
        BY DEF apsd_elevate_path
      <3> QED
        BY <2>2, <3>1 DEF Take
    <2>3. \/ Over \/ pc' = "force"
          \/ pc' = "prep" /\ job' = [job EXCEPT !.pre = Nothing, !.left = QC35_PREP_MAX_INC]
      BY <1>5, <2>2 DEF Detect, ApsdTimeout
    <2>4. pc' = "prep" /\ job' = [job EXCEPT !.pre = Nothing, !.left = QC35_PREP_MAX_INC]
            => job'.left = QC35_PREP_MAX_INC
      BY <1>2 DEF JobType
    <2> QED
      BY <2>1, <2>3, <2>4, LandingIsNear, StepsAre DEF StepsLeft, MAX_PULSE_CNT, QC35_PREP_MAX_INC
  <1>6. CASE Prep
    <2>1. PICK vin \in Readings :
            \/ RaiseFrom(Saw(vin))
            \/ pc' = pc /\ job' = [Counted(Saw(vin), 1) EXCEPT !.left = @ - 1]
            \/ pc' = "auth"
      BY <1>6 DEF Prep
    <2>2. pc = "prep"
      BY <1>6 DEF Prep
    <2>3. pc' = "auth" => StepsLeft' < StepsLeft
      BY <1>2, <2>2, StepsAre DEF StepsLeft, MAX_PULSE_CNT
    <2> QED
      BY <1>1, <1>3, <2>1, <2>2, <2>3, RaisingIsNear, PulseIsSpent
  <1>7. CASE Authenticate
    <2>1. PICK j : pc = "auth" /\ RaiseFrom(j) /\ DOMAIN j = DOMAIN job
      <3>1. PICK level \in Asked, n \in 0 .. 2 :
              RaiseFrom(Counted([job EXCEPT !.base = @ + (level - bus)], n))
        BY <1>7 DEF Authenticate
      <3>2. DOMAIN Counted([job EXCEPT !.base = @ + (level - bus)], n) = DOMAIN job
        BY <1>2 DEF Counted, JobType
      <3>3. pc = "auth"
        BY <1>7 DEF Authenticate
      <3> QED
        BY <3>1, <3>2, <3>3
    <2> QED
      BY <1>2, <2>1, RaisingIsNear
  <1>8. CASE Raise
    <2>1. pc = "raise" /\ \E vin \in Readings :
            Over \/ (pc' = pc /\ job' = [Counted(Saw(vin), 1) EXCEPT !.left = @ - 1])
      BY <1>8 DEF Raise
    <2> QED
      BY <1>1, <2>1, LandingIsNear, PulseIsSpent
  <1>9. CASE Force9v
    <2>1. pc = "force" /\ (Over \/ (pc' = "rise" /\ job' = [NoJob EXCEPT !.vbat = job.vbat, !.wait.deadline = Settle]))
      BY <1>9 DEF Force9v
    <2>2. NoJob \in JobType /\ NoJob.wait = NoWait
      BY NoJobIsJob DEF NoJob
    <2>3. job' = [NoJob EXCEPT !.vbat = job.vbat, !.wait.deadline = Settle] => job'.wait.waited = 0
      BY <2>2 DEF JobType, WaitType, NoWait
    <2> QED
      BY <2>1, <2>3, LandingIsNear, StepsAre DEF StepsLeft, MAX_PULSE_CNT
  <1>10. CASE Rise
    <2>1. pc = "rise" /\ \E vin \in Readings :
            pc' = "hold" \/ (pc' = pc /\ job' = [job EXCEPT !.wait = Polled(job.wait, vin)])
      BY <1>10 DEF Rise
    <2>2. ASSUME NEW vin, pc' = pc, job' = [job EXCEPT !.wait = Polled(job.wait, vin)]
          PROVE  job'.wait.waited = job.wait.waited + 1
      <3>1. job'.wait = Polled(job.wait, vin)
        BY <1>2, <2>2 DEF JobType
      <3> QED
        BY <3>1 DEF Polled
    <2> QED
      BY <1>2, <2>1, <2>2, StepsAre DEF StepsLeft, MAX_PULSE_CNT
  <1>11. CASE Hold
    <2>1. pc = "hold" /\ (Over \/ (pc' = "walk" /\ job' = [job EXCEPT !.left = MAX_PULSE_CNT, !.base = bus']))
      BY <1>11 DEF Hold
    <2>2. job' = [job EXCEPT !.left = MAX_PULSE_CNT, !.base = bus'] => job'.left = MAX_PULSE_CNT
      BY <1>2 DEF JobType
    <2> QED
      BY <2>1, <2>2, LandingIsNear, StepsAre DEF StepsLeft, MAX_PULSE_CNT
  <1>12. CASE BlindWalk
    <2>1. pc = "walk" /\ \E vin \in Readings :
            Over \/ (pc' = pc /\ job' = [Counted(Saw(vin), 1) EXCEPT !.left = @ - 1])
      BY <1>12 DEF BlindWalk
    <2> QED
      BY <1>1, <2>1, LandingIsNear, PulseIsSpent
  <1>13. CASE Land \/ Landed
    <2>1. \/ pc = "land" /\ pc' \in {"landed", "idle"}
          \/ pc = "landed" /\ pc' = "idle"
      BY <1>13 DEF Land, Landed
    <2> QED
      BY <2>1, StepsAre DEF StepsLeft
  <1> QED
    BY <1>4, <1>5, <1>6, <1>7, <1>8, <1>9, <1>10, <1>11, <1>12, <1>13 DEF Negotiate

\* The surroundings do not keep it from its end.
LEMMA OthersDoNotDelay ==
    ASSUME Inv, Unplug \/ Plug \/ Sample \/ Calm
    PROVE  StepsLeft' = StepsLeft
  <1>1. pc' = pc /\ job' \in {job, [job EXCEPT !.base = 0], [job EXCEPT !.base = FiveVolts]}
    BY DEF Unplug, Plug, Sample, Calm
  <1>2. job'.left = job.left /\ job'.wait = job.wait
    BY <1>1 DEF Inv, JobType
  <1> QED
    BY <1>1, <1>2, StepsAre DEF StepsLeft, Inv, PcOK

\* The places of a negotiation.
Places ==
    {"idle", "setup", "detect", "prep", "auth", "raise", "force", "rise", "hold", "walk",
     "land", "landed"}

\* The steps left are counted, and none are left at rest only.
LEMMA StepsAreBounded ==
    ASSUME NEW p \in Places, NEW j \in JobType, p = "prep" => j.left <= QC35_PREP_MAX_INC
    PROVE  StepsAt(p, j) \in 0 .. MostSteps /\ (StepsAt(p, j) = 0 <=> p = "idle")
  <1>1. j.left \in 0 .. MAX_PULSE_CNT /\ j.wait.waited \in 0 .. HardCap
    BY DEF JobType, WaitType
  <1> QED
    BY <1>1, StepsAre DEF Places, MostSteps, MAX_PULSE_CNT, QC35_PREP_MAX_INC

\* What a step does to the steps left of the negotiation that is under way.
Nearer ==
    pc # "idle" => StepsLeft' <= StepsLeft /\ (Negotiate => StepsLeft' < StepsLeft)

\* Every step brings it nearer to its end or leaves it where it was.
LEMMA StepIsNearer ==
    ASSUME Inv, Told, [Next]_vars
    PROVE  Nearer \/ UNCHANGED vars
  <1>1. StepsLeft \in 0 .. MostSteps /\ StepsLeft' \in 0 .. MostSteps
    <2>1. /\ pc \in Places /\ job \in JobType
          /\ pc = "prep" => job.left <= QC35_PREP_MAX_INC
      BY DEF Inv, PcOK, Places, ClimbOK, JobType, MAX_PULSE_CNT, QC35_PREP_MAX_INC
    <2>2. /\ pc' \in Places /\ job' \in JobType
          /\ pc' = "prep" => job'.left <= QC35_PREP_MAX_INC
      BY StepKeeps DEF Inv, PcOK, Places, ClimbOK, JobType, MAX_PULSE_CNT, QC35_PREP_MAX_INC
    <2> QED
      BY <2>1, <2>2, StepsAreBounded DEF StepsLeft
  <1>2. MostSteps \in Nat
    BY DEF MostSteps, MAX_PULSE_CNT, QC35_PREP_MAX_INC
  <1>3. CASE Negotiate
    BY <1>1, <1>2, <1>3, NegotiateIsNearer DEF Nearer
  <1>4. CASE ~Negotiate /\ (Unplug \/ Plug \/ Sample \/ Calm)
    BY <1>1, <1>2, <1>4, OthersDoNotDelay DEF Nearer
  <1>5. CASE RunNegotiate \/ WalkWindow
    BY <1>5 DEF Nearer, RunNegotiate, WalkWindow
  <1> QED
    BY <1>3, <1>4, <1>5 DEF Next

-----------------------------------------------------------------------------
(* The theorems.                                                           *)

\* The inductive invariant: the state is well formed, the counted pulses account for the bus,
\* the latch covers FORCE_9V, a QC3 brick is on the path of nine volts only after a rerun that
\* made neither a DCP nor a QC3 brick of it, and the negotiation is told the gauge's cell.
THEOREM InvHolds == Spec => [](Inv /\ Told)
  <1>1. Inv /\ Told /\ [Next]_vars => Inv' /\ Told'
    BY StepKeeps
  <1> QED
    BY <1>1, InitHolds, PTL DEF Spec

\* The state is well formed; in particular the count of pulses stays within MAX_PULSE_CNT and
\* the wait for nine volts within its hard cap.
THEOREM TypeCorrect == Spec => []TypeOK
  <1>1. Inv => TypeOK
    <2>1. Inv => job.wait.confirm < FORCE9V_CONFIRM_N
      BY DEF Inv, JobType, WaitType, FORCE9V_CONFIRM_N
    <2> QED
      BY <2>1 DEF Inv, WiresOK, FlagsOK, PcOK, TypeOK, Buses, JobType, WaitType
  <1> QED
    BY <1>1, InvHolds, PTL

\* While FORCE_9V stands in the PMIC the latch keeps every pulse off the bus, unless the driver
\* gave the latch up without the bit.
THEOREM LatchCovers == Spec => []ForcedIsLatched
  <1>1. Inv => ForcedIsLatched
    BY DEF Inv
  <1> QED
    BY <1>1, InvHolds, PTL

\* A brick known as QC3 before the rerun of the detection is not asked for nine volts, unless
\* the rerun makes neither a DCP nor a QC3 brick of it; in its continuous mode it never is.
THEOREM Qc3Spared == Spec => []Qc3IsNotForced
  <1>1. Inv => Qc3IsNotForced
    BY DEF Inv
  <1> QED
    BY <1>1, InvHolds, PTL

\* The pulses of no negotiation raise the bus by more than 23 steps, and none that can read the
\* bus take it further than a pulse past the top of the band of the cell it was told.  Nor does
\* a walk when the gauge knows the cell; with the pump's channel it stops a pulse past 9.6 V.
THEOREM CeilingKept == Spec => BusHasACeiling
  <1>1. Inv /\ Told /\ [Next]_vars =>
          [bus' > bus /\ brick' = brick /\ ~forced' /\ pc # "auth" =>
            IF OffBus
            THEN uv(bus') <=
                   (IF gauge THEN trim_target_uv(cell) ELSE PUMP_VIN_TARGET_CEIL_UV) + QC3_STEP_UV
            ELSE /\ bus' <= job.base + 10 * MAX_PULSE_CNT
                 /\ job'.seen => uv(bus') <= trim_target_uv(job.vbat) + QC3_STEP_UV]_vars
    BY StepKeeps DEF Ceiling
  <1> QED
    BY <1>1, InvHolds, PTL DEF BusHasACeiling, Spec

\* Every negotiation has at most MostSteps steps of its own, whatever the brick, the cable and
\* the accesses do: each pulse, poll and phase takes one of them, and nothing around gives any
\* back.  It ends when they are used up.
THEOREM StepsRunOut ==
    Spec => /\ [](StepsLeft \in 0 .. MostSteps /\ (StepsLeft = 0 <=> pc = "idle"))
            /\ [][Nearer]_vars
  <1>1. Inv => StepsLeft \in 0 .. MostSteps /\ (StepsLeft = 0 <=> pc = "idle")
    BY StepsAreBounded DEF StepsLeft, Inv, PcOK, Places, ClimbOK, JobType, MAX_PULSE_CNT,
         QC35_PREP_MAX_INC
  <1>2. Inv /\ Told /\ [Next]_vars => [Nearer]_vars
    BY StepIsNearer
  <1> QED
    BY <1>1, <1>2, InvHolds, PTL DEF Spec
=============================================================================
