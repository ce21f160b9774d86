# TLA+ models of nabu-charger

nabu-charger is a set of Rust drivers that charge the Xiaomi Pad 5 under
Windows: an LN8000 2:1/1:1 charge pump on an I2C bus, a PMIC charger that
negotiates a raised input with QC bricks (HVDCP), and a Windows kernel driver
whose timer decides, a few times a second, what the pump does. This directory
models the parts that decide, checks them with TLC and proves their main
properties with TLAPS.

## The system

| Part | State | Operations | Interacts with |
|---|---|---|---|
| Pump driver, `crates/ln8000/src/driver.rs` | session fields (`state`, `bypass_stage`, `por_vin_uv`, `config`), chip registers | open, configure, set_charging, enable_switching/bypass, standby, limits, resets, close | I2C bus that may fail; called by the tick and by IOCTLs |
| Encodings, `encoding.rs`, `status.rs` | none | which mode an input admits, taper, register codes | used by all of the above |
| Guard, `guard.rs` | none (limits and strike counter live with the caller) | evaluate, resolve_bypass, strike expiry | the tick |
| Charge tick, `crates/ln8000-kmdf/src/lib.rs` | `DriverState`: limits, strikes, failed attempts, retry and re-elevation clocks | `evt_telemetry_timer` and the IOCTL handlers | pump, guard, negotiation, registry |
| Renegotiation schedule, `hvdcp_policy.rs` and the tail of the tick | edge flag, retry counter, three clocks | replug edge, retry, re-elevation | tick, negotiation |
| HVDCP negotiation, `hvdcp.rs`, `qc35_auth.rs` | phase, latches | APSD, force 9 V, pulse walks, authentication | PMIC over the SPB target |
| AC and charging holds, `battery_policy.rs`, `battery.rs` | two holds with deadlines and runs | update per tick, query by the battery class | tick, Windows battery class |
| FCC raise, in `lib.rs` | captured boot value, raised flag, restore deadline | raise, restore | tick, PMIC |
| Device lifecycle, in `lib.rs`, `sysreq.rs` | state mutex, timer, `DEVICE`, `GAUGE_READY` | prepare, release, lock, gauge poll | everything |
| Session ring, `session.rs` | bounded record list | push, rotate, flush | tick |
| SMB charger machine, `crates/core` | State, detection timer, retries | open, detect, apply, monitor, reinit, close | its own transport |
| Transports, `spb.rs` | a cached request and whether it is lost, the SUPERUSER slot | probe, read, write, open and close a session | the I/O target; prepare, negotiation and FCC policy |
| Host loops, `runner.rs` | position in a loop, its fuse | run until ready, monitor | SMB charger machine |
| Simulator, TCP bridge, SMB driver, command line | none of their own interest | | |

The hard parts are these. The timer handler holds one mutex for seconds and
decides everything on one ADC sample, while the cable, the brick and the cell
move on. Every register access may fail, on the way out or on the way back, and
most failures inside a start are deliberately swallowed. Setpoints are written
by five parties (configure, the taper, the guard's fold-back, an operator's
IOCTL, the landing of a negotiation) into one register. Counters (denials of
1:1, failed attempts, retries) live across ticks and must survive what happens
between them.

## Modules

| Module | Models | How |
|---|---|---|
| `Encoding` | `encoding.rs` predicates and codes | operators over microvolts and microamperes |
| `Guard` | `guard.rs`, and `read_parameters` of `lib.rs` for the thresholds | `evaluate`, `resolve_bypass` as operators; an action is a record `[kind, to]` |
| `PumpOps` | the calls of `Pump<T>` | a call is an operator that maps a pump record to the set of its outcomes |
| `Pump`, `Pump_proofs` | a session with the pump | one action per call over a moving input |
| `PumpPromise` | what a call promises, without registers | abstract specification; `Pump` implements it |
| `ChargeTick`, `ChargeTick_proofs` | `evt_telemetry_timer` and the IOCTLs | five stages `Sample, Protect, Walk, Attempt, Negotiate`, built on `PumpPromise` |
| `Renegotiation`, `Renegotiation_proofs` | when to negotiate: cable edge, retry, re-elevation, request, and the ADC wake they depend on | ticks of two steps over prepare and release, with countdowns for deadlines |
| `Negotiation`, `Negotiation_proofs` | `hvdcp.rs`, `qc35_auth.rs`, the walk into the band and the landing | one step per pulse or poll, over a brick, a cable and a PMIC that move between them |
| `Holds` | `battery_policy.rs` | the verdict of a sample, the hold, the trend and the unplug run as operators |
| `Battery`, `Battery_proofs` | `battery.rs` and its three callers | one action per caller, over readings of any kind |
| `Device`, `Device_proofs` | add, prepare, release, the timer and its gauge read, the FCC policy | PnP, timer handler and clock as actions; the policy is part of the handler's step |
| `Charger`, `Charger_proofs` | `crates/core` and the host's `runner.rs` | a call is a list of register accesses, each access a step |
| `Bus`, `Bus_proofs` | `spb.rs` and the probing of `evt_prepare_hardware` | the code under the mutex is a script of exchanges, each exchange a step |
| `MC*` | | the instances TLC checks |

`Pump.pump` joins the Rust struct's fields (`state`, `bypass_stage`,
`por_vin_uv`, `config.iin_limit_ua` as `cfg_iin`, `config.vbat_float_uv` as
`cfg_float`) with the chip's registers (`ctrl` for `SYS_CTRL`, `masks` for
`FAULT_CTRL`, `iin`, `vfloat`) and with `bus`, which says whether an access of
the current call has failed. `Then` is Rust's `?`, `After` is `let _ =`. A pump
call is one step because its callers hold the state mutex; inside it, every
access may be the one that fails, before or after the register was written, and
from there the bus is either dead or fine again. The chip may refuse any
commanded mode.

`ChargeTick` keeps the abstract chip (`ctrl`, `iin`, `cfg_iin`, `bus_ok`) and
the part of `DriverState` that steers it. A tick is a sequence of steps and not
one, because the input moves between its stages; IOCTLs interleave only between
ticks, because they take the same mutex. `sample` is what the handler's local
variables still hold at that stage. `denials` and `reset` are history variables:
the code does not have them and no action's guard reads them. The landing after
a negotiation (`run_hvdcp_and_land`) is modelled in full; the negotiation itself
is an arbitrary new input voltage, and when one is due is left open. Comparisons
with the clock (cooldowns, delays) may go either way. The limits the session starts
with are any `GuardLimits` that `is_consistent` admits, as `read_parameters` lets
them through: the registry may put `iin_floor` anywhere from 100 mA to 6.85 A, and
`SET_LIMITS`, which asks nobody, may then move ceiling and target below it.

`Renegotiation` keeps what the schedule reads and writes: `last_input_present`
and `hvdcp_edge_armed` (`edge`), the three `hvdcp_retry` fields (`retry`), the
`re_elevate` fields (`elevate`), `adc_awake`, and beside the last one `adc`, what
the chip's ADC really does. A deadline is a countdown that `Pass` lowers. The tick
is `Sample` (everything up to the three decisions, the charge stage reduced to
whether it starts a transfer or reconfigures the chip) and `Act` (the
negotiation), because the cable and the chip move between the two; requests and
release interleave only between ticks, because they take the mutex. A negotiation
is its result code and the level it leaves; all its phases end in one that admits
the next. `sampled`, `sinceRetry` and `sinceElevate` are history variables.

`Negotiation` takes over where `Renegotiation` leaves a negotiation as one step and
`ChargeTick` as an arbitrary voltage. The state is what is on the wires (`brick`,
`bus` in units of 20 mV, `fine` for a brick moved to QC3.5, `forced` for
`FORCE_9V`), the limit `icl`, the latch `force9v_latched`, the `cell`, whether the
fuel `gauge` has given a plausible sample of it, and the position and locals of
`negotiate_on_bus` (`pc`, `job`). The driver never sees the cell itself: it computes
targets and bands from an anchor (`Anchors`), the gauge's sample or, without one,
the pump's own channel (`VbatChannel`), which reads the cell, half the input in 2:1,
or zero asleep; a negotiation takes it at its start and the landing anew. The
authentication asks a QC3.5 brick for its power, and the brick may answer with any
level of `SrcCaps` (`Asked`), also with one that stands for no power; the bus stays
at the level it chose. `Reports` are all results the detection may give of a brick
with or without `QC_CHARGER`: none, DCP alone, QC2 with or without DCP, QC3. A loop
is one step per turn, because the cable moves and an access fails between any two; a
walk into the band sends its pulses without reading the ADC and is one step. `calm`
separates a world in which anything may happen from one in which nothing fails any
more, which is what "the walk settles" is about. The PMIC and the brick are external
and modelled from how the code uses them: the PMIC forgets `FORCE_9V` with the
input, `FORCE_5V` is a strobe, a failed write has not landed, a QC brick may pass
for a DCP or for nothing the PMIC knows, and a QC3 brick answers nine volts with a
spike.

`Holds` and `Battery` keep a timestamp as its age in ticks, capped where every
comparison with it is decided. A sample is chosen afresh for each update: what
the ADC reads of a brick, a floating node or while it sleeps, and a comparator
that says what it likes. `seen` and `unseen` are history.

`Device` holds the globals `DEVICE`, `GAUGE_READY` and `CLASS_HANDLE`, the pump, the
one-shot timer and where its handler is. What runs under the state mutex is one
step. The gauge read before the mutex and the flag release clears before the
mutex are steps of their own. The tick re-arms its timer on every path but two: when
there is no pump, and when it has read the status and finds `DEVICE` null
(`Rearmed`). `fcc` joins the PMIC's register with what the driver knows of it
(`fcc_boot_raw`, `fcc_raised`, `fcc_restore_at_ms`, `fcc_probe_done`). These are
statics of an image that unloads with its last device, and release does not return
the raise: `Remove` leaves the register as it is and starts the record anew
(`Loaded`), so the next load captures a raised value as the factory's. `found`,
`lost` and `spoilt` are history: what this load found in the register, whether it
has lost a write, and whether an earlier load ended over a raise or a lost write.

`Charger` executes `open`, `detect_step`, `apply`, `monitor`, `reinit` and `close`
access by access (`todo`), each with its retries and the read-back of `write_reg`,
under the two loops of `runner.rs`. The link may err, lose a write or repeat it; the
cable and the hardware detection move between any two accesses.

`Bus` writes `evt_prepare_hardware` down as the list of exchanges it makes
(`script`): the parent's probes, six request layouts on the parent and on the hub,
the neighbouring nodes, `SUPERUSER` by name, the second connection, and the pump.
An exchange ends with an answer, a failure, or a request the target keeps
(`held`). The SUPERUSER sessions of a prepared device are scripts too.

`Pump!Promise` is the refinement: every call of the register-level driver is a
call `PumpPromise` allows, under the mapping that forgets the session fields,
the masks and the float voltage. That is what entitles `ChargeTick` to the
abstract pump.

## Runs

| Run | Shows |
|---|---|
| `pump` | every order of calls, with a failing bus: 1:1 is commanded only between 4.2 V and 6 V even when ADC reads fail; a refused 2:1 ends idle; a refused masked 1:1 takes its masks back; a near-full start ends with the taper after any reset; `PumpPromise` is implemented |
| `charge_tick` | the guard against the rest of the tick: a Stop survives the walk and the mode decision, two denials stop the charge, a hot die's current is only ever raised to the registry's floor by a denied 1:1, and what the guard writes stays under the operator's ceiling or that floor |
| `renegotiation` | with a cable, a brick, a slot and an ADC that move at any time: retries keep their delay and re-elevations their backoff; a cable the driver does not see is found; a pending retry ends when the slot frees; a bus starved at five volts is renegotiated again and again |
| `negotiation` | with a cable swapped at any pulse and failing accesses: the pulses of one negotiation raise the bus by at most 23 steps and, while the ADC answers, not further than a pulse past the band it was told; a walk stays within a pulse of the cell's band, or of 9.6 V when only the pump's channel stands for the cell; `FORCE_9V` keeps its latch; a known QC3 brick is asked for nine volts only after a rerun that shows neither QC3 nor DCP; every negotiation ends; the undisturbed walk ends in the band |
| `battery` | AC survives the pump's reflection, sleeping ADCs and replayed samples; charging is shown at most one hold after its last witness; a removal and an adapter show for good |
| `device` | a released device has no timer, pump, class or power request, however release and handler interleave; within a load of the image `fcc_raised` tells the raise from what the load found unless a write's answer was lost, and what it found is the factory value unless an earlier load ended over a raise; the raise keeps its grace and is taken back; polling goes on |
| `charger` | over a link that errs and lies: the limit `apply` and `close` report is in the chip; a ready session names the brick in the port; the host's loops end, and never by their fuse |
| `bus` | over every probe and session: a request the target kept is neither formatted nor rewritten until its bus is dropped; the SUPERUSER slot is back before anything else runs |
| `adc_blind` | disagreement: a reconfigured chip sleeps behind `adc_awake`, and the driver stays blind while the cable is in |
| `device_rebalance` | disagreement: a device stopped and started without being added again has no `DEVICE`: prepare arms its timer once, that tick neither polls nor re-arms, and telemetry, guard, mode decision and renegotiation end with it |
| `charger_monitor` | disagreement: after an apply that failed the next cycle calls the new adapter unchanged, and the old limit stays |
| `tick_stop` | disagreement: a negotiation due on the same tick restarts the charge the guard stopped |

Five more configurations each show a disagreement with TLC in seconds, and are kept
beside the runs: `tlc -config MCPumpFloat.cfg MCPump` violates
`BypassKeepsProfileFloat` (`driver.rs:964` raises `V_FLOAT` for 2:1 and nothing
lowers it for a later 1:1, while the comment at 935-938 keeps the raise to 2:1),
`MCChargeTickHotDie.cfg` violates `HotDieIsStopped` (a critical fault makes the
sample look unplugged at `lib.rs:2610`, and a guard that sees no input does nothing
above the stop temperature of `guard.rs:40`), `MCChargeTickFloor.cfg` violates
`DeniedReducesCurrent` (a denied 1:1 writes `iin_floor` whatever the setpoint is,
`lib.rs:3745-3750` and `guard.rs:528-531`: with a floor of 1 A in the registry and a
limit of 500 mA set by an operator, the guard doubles the current of a hot die,
while `guard.rs:509` says that it "reduces current instead of 1:1"), `tlc -config
MCNegotiationQc3.cfg MCNegotiation` violates `KnownQc3KeepsPulses` (the demotion
guard looks for the DCP bit, `hvdcp.rs:1215`: a brick known as QC3 whose rerun shows
`QC_CHARGER` with an empty or QC2 result and no DCP is promoted to `0x28` and asked
for nine volts, while a test of `hvdcp_policy.rs` says that QC3 must keep the pulse
path), and `MCChargeTickReset.cfg` violates `NoResetOnElevatedInput` (`lib.rs:3542`
resets at inputs of 6-8 V, where a discharged cell's 2:1 lives, under the comment at
3187-3188 that rules out resets on an elevated input).

Bounds. `pump` uses one five-volt and one raised input, one cell voltage that lies
both in the taper band and at the float ceiling, and one limit below the taper
beside the profile above it: both sides of every comparison of the driver are taken,
except that no input is below 4.2 V (a start there is the `charge_mode = None` path,
which a failed ADC read also takes). `charge_tick` adds die temperatures below the
hysteresis, in it, above each of the three thresholds and at the implausible value
of a failed channel; two currents around the dead floor; ticks that fail to read nothing, the cell, the die,
the setpoint, or, with a sleeping ADC, all three measurements (`SingleLosses`); and a
registry whose floor of 1 A lies above the 500 mA an operator asks for
(`StandardLimits`). `renegotiation` has two retries and a retry delay of one unit of
time, a first re-elevation delay of two and a cap of five: the backoff takes the
values 2, 4 and 5, so it doubles and meets a cap that is not a power of it, as 60,
120, 240, 300 s do. `negotiation` has one cell, at 3.675 V: a brick that steps by
200 mV from five volts passes over the centre and the top of its band, 7.55 to 7.75
V, with one pulse; input limits below 3 A are one value. All three waits for nine
volts are a few polls, in their order (1 < 3 < 4); a QC3.5 brick answers the
authentication with 7.0, 7.4 or 9.0 V, which stand for 18 W, for no power and for 40
W, gives at most 9.8 V, and steps by 200 mV like QC3. With half of that step
(`MCNegotiationFine.cfg`, 809,110 states) all properties hold too, in four minutes
instead of two; the safety theorems hold for every step. `battery` has a cell at 4.2
V, so that 8.4 V on a brick or on a floating node is its reflection, and holds of
one and two units of time, the shorter of which is the one of AC. `device` has an
FCC request above the ceiling, a factory value, and a probe value below it, with a
grace of two gauge periods: the return can be scheduled, called off and made.
`charger` has a brick with a limit of its own, a QC brick and one whose pattern is
undefined, with one rerun, one transport retry and one poll of timeout; the fuse is
one step above what those allow. `bus` keeps all six layouts, because which of them
lost the request is the question, and shortens what only repeats: one neighbouring
node for 13, one opening by name for 10, three charge registers for 11; the
resources are none serial, one connection, two in either order, and a fifth one that
is not looked at. Nothing is bounded beyond that: all counters are bounded by the
code, and history clocks stop at the longest delay they are compared with.

Fairness. `Renegotiation` assumes weak fairness of `Sample`, `Act` and `Pass`. The
handler re-arms its timer as long as the pump is there and `DEVICE` set, `Act` is the
rest of the same call, and time passes. Nothing is assumed of the cable, the slot,
the brick or the ADC: where a property needs reads that succeed again and again
(`UnseenCableIsFound`), a slot that stays free (`FreedSlotIsUsed`) or a bus that
stays at five volts (`StarvedInputIsRenegotiated`), it says so in its hypothesis.
`UnseenCableIsFound` moreover excludes the case `adc_blind` exhibits. `Battery`
assumes the same of its tick and of time; that every tick runs is what `Device`
shows (`TelemetryKeepsRunning`), from weak fairness of the timer's own steps and
of time. `Negotiation` assumes that a negotiation, which is one call, goes on
(`Negotiate`), and that the tick comes again (`WalkWindow`). `Charger` assumes that
the host's thread goes on and that `sleep` returns. `Pump`, `ChargeTick` and `Bus`
have safety properties only.

## Proofs

`ChargeTick_proofs` proves the properties of the `charge_tick` run for every set
of voltages, currents, temperatures, faults and limits that satisfies the
assumptions of `ChargeTick`: `LimitsAssumption` (the session starts with limits that
`is_consistent` admits, the floor anywhere up to the target), `SensorAssumption`
(measurements are numbers of the right sign) and `RequestAssumption` (currents
asked for are natural numbers and the profile is one the chip can encode).

None of the properties is inductive. The invariant `Inv` adds to `TypeOK`:

- `LimitsInv`: temperatures and floor are those the session began with, and the target
  is at most the ceiling. It does not say that the floor is below them: `SET_LIMITS`
  may undercut it.
- `DecisionInv`: while a tick is under way, the guard's action is one that
  `evaluate` can return for the sample kept: a decrease is below the setpoint, a
  restore is under the ceiling or the floor (`Most`) and only on a cool die.
- `DenialInv`: the history of denials and the strike counter agree, in
  particular a counter at its limit is still there after a denied tick.
- `StoppedInv`: after the guard stopped the pump it stays idle until the
  negotiation, unless the bus failed.

`StepKeeps` shows it inductive with one lemma per action (`SampleKeeps`,
`ProtectKeeps`, ...), each resting on lemmas about the pump's promise (`IdleResult`,
`SetIinResult`, `StartResult`, ...) and about the guard (`CapReduces`,
`RestoreUnderCeiling`, `EvaluateSound`). `TypeCorrect`, `StopHolds` and
`SecondDenialStops` follow from `Inv`; `HotProtectionLowers` and `CeilingKept` are
properties of steps and follow from `Inv`, `OnlyProtect` (which step takes the timer
to the walk) and `ProtectSetpoint` (what that step may write).

`Renegotiation_proofs` proves the type invariant and the two spacing properties of
`renegotiation` for every delay, limit and cap that satisfies `DelayAssumption`
(positive delays, a cap not below the first delay). Their invariant is a pair of
sums: a running retry deadline and the time since the last retry are together at
least the retry delay (`RetryOK`), and the re-elevation deadline and the time since
the last re-elevation are together at least the backoff in force (`ClockOK`).
`Pass` moves one unit from the first summand to the second, and every other step
either leaves both alone, stops the clock or starts it with a full delay, so when
a deadline has run out the time alone is enough. The type invariant needs in
addition that a retry under way is still below the limit.

`Negotiation_proofs` proves the type invariant and the three safety properties of
`negotiation` for every set of bricks, every cell from 3.1 V to the highest
`V_FLOAT` (5.0 V), every QC3.5 step from 20 mV to 200 mV, every set of levels such a
brick may answer with, every top of 9 to 12 V and every three waits
(`NegotiationAssumption`). Its invariant has the well-formed wires and locals
(`WiresOK`, `FlagsOK`, `PcOK`, `JobType`) and, for the ceiling, `ClimbOK`: while the
bus is raised it is at most one full pulse per counted pulse above where the
negotiation found it or the brick's answer to the authentication has left it; and
the pulses the QC3.5 preparation has sent and may still send are eight together. The
cells need their lower bound because that preparation sends pulses up to 6.4 V
without a look at the band. `Told` says that a negotiation begun with a gauge goes
on with the cell: a walk after it is measured against the band of the cell itself.
`StepsCover` says that a rounded-up count of pulses overshoots its distance by less
than one pulse, `Band` where the targets lie, `PulsesUp`, `PulsesDown` and
`NudgeKeeps` what trains of pulses and a walk do to the bus. Each step's lemma
(`SetupKeeps`, `PrepKeeps`, ...) shows the invariant and the ceiling together,
because the ceiling of a step needs the invariant before it. `StepsRunOut` counts
what a negotiation may still do: `StepsLeft` is at most `MostSteps`, 38 steps and
the hard cap of the wait for nine volts, every pulse, poll and phase lowers it, the
brick, the cable and the PMIC do not raise it, and it is 0 when the negotiation is
over.

`Device_proofs` proves the type invariant and the three safety properties of
`device` from `FccAssumption` (positive register values, a probe value below and a
factory value not above the ceiling). The invariant adds to `ReleasedIsQuiet` that
the gauge flag is down during a release, and two facts about the policy. `FccOK`:
before this load has captured a value nothing has been written, what it has captured
is what it found, and the record tells the raise from that unless an answer was
lost. Only an unload ends it, and `LoadedOK` shows that the next load starts inside
it, from whatever the register holds. `GraceOK`: a scheduled return and the time
since the last transfer are together at least the grace.

`Battery_proofs` proves the type invariant, `MotionlessCableKeepsAc` and
`ChargingIsWitnessed` for every cell, brick, floating level and pair of holds that
satisfies `HoldAssumption` and `ReadingAssumption` (an adapter below 6 V stands clear
of the cell, a counted current is a charging one). The invariant says that the last
witness of a charge is no older than the charging hold; `HoldUpdated` says what a
sample may do to a hold.

`Pump_proofs` proves every property of the `pump` run, the refinement included, for
every set of inputs, cells, limits and float voltages of natural numbers
(`VoltageAssumption`, `LimitAssumption`: the profile's current is one the chip can
be set to) and every reset value of the two setpoint registers (`ResetAssumption`).
The difficulty is not in the state between calls, where `IInv` adds to the
properties only that the configured current is at least the least one the chip
encodes (`configure` relies on it to leave exactly that current). It is in the
calls: a start is up to two resets, three configurations and four commands, each of
a dozen accesses that may fail with or without effect. The lemmas about a call, from
`UpdateOutcome` over `ConfigureOutcome` and `BypassOutcome` up to `ChargeOnOutcome`,
therefore say two things of each of its outcomes. Whatever failed, the mode and the
setpoint in the chip are among a few (`Within`): that is all
`OneToOneOnlyOnFiveVolts` and the promise ask of a call with a failed access. If
nothing failed (`Clean`), they say exactly which mode, setpoint, masks and stage are
left: that is what the three properties about refused and tapered starts need.
`Implements` then maps each call to one of `PumpPromise` (`StartPromised`,
`ResetPromised`, ...). It closes the chain of the two proofs about the tick:
`ChargeTick_proofs` is about every pump that keeps the promise, and the driver's
pump does.

`Charger_proofs` proves the type invariant, `ReportedLimitHolds` and
`ReadyNamesTheBrick` for every set of bricks, boot limit, timeout and number of
reruns and of retries. A call is a list of accesses still to do, so the invariant
says where in its list a call is: `Scripted`, what is left is the end of the
accesses of that call; `Written`, what the accesses no longer on the list have
verified is in the registers. `AtApply`, `AtClose` and `AtRerun` say which access
stands at each place, and `LandedStruck` that an access cannot undo a register
verified before it. `ReadyNamesTheBrick` needs four facts more: a complete detection
of the chip is the brick's (`ChipShows`); a stable status read while the cable was
at rest is still the chip's at the second read of that poll (`Sampled`); what is
handed to `apply` is the brick (`Named`); and each step of a run is paid for by a
tick of its clock or a rerun (`Budget`). The last one excludes the fuse of
`run_until_ready` (`FuseSpared`). It needs `FuseAssumption`, that the fuse outlasts
the timeout and the reruns, which holds of the code's 1000 steps of 20 ms against 3
s and two reruns (`runner.rs:22`, `driver.rs:77`). The assumption is what the
property depends on: with a shorter fuse a second run that ends by it returns in
`Ready` with the adapter of the first, and TLC finds that. `StepsRunOut` is the
count behind `RunsEnd`: what a call still has to read and write, each access with
its attempts, and the polls that the clock and the reruns still pay for
(`PollsLeft`, from `Budget`). Every step of the session or its host lowers it
(`AccessIsNearer`, `ReturnIsNearer`, `HostIsNearer`, `ElapseIsNearer`), the cable
and the chip leave it alone, it is 0 exactly at rest, and no call or run begins with
more than `MostSteps`, in which the fuse does not appear.

`Bus_proofs` proves `SlotIsReturned` and `LostRequestIsNeverTouched` for every
number of layouts, neighbouring nodes, openings by name and registers, and every set
of resources (`BusAssumption`). Both are properties of a script of unbounded length,
so the invariant describes its shape (`Shape`), which every rest of it inherits
(`ShapeFrom`): what opens a session or a probe, or is within one, is followed by
steps of it and by its end (`Bracketed`), and the hub's bus is opened once (`Once`).
`PrepareShape` and `SuSessionShape` show that the scripts of the code have it, part
by part (`ShapeConcat`, `CycledShape`). The rest of the invariant ties the state to
the script: a bus that is still to be opened is closed, so that no new bus takes the
place of one whose request is held (`Scripted`); a request that is held is known to
be lost (`HeldIsLost`), which is what keeps `exchange` off it (`ExchangeIs`); and an
open slot has its session at the head of the script.

What stays with TLC: the liveness properties of `Renegotiation`, `Battery`,
`Device`, `Negotiation` and `Charger`, and the properties of the runs that exhibit a
disagreement. Of `NegotiationEnds` and `RunsEnd` the theorems `StepsRunOut` prove
the part that is about steps: fewer are left after each. That a next step is then
taken is the fairness of a thread that runs and a sleep that returns, and stays with
TLC. Liveness under fairness, ENABLED, and induction over data are out of this
prover's reach, and so is any module with a RECURSIVE operator, which is why these
modules have none. Every safety property and every property of steps that a passing
run checks is the statement of a theorem.

## Divergences noted

Four runs exhibit a disagreement between the code and what it says of itself, and
five more configurations show one each (see Runs). These were met while reading and
modelling; the models follow the code.

- `hvdcp.rs:1626` says the nudge never pulses past the top of the band; it looks at
  the top after the pulse, so it may stand a pulse above it (`BusHasACeiling`).
- A successful authentication leaves the bus where the brick put it, up to 9.8 V; the
  raise that follows finds it above its target and does not lower it. The landing and
  the walk of the tick trim it, if the anchor is not zero.
- `pulse_cnt` starts at zero on a bus that may still be raised, and the input limit is
  only ever raised, never lowered, by a negotiation.
- Trims, boosts, nudges and limit writes outside a negotiation open the SUPERUSER
  session without the grant a negotiation takes (`hvdcp.rs:1594` and following).
- `FORCE_9V` is ORed into a register in which `FORCE_5V` may still stand.
- With the FCC policy off the probe still writes the register (`lib.rs:2947` and
  following); an FCC write whose answer is lost is not recorded and not returned, and
  a raise that stands at a removal is taken for the factory value by the next load
  (the comment at `lib.rs:3056-3059` knows this pitfall; `spoilt` stands for it).
- `SET_LIMITS` does not ask `is_consistent`, as the registry's limits are asked
  (`lib.rs:4212-4222`, 1546): the target may fall below the floor.
- The gauge read that passed the `GAUGE_READY` check before a release goes on after
  it.
- `crates/core`: `State::Ready` is set by `detect_step` before the policy is applied;
  `reinit` leaves `Idle` behind a probe that failed; a rerun keeps the clock of the
  first detection; the pulse-count maximum for 9 V survives a later SDP; `Faulted` is
  left by the next call that succeeds.
- `SuperuserBus` and the APSD probe delete a request and its memory even when the send
  returned 0, where `SpbBus` leaves both to the target (`spb.rs:375-382`).
- The pump is opened on the hub's working layout or on layout 0; the parent's own
  working layout is not restored, although the comment near `lib.rs:2106` says it is.
  Going on to later layouts after one has answered can lose the only request, and then
  no pump opens.

## Not modelled

- ADC and status decoding, formatting, registry diagnostics, journal and reason
  texts: data no property tells apart.
- The session ring (`session.rs`): one call a step under the mutex; no failure,
  interleaving or decision depends on it, and its unit tests rotate both rings past
  their capacity.
- The published percentage (gauge or cell voltage) and the notifications of the
  battery class: output beside the holds `Battery` models.
- Registry parameters other than the guard's thresholds; the marshalling of the IOCTL
  buffers.
- `IOCTL_LN8000_WRITE_REG` (`lib.rs:4167-4191`, dispatched at 3797), the raw
  diagnostics access that writes any register of the pump, mode and setpoint included:
  what `ChargeTick` and `Pump` show is shown for sessions in which nobody uses it.
  `READ_REG` and the `GET_*` calls change nothing but what `Battery` has of
  `GET_STATUS`.
- The SMB kernel driver with its `spmi.rs`, which joins WDF to the core machine, and
  `crates/spb`, which is the transport of `Bus` without its cached request.
- The security descriptors (constants), the simulator, the TCP bridge and the command
  line.
- The PMIC, the brick, the cable, the battery class, PnP and the I/O target are
  external: they are modelled from how the code uses them, as loosely as it allows.
  Of the PMIC `Negotiation` assumes that it forgets `FORCE_9V` with the input, that
  `FORCE_5V` takes effect at once, and that a write that reports failure has not
  landed.

Limits of what is modelled, to be read beside the properties:

- `Renegotiation!AdcAfter` takes the unplug comparator for exact. In the device it
  pulses with the cable in (`battery_policy.rs:334`, 500), which `Battery` has: a
  pulse delays the wake of the ADC by one tick.
- `Battery!ReadingAssumption` asks an adapter below 6 V to read at least 200 mV over
  the cell. The bricks the source quotes, at 4.38 to 4.54 V, barely do, and with a
  fuller cell they would not; there the reflection cannot be told from a removal.
- `Charger!Detected` completes a detection in one step: `DONE` is never shown with
  the QC bit still clear, although the chip reports the end of the HVDCP check in a
  bit of its own (`regs.rs:21-22`).
- `ReadyNamesTheBrick` excludes a cable that moved since the poll began, for which the
  code has no check (`driver.rs:345`).
- `Negotiation!Pulses` keeps `FORCE_9V` over a pulse. A failed read of `CMD_HVDCP_2`
  is taken for zero (`hvdcp.rs:853`), and the write after it then clears the bit,
  which only gives nine volts back early.
- `ForcedIsLatched` is about one life of the driver: `HvdcpState` is a static, and a
  reload loses the latch. Its exception `abandoned` is the failed return of
  `hvdcp.rs:878`, which nothing in the code notices.
- The premise `calm` of `WalkSettles` leaves out disturbances, dead and transferring
  2:1 inputs and an anchor that is not the cell.
- `TelemetryKeepsRunning` is stated for a device that has its `DEVICE`; what happens
  without one is `device_rebalance`.
- `LostRequestIsNeverTouched` is about the cached request of `SpbBus`; the SUPERUSER
  code deletes its request and memory while the target may hold them
  (`spb.rs:1239-1249`, 2000-2029).
- `ChargingIsWitnessed` counts a rise of the fuel counter as a witness for as long as
  `SocTrend` keeps it, also past `SOC_RISE_HOLD_MS` while the gauge fails
  (`battery.rs:614`).

## Plan

1. `Session`: the ring, as a refinement of an unbounded journal of which it keeps a
   suffix.
2. The composition of `Negotiation` with `Renegotiation`: the slot, the latch and the
   retry schedule over the same brick.
3. Proofs: the deadlines of `Renegotiation`, `Battery` and `Device` as counts that
   only fall between two events, beside the model-checked liveness, as `StepsRunOut`
   does for a negotiation and for a run of the session.
