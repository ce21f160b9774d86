------------------------------- MODULE Device -------------------------------
(***************************************************************************)
(* The lifetime of the device and what outlives it: PnP (evt_device_add,   *)
(* evt_prepare_hardware, evt_release_hardware) against the telemetry timer *)
(* of crates/ln8000-kmdf/src/lib.rs, which reads the fuel gauge before it  *)
(* takes the state mutex, and the fast-charge-current (FCC) policy the     *)
(* tick runs on the PMIC.                                                  *)
(*                                                                         *)
(* Whatever runs under the mutex is one step; the gauge read and the flag  *)
(* that release clears before the mutex are steps of their own.  The unit  *)
(* of time is GAUGE_POLL_MS.  The rest of the tick is in ChargeTick,       *)
(* Renegotiation and Battery.                                              *)
(***************************************************************************)
EXTENDS Encoding

CONSTANTS FccRaw,           \* the parameter of that name, not zero: the policy is on
          Factory,          \* the FCC the firmware leaves in the PMIC
          ProbeRaw,         \* FCC_PROBE_UA, raw
          WriteMax,         \* FCC_WRITE_MAX_UA, raw
          Grace             \* FCC_RESTORE_GRACE_MS

ASSUME FccAssumption ==
    /\ {FccRaw, Factory, ProbeRaw, WriteMax, Grace} \subseteq Nat \ {0}
    /\ ProbeRaw < WriteMax /\ Factory <= WriteMax

VARIABLES pnp,              \* where PnP is: a removed, stopped, failed, prepared, releasing device
          device,           \* DEVICE is not null
          gauge_ready,      \* GAUGE_READY
          pump,             \* DriverState::pump is there
          timer,            \* the one-shot timer is armed
          tick,             \* its handler: idle, reading the gauge, waiting for the mutex
          attached,         \* CLASS_HANDLE: the battery class
          request,          \* the power request of sysreq.rs
          gauge_due, charge_due, \* a poll period has passed since GAUGE_LAST_MS, last_chgr_mark_ms
          fcc,              \* the PMIC's register and what the driver knows of it
          idle,             \* history: time since the policy last saw a transfer
          quiet             \* history: the last pass of the policy saw no transfer and no fault,
                            \* and made a return that was due

lifetime == <<pnp, device, gauge_ready, attached, request>>
policy == <<fcc, idle, quiet>>
vars == <<lifetime, pump, timer, tick, gauge_due, charge_due, policy>>

-----------------------------------------------------------------------------
(* The FCC policy.  fcc is [reg, boot, raised, restore, probed] with the   *)
(* history [found, lost, spoilt]: the register; fcc_boot_raw, fcc_raised,  *)
(* the time left to fcc_restore_at_ms, fcc_probe_done; what the register   *)
(* held when the image was loaded, whether it has since taken a value the  *)
(* driver could not read back, and whether an earlier load of the image    *)
(* left it raised or unknown.                                              *)

NotCaptured == 0
NotScheduled == Grace + 1
NoAnswer == 0

\* The static STATE of a freshly loaded image, and the register as it is.
Loaded(reg, spoilt) ==
    [reg |-> reg, boot |-> NotCaptured, raised |-> FALSE, restore |-> NotScheduled, probed |-> FALSE,
     found |-> reg, lost |-> FALSE, spoilt |-> spoilt]

\* Mutant of raw_for: the ceiling is not applied.
raw_for_open(raw) == raw

\* In units of the register.
raw_for(raw) == Lesser(raw, WriteMax)
Raised == raw_for(FccRaw)

\* SuperuserBus: a session answers whole, or its slot, grant or transfer fails.
\* write_fcc_raw: the write lands and is read back; is kept out; lands or not and
\* the answer is lost.
write_fcc_raw(reg, raw) ==
    {[reg |-> raw, answer |-> raw, lost |-> FALSE], [reg |-> reg, answer |-> reg, lost |-> FALSE],
     [reg |-> reg, answer |-> NoAnswer, lost |-> FALSE], [reg |-> raw, answer |-> NoAnswer, lost |-> TRUE]}

\* Mutant of policy_owns: the probe only yields to a raise that is about to be made.
policy_owns_next(f, s) == s.alive /\ s.below

policy_owns(f, s) == f.raised \/ (s.alive /\ s.below)

\* A snapshot that answers: the value of the register is captured once, and the probe is run
\* once, a lower value and the captured one again, unless the policy owns the register.
Snapshot(f, s) ==
    LET g == [f EXCEPT !.boot = IF @ = NotCaptured THEN f.reg ELSE @]
        due == ~g.probed /\ ~s.fault
        done == [g EXCEPT !.probed = TRUE]
    IN  IF ~due \/ policy_owns(g, s) \/ ProbeRaw >= g.boot
        THEN {IF due THEN done ELSE g}
        ELSE {[done EXCEPT !.reg = back.reg, !.lost = @ \/ back.reg # g.boot] :
                back \in UNION {write_fcc_raw(w.reg, g.boot) : w \in write_fcc_raw(g.reg, ProbeRaw)}}

\* write_fcc_and_publish: the outcomes of a write; only a read-back that is what was
\* asked for moves the driver's record of it.
Settled(f, want, raised) ==
    {[f EXCEPT !.reg = w.reg, !.lost = @ \/ w.lost,
               !.raised = IF w.answer = want THEN raised ELSE @,
               !.restore = IF w.answer = want THEN NotScheduled ELSE @] :
        w \in write_fcc_raw(f.reg, want)}

RaiseDue(f, s) == ~f.raised /\ f.boot # NotCaptured /\ s.below

\* Mutant of FccPolicy: a transfer does not call off the return that is scheduled.
FccPolicy_kept_schedule(f, s) ==
    CASE s.alive /\ RaiseDue(f, s) -> Settled(f, Raised, TRUE)
      [] ~s.alive /\ f.raised /\ f.restore = NotScheduled -> {[f EXCEPT !.restore = Grace]}
      [] ~s.alive /\ f.raised /\ f.restore = 0 -> Settled(f, raw_for(f.boot), FALSE)
      [] OTHER -> {f}

\* Mutant of FccPolicy: each pass without a transfer schedules the return anew.
FccPolicy_rescheduled(f, s) ==
    LET g == [f EXCEPT !.restore = NotScheduled] IN
    CASE s.alive /\ RaiseDue(f, s) -> Settled(g, Raised, TRUE)
      [] s.alive /\ ~RaiseDue(f, s) -> {g}
      [] ~s.alive /\ f.raised /\ f.restore # 0 -> {[f EXCEPT !.restore = Grace]}
      [] ~s.alive /\ f.raised /\ f.restore = 0 -> Settled(f, raw_for(f.boot), FALSE)
      [] OTHER -> {f}

\* The policy on a chip without a critical fault: raise on a live transfer below the
\* gate; without a transfer schedule the return, and make it when its time has come.
FccPolicy(f, s) ==
    LET g == [f EXCEPT !.restore = NotScheduled] IN
    CASE s.alive /\ RaiseDue(f, s) -> Settled(g, Raised, TRUE)
      [] s.alive /\ ~RaiseDue(f, s) -> {g}
      [] ~s.alive /\ f.raised /\ f.restore = NotScheduled -> {[f EXCEPT !.restore = Grace]}
      [] ~s.alive /\ f.raised /\ f.restore = 0 -> Settled(f, raw_for(f.boot), FALSE)
      [] OTHER -> {f}

\* One pass of the block, on the slower of the two clocks: a sample with a transfer or
\* none, below the gate or above, a critical fault, and a snapshot read or failed.
ChargeBlock ==
    \E s \in [alive : BOOLEAN, below : BOOLEAN, fault : BOOLEAN, read : BOOLEAN] :
       \E f \in IF s.read THEN Snapshot(fcc, s) ELSE {fcc} :
          /\ fcc' \in IF s.fault THEN {f} ELSE FccPolicy(f, s)
          /\ idle' = IF s.alive /\ ~s.fault THEN 0 ELSE idle
          /\ quiet' = (~s.alive /\ ~s.fault /\ (f.raised /\ f.restore = 0 => ~fcc'.raised))

-----------------------------------------------------------------------------
(* The timer.                                                              *)

\* The one-shot fires: read_gauge_if_due checks and takes its turn.
Fire ==
    /\ timer /\ tick = "idle"
    /\ timer' = FALSE
    /\ IF gauge_ready /\ device /\ gauge_due
       THEN tick' = "reading" /\ gauge_due' = FALSE
       ELSE tick' = "waiting" /\ UNCHANGED gauge_due
    /\ UNCHANGED <<lifetime, pump, charge_due, policy>>

ReadGauge ==
    /\ tick = "reading"
    /\ tick' = "waiting"
    /\ UNCHANGED <<lifetime, pump, timer, gauge_due, charge_due, policy>>

\* Mutant of Rearmed: a tick that cannot read the status does not re-arm.
Rearmed_answered(status) == pump /\ status /\ device

\* The tick re-arms the timer on every path but two: without a pump, and at the end of
\* a tick that read the status and finds DEVICE null.
Rearmed(status) == pump /\ (status => device)

\* The tick under the mutex.
Handle ==
    /\ tick = "waiting"
    /\ tick' = "idle"
    /\ \E status \in BOOLEAN :
          /\ timer' = (timer \/ Rearmed(status))
          /\ IF pump /\ status /\ device /\ charge_due
             THEN ChargeBlock /\ charge_due' = FALSE
             ELSE UNCHANGED <<charge_due, policy>>
    /\ UNCHANGED <<lifetime, pump, gauge_due>>

-----------------------------------------------------------------------------
(* PnP.                                                                    *)

\* evt_device_add creates the timer and is the only one to set DEVICE.
DeviceAdd ==
    /\ pnp = "removed"
    /\ pnp' = "stopped" /\ device' = TRUE
    /\ UNCHANGED <<gauge_ready, attached, request, pump, timer, tick, gauge_due, charge_due, policy>>

\* evt_prepare_hardware without a resource, a bus or a configured chip: the framework
\* releases the device.
PrepareFails ==
    /\ pnp = "stopped"
    /\ pnp' = "failed"
    /\ UNCHANGED <<device, gauge_ready, attached, request, pump, timer, tick, gauge_due, charge_due, policy>>

\* A chip that does not identify itself: success without a pump or a timer.
PrepareBlind ==
    /\ pnp = "stopped"
    /\ pnp' = "prepared"
    /\ UNCHANGED <<device, gauge_ready, attached, request, pump, timer, tick, gauge_due, charge_due, policy>>

\* battery::initialize and sysreq::acquire do nothing the second time, and may be
\* refused; the battery may not be wanted.
initialize == attached' \in {attached, TRUE}
acquire == request' \in {request, TRUE}
unload == attached' = FALSE
release == request' = FALSE

Prepare ==
    /\ pnp = "stopped"
    /\ pnp' = "prepared"
    /\ pump' = TRUE /\ timer' = TRUE /\ gauge_ready' = TRUE
    /\ initialize /\ acquire
    /\ UNCHANGED <<device, tick, gauge_due, charge_due, policy>>

\* The first half of evt_release_hardware, before the mutex.
ReleaseBegins ==
    /\ pnp \in {"prepared", "failed"}
    /\ pnp' = "releasing" /\ gauge_ready' = FALSE
    /\ UNCHANGED <<device, attached, request, pump, timer, tick, gauge_due, charge_due, policy>>

\* Mutant of Release: the timer is stopped before the mutex is taken, that is before
\* a handler that holds it arms the timer again.
Release_early_stop ==
    /\ pnp = "releasing"
    /\ pnp' = "stopped" /\ device' = FALSE /\ pump' = FALSE
    /\ timer' \in {FALSE, timer}
    /\ unload /\ release
    /\ UNCHANGED <<gauge_ready, tick, gauge_due, charge_due, policy>>

\* The rest of it, under the mutex: WdfTimerStop does not wait for a handler.
Release ==
    /\ pnp = "releasing"
    /\ pnp' = "stopped" /\ device' = FALSE /\ pump' = FALSE
    /\ timer' = FALSE
    /\ unload /\ release
    /\ UNCHANGED <<gauge_ready, tick, gauge_due, charge_due, policy>>

\* The framework deletes the device, and with it the timer, once its handler is done; the
\* image unloads with its last device.  The register stays as it is, the statics go.
Remove ==
    /\ pnp = "stopped" /\ tick = "idle"
    /\ pnp' = "removed"
    /\ fcc' = Loaded(fcc.reg, fcc.spoilt \/ fcc.lost \/ fcc.raised)
    /\ gauge_due' = TRUE /\ charge_due' = TRUE
    /\ UNCHANGED <<device, gauge_ready, attached, request, pump, timer, tick, idle, quiet>>

Pass ==
    /\ gauge_due' = TRUE /\ charge_due' = TRUE
    /\ fcc' = [fcc EXCEPT !.restore = IF @ \in 1..Grace THEN @ - 1 ELSE @]
    /\ idle' = Lesser(idle + 1, Grace)
    /\ UNCHANGED <<lifetime, pump, timer, tick, quiet>>

Init ==
    /\ pnp = "removed"
    /\ device = FALSE /\ gauge_ready = FALSE /\ pump = FALSE /\ timer = FALSE
    /\ attached = FALSE /\ request = FALSE
    /\ tick = "idle" /\ gauge_due = TRUE /\ charge_due = TRUE
    /\ fcc = Loaded(Factory, FALSE)
    /\ idle = Grace /\ quiet = FALSE

Timer == Fire \/ ReadGauge \/ Handle
PnP == DeviceAdd \/ PrepareFails \/ PrepareBlind \/ Prepare \/ ReleaseBegins \/ Release \/ Remove
Next == Timer \/ PnP \/ Pass

\* The timer fires, its handler returns, and time passes.
Fairness == WF_vars(Timer) /\ WF_vars(Pass)

Spec == Init /\ [][Next]_vars /\ Fairness

-----------------------------------------------------------------------------
\* The type invariant.  No value above FCC_WRITE_MAX_UA reaches the register, and the
\* policy raises and the probe writes only after a value to return has been captured.
TypeOK ==
    /\ pnp \in {"removed", "stopped", "failed", "prepared", "releasing"}
    /\ tick \in {"idle", "reading", "waiting"}
    /\ {device, gauge_ready, pump, timer, attached, request, gauge_due, charge_due, quiet} \subseteq BOOLEAN
    /\ fcc \in [reg : {Factory, ProbeRaw, Raised}, boot : {NotCaptured, Factory, ProbeRaw, Raised},
                raised : BOOLEAN, restore : 0..NotScheduled, probed : BOOLEAN,
                found : {Factory, ProbeRaw, Raised}, lost : BOOLEAN, spoilt : BOOLEAN]
    /\ idle \in 0..Grace
    /\ fcc.reg <= WriteMax
    /\ fcc.raised \/ fcc.probed => fcc.boot # NotCaptured

\* A released device is quiet: however its handler and the release were interleaved,
\* no timer is armed, and neither the class nor the power request outlives it.
ReleasedIsQuiet ==
    pnp \in {"removed", "stopped"} => ~timer /\ ~pump /\ ~attached /\ ~request /\ ~gauge_ready

\* As long as this load of the image lost no write, fcc_raised says exactly what the PMIC
\* holds, the raise or what the load found, over the probe, refused and failed writes and
\* releases in between; and what it found is the firmware's value, unless an earlier load
\* lost a write or was unloaded over a raise, which release does not return.
RecordMatchesPmic ==
    /\ ~fcc.lost => fcc.reg = IF fcc.raised THEN Raised ELSE fcc.found
    /\ ~fcc.spoilt => fcc.found = Factory

\* The PMIC's raise is not taken back within the grace of the last transfer the policy
\* saw, in whatever order transfers, gaps, faults and unloads come.
GraceIsKept ==
    [][fcc.raised /\ fcc'.reg # fcc.reg => idle = Grace]_vars

\* A charge that has ended hands the register back: once the passes see no transfer, no
\* fault and a bus that answers, the raise is taken back.
RaiseIsTakenBack ==
    <>[]quiet /\ []<>charge_due /\ []<>~charge_due => <>[]~fcc.raised

\* A prepared device that has its DEVICE is polled for ever, through failed status reads,
\* handlers that return without re-arming, and releases and unloads that came before.
TelemetryKeepsRunning ==
    <>[](gauge_ready /\ device) => []<>(tick = "reading")

\* What the comments say of a prepared device: "The hardware is ready: from this tick
\* the counter may be polled".
PreparedIsPolled ==
    <>[]gauge_ready => []<>(tick = "reading")
=============================================================================
