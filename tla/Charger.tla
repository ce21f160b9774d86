------------------------------ MODULE Charger ------------------------------
(***************************************************************************)
(* The SMB charger session of crates/core (driver.rs) as crates/host runs  *)
(* it (runner.rs).  A call of the session is a sequence of register        *)
(* accesses; each access is a step of its own, so the adapter, the         *)
(* hardware detection (APSD) and the link may change between any two.      *)
(* Currents are in steps of 100 mA above 100 mA, the code of               *)
(* USBIN_CURRENT_LIMIT_CFG; times are in polls of the runner.              *)
(***************************************************************************)
EXTENDS Integers, Sequences

CONSTANTS
  Bricks,              \* what may be plugged in: patterns of APSD_RESULT_STATUS
  BootIcl,             \* what the limit register holds before the first session
  DetectTimeout,       \* detect_timeout_ms, in polls
  MaxReruns,           \* max_detect_reruns
  MaxTransportRetries, \* max_transport_retries
  MaxSteps,            \* the fuse of run_until_ready
  CallbackErrs         \* may the host's on_adapter callback return an error

None == "none"
NotStarted == -1   \* detect_started_ms is None
Qc == {"hvdcp2", "hvdcp3"}
Patterns == {"zero", "sdp", "ocp", "cdp", "dcp", "float", "hvdcp2", "hvdcp3"}
Adapters == (Patterns \ {"zero"}) \cup {"unknown"}

ASSUME ChargerAssumption ==
  /\ Bricks \subseteq (Patterns \ {"zero"}) \cup {"bad"}
  /\ BootIcl \in 0 .. 31
  /\ {DetectTimeout, MaxReruns, MaxTransportRetries, MaxSteps} \subseteq Nat
  /\ CallbackErrs \in BOOLEAN

\* The fuse outlasts a detection: by default 1000 steps of 20 ms against a timeout
\* of 3 s and 2 reruns (runner.rs:22, driver.rs:77).
ASSUME FuseAssumption == MaxSteps > DetectTimeout + MaxReruns

VARIABLES
  chip,     \* what APSD_STATUS and APSD_RESULT_STATUS would show now
  regs,     \* USBIN_CURRENT_LIMIT_CFG, CMD_ICL_OVERRIDE, HVDCP_PULSE_COUNT_MAX
  state, adapter, age, reruns,  \* the session; age is now - detect_started_ms
  call,     \* the session's method being run, or None
  todo,     \* the register accesses it still has to make
  attempt,  \* failed attempts of the access at hand
  status,   \* the APSD_STATUS the call has read
  run,      \* where the host is in run_until_ready or monitor_cycle
  steps,    \* steps of run_until_ready
  ret,      \* what the host's last run returned
  reported, \* whose limit the last successful apply or close reported written
  moved     \* did the adapter change since the last detect_step or monitor began

env == <<chip, moved>>
session == <<state, adapter, age, reruns>>
io == <<call, todo, attempt, status>>
host == <<run, steps, ret>>
vars == <<env, regs, session, io, host, reported>>

-----------------------------------------------------------------------------
(* Policy and encoding. *)

ICL_SDP == 4       \* 500 mA
ICL_DCP == 14      \* 1.5 A, CDP and HVDCP2 too
ICL_HVDCP3 == 29   \* 3 A
ICL_RAW_MAX == 31
SAFE_ICL == 0      \* 100 mA

policy_for(a) ==
  [icl |-> CASE a = "sdp" -> ICL_SDP
             [] a \in {"cdp", "dcp", "hvdcp2"} -> ICL_DCP
             [] a = "hvdcp3" -> ICL_HVDCP3
             [] OTHER -> SAFE_ICL,
   qc2 |-> IF a \in Qc THEN "9V" ELSE None]

\* quantize_down and encode on the default grid, max_icl_ua above it.
quantize_down(icl) == IF icl > ICL_RAW_MAX THEN ICL_RAW_MAX ELSE icl

from_pattern(p) == IF p = "zero" THEN "unknown" ELSE p

\* Mutant of decode: the Quick Charge bit is not looked at.
decode_unrefined(st, pattern) ==
  IF ~st.done THEN "not_complete"
  ELSE IF st.unstable THEN "check_timeout"
  ELSE IF pattern = "bad" THEN "unknown_pattern"
  ELSE from_pattern(pattern)

\* The adapter two registers name, or why they name none.
decode(st, pattern) ==
  IF ~st.done THEN "not_complete"
  ELSE IF st.unstable THEN "check_timeout"
  ELSE IF pattern = "bad" THEN "unknown_pattern"
  ELSE IF st.qc /\ pattern # "hvdcp3" THEN "hvdcp2"
  ELSE from_pattern(pattern)

-----------------------------------------------------------------------------
(* The charger chip, and the cable in it. *)

Off == [brick |-> None, done |-> FALSE, unstable |-> FALSE, qc |-> FALSE, pattern |-> "zero"]

\* A Quick Charge brick shows as a DCP to the first stage of the detection:
\* a chip may leave that pattern beside the QC bit (hvdcp2).
Detected(b, u) ==
  [brick |-> b, done |-> TRUE, unstable |-> u, qc |-> b \in Qc,
   pattern |-> IF b = "hvdcp2" THEN "dcp" ELSE b]

Plug(b) ==
  /\ chip.brick = None
  /\ chip' = [Off EXCEPT !.brick = b]
  /\ moved' = TRUE
  /\ UNCHANGED <<regs, session, io, host, reported>>

Unplug ==
  /\ chip.brick # None
  /\ chip' = Off
  /\ moved' = TRUE
  /\ UNCHANGED <<regs, session, io, host, reported>>

\* The hardware completes its detection; the HVDCP check may time out.
Apsd ==
  /\ chip.brick # None /\ ~chip.done
  /\ \E u \in {FALSE, chip.brick \in Qc} : chip' = Detected(chip.brick, u)
  /\ UNCHANGED <<moved, regs, session, io, host, reported>>

-----------------------------------------------------------------------------
(* Register accesses. *)

\* Mutant of write_reg: the value is not read back.
write_reg_unverified(r, v) == <<[do |-> "write", reg |-> r, value |-> v]>>

Read(r) == <<[do |-> "read", reg |-> r, value |-> None]>>
write_reg(r, v) == <<[do |-> "write", reg |-> r, value |-> v],
                     [do |-> "verify", reg |-> r, value |-> v]>>
\* The other bits of the register are not told apart: the read may only fail.
update_reg(r, v) == Read(r) \o write_reg(r, v)

\* The writes of apply(a).
apply_writes(a) ==
  LET policy == policy_for(a)
  IN write_reg("icl", quantize_down(policy.icl))
     \o update_reg("override", TRUE)
     \o IF policy.qc2 = None THEN <<>> ELSE update_reg("pulse_max", policy.qc2)

\* What a write does to the chip: a rerun restarts the detection.
Landed(a) ==
  IF a.reg = "cmd_apsd"
  THEN chip' = [Off EXCEPT !.brick = chip.brick] /\ UNCHANGED regs
  ELSE regs' = [regs EXCEPT ![a.reg] = a.value] /\ UNCHANGED chip

Begin(c, accesses) ==
  /\ call' = c /\ todo' = accesses /\ attempt' = 0
  /\ UNCHANGED status

\* Its local variables end with it.
Done == call' = None /\ todo' = <<>> /\ attempt' = 0 /\ status' = Off

\* The accesses of the call go on, with those of `more` behind them.
Continue(more) ==
  /\ todo' = Tail(todo) \o more /\ attempt' = 0
  /\ UNCHANGED call

\* The host's run ends.
Returns(r) == run' = None /\ ret' = r /\ steps' = 0

\* fail(): every error but those of probe and close faults the session; the
\* host's `?` hands it to its caller.
Fails ==
  /\ Done
  /\ state' = CASE call \in {"open", "close"} -> "closed"
                [] call = "reinit" -> state
                [] OTHER -> "faulted"
  /\ IF run = None THEN UNCHANGED host ELSE Returns("error")
  /\ UNCHANGED <<adapter, age, reruns, reported>>

Busy == call # None /\ todo # <<>>

\* A read or a read-back that the link answers.  A dead link may answer with
\* all bits set: probe knows it, the other calls take it for a status.
ReadStatus ==
  /\ Busy /\ Head(todo).do = "read" /\ Head(todo).reg = "status"
  /\ \E st \in {chip, [chip EXCEPT !.done = TRUE, !.unstable = TRUE, !.qc = TRUE]} :
       IF st # chip /\ call \in {"open", "reinit"}
       THEN Fails
       ELSE /\ status' = [st EXCEPT !.pattern = "zero"]
            /\ Continue(IF st.done /\ call \in {"detect", "monitor"} THEN Read("result") ELSE <<>>)
            /\ UNCHANGED <<session, host, reported>>
  /\ UNCHANGED <<env, regs>>

ReadOther ==
  /\ Busy /\ Head(todo).do = "read" /\ Head(todo).reg # "status"
  /\ status' = IF Head(todo).reg = "result" THEN [status EXCEPT !.pattern = chip.pattern] ELSE status
  /\ Continue(<<>>)
  /\ UNCHANGED <<env, regs, session, host, reported>>

\* A write the link accepts; the chip may still not take the value.
Write ==
  /\ Busy /\ Head(todo).do = "write"
  /\ Landed(Head(todo)) \/ UNCHANGED <<chip, regs>>
  /\ Continue(<<>>)
  /\ UNCHANGED <<status, moved, session, host, reported>>

\* The command bit of a rerun may read back either way.
ReadsBack(a) == IF a.reg = "cmd_apsd" THEN BOOLEAN ELSE {regs[a.reg] = a.value}

\* verify: the value that did not take is an error.
Verify ==
  /\ Busy /\ Head(todo).do = "verify"
  /\ \E match \in ReadsBack(Head(todo)) :
       IF match THEN Continue(<<>>) /\ UNCHANGED <<status, session, host, reported>>
       ELSE Fails
  /\ UNCHANGED <<env, regs>>

\* An access that errs: a write may have reached the chip all the same.
Errs ==
  /\ \/ Head(todo).do = "write" /\ Landed(Head(todo))
     \/ UNCHANGED <<chip, regs>>
  /\ UNCHANGED moved

\* Mutant of Retry: the attempts are not counted against the limit.
Retry_unbounded ==
  /\ Busy
  /\ Errs
  /\ attempt' = attempt + 1
  /\ UNCHANGED <<call, todo, status, session, host, reported>>

\* recover: a recoverable error, a reset that works, the access again.
Retry ==
  /\ Busy
  /\ attempt < MaxTransportRetries
  /\ Errs
  /\ attempt' = attempt + 1
  /\ UNCHANGED <<call, todo, status, session, host, reported>>

\* Another error, a reset that fails, or no attempt left.
GiveUp ==
  /\ Busy
  /\ Errs
  /\ Fails

-----------------------------------------------------------------------------
(* The session's methods. *)

AtRest == call = None /\ run = None

\* open: the result of the reset is only logged.
Open ==
  /\ AtRest /\ state = "closed"
  /\ adapter' = None /\ age' = NotStarted /\ reruns' = 0
  /\ ret' = None
  /\ Begin("open", Read("status"))
  /\ UNCHANGED <<env, regs, state, run, steps, reported>>

\* reinit: a reset that fails faults the session; one that works makes it
\* idle before the link is probed.
Reinit ==
  /\ AtRest /\ state # "closed"
  /\ ret' = None
  /\ \/ /\ state' = "faulted"
        /\ UNCHANGED <<adapter, age, reruns, io>>
     \/ /\ adapter' = None /\ age' = NotStarted /\ reruns' = 0
        /\ state' = "idle"
        /\ Begin("reinit", Read("status"))
  /\ UNCHANGED <<env, regs, run, steps, reported>>

\* close, from Drop too.
Close ==
  /\ AtRest /\ state # "closed"
  /\ ret' = None /\ reported' = None
  /\ Begin("close", write_reg("icl", SAFE_ICL))
  /\ UNCHANGED <<env, regs, session, run, steps>>

\* The loop of run_until_ready up to the first read of detect_step, or the
\* end by its fuse.  Only a step that starts the clock moves the session to
\* Detecting.
DetectStep ==
  /\ run = "detect" /\ call = None
  /\ IF steps = MaxSteps
     THEN Returns("fuse") /\ UNCHANGED <<moved, session, io>>
     ELSE /\ steps' = steps + 1
          /\ age' = IF age = NotStarted THEN 0 ELSE age
          /\ state' = IF age = NotStarted THEN "detecting" ELSE state
          /\ moved' = FALSE
          /\ Begin("detect", Read("status"))
          /\ UNCHANGED <<adapter, reruns, run, ret>>
  /\ UNCHANGED <<chip, regs, reported>>

Pending ==
  /\ Done
  /\ run' = "sleep"
  /\ UNCHANGED <<steps, ret, session, reported>>

\* Mutant of retry_detection: the reruns are not counted.
retry_detection_uncounted ==
  /\ call' = "rerun" /\ todo' = update_reg("cmd_apsd", TRUE) /\ attempt' = 0
  /\ status' = Off
  /\ UNCHANGED <<state, adapter, age, reruns, host, reported>>

\* The detection is started again, the clock is not.
retry_detection ==
  /\ reruns' = reruns + 1
  /\ call' = "rerun" /\ todo' = update_reg("cmd_apsd", TRUE) /\ attempt' = 0
  /\ status' = Off
  /\ UNCHANGED <<state, adapter, age, host, reported>>

\* detect_step from its reads on; on_adapter may stop the host before apply.
StepDetected ==
  /\ call = "detect" /\ todo = <<>>
  /\ LET d == decode(status, status.pattern) IN
     \/ /\ d \in Adapters
        /\ Done
        /\ adapter' = d /\ state' = "ready"
        /\ (run' = "apply" /\ UNCHANGED <<steps, ret>>) \/ (CallbackErrs /\ Returns("error"))
        /\ UNCHANGED <<age, reruns, reported>>
     \/ /\ d = "not_complete" /\ age < DetectTimeout
        /\ Pending
     \/ /\ (d = "not_complete" /\ age >= DetectTimeout) \/ d = "check_timeout"
        /\ IF reruns >= MaxReruns THEN Fails ELSE retry_detection
     \/ /\ d = "unknown_pattern"
        /\ Fails
  /\ UNCHANGED <<env, regs>>

Rerun ==
  /\ call = "rerun" /\ todo = <<>>
  /\ Pending
  /\ UNCHANGED <<env, regs>>

Apply ==
  /\ run = "apply" /\ call = None
  /\ reported' = None
  /\ Begin("apply", apply_writes(adapter))
  /\ UNCHANGED <<env, regs, session, host>>

Applied ==
  /\ call = "apply" /\ todo = <<>>
  /\ Done
  /\ state' = "ready" /\ reported' = adapter
  /\ Returns("ok")
  /\ UNCHANGED <<env, regs, adapter, age, reruns>>

\* monitor from its reads on: state is left as it is.
Monitored ==
  /\ call = "monitor" /\ todo = <<>>
  /\ LET d == decode(status, status.pattern) IN
     \/ /\ d = "not_complete"
        /\ Done /\ adapter' = None /\ Returns("detached")
        /\ UNCHANGED <<state, age, reruns, reported>>
     \/ /\ d \in Adapters
        /\ Done /\ adapter' = d
        /\ IF d = adapter THEN Returns("unchanged")
           ELSE run' = "apply" /\ UNCHANGED <<steps, ret>>
        /\ UNCHANGED <<state, age, reruns, reported>>
     \/ /\ d \in {"check_timeout", "unknown_pattern"}
        /\ Fails
  /\ UNCHANGED <<env, regs>>

\* open, reinit and close when every access went through.
Settled ==
  /\ call \in {"open", "reinit", "close"} /\ todo = <<>>
  /\ Done
  /\ state' = IF call = "close" THEN "closed" ELSE "idle"
  /\ reported' = IF call = "close" THEN "safe" ELSE reported
  /\ UNCHANGED <<env, regs, adapter, age, reruns, host>>

-----------------------------------------------------------------------------
(* The host. *)

\* run_until_ready and monitor_cycle on an open session; on a closed one both
\* return NotOpen at once.
RunUntilReady ==
  /\ AtRest /\ state # "closed"
  /\ run' = "detect" /\ steps' = 0 /\ ret' = None
  /\ UNCHANGED <<env, regs, session, io, reported>>

MonitorCycle ==
  /\ AtRest /\ state # "closed"
  /\ run' = "monitor" /\ ret' = None
  /\ moved' = FALSE
  /\ Begin("monitor", Read("status"))
  /\ UNCHANGED <<chip, regs, session, steps, reported>>

\* A poll interval passes, between two detection steps or between two runs.
Elapse ==
  /\ call = None /\ run \in {None, "sleep"}
  /\ run = "sleep" \/ age \notin {NotStarted, DetectTimeout}
  /\ age' = IF age \in {NotStarted, DetectTimeout} THEN age ELSE age + 1
  /\ run' = IF run = "sleep" THEN "detect" ELSE run
  /\ UNCHANGED <<env, regs, state, adapter, reruns, io, steps, ret, reported>>

-----------------------------------------------------------------------------

Init ==
  /\ chip \in {Off} \cup {Detected(b, FALSE) : b \in Bricks}
  /\ regs = [icl |-> BootIcl, override |-> FALSE, pulse_max |-> "5V"]
  /\ state = "closed" /\ adapter = None /\ age = NotStarted /\ reruns = 0
  /\ call = None /\ todo = <<>> /\ attempt = 0 /\ status = Off
  /\ run = None /\ steps = 0 /\ ret = None
  /\ reported = None
  /\ moved = FALSE

Environment == (\E b \in Bricks : Plug(b)) \/ Unplug \/ Apsd
Access == ReadStatus \/ ReadOther \/ Write \/ Verify \/ Retry \/ GiveUp
Return == StepDetected \/ Rerun \/ Applied \/ Monitored \/ Settled
Choose == Open \/ Reinit \/ Close \/ RunUntilReady \/ MonitorCycle
Host == DetectStep \/ Apply

Next == Environment \/ Access \/ Return \/ Choose \/ Host \/ Elapse

\* A call runs to its end and a run goes on: both are one thread's code.
\* sleep() returns.  Nobody has to plug anything in or to call anything.
Fairness == WF_vars(Access \/ Return \/ Host) /\ WF_vars(run = "sleep" /\ Elapse)

Spec == Init /\ [][Next]_vars /\ Fairness

-----------------------------------------------------------------------------
(* Properties. *)

\* The shape of the state, with the bounds the code's counters have: reruns
\* and transport attempts never pass their configured limits.
TypeOK ==
  /\ regs \in [icl : 0 .. ICL_RAW_MAX, override : BOOLEAN, pulse_max : {"5V", "9V"}]
  /\ state \in {"closed", "idle", "detecting", "ready", "faulted"}
  /\ adapter \in Adapters \cup {None}
  /\ age \in {NotStarted} \cup 0 .. DetectTimeout
  /\ reruns \in 0 .. MaxReruns
  /\ attempt \in 0 .. MaxTransportRetries
  /\ Len(todo) <= 8
  /\ run \in {None, "detect", "sleep", "apply", "monitor"}
  /\ steps \in 0 .. MaxSteps
  /\ reported \in Adapters \cup {None, "safe"}

\* What apply (driver.rs:421) and close (driver.rs:564) report as written is in
\* the registers, whatever writes the link lost, repeated or the chip ignored,
\* until the next of them begins: the limit and its override, and nine volts
\* for Quick Charge.
ReportedLimitHolds ==
  /\ reported = "safe" => regs.icl = SAFE_ICL
  /\ reported \in Adapters =>
       /\ regs.icl = policy_for(reported).icl
       /\ regs.override
       /\ reported \in Qc => regs.pulse_max = "9V"

\* A session that rests in Ready names the brick in the port, unless the cable
\* moved since the last poll began: no retry, rerun, failed poll or stale
\* adapter field makes it another (apsd.rs:116, driver.rs:330, driver.rs:488).
ReadyNamesTheBrick ==
  (AtRest /\ state = "ready" /\ adapter # None /\ ~moved) => adapter = chip.brick

\* run_until_ready and monitor_cycle return, and detection ends by its own
\* timeout and rerun budget, never by the runner's fuse, while the link errs
\* and the adapter comes, goes and stays unstable as it likes (driver.rs:367).
RunsEnd == (run # None) ~> (run = None /\ ret # "fuse")

\* runner.rs:85 says monitor_cycle "reapplies the policy when the adapter
\* changes": a cycle that finds nothing to do leaves no limit in force above
\* what the policy gives the adapter that is in the port.
MonitorReapplies ==
  (AtRest /\ ret = "unchanged" /\ adapter = chip.brick /\ regs.override)
    => regs.icl <= policy_for(adapter).icl
=============================================================================
