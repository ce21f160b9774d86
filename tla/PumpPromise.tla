---------------------------- MODULE PumpPromise ----------------------------
(***************************************************************************)
(* What a session with the charge pump promises its callers, without the   *)
(* register sequences of PumpOps: which mode may be commanded at which     *)
(* input, which input-current setpoints may be left in the chip, and what  *)
(* a call that failed may leave behind.  Module Pump implements it; module *)
(* ChargeTick is built on it.                                              *)
(***************************************************************************)
EXTENDS Encoding

CONSTANTS Vins, Vbats,        \* what the ADC may measure, microvolts
          IinLimits,          \* currents a caller may ask for
          ProfileIin,         \* PumpConfig::iin_limit_ua
          PorIin              \* IIN_CTRL after a power-on reset of the chip

VARIABLES chip,               \* ctrl, iin: registers; cfg_iin: the configured limit;
                              \* bus_ok: no bus access of the last call failed
          vin, vbat           \* what the ADC measures

pvars == <<chip, vin, vbat>>

\* Outcomes of a call: the chip afterwards and whether it returned Ok.
Outcome(c, ok) == [c |-> c, ok |-> ok]
Dirty(c) == [c EXCEPT !.bus_ok = FALSE]
Taper(c) == encode_iin_limit(Lesser(c.cfg_iin, VBAT_TAPER_IIN_UA))
Profile(c) == encode_iin_limit(c.cfg_iin)

\* A register write: done, or a bus failure before or after it reached the chip.
Written(c, d) ==
    {Outcome(d, TRUE), Outcome(Dirty(c), FALSE), Outcome(Dirty(d), FALSE)}

SetIin(c, ua) ==
    IF encode_iin_limit(ua) = NoValue THEN {Outcome(c, FALSE)}
    ELSE {IF o.ok THEN Outcome([o.c EXCEPT !.cfg_iin = ua], TRUE) ELSE o
          : o \in Written(c, [c EXCEPT !.iin = encode_iin_limit(ua)])}

Idle(c) == Written(c, [c EXCEPT !.ctrl = "Standby"])

\* The chip c with one of the modes and one of the setpoints.
Leaving(c, modes, iins) ==
    [ctrl : modes, iin : iins, cfg_iin : {c.cfg_iin}, bus_ok : {c.bus_ok}]

\* 1:1 is commanded in the bypass window only; the chip may still refuse it.
Bypass(c, v) ==
    [c : {c, Dirty(c)}, ok : {FALSE}] \cup
    IF ~bypass_allowed_by_vin(v, 0) THEN {}
    ELSE [c : Leaving(c, {"Bypass"}, {c.iin}) \cup Leaving(Dirty(c), {"Bypass"}, {c.iin}),
          ok : BOOLEAN]

\* A start without a bus failure ends in the admitted mode, or idle if 2:1 was
\* refused, or with 1:1 commanded if 1:1 was refused.
CleanStart(c, v, b) ==
    LET mode == charge_mode(v, b)
        After(m, iins, ok) == [c : Leaving(c, {m}, iins), ok : {ok}]
    IN  IF mode = "Switching"
        THEN After("Switching", {c.iin, Taper(c)}, TRUE)
             \cup After("Standby", {c.iin, Taper(c)}, FALSE)
        ELSE IF mode = "Bypass"
        THEN After("Bypass", {c.iin, Profile(c), Taper(c)}, TRUE)
             \cup After("Bypass", {c.iin, Profile(c)}, FALSE)
        ELSE After("Standby", {c.iin}, FALSE)

\* A start that met a bus failure may be anywhere the input allows, but never in
\* 1:1 on a raised input nor in 2:1 on a five-volt one.
DirtyStart(c, v) ==
    LET modes == {c.ctrl, "Standby"}
                 \cup (IF v >= ELEVATED_MIN_VIN_UV THEN {"Switching"} ELSE {})
                 \cup (IF bypass_allowed_by_vin(v, 0) THEN {"Bypass"} ELSE {})
    IN  [c : Leaving(Dirty(c), modes, {c.iin, Profile(c), Taper(c), PorIin}), ok : BOOLEAN]

Start(c, v, b) == CleanStart(c, v, b) \cup DirtyStart(c, v)

\* Configuring ends idle with the configured limit.
Setup(c) ==
    [c : Leaving(c, {"Standby"}, {Profile(c)}), ok : {TRUE}] \cup
    [c : Leaving(Dirty(c), {c.ctrl, "Standby"}, {c.iin, Profile(c)}), ok : {FALSE}]

\* A power-on reset ends idle with the chip's own limit.
Reset(c) ==
    [c : {Dirty(c)} \cup Leaving(c, {"Standby"}, {PorIin})
                    \cup Leaving(Dirty(c), {"Standby"}, {PorIin}),
     ok : BOOLEAN]

\* Commanding 2:1 directly is not gated by the input: SET_MODE trusts its caller.
Force21(c) ==
    [c : {Dirty(c)}, ok : {FALSE}] \cup
    [c : Leaving(c, {"Switching"}, {c.iin}) \cup Leaving(Dirty(c), {"Switching"}, {c.iin}),
     ok : BOOLEAN]

NewSession(c) == {Outcome([c EXCEPT !.cfg_iin = ProfileIin], TRUE), Outcome(c, FALSE)}

-----------------------------------------------------------------------------
Init ==
    /\ chip = [ctrl |-> "Standby", iin |-> PorIin, cfg_iin |-> ProfileIin, bus_ok |-> TRUE]
    /\ vin \in Vins /\ vbat \in Vbats

Fresh == [chip EXCEPT !.bus_ok = TRUE]

Answer(outs) == \E o \in outs : chip' = o.c

\* Opening, idling, clearing faults, and writing a limit.
Adjust ==
    \/ Answer(Idle(Fresh))
    \/ Answer({Outcome(Fresh, TRUE), Outcome(Dirty(Fresh), FALSE)})
    \/ Answer(NewSession(Fresh))
    \/ \E ua \in IinLimits : Answer(SetIin(Fresh, ua))

Call ==
    /\ \/ Adjust
       \/ Answer(Setup(Fresh)) \/ Answer(Reset(Fresh)) \/ Answer(Force21(Fresh))
       \/ Answer(Bypass(Fresh, vin)) \/ Answer(Start(Fresh, vin, vbat))
    /\ UNCHANGED <<vin, vbat>>

Input == vin' \in Vins /\ vbat' \in Vbats /\ UNCHANGED chip

Next == Call \/ Input

Spec == Init /\ [][Next]_pvars
=============================================================================
