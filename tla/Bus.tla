-------------------------------- MODULE Bus --------------------------------
(***************************************************************************)
(* The I/O requests of crates/ln8000-kmdf: SpbBus with its one cached      *)
(* request, SuperuserBus with a request for each transfer and one of the   *)
(* few slots of \Device\Spmi\SUPERUSER (spb.rs), and evt_prepare_hardware, *)
(* which tries the routes and request layouts one after the other before   *)
(* it hands one of them to the pump (lib.rs).                              *)
(*                                                                         *)
(* All of it runs under the state mutex, one exchange a step; beside it    *)
(* only the I/O target acts, which completes a request it was left with    *)
(* whenever it likes.  The gauge read that runs outside the mutex uses     *)
(* SuperuserBus alone, its interleaving is in Device.                      *)
(***************************************************************************)
EXTENDS Integers, SequencesExt

CONSTANTS
  LastVariant, \* request layouts 0 .. LastVariant are tried in order, 5
  Terminated,  \* VARIANT_TERMINATED, the one with an entry more
  Candidates,  \* how many neighbouring resource nodes are probed
  NamedProbes, \* how often \Device\Spmi\SUPERUSER is opened by name
  Parts,       \* how many registers a reader of charge registers reads
  Resources    \* the connections _CRS may declare, in order

Variants == 0 .. LastVariant

ASSUME BusAssumption ==
  /\ {LastVariant, Candidates, NamedProbes, Parts} \subseteq Nat
  /\ Terminated \in Variants
  /\ Resources \subseteq Seq({"i2c", "spi", "spmi", "other"})

None == "none"
Untried == -1

VARIABLES
  phase,                 \* stopped, preparing, prepared
  script,                \* what the code under the mutex has still to do
  bus,                   \* the SpbBus of the parent, of the hub, and of a passing probe
  working, hub_working,  \* the first layout each route answered with the identifier
  pump,                  \* the bus Pump was opened on, or None
  su                     \* SuperuserBus: its slot, and a request left with the target

vars == <<phase, script, bus, working, hub_working, pump, su>>

-----------------------------------------------------------------------------
(* One SpbBus: variant, request_lost, what the transfer area declares, what *)
(* the request is formatted for, and whether the target has it.             *)

Closed == [open |-> FALSE, variant |-> 0, lost |-> FALSE, held |-> FALSE,
           list |-> [reg |-> None, count |-> 0], format |-> None]
Opened == [Closed EXCEPT !.open = TRUE]

\* The transfers of a read or a write; a layout with a terminating entry
\* declares it, but not for a 16-bit address.
prepare_spmi16(b, s) == [reg |-> s.reg, count |-> IF s.write THEN 1 ELSE 2]
prepare(b, s) == [prepare_spmi16(b, s) EXCEPT !.count = IF b.variant = Terminated THEN @ + 1 ELSE @]

cached_request(b) == ~b.lost
send_failed(b, op) == [b EXCEPT !.lost = TRUE, !.held = TRUE, !.format = op]

\* The target refuses the format; completes the request, with a failure, the
\* identifier or another byte, and it is reused; or keeps it past the timeout.
Sent(b, op) ==
  {[bus |-> b, answer |-> a] : a \in {"protocol", "io", "id", "other"}}
    \cup {[bus |-> send_failed(b, op), answer |-> "timeout"]}
Refused(b) == {[bus |-> b, answer |-> "timeout"]}

\* Mutant of transact: cached_request is not asked.
transact_unasked(b, s) == Sent([b EXCEPT !.list = prepare(b, s)], s.do)

transact(b, s) ==
  IF cached_request(b) THEN Sent([b EXCEPT !.list = prepare(b, s)], s.do) ELSE Refused(b)
transact_spmi16(b, s) ==
  IF cached_request(b) THEN Sent([b EXCEPT !.list = prepare_spmi16(b, s)], s.do) ELSE Refused(b)

\* Requests without a transfer list.
attach(b) == IF cached_request(b) THEN Sent(b, "attach") ELSE Refused(b)
lock_connection(b) == IF cached_request(b) THEN Sent(b, "lock") ELSE Refused(b)
probe_ioctl(b) == IF cached_request(b) THEN Sent(b, "ioctl") ELSE Refused(b)

exchange(b, s) ==
  CASE s.do = "transact" -> transact([b EXCEPT !.variant = s.variant], s)
    [] s.do = "spmi16" -> transact_spmi16(b, s)
    [] s.do = "attach" -> attach(b)
    [] s.do = "lock" -> lock_connection(b)
    [] s.do = "ioctl" -> probe_ioctl(b)

-----------------------------------------------------------------------------
(* The script of evt_prepare_hardware.                                     *)

Do(d, b) == [do |-> d, on |-> b, reg |-> None, write |-> FALSE, variant |-> 0]
Read(b, v, r) == [Do("transact", b) EXCEPT !.reg = r, !.variant = v]
Times(n, s) == [i \in 1 .. n |-> s]
Cycled(n, steps) == [i \in 1 .. n * Len(steps) |-> steps[1 + ((i - 1) % Len(steps))]]

\* Every layout, even after one has answered.
TryVariants(b) == [i \in 1 .. LastVariant + 1 |-> Read(b, i - 1, "id")]

\* A request of their own to the parent, left where it is if the target keeps it.
parent_attach_probe == <<Do("open", "probe"), Do("attach", "probe"), Do("close", "probe")>>
parent_sequence_probe == <<Do("open", "probe"), Read("probe", 0, "id"), Do("close", "probe")>>

\* SpbBus::open on a neighbouring node, one read, and the bus is forgotten.
ScanNode == <<Do("scan", "probe"), Read("probe", 0, "id"), Do("close", "probe")>>

\* With a second connection in the resources: both byte orders.
probe_usbin_spmi == <<Do("open", "probe"), Do("spmi16", "probe"),
                [Do("spmi16", "probe") EXCEPT !.reg = "swapped"], Do("close", "probe")>>

\* The target is opened by name, with one access mask or another, and closed.
probe_named_target == <<Do("su_open", None), Do("su_close", None)>>

NamedProbing == Cycled(NamedProbes, probe_named_target)

\* The read goes out after a grant that failed, too.
probe_superuser_apsd ==
  <<Do("su_open", None), Do("su_try", None), Do("su_try", None), Do("su_close", None)>>

PrepareScript(usbin) ==
  parent_attach_probe \o parent_sequence_probe
  \o <<Do("attach", "parent")>> \o TryVariants("parent")
  \o <<Do("restore", "parent"), Do("lock", "parent"), Read("parent", 0, "id")>>
  \o <<Read("parent", 0, "reg00"), Read("parent", 0, "reg03"), Read("parent", 0, "reg31")>>
  \o Times(7, Do("ioctl", "parent"))
  \o <<Do("open", "hub")>> \o TryVariants("hub")
  \o Cycled(Candidates, ScanNode)
  \o NamedProbing \o probe_superuser_apsd
  \o (IF usbin THEN probe_usbin_spmi ELSE <<>>)
  \o <<Do("pump", None)>>

\* Each grant, read and write of SUPERUSER is one transfer.
SuTransfer == Do("su_io", None)

\* read_batt_soc_raw, read_charge_regs and write_fcc_raw: `?` after every step,
\* the slot goes back when the session is dropped.
SuSession(grants, transfers) ==
  <<Do("su_open", None)>> \o Times(grants + transfers, SuTransfer) \o <<Do("su_close", None)>>
Sessions == {SuSession(1, 2), SuSession(3, Parts)}

-----------------------------------------------------------------------------

Running == script # <<>>
Now == Head(script)
Rest == Tail(script)
ToClose == SubSeq(script, SelectInSeq(script, LAMBDA s : s.do = "su_close"), Len(script))

\* At most four connections are looked at.
collect_connections(resources) == SubSeq(resources, 1, Min({4, Len(resources)}))

\* The place of the first of a kind in kinds, 0 if there is none.
FirstOf(cs, kinds) == SelectInSeq(cs, LAMBDA c : c \in kinds)

select_i2c_connection(cs) ==
  IF FirstOf(cs, {"i2c"}) # 0 THEN FirstOf(cs, {"i2c"}) ELSE FirstOf(cs, {"spi"})

\* Is there another serial connection than the one selected?
select_usbin_connection(cs) ==
  \E i \in DOMAIN cs : i # select_i2c_connection(cs) /\ cs[i] # "other"

\* evt_prepare_hardware finds its connection; without it, or without the
\* parent's bus, the framework is told that the device is not ready.
Prepare ==
  /\ phase = "stopped"
  /\ phase' = "preparing"
  /\ \E resources \in Resources :
       LET cs == collect_connections(resources) IN
       /\ select_i2c_connection(cs) # 0
       /\ script' = PrepareScript(select_usbin_connection(cs))
  /\ bus' = [bus EXCEPT !["parent"] = Opened]
  /\ UNCHANGED <<working, hub_working, pump, su>>

\* SpbBus::open; the neighbours are only scanned once the hub has opened.
Open ==
  /\ Running /\ Now.do \in {"open", "scan"}
  /\ \E b \in {Opened, Closed} :
       bus' = [bus EXCEPT ![Now.on] = IF Now.do = "scan" /\ ~bus["hub"].open THEN Closed ELSE b]
  /\ script' = Rest
  /\ UNCHANGED <<phase, working, hub_working, pump, su>>

Close ==
  /\ Running /\ Now.do = "close"
  /\ bus' = [bus EXCEPT ![Now.on] = Closed]
  /\ script' = Rest
  /\ UNCHANGED <<phase, working, hub_working, pump, su>>

\* A read of the probing sets its layout first; the first layout that reads the identifier is kept.
First(w, r, v) == IF w = Untried /\ r.answer = "id" THEN v ELSE w

Exchange ==
  /\ Running /\ Now.do \in {"attach", "transact", "spmi16", "lock", "ioctl"}
  /\ script' = Rest
  /\ IF ~bus[Now.on].open THEN UNCHANGED <<bus, working, hub_working>>
     ELSE \E r \in exchange(bus[Now.on], Now) :
            /\ bus' = [bus EXCEPT ![Now.on] = r.bus]
            /\ working' = IF Now.on = "parent" /\ Now.reg = "id" THEN First(working, r, Now.variant) ELSE working
            /\ hub_working' = IF Now.on = "hub" THEN First(hub_working, r, Now.variant) ELSE hub_working
  /\ UNCHANGED <<phase, pump, su>>

\* The parent gets its working layout back, until its next read sets it to 0.
Restore ==
  /\ Running /\ Now.do = "restore"
  /\ bus' = [bus EXCEPT !["parent"].variant = IF working = Untried THEN @ ELSE working]
  /\ script' = Rest
  /\ UNCHANGED <<phase, working, hub_working, pump, su>>

PumpRoute == IF bus["hub"].open THEN "hub" ELSE "parent"

\* The pump gets its route's bus with the layout that worked on the hub, or 0; a chip
\* that is not identified leaves a prepared device without a pump.  The buses that are
\* not the pump's are forgotten.
PumpOpen ==
  /\ Running /\ Now.do = "pump"
  /\ LET variant == IF hub_working = Untried THEN 0 ELSE hub_working
     IN \E r \in exchange(bus[PumpRoute], Read(PumpRoute, variant, "id")) :
          /\ pump' = IF r.answer = "id" THEN PumpRoute ELSE None
          /\ bus' = [b \in DOMAIN bus |-> IF b = pump' THEN r.bus ELSE Closed]
  /\ phase' = "prepared" /\ script' = Rest
  /\ working' = Untried /\ hub_working' = Untried
  /\ UNCHANGED su

-----------------------------------------------------------------------------
(* SuperuserBus.  A request belongs to one transfer and is deleted after   *)
(* it, whatever became of it; su.held counts the ones the target kept.     *)

\* No slot free, or no access: the session does not begin.
SuOpen ==
  /\ Running /\ Now.do = "su_open"
  /\ \/ su' = [su EXCEPT !.open = TRUE] /\ script' = Rest
     \/ UNCHANGED su /\ script' = Tail(ToClose)
  /\ UNCHANGED <<phase, bus, working, hub_working, pump>>

\* ioctl_in_out: no memory, a refusal, no answer in time, or an answer.
SuIo ==
  /\ Running /\ Now.do = "su_io"
  /\ \E answer \in {"error", "timeout", "ok"} :
       /\ su' = IF answer = "timeout" THEN [su EXCEPT !.held = TRUE] ELSE su
       /\ script' = IF answer = "ok" THEN Rest ELSE ToClose
  /\ UNCHANGED <<phase, bus, working, hub_working, pump>>

\* Mutant of SuTry: the return without memory leaves the target open.
SuTry_leaking ==
  /\ Running /\ Now.do = "su_try"
  /\ \/ UNCHANGED su /\ script' = Tail(ToClose)
     \/ su' \in {su, [su EXCEPT !.held = TRUE]} /\ script' = Rest
  /\ UNCHANGED <<phase, bus, working, hub_working, pump>>

\* A transfer of probe_superuser_apsd: without memory it closes and returns;
\* any other outcome is noted and the probe goes on.
SuTry ==
  /\ Running /\ Now.do = "su_try"
  /\ \/ UNCHANGED su /\ script' = ToClose
     \/ su' \in {su, [su EXCEPT !.held = TRUE]} /\ script' = Rest
  /\ UNCHANGED <<phase, bus, working, hub_working, pump>>

\* The explicit close of the probe and the Drop of SuperuserBus.
SuClose ==
  /\ Running /\ Now.do = "su_close"
  /\ su' = [su EXCEPT !.open = FALSE]
  /\ script' = Rest
  /\ UNCHANGED <<phase, bus, working, hub_working, pump>>

\* The gauge, the charge registers and the charge current of a prepared device.
Session ==
  /\ phase = "prepared" /\ ~Running
  /\ \E s \in Sessions : script' = s
  /\ UNCHANGED <<phase, bus, working, hub_working, pump, su>>

-----------------------------------------------------------------------------

\* A register of the pump, for the timer or an IOCTL.
Traffic ==
  /\ phase = "prepared" /\ ~Running /\ pump # None
  /\ \E w \in BOOLEAN, r \in {"reg03", "reg31"} :
       LET s == [Read(pump, bus[pump].variant, r) EXCEPT !.write = w] IN
       \E out \in exchange(bus[pump], s) : bus' = [bus EXCEPT ![pump] = out.bus]
  /\ UNCHANGED <<phase, script, working, hub_working, pump, su>>

\* The target is done with a request it kept: the driver does not hear of it.
TargetCompletes ==
  /\ \/ \E b \in DOMAIN bus : bus[b].held /\ bus' = [bus EXCEPT ![b].held = FALSE] /\ UNCHANGED su
     \/ su.held /\ su' = [su EXCEPT !.held = FALSE] /\ UNCHANGED bus
  /\ UNCHANGED <<phase, script, working, hub_working, pump>>

\* evt_release_hardware drops the pump; the next prepare makes new requests.
Release ==
  /\ phase = "prepared" /\ ~Running
  /\ phase' = "stopped" /\ pump' = None
  /\ bus' = [b \in DOMAIN bus |-> Closed]
  /\ UNCHANGED <<script, working, hub_working, su>>

Init ==
  /\ phase = "stopped" /\ script = <<>>
  /\ bus = [b \in {"parent", "hub", "probe"} |-> Closed]
  /\ working = Untried /\ hub_working = Untried
  /\ pump = None
  /\ su = [open |-> FALSE, held |-> FALSE]

Next ==
  \/ Prepare \/ Open \/ Close \/ Exchange \/ Restore \/ PumpOpen
  \/ SuOpen \/ SuIo \/ SuTry \/ SuClose \/ Session
  \/ Traffic \/ TargetCompletes \/ Release

Spec == Init /\ [][Next]_vars

-----------------------------------------------------------------------------
(* Properties. *)

\* A request that stayed with the I/O target after a send (send_failed,
\* spb.rs:383) is left alone until its bus is given up, over all the probes,
\* retries and IOCTLs that come after it: neither its transfer area is
\* rewritten under the target nor is it formatted for another operation.
LostRequestIsNeverTouched ==
  [][\A b \in DOMAIN bus :
       bus[b].held /\ bus'[b].open
         => bus'[b].lost /\ bus'[b].list = bus[b].list /\ bus'[b].format = bus[b].format]_vars

\* The slots of SUPERUSER are few: whichever transfer, allocation or grant of a
\* session fails, its slot is back before any other code of the driver runs
\* (spb.rs:1112, Drop at spb.rs:2035).
SlotIsReturned ==
  su.open => Running /\ Now.do \in {"su_io", "su_try", "su_close"}
=============================================================================
