--------------------------- MODULE Device_proofs ---------------------------
(***************************************************************************)
(* Theorems about Device, for every value of its constants: the type       *)
(* invariant, the quiet of a released device, the agreement of the record  *)
(* with the PMIC, and the grace of a raise.                                *)
(***************************************************************************)
EXTENDS Device, TLAPS

\* The register with the driver's record of it.
Fccs ==
    [reg : {Factory, ProbeRaw, Raised}, boot : {NotCaptured, Factory, ProbeRaw, Raised},
     raised : BOOLEAN, restore : 0..NotScheduled, probed : BOOLEAN,
     found : {Factory, ProbeRaw, Raised}, lost : BOOLEAN, spoilt : BOOLEAN]

\* What the policy knows and the register, well formed: nothing is written to the
\* register before the value this load found there has been captured.
FccOK(f) ==
    /\ f \in Fccs
    /\ f.boot # NotCaptured => f.boot = f.found
    /\ f.boot = NotCaptured => ~f.raised /\ ~f.probed /\ f.reg = f.found
    /\ ~f.lost => f.reg = IF f.raised THEN Raised ELSE f.found
    /\ ~f.spoilt => f.found = Factory

\* A return that is scheduled and the time since the last transfer make up the grace.
GraceOK(f, t) == f.restore # NotScheduled => t + f.restore >= Grace

\* The inductive invariant.
Inv ==
    /\ TypeOK
    /\ ReleasedIsQuiet
    /\ pnp = "releasing" => ~gauge_ready
    /\ FccOK(fcc)
    /\ GraceOK(fcc, idle)

USE FccAssumption DEF FccAssumption

-----------------------------------------------------------------------------
(* The policy.                                                             *)

\* No value is raised above FCC_WRITE_MAX_UA.
LEMMA Ceiling ==
    /\ Raised \in Nat \ {0} /\ Raised <= WriteMax
    /\ \A raw \in {Factory, ProbeRaw, Raised} : raw \in Nat \ {0} /\ raw_for(raw) = raw
  BY DEF Raised, raw_for, Lesser

\* A write leaves the wanted value or the one before; its answer is the register's, and
\* without one the register only moved if the write counts as lost.
LEMMA WriteOutcome ==
    ASSUME NEW reg, NEW raw, raw # NoAnswer, NEW w \in write_fcc_raw(reg, raw)
    PROVE  /\ w.reg \in {reg, raw} /\ w.lost \in BOOLEAN
           /\ w.answer # NoAnswer => w.answer = w.reg
           /\ w.answer = NoAnswer /\ ~w.lost => w.reg = reg
  <1>1. CASE w = [reg |-> raw, answer |-> raw, lost |-> FALSE]
    BY <1>1
  <1>2. CASE w = [reg |-> reg, answer |-> reg, lost |-> FALSE]
    BY <1>2
  <1>3. CASE w = [reg |-> reg, answer |-> NoAnswer, lost |-> FALSE]
    BY <1>3
  <1>4. CASE w = [reg |-> raw, answer |-> NoAnswer, lost |-> TRUE]
    BY <1>4
  <1> QED
    BY <1>1, <1>2, <1>3, <1>4 DEF write_fcc_raw

\* A snapshot keeps the record true: the probe only writes what the policy does not
\* own, and a probe that is not undone counts as lost.
LEMMA SnapshotKeeps ==
    ASSUME NEW f, FccOK(f), NEW s, s.alive \in BOOLEAN, s.below \in BOOLEAN, s.fault \in BOOLEAN,
           NEW g \in Snapshot(f, s)
    PROVE  /\ FccOK(g) /\ g.restore = f.restore /\ g.raised = f.raised
           /\ f.raised => g.reg = f.reg
  <1> DEFINE c == [f EXCEPT !.boot = IF @ = NotCaptured THEN f.reg ELSE @]
             d == [c EXCEPT !.probed = TRUE]
             due == ~c.probed /\ ~s.fault
  <1>1. /\ FccOK(c) /\ c.boot = f.found /\ c.restore = f.restore /\ c.raised = f.raised
        /\ FccOK(d) /\ d.boot = f.found /\ d.restore = f.restore /\ d.raised = f.raised
        /\ d.reg = c.reg /\ d.lost = c.lost
        /\ d.found = f.found /\ d.spoilt = f.spoilt /\ c.reg = f.reg
    <2> DEFINE b == IF f.boot = NotCaptured THEN f.reg ELSE f.boot
               yes == TRUE
    <2>1. f \in Fccs /\ b = f.found /\ b \in {Factory, ProbeRaw, Raised} /\ b # NotCaptured
      BY Ceiling DEF FccOK, Fccs, NotCaptured
    <2>2. c = [f EXCEPT !.boot = b] /\ d = [c EXCEPT !.probed = yes] /\ yes \in BOOLEAN
      OBVIOUS
    <2> HIDE DEF b, yes, c, d
    <2>3. /\ c \in Fccs /\ c.boot = b /\ c.reg = f.reg /\ c.raised = f.raised /\ c.restore = f.restore
          /\ c.found = f.found /\ c.lost = f.lost /\ c.spoilt = f.spoilt
      BY <2>1, <2>2, Zenon DEF Fccs
    <2>4. /\ d \in Fccs /\ d.boot = c.boot /\ d.reg = c.reg /\ d.raised = c.raised /\ d.restore = c.restore
          /\ d.found = c.found /\ d.lost = c.lost /\ d.spoilt = c.spoilt
      BY <2>2, <2>3, Zenon DEF Fccs
    <2>5. /\ ~f.lost => f.reg = IF f.raised THEN Raised ELSE f.found
          /\ ~f.spoilt => f.found = Factory
      BY DEF FccOK
    <2>6. FccOK(c)
      BY <2>1, <2>3, <2>5 DEF FccOK
    <2>7. FccOK(d)
      BY <2>1, <2>3, <2>4, <2>5 DEF FccOK
    <2> QED
      BY <2>1, <2>3, <2>4, <2>6, <2>7
  <1>2. CASE ~due \/ policy_owns(c, s) \/ ProbeRaw >= c.boot
    <2>1. g = IF due THEN d ELSE c
      BY <1>2 DEF Snapshot
    <2> QED
      BY <1>1, <2>1
  <1>3. CASE ~(~due \/ policy_owns(c, s) \/ ProbeRaw >= c.boot)
    <2> DEFINE backs == UNION {write_fcc_raw(w.reg, c.boot) : w \in write_fcc_raw(c.reg, ProbeRaw)}
    <2>0. g \in {[d EXCEPT !.reg = back.reg, !.lost = @ \/ back.reg # c.boot] : back \in backs}
      BY <1>3 DEF Snapshot
    <2> PICK back \in backs : g = [d EXCEPT !.reg = back.reg, !.lost = @ \/ back.reg # c.boot]
      BY <2>0
    <2>1. PICK w \in write_fcc_raw(c.reg, ProbeRaw) : back \in write_fcc_raw(w.reg, c.boot)
      OBVIOUS
    <2>2. ~c.raised
      BY <1>3 DEF policy_owns
    <2>3. back.reg \in {Factory, ProbeRaw, Raised}
      <3>1. /\ c.boot \in {Factory, ProbeRaw, Raised} /\ c.boot # NoAnswer /\ ProbeRaw # NoAnswer
            /\ c.reg \in {Factory, ProbeRaw, Raised}
        BY <1>1, Ceiling DEF FccOK, Fccs, NoAnswer
      <3> HIDE DEF c
      <3>2. w.reg \in {c.reg, ProbeRaw}
        BY <3>1, WriteOutcome
      <3>3. back.reg \in {w.reg, c.boot}
        BY <2>1, <3>1, WriteOutcome
      <3> QED
        BY <3>1, <3>2, <3>3
    <2>4. d \in Fccs /\ (d.lost \/ back.reg # c.boot) \in BOOLEAN
      BY <1>1 DEF FccOK, Fccs
    <2>5. /\ g \in Fccs /\ g.reg = back.reg /\ g.lost = (d.lost \/ back.reg # c.boot)
          /\ g.boot = d.boot /\ g.raised = d.raised /\ g.restore = d.restore /\ g.probed = d.probed
          /\ g.found = d.found /\ g.spoilt = d.spoilt
      <3> DEFINE r == back.reg
                 l == d.lost \/ back.reg # c.boot
      <3>1. g = [d EXCEPT !.reg = r, !.lost = l]
        OBVIOUS
      <3>2. d \in Fccs /\ r \in {Factory, ProbeRaw, Raised} /\ l \in BOOLEAN
        BY <2>3, <2>4
      <3> HIDE DEF r, l, d
      <3>3. /\ g \in Fccs /\ g.reg = r /\ g.lost = l
            /\ g.boot = d.boot /\ g.raised = d.raised /\ g.restore = d.restore /\ g.probed = d.probed
            /\ g.found = d.found /\ g.spoilt = d.spoilt
        BY <3>1, <3>2, Zenon DEF Fccs
      <3> QED
        BY <3>3 DEF r, l
    <2>6. ~g.lost => g.reg = g.found
      BY <1>1, <2>5
    <2>7. g.boot # NotCaptured
      BY <1>1, <2>5, Ceiling DEF FccOK, Fccs, NotCaptured
    <2>8. ~g.raised /\ g.boot = g.found /\ (~g.spoilt => g.found = Factory)
      BY <1>1, <2>2, <2>5 DEF FccOK
    <2> QED
      BY <1>1, <2>5, <2>6, <2>7, <2>8 DEF FccOK
  <1> QED
    BY <1>2, <1>3

\* A write of the policy keeps the record true, and the return unscheduled if it was.
LEMMA SettledKeeps ==
    ASSUME NEW f, FccOK(f), f.boot # NotCaptured, NEW raised \in BOOLEAN,
           NEW want, want = IF raised THEN Raised ELSE f.found, f.raised = ~raised,
           NEW g \in Settled(f, want, raised)
    PROVE  /\ FccOK(g)
           /\ g.restore \in {f.restore, NotScheduled}
  <1>3. want \in {Factory, ProbeRaw, Raised} /\ want # NoAnswer
    BY Ceiling DEF NoAnswer, FccOK, Fccs
  <1>1. PICK w \in write_fcc_raw(f.reg, want) :
           g = [f EXCEPT !.reg = w.reg, !.lost = @ \/ w.lost,
                  !.raised = IF w.answer = want THEN raised ELSE @,
                  !.restore = IF w.answer = want THEN NotScheduled ELSE @]
    BY DEF Settled
  <1>2. /\ w.reg \in {f.reg, want} /\ w.lost \in BOOLEAN
        /\ w.answer # NoAnswer => w.answer = w.reg
        /\ w.answer = NoAnswer /\ ~w.lost => w.reg = f.reg
    BY <1>1, <1>3, WriteOutcome
  <1>4. /\ g \in Fccs
        /\ g.reg = w.reg /\ g.lost = (f.lost \/ w.lost) /\ g.boot = f.boot /\ g.probed = f.probed
        /\ g.found = f.found /\ g.spoilt = f.spoilt
        /\ g.raised = IF w.answer = want THEN raised ELSE f.raised
        /\ g.restore = IF w.answer = want THEN NotScheduled ELSE f.restore
    <2> DEFINE r == w.reg
               l == f.lost \/ w.lost
               up == IF w.answer = want THEN raised ELSE f.raised
               at == IF w.answer = want THEN NotScheduled ELSE f.restore
    <2>1. g = [f EXCEPT !.reg = r, !.lost = l, !.raised = up, !.restore = at]
      BY <1>1
    <2>2. f \in Fccs
      BY DEF FccOK
    <2>3. l \in BOOLEAN /\ up \in BOOLEAN
      BY <1>2, <2>2 DEF Fccs
    <2>4. r \in {Factory, ProbeRaw, Raised} /\ at \in 0..NotScheduled
      BY <1>2, <1>3, <2>2 DEF Fccs, NotScheduled
    <2> HIDE DEF r, l, up, at
    <2>5. /\ g \in Fccs /\ g.reg = r /\ g.lost = l /\ g.boot = f.boot /\ g.probed = f.probed
          /\ g.raised = up /\ g.restore = at /\ g.found = f.found /\ g.spoilt = f.spoilt
      BY <2>1, <2>2, <2>3, <2>4, Zenon DEF Fccs
    <2> QED
      BY <2>5 DEF r, l, up, at
  <1>6. ~g.lost => g.reg = IF g.raised THEN Raised ELSE g.found
    <2>1. SUFFICES ASSUME ~g.lost PROVE g.reg = IF g.raised THEN Raised ELSE g.found
      OBVIOUS
    <2>2. ~f.lost /\ ~w.lost /\ f.reg = IF f.raised THEN Raised ELSE f.found
      BY <1>2, <1>4, <2>1 DEF FccOK
    <2>3. CASE w.answer = want
      BY <1>2, <1>3, <1>4, <2>3
    <2>4. CASE w.answer # want
      BY <1>2, <1>4, <2>2, <2>4
    <2> QED
      BY <2>3, <2>4
  <1>7. /\ g.restore \in {f.restore, NotScheduled} /\ g.boot # NotCaptured /\ g.boot = g.found
        /\ ~g.spoilt => g.found = Factory
    BY <1>4 DEF FccOK
  <1> QED
    BY <1>4, <1>6, <1>7 DEF FccOK

\* One pass of the policy, at time t since the last transfer, keeps the record true and
\* the grace complete, and takes a raise back only when the grace is over.
LEMMA PolicyKeeps ==
    ASSUME NEW f, FccOK(f), NEW t \in 0..Grace, GraceOK(f, t),
           NEW s, s.alive \in BOOLEAN, s.below \in BOOLEAN,
           NEW g \in FccPolicy(f, s)
    PROVE  /\ FccOK(g)
           /\ GraceOK(g, IF s.alive THEN 0 ELSE t)
           /\ f.raised /\ g.reg # f.reg => t = Grace
  <1> DEFINE c == [f EXCEPT !.restore = NotScheduled]
  <1>1. /\ f \in Fccs /\ f.raised \in BOOLEAN /\ f.restore \in 0..NotScheduled
        /\ (f.raised => f.boot # NotCaptured) /\ (f.boot # NotCaptured => f.boot = f.found)
        /\ f.found \in {Factory, ProbeRaw, Raised}
    BY DEF FccOK, Fccs
  <1>2. /\ FccOK(c) /\ c.restore = NotScheduled /\ c.boot = f.boot /\ c.raised = f.raised
        /\ c.found = f.found /\ c.reg = f.reg
    BY <1>1 DEF FccOK, Fccs, NotScheduled
  <1>0. NotScheduled # 0
    BY DEF NotScheduled
  <1>3. CASE s.alive /\ RaiseDue(f, s)
    <2>1. g \in Settled(c, Raised, TRUE)
      BY <1>3 DEF FccPolicy
    <2>2. ~f.raised /\ f.boot # NotCaptured
      BY <1>1, <1>3 DEF RaiseDue
    <2> DEFINE up == TRUE
               want == Raised
    <2>3. /\ up \in BOOLEAN /\ want = IF up THEN Raised ELSE c.found
          /\ c.raised = ~up /\ g \in Settled(c, want, up) /\ c.boot # NotCaptured
      <3> HIDE DEF c
      <3>1. c.raised = FALSE /\ c.boot # NotCaptured
        BY <1>1, <1>2, <2>2
      <3> QED
        BY <2>1, <3>1, Zenon
    <2> HIDE DEF up, want, c
    <2>4. FccOK(g) /\ g.restore = NotScheduled
      BY <1>2, <2>3, SettledKeeps
    <2> QED
      BY <2>2, <2>4 DEF GraceOK
  <1>4. CASE s.alive /\ ~RaiseDue(f, s)
    <2>1. g = c
      BY <1>4 DEF FccPolicy
    <2> QED
      BY <1>2, <2>1 DEF GraceOK
  <1>5. CASE ~s.alive /\ f.raised /\ f.restore = NotScheduled
    <2>1. g = [f EXCEPT !.restore = Grace]
      BY <1>0, <1>5, Zenon DEF FccPolicy
    <2>2. FccOK(g) /\ g.restore = Grace /\ g.raised = f.raised /\ g.reg = f.reg
      BY <1>1, <2>1 DEF FccOK, Fccs, NotScheduled
    <2> QED
      BY <1>5, <2>2 DEF GraceOK
  <1>6. CASE ~s.alive /\ f.raised /\ f.restore = 0
    <2>1. g \in Settled(f, raw_for(f.boot), FALSE)
      BY <1>0, <1>6, Zenon DEF FccPolicy
    <2>2. f.boot # NotCaptured /\ raw_for(f.boot) = f.found
      BY <1>1, <1>6, Ceiling
    <2>3. FccOK(g) /\ g.restore \in {0, NotScheduled}
      BY <1>6, <2>1, <2>2, SettledKeeps
    <2>4. t = Grace
      BY <1>0, <1>6 DEF GraceOK
    <2> QED
      BY <1>6, <2>3, <2>4 DEF GraceOK
  <1>7. CASE ~s.alive /\ ~(f.raised /\ f.restore \in {0, NotScheduled})
    <2>1. g = f
      BY <1>7 DEF FccPolicy
    <2> QED
      BY <1>7, <2>1
  <1> QED
    BY <1>3, <1>4, <1>5, <1>6, <1>7

\* The charge block of a tick.
LEMMA ChargeBlockKeeps ==
    ASSUME FccOK(fcc), idle \in 0..Grace, GraceOK(fcc, idle), ChargeBlock
    PROVE  /\ FccOK(fcc') /\ idle' \in 0..Grace /\ GraceOK(fcc', idle') /\ quiet' \in BOOLEAN
           /\ fcc.raised /\ fcc'.reg # fcc.reg => idle = Grace
  <1>1. PICK s \in [alive : BOOLEAN, below : BOOLEAN, fault : BOOLEAN, read : BOOLEAN] :
          \E f \in IF s.read THEN Snapshot(fcc, s) ELSE {fcc} :
             /\ fcc' \in IF s.fault THEN {f} ELSE FccPolicy(f, s)
             /\ idle' = IF s.alive /\ ~s.fault THEN 0 ELSE idle
             /\ quiet' = (~s.alive /\ ~s.fault /\ (f.raised /\ f.restore = 0 => ~fcc'.raised))
    BY DEF ChargeBlock
  <1>2. PICK f \in IF s.read THEN Snapshot(fcc, s) ELSE {fcc} :
             /\ fcc' \in IF s.fault THEN {f} ELSE FccPolicy(f, s)
             /\ idle' = IF s.alive /\ ~s.fault THEN 0 ELSE idle
             /\ quiet' = (~s.alive /\ ~s.fault /\ (f.raised /\ f.restore = 0 => ~fcc'.raised))
    BY <1>1
  <1>3. s.alive \in BOOLEAN /\ s.below \in BOOLEAN /\ s.fault \in BOOLEAN
    OBVIOUS
  <1>4. /\ FccOK(f) /\ f.restore = fcc.restore /\ f.raised = fcc.raised
        /\ fcc.raised => f.reg = fcc.reg
    BY <1>2, <1>3, SnapshotKeeps
  <1>5. GraceOK(f, idle)
    BY <1>4 DEF GraceOK
  <1>6. quiet' \in BOOLEAN /\ idle' \in 0..Grace
    BY <1>2
  <1>7. CASE s.fault
    BY <1>2, <1>4, <1>5, <1>6, <1>7
  <1>8. CASE ~s.fault
    <2>1. fcc' \in FccPolicy(f, s) /\ idle' = IF s.alive THEN 0 ELSE idle
      BY <1>2, <1>8
    <2>2. /\ FccOK(fcc') /\ GraceOK(fcc', IF s.alive THEN 0 ELSE idle)
          /\ f.raised /\ fcc'.reg # f.reg => idle = Grace
      BY <1>3, <1>4, <1>5, <2>1, PolicyKeeps
    <2> QED
      BY <1>4, <1>6, <2>1, <2>2
  <1> QED
    BY <1>3, <1>7, <1>8

-----------------------------------------------------------------------------
(* The steps.                                                              *)

\* The part of the type invariant that is not about the policy.
Shape ==
    /\ pnp \in {"removed", "stopped", "failed", "prepared", "releasing"}
    /\ tick \in {"idle", "reading", "waiting"}
    /\ {device, gauge_ready, pump, timer, attached, request, gauge_due, charge_due, quiet} \subseteq BOOLEAN
    /\ idle \in 0..Grace

\* The type invariant is the shape and what the record of the register implies.
LEMMA TypeFromShape == Shape /\ FccOK(fcc) => TypeOK
  <1> SUFFICES ASSUME Shape, FccOK(fcc) PROVE TypeOK
    OBVIOUS
  <1>1. fcc \in Fccs /\ (fcc.raised \/ fcc.probed => fcc.boot # NotCaptured)
    BY DEF FccOK
  <1>2. fcc.reg <= WriteMax
    BY <1>1, Ceiling DEF Fccs
  <1> QED
    BY <1>1, <1>2 DEF Shape, TypeOK, Fccs

\* A freshly loaded image knows nothing of the register, and nothing wrong.
LEMMA LoadedOK ==
    ASSUME NEW reg \in {Factory, ProbeRaw, Raised}, NEW spoilt \in BOOLEAN, spoilt \/ reg = Factory,
           NEW t
    PROVE  /\ FccOK(Loaded(reg, spoilt)) /\ GraceOK(Loaded(reg, spoilt), t)
           /\ Loaded(reg, spoilt).reg = reg
  <1> DEFINE no == FALSE
             at == NotScheduled
             none == NotCaptured
             f == [reg |-> reg, boot |-> none, raised |-> no, restore |-> at, probed |-> no,
                   found |-> reg, lost |-> no, spoilt |-> spoilt]
  <1>1. no \in BOOLEAN /\ ~no /\ at \in 0..NotScheduled /\ at = NotScheduled /\ none = NotCaptured
    BY DEF NotScheduled
  <1>2. Loaded(reg, spoilt) = f
    BY DEF Loaded
  <1> HIDE DEF no, at, none
  <1>3. f \in Fccs
    BY <1>1 DEF Fccs
  <1>4. FccOK(f) /\ GraceOK(f, t)
    BY <1>1, <1>3 DEF FccOK, GraceOK
  <1> HIDE DEF f
  <1>5. f.reg = reg
    BY DEF f
  <1> QED
    BY <1>2, <1>4, <1>5

\* The start.
LEMMA InitHolds == Init => Inv
  <1> SUFFICES ASSUME Init PROVE Inv
    OBVIOUS
  <1>1. Shape
    <2>1. idle \in 0..Grace
      BY DEF Init
    <2> QED
      BY <2>1, Zenon DEF Init, Shape
  <1>3. FccOK(fcc) /\ GraceOK(fcc, idle)
    BY LoadedOK DEF Init
  <1>4. ReleasedIsQuiet /\ (pnp = "releasing" => ~gauge_ready)
    BY DEF Init, ReleasedIsQuiet
  <1> QED
    BY <1>1, <1>3, <1>4, TypeFromShape DEF Inv

\* A step of the timer or of PnP that leaves the policy alone keeps the invariant if it
\* keeps the shape and the quiet of a released device.
LEMMA QuietStep ==
    ASSUME Inv, UNCHANGED <<fcc, idle>>, Shape', ReleasedIsQuiet', (pnp = "releasing" => ~gauge_ready)'
    PROVE  Inv'
  <1>1. FccOK(fcc') /\ GraceOK(fcc', idle')
    BY DEF Inv
  <1>2. TypeOK'
    <2>1. Shape' /\ FccOK(fcc)' => TypeOK'
      BY TypeFromShape, PTL
    <2> QED
      BY <1>1, <2>1
  <1> QED
    BY <1>1, <1>2 DEF Inv

\* The timer's own steps.
LEMMA TimerKeeps == Inv /\ Timer => Inv'
  <1> SUFFICES ASSUME Inv, Timer PROVE Inv'
    OBVIOUS
  <1> USE DEF Inv, TypeOK, ReleasedIsQuiet, lifetime, policy
  <1>1. CASE Fire
    <2>1. Shape' /\ ReleasedIsQuiet' /\ (pnp = "releasing" => ~gauge_ready)'
      BY <1>1 DEF Fire, Shape
    <2>2. UNCHANGED <<fcc, idle>>
      BY <1>1 DEF Fire
    <2> QED
      BY <2>1, <2>2, QuietStep
  <1>2. CASE ReadGauge
    <2>1. Shape' /\ ReleasedIsQuiet' /\ (pnp = "releasing" => ~gauge_ready)'
      BY <1>2 DEF ReadGauge, Shape
    <2>2. UNCHANGED <<fcc, idle>>
      BY <1>2 DEF ReadGauge
    <2> QED
      BY <2>1, <2>2, QuietStep
  <1>3. CASE Handle
    <2>1. /\ FccOK(fcc') /\ idle' \in 0..Grace /\ GraceOK(fcc', idle') /\ quiet' \in BOOLEAN
          /\ charge_due' \in BOOLEAN
      BY <1>3, ChargeBlockKeeps DEF Handle
    <2>2. /\ UNCHANGED lifetime /\ UNCHANGED <<pump, gauge_due>> /\ tick' = "idle"
          /\ timer' \in {timer, timer \/ pump}
      BY <1>3 DEF Handle, Rearmed
    <2>3. Shape' /\ ReleasedIsQuiet' /\ (pnp = "releasing" => ~gauge_ready)'
      BY <2>1, <2>2 DEF Shape
    <2>4. TypeOK'
      <3>1. Shape' /\ FccOK(fcc)' => TypeOK'
        BY TypeFromShape, PTL
      <3> QED
        BY <2>1, <2>3, <3>1
    <2> QED
      BY <2>1, <2>3, <2>4
  <1> QED
    BY <1>1, <1>2, <1>3 DEF Timer

\* An unload forgets the record and leaves the register.
LEMMA RemoveKeepsFcc ==
    ASSUME FccOK(fcc), Remove
    PROVE  FccOK(fcc') /\ GraceOK(fcc', idle') /\ fcc'.reg = fcc.reg
  <1> DEFINE bad == fcc.spoilt \/ fcc.lost \/ fcc.raised
  <1>1. /\ fcc.reg \in {Factory, ProbeRaw, Raised} /\ bad \in BOOLEAN
        /\ bad \/ fcc.reg = Factory
    BY DEF FccOK, Fccs
  <1>2. fcc' = Loaded(fcc.reg, bad)
    BY DEF Remove
  <1> HIDE DEF bad
  <1> QED
    BY <1>1, <1>2, LoadedOK

\* Only an unload touches what PnP leaves of the policy; every way into a stopped device
\* goes through Release.
LEMMA PnPKeeps == Inv /\ PnP => Inv'
  <1> SUFFICES ASSUME Inv, PnP PROVE Inv'
    OBVIOUS
  <1> USE DEF Inv, TypeOK, ReleasedIsQuiet
  <1>1. UNCHANGED <<fcc, idle>> \/ Remove
    BY DEF PnP, DeviceAdd, PrepareFails, PrepareBlind, Prepare, ReleaseBegins, Release, policy
  <1>2. Shape'
    BY DEF PnP, DeviceAdd, PrepareFails, PrepareBlind, Prepare, ReleaseBegins, Release, Remove, policy,
           Shape, initialize, acquire, unload, release
  <1>3. ReleasedIsQuiet' /\ (pnp = "releasing" => ~gauge_ready)'
    BY DEF PnP, DeviceAdd, PrepareFails, PrepareBlind, Prepare, ReleaseBegins, Release, Remove,
           unload, release
  <1>4. CASE UNCHANGED <<fcc, idle>>
    BY <1>2, <1>3, <1>4, QuietStep
  <1>5. CASE Remove
    <2>1. FccOK(fcc') /\ GraceOK(fcc', idle')
      BY <1>5, RemoveKeepsFcc
    <2>2. TypeOK'
      <3>1. Shape' /\ FccOK(fcc)' => TypeOK'
        BY TypeFromShape, PTL
      <3> QED
        BY <1>2, <2>1, <3>1
    <2> QED
      BY <1>3, <2>1, <2>2
  <1> QED
    BY <1>1, <1>4, <1>5

\* Time moves from the deadline of the return to the time without a transfer.
LEMMA PassKeeps == Inv /\ Pass => Inv'
  <1> SUFFICES ASSUME Inv, Pass PROVE Inv'
    OBVIOUS
  <1> DEFINE at == IF fcc.restore \in 1..Grace THEN fcc.restore - 1 ELSE fcc.restore
  <1>1. fcc \in Fccs /\ idle \in 0..Grace
    BY DEF Inv, TypeOK, FccOK
  <1>2. at \in 0..NotScheduled
    BY <1>1 DEF Fccs, NotScheduled
  <1>3. fcc' = [fcc EXCEPT !.restore = at] /\ idle' = Lesser(idle + 1, Grace)
    BY DEF Pass
  <1>4. FccOK(fcc')
    BY <1>1, <1>2, <1>3 DEF Inv, FccOK, Fccs
  <1>5. idle' \in 0..Grace /\ GraceOK(fcc', idle')
    BY <1>1, <1>3 DEF Inv, GraceOK, Lesser, Fccs, NotScheduled
  <1>6. Shape' /\ ReleasedIsQuiet' /\ (pnp = "releasing" => ~gauge_ready)'
    BY <1>5 DEF Pass, Inv, TypeOK, Shape, ReleasedIsQuiet, lifetime
  <1>7. TypeOK'
    <2>1. Shape' /\ FccOK(fcc)' => TypeOK'
      BY TypeFromShape, PTL
    <2> QED
      BY <1>4, <1>6, <2>1
  <1> QED
    BY <1>4, <1>5, <1>6, <1>7 DEF Inv

\* Every step keeps the invariant.
LEMMA StepKeeps == Inv /\ [Next]_vars => Inv'
  <1> SUFFICES ASSUME Inv, [Next]_vars PROVE Inv'
    OBVIOUS
  <1>1. CASE UNCHANGED vars
    BY <1>1 DEF vars, lifetime, policy, Inv, TypeOK, ReleasedIsQuiet, GraceOK
  <1> QED
    BY <1>1, TimerKeeps, PnPKeeps, PassKeeps DEF Next

-----------------------------------------------------------------------------
(* The theorems.                                                           *)

\* The inductive invariant: the state is well formed, a released device is quiet, the
\* record of the register is true, and a scheduled return leaves the grace whole.
THEOREM InvHolds == Spec => []Inv
  BY InitHolds, StepKeeps, PTL DEF Spec

\* The state is well formed; in particular no value above FCC_WRITE_MAX_UA ever reaches
\* the PMIC, and nothing is written before the firmware's value has been captured.
THEOREM TypeCorrect == Spec => []TypeOK
  <1>1. Inv => TypeOK
    BY DEF Inv
  <1> QED
    BY <1>1, InvHolds, PTL

\* A released device arms no timer and keeps neither the class nor the power request.
THEOREM ReleasedQuiet == Spec => []ReleasedIsQuiet
  <1>1. Inv => ReleasedIsQuiet
    BY DEF Inv
  <1> QED
    BY <1>1, InvHolds, PTL

\* Unless this load lost a write, the register holds the raise or what the load found, and
\* that is the firmware's value unless an earlier load was unloaded over a raise or lost one.
THEOREM RecordMatches == Spec => []RecordMatchesPmic
  <1>1. Inv => RecordMatchesPmic
    BY DEF Inv, FccOK, RecordMatchesPmic
  <1> QED
    BY <1>1, InvHolds, PTL

\* The PMIC's raise is not taken back within the grace of a transfer.
THEOREM GraceKept == Spec => GraceIsKept
  <1>1. ASSUME Inv, [Next]_vars, fcc.raised, fcc'.reg # fcc.reg PROVE idle = Grace
    <2>1. fcc' # fcc
      BY <1>1
    <2>2. ~Pass
      BY <1>1 DEF Pass, Inv, FccOK, Fccs
    <2>3. ~Remove
      BY <1>1, RemoveKeepsFcc DEF Inv
    <2>4. Handle
      BY <1>1, <2>1, <2>2, <2>3 DEF Next, vars, policy, Timer, Fire, ReadGauge, PnP, DeviceAdd,
             PrepareFails, PrepareBlind, Prepare, ReleaseBegins, Release
    <2>5. ChargeBlock
      BY <2>1, <2>4 DEF Handle, policy
    <2> QED
      BY <1>1, <2>5, ChargeBlockKeeps DEF Inv, TypeOK
  <1>2. Inv /\ [Next]_vars => [fcc.raised /\ fcc'.reg # fcc.reg => idle = Grace]_vars
    BY <1>1
  <1> QED
    BY <1>2, InvHolds, PTL DEF GraceIsKept, Spec
=============================================================================
