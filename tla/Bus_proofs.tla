----------------------------- MODULE Bus_proofs -----------------------------
(***************************************************************************)
(* Theorems about Bus, for every number of layouts, neighbouring nodes,    *)
(* openings by name and registers and every set of resources: a request    *)
(* that stayed with the target is left alone until its bus is given up,    *)
(* and a slot of SUPERUSER is back before other code runs.                 *)
(***************************************************************************)
EXTENDS Bus, TLAPS

Routes == {"parent", "hub", "probe"}
Exchanges == {"attach", "transact", "spmi16", "lock", "ioctl"}
Registers == {None, "id", "reg00", "reg03", "reg31", "swapped"}

\* A step of a script: what is opened or closed is the hub's bus or a probe's.
Steps ==
  {s \in [do : Exchanges \cup {"open", "scan", "close", "restore", "pump", "su_open", "su_io",
                               "su_try", "su_close"},
          on : Routes \cup {None}, reg : Registers, write : BOOLEAN, variant : Nat] :
     /\ s.do = "open" => s.on \in {"hub", "probe"}
     /\ s.do \in {"scan", "close"} => s.on = "probe"
     /\ s.do \in Exchanges => s.on \in Routes}

\* The session of a few steps with SUPERUSER, and the one of a probe with its bus.
SuOpens == {s \in Steps : s.do = "su_open"}
SuBusy == {s \in Steps : s.do \in {"su_io", "su_try"}}
SuShut == {s \in Steps : s.do = "su_close"}
ProbeOpens == {s \in Steps : s.do \in {"open", "scan"} /\ s.on = "probe"}
ProbeBusy == {s \in Steps : s.do \in Exchanges /\ s.on = "probe"}
ProbeShut == {s \in Steps : s.do = "close"}

\* Whatever of s opens a session or is within one is followed by its steps and its end.
Bracketed(s, opens, busy, shut) ==
  \A i \in 1 .. Len(s) : s[i] \in opens \cup busy =>
    \E j \in i + 1 .. Len(s) : s[j] \in shut /\ \A k \in i + 1 .. j - 1 : s[k] \in busy

HubOpen(s) == s.do = "open" /\ s.on = "hub"

\* The hub's bus is opened once.
Once(s) == \A i, j \in 1 .. Len(s) : HubOpen(s[i]) /\ HubOpen(s[j]) => i = j

Shape(s) ==
  /\ s \in Seq(Steps)
  /\ Bracketed(s, SuOpens, SuBusy, SuShut)
  /\ Bracketed(s, ProbeOpens, ProbeBusy, ProbeShut)
  /\ Once(s)

-----------------------------------------------------------------------------
(* The inductive invariant, in parts.                                      *)

Buses ==
  [open : BOOLEAN, variant : Nat, lost : BOOLEAN, held : BOOLEAN,
   list : [reg : Registers, count : Nat], format : Exchanges \cup {None}]

Typed ==
  /\ phase \in {"stopped", "preparing", "prepared"}
  /\ bus \in [Routes -> Buses]
  /\ working \in Nat \cup {Untried} /\ hub_working \in Nat \cup {Untried}
  /\ pump \in {"parent", "hub", None}
  /\ su \in [open : BOOLEAN, held : BOOLEAN]

\* What the target has, the bus knows it has lost.
HeldIsLost == \A b \in Routes : bus[b].held => bus[b].lost

\* What is to be opened is closed: a new bus never takes the place of one whose request is held.
Scripted ==
  /\ Shape(script)
  /\ phase = "stopped" => script = <<>> /\ \A b \in Routes : bus[b] = Closed
  /\ bus["hub"] # Closed => \A i \in 1 .. Len(script) : ~HubOpen(script[i])
  /\ bus["probe"] # Closed => Running /\ Now \in ProbeBusy \cup ProbeShut

IInv == Typed /\ HeldIsLost /\ Scripted /\ SlotIsReturned

-----------------------------------------------------------------------------
(* Sequences of steps.                                                     *)

\* What is left of s from a place on.
From(t, s, m) ==
  /\ m \in 0 .. Len(s) /\ t \in Seq(Steps) /\ Len(t) = Len(s) - m
  /\ \A i \in 1 .. Len(t) : t[i] = s[i + m]

\* What is left of a script that has its shape has it.
LEMMA ShapeFrom ==
  ASSUME NEW s, Shape(s), NEW m, NEW t, From(t, s, m)
  PROVE  Shape(t)
  <1>1. Len(s) \in Nat /\ m \in Nat /\ Len(t) \in Nat /\ Len(s) = Len(t) + m
    BY DEF Shape, From
  <1>2. ASSUME NEW opens, NEW busy, NEW shut, Bracketed(s, opens, busy, shut)
        PROVE  Bracketed(t, opens, busy, shut)
    <2>1. ASSUME NEW i \in 1 .. Len(t), t[i] \in opens \cup busy
          PROVE  \E j \in i + 1 .. Len(t) : t[j] \in shut /\ \A k \in i + 1 .. j - 1 : t[k] \in busy
      <3>1. i + m \in 1 .. Len(s) /\ s[i + m] \in opens \cup busy
        BY <1>1, <2>1 DEF From
      <3>2. PICK j \in i + m + 1 .. Len(s) :
              s[j] \in shut /\ \A k \in i + m + 1 .. j - 1 : s[k] \in busy
        BY <1>2, <3>1 DEF Bracketed
      <3>3. j - m \in i + 1 .. Len(t) /\ j = (j - m) + m
        BY <1>1, <3>2
      <3>4. t[j - m] \in shut
        BY <1>1, <3>2, <3>3 DEF From
      <3>5. ASSUME NEW k \in i + 1 .. (j - m) - 1
            PROVE  t[k] \in busy
        <4>1. k + m \in i + m + 1 .. j - 1 /\ k \in 1 .. Len(t)
          BY <1>1, <3>2
        <4>2. t[k] = s[k + m]
          BY <4>1 DEF From
        <4> QED
          BY <3>2, <4>1, <4>2
      <3> QED
        BY <3>3, <3>4, <3>5
    <2> QED
      BY <2>1 DEF Bracketed
  <1>3. Once(t)
    <2>1. ASSUME NEW i \in 1 .. Len(t), NEW j \in 1 .. Len(t), HubOpen(t[i]), HubOpen(t[j])
          PROVE  i = j
      <3>1. i + m \in 1 .. Len(s) /\ j + m \in 1 .. Len(s) /\ t[i] = s[i + m] /\ t[j] = s[j + m]
        BY <1>1 DEF From
      <3>2. i + m = j + m
        BY <2>1, <3>1 DEF Shape, Once
      <3> QED
        BY <1>1, <3>2
    <2> QED
      BY <2>1 DEF Once
  <1> QED
    BY <1>2, <1>3 DEF Shape, From

\* The next step.
LEMMA Advance ==
  ASSUME Shape(script), Running
  PROVE  /\ Now = script[1] /\ Now \in Steps /\ Len(script) \in Nat \ {0} /\ 1 \in 1 .. Len(script)
         /\ From(Rest, script, 1) /\ Shape(Rest)
  <1>1. script \in Seq(Steps) /\ script # <<>>
    BY DEF Shape, Running
  <1>2. /\ Now = script[1] /\ Now \in Steps /\ Len(script) \in Nat \ {0} /\ 1 \in 1 .. Len(script)
        /\ From(Rest, script, 1)
    BY <1>1 DEF Now, Rest, From
  <1> QED
    BY <1>2, ShapeFrom

\* Behind a step that opens a session comes a step of it or its end.
LEMMA Ahead ==
  ASSUME Shape(script), Running, NEW opens, NEW busy, NEW shut,
         Bracketed(script, opens, busy, shut), Now \in opens \cup busy
  PROVE  Rest # <<>> /\ Head(Rest) \in busy \cup shut
  <1>1. /\ Now = script[1] /\ Len(script) \in Nat \ {0} /\ 1 \in 1 .. Len(script)
        /\ From(Rest, script, 1)
    BY Advance
  <1>2. PICK j \in 1 + 1 .. Len(script) :
          script[j] \in shut /\ \A k \in 1 + 1 .. j - 1 : script[k] \in busy
    BY <1>1 DEF Bracketed
  <1>3. script[2] \in busy \cup shut
    <2>1. CASE j = 2
      BY <1>2, <2>1
    <2>2. CASE j # 2
      <3>1. 2 \in 1 + 1 .. j - 1
        BY <1>1, <1>2, <2>2
      <3> QED
        BY <1>2, <3>1
    <2> QED
      BY <2>1, <2>2
  <1>4. Len(Rest) \in Nat \ {0} /\ Rest \in Seq(Steps) /\ Rest[1] = script[1 + 1]
    BY <1>1, <1>2 DEF From
  <1>5. Rest # <<>> /\ Head(Rest) = Rest[1]
    BY <1>4
  <1> QED
    BY <1>3, <1>4, <1>5

\* The end of the session with SUPERUSER: what is left from it on.
LEMMA ToCloseIs ==
  ASSUME Shape(script), Running, Now \in SuOpens \cup SuBusy
  PROVE  /\ \E m \in 1 .. Len(script) - 1 : From(ToClose, script, m)
         /\ ToClose # <<>> /\ Head(ToClose) \in SuShut
         /\ \E m \in 1 .. Len(script) : From(Tail(ToClose), script, m)
  <1>1. /\ Now = script[1] /\ Len(script) \in Nat \ {0} /\ 1 \in 1 .. Len(script)
        /\ script \in Seq(Steps)
    BY Advance DEF Shape
  <1>2. PICK j \in 1 + 1 .. Len(script) :
          script[j] \in SuShut /\ \A k \in 1 + 1 .. j - 1 : script[k] \in SuBusy
    BY <1>1 DEF Shape, Bracketed
  <1>3. \A k \in 1 .. j - 1 : script[k].do # "su_close"
    <2>1. ASSUME NEW k \in 1 .. j - 1
          PROVE  script[k].do # "su_close"
      <3>1. k = 1 \/ k \in 1 + 1 .. j - 1
        BY <1>2
      <3>2. script[k] \in SuOpens \cup SuBusy
        BY <1>1, <1>2, <3>1
      <3> QED
        BY <3>2 DEF SuOpens, SuBusy
    <2> QED
      BY <2>1
  <1>4. script[j].do = "su_close"
    BY <1>2 DEF SuShut
  <1>5. SelectInSeq(script, LAMBDA s : s.do = "su_close") = j
    <2> DEFINE I == {i \in 1 .. Len(script) : script[i].do = "su_close"}
    <2>1. j \in I /\ \A i \in I : j <= i
      BY <1>1, <1>2, <1>3, <1>4
    <2>2. I \subseteq Nat
      OBVIOUS
    <2>3. Min(I) = j
      <3>1. Min(I) \in I /\ \A i \in I : Min(I) <= i
        <4> HIDE DEF I
        <4> QED
          BY <2>1, Zenon DEF Min
      <3>2. Min(I) <= j /\ j <= Min(I)
        BY <2>1, <3>1
      <3>3. Min(I) \in Nat /\ j \in Nat
        BY <2>1, <2>2, <3>1
      <3> HIDE DEF I
      <3> QED
        BY <3>2, <3>3
    <2> QED
      BY <2>1, <2>3 DEF SelectInSeq
  <1>6. ToClose = SubSeq(script, j, Len(script))
    BY <1>5 DEF ToClose
  <1> DEFINE t == SubSeq(script, j, Len(script))
  <1>7. /\ t \in Seq(Steps) /\ Len(t) = Len(script) - (j - 1)
        /\ \A i \in 1 .. Len(t) : t[i] = script[i + (j - 1)]
    BY <1>1, <1>2
  <1> HIDE DEF t
  <1>8. j - 1 \in 1 .. Len(script) - 1 /\ From(t, script, j - 1)
    BY <1>1, <1>2, <1>7 DEF From
  <1>9. t # <<>> /\ Head(t) = t[1] /\ t[1] = script[j]
    <2>1. Len(t) \in Nat \ {0} /\ t[1] = script[1 + (j - 1)]
      BY <1>1, <1>2, <1>7
    <2> QED
      BY <1>7, <2>1
  <1>10. From(Tail(t), script, j) /\ j \in 1 .. Len(script)
    <2>1. /\ Tail(t) \in Seq(Steps) /\ Len(Tail(t)) = Len(t) - 1
          /\ \A i \in 1 .. Len(t) - 1 : Tail(t)[i] = t[i + 1]
      BY <1>7, <1>9
    <2>2. ASSUME NEW i \in 1 .. Len(Tail(t))
          PROVE  Tail(t)[i] = script[i + j]
      <3>1. i + 1 \in 1 .. Len(t) /\ (i + 1) + (j - 1) = i + j
        BY <1>1, <1>2, <1>7, <2>1
      <3> QED
        BY <1>7, <2>1, <3>1
    <2>3. j \in 1 .. Len(script) /\ Len(Tail(t)) = Len(script) - j
      BY <1>1, <1>2, <1>7, <2>1
    <2> QED
      BY <2>1, <2>2, <2>3 DEF From
  <1> QED
    BY <1>2, <1>6, <1>8, <1>9, <1>10 DEF t

-----------------------------------------------------------------------------
(* The scripts.                                                            *)

\* A step that is not a read.
LEMMA DoIs ==
  ASSUME NEW d, NEW b
  PROVE  /\ Do(d, b).do = d /\ Do(d, b).on = b
         /\ Do(d, b) \in [do : {d}, on : {b}, reg : Registers, write : BOOLEAN, variant : Nat]
  <1> DEFINE No == FALSE
  <1>1. Do(d, b) = [do |-> d, on |-> b, reg |-> None, write |-> No, variant |-> 0] /\ No \in BOOLEAN
    <2>1. No = FALSE /\ No \in BOOLEAN
      OBVIOUS
    <2> QED
      BY <2>1, Zenon DEF Do
  <1> HIDE DEF No
  <1> QED
    BY <1>1 DEF Registers

\* A read.
LEMMA ReadIs ==
  ASSUME NEW b \in Routes, NEW v \in Nat, NEW r \in Registers
  PROVE  Read(b, v, r) \in Steps /\ Read(b, v, r).do = "transact" /\ Read(b, v, r).on = b
  <1> DEFINE d == Do("transact", b)
  <1>1. d \in [do : {"transact"}, on : {b}, reg : Registers, write : BOOLEAN, variant : Nat]
    BY DoIs
  <1>2. Read(b, v, r) = [d EXCEPT !.reg = r, !.variant = v]
    BY DEF Read
  <1> HIDE DEF d
  <1>3. Read(b, v, r) \in [do : {"transact"}, on : {b}, reg : Registers, write : BOOLEAN, variant : Nat]
    BY <1>1, <1>2
  <1> QED
    BY <1>3 DEF Steps, Exchanges, Routes

\* A script that never opens the hub's bus.
HubFree(s) == \A i \in 1 .. Len(s) : ~HubOpen(s[i])

\* Scripts one after the other.
LEMMA ShapeConcat ==
  ASSUME NEW s, Shape(s), NEW t, Shape(t), HubFree(s) \/ HubFree(t), NEW u, u = s \o t
  PROVE  Shape(u) /\ (HubFree(s) /\ HubFree(t) => HubFree(u))
  <1>1. /\ u \in Seq(Steps) /\ Len(u) = Len(s) + Len(t) /\ Len(s) \in Nat /\ Len(t) \in Nat
        /\ \A i \in 1 .. Len(s) : u[i] = s[i]
        /\ \A i \in 1 .. Len(t) : u[Len(s) + i] = t[i]
    BY DEF Shape
  <1> DEFINE n == Len(s)
  <1>2. \A i \in 1 .. Len(u) :
          \/ i \in 1 .. n /\ u[i] = s[i]
          \/ i - n \in 1 .. Len(t) /\ u[i] = t[i - n]
    <2>1. ASSUME NEW i \in 1 .. Len(u), ~(i \in 1 .. n)
          PROVE  i - n \in 1 .. Len(t) /\ u[i] = t[i - n]
      <3>1. i - n \in 1 .. Len(t) /\ i = n + (i - n)
        BY <1>1, <2>1
      <3> QED
        BY <1>1, <3>1
    <2> QED
      BY <1>1, <2>1
  <1>3. ASSUME NEW opens, NEW busy, NEW shut,
               Bracketed(s, opens, busy, shut), Bracketed(t, opens, busy, shut)
        PROVE  Bracketed(u, opens, busy, shut)
    <2>1. ASSUME NEW i \in 1 .. Len(u), u[i] \in opens \cup busy
          PROVE  \E j \in i + 1 .. Len(u) : u[j] \in shut /\ \A k \in i + 1 .. j - 1 : u[k] \in busy
      <3>1. CASE i \in 1 .. n /\ u[i] = s[i]
        <4>1. PICK j \in i + 1 .. n : s[j] \in shut /\ \A k \in i + 1 .. j - 1 : s[k] \in busy
          BY <1>3, <2>1, <3>1 DEF Bracketed
        <4>2. j \in i + 1 .. Len(u) /\ u[j] = s[j]
          BY <1>1, <4>1
        <4>3. \A k \in i + 1 .. j - 1 : u[k] = s[k]
          BY <1>1, <4>1
        <4> QED
          BY <4>1, <4>2, <4>3
      <3>2. CASE i - n \in 1 .. Len(t) /\ u[i] = t[i - n]
        <4>1. PICK j \in (i - n) + 1 .. Len(t) :
                t[j] \in shut /\ \A k \in (i - n) + 1 .. j - 1 : t[k] \in busy
          BY <1>3, <2>1, <3>2 DEF Bracketed
        <4>2. n + j \in i + 1 .. Len(u) /\ u[n + j] = t[j]
          BY <1>1, <3>2, <4>1
        <4>3. ASSUME NEW k \in i + 1 .. (n + j) - 1
              PROVE  u[k] \in busy
          <5>1. k - n \in (i - n) + 1 .. j - 1 /\ k - n \in 1 .. Len(t) /\ k = n + (k - n)
            BY <1>1, <3>2, <4>1
          <5>2. u[n + (k - n)] = t[k - n]
            BY <1>1, <5>1
          <5> QED
            BY <4>1, <5>1, <5>2
        <4> QED
          BY <4>1, <4>2, <4>3
      <3> QED
        BY <1>2, <3>1, <3>2
    <2> QED
      BY <2>1 DEF Bracketed
  <1>4. Once(u)
    <2>1. ASSUME NEW i \in 1 .. Len(u), NEW j \in 1 .. Len(u), HubOpen(u[i]), HubOpen(u[j])
          PROVE  i = j
      <3>1. CASE HubFree(t)
        <4>1. i \in 1 .. n /\ u[i] = s[i] /\ j \in 1 .. n /\ u[j] = s[j]
          BY <1>2, <2>1, <3>1 DEF HubFree
        <4> QED
          BY <2>1, <4>1 DEF Shape, Once
      <3>2. CASE HubFree(s)
        <4>1. i - n \in 1 .. Len(t) /\ u[i] = t[i - n] /\ j - n \in 1 .. Len(t) /\ u[j] = t[j - n]
          BY <1>2, <2>1, <3>2 DEF HubFree
        <4>2. i - n = j - n
          BY <2>1, <4>1 DEF Shape, Once
        <4> QED
          BY <1>1, <4>2
      <3> QED
        BY <3>1, <3>2
    <2> QED
      BY <2>1 DEF Once
  <1>5. HubFree(s) /\ HubFree(t) => HubFree(u)
    BY <1>2 DEF HubFree
  <1> QED
    BY <1>1, <1>3, <1>4, <1>5 DEF Shape

\* Steps that belong to no session.
Plain == {s \in Steps : /\ s.do \notin {"open", "scan", "su_open", "su_io", "su_try"}
                        /\ ~(s.do \in Exchanges /\ s.on = "probe")}

\* A script of them.
LEMMA PlainShape ==
  ASSUME NEW s \in Seq(Plain)
  PROVE  Shape(s) /\ HubFree(s)
  <1>1. s \in Seq(Steps) /\ \A i \in 1 .. Len(s) : s[i] \in Plain
    <2>1. Len(s) \in Nat /\ \A i \in 1 .. Len(s) : s[i] \in Plain
      OBVIOUS
    <2>2. Plain \subseteq Steps
      BY DEF Plain
    <2> QED
      BY <2>1, <2>2
  <1>2. HubFree(s)
    BY <1>1 DEF HubFree, HubOpen, Plain
  <1>3. Bracketed(s, SuOpens, SuBusy, SuShut)
    BY <1>1 DEF Bracketed, Plain, SuOpens, SuBusy
  <1>4. Bracketed(s, ProbeOpens, ProbeBusy, ProbeShut)
    BY <1>1 DEF Bracketed, Plain, ProbeOpens, ProbeBusy
  <1> QED
    BY <1>1, <1>2, <1>3, <1>4 DEF Shape, Once, HubFree

\* A script of one session, with SUPERUSER or of a probe.
LEMMA SessionShape ==
  ASSUME NEW s \in Seq(Steps), NEW n \in Nat, Len(s) = n + 2,
         \/ s[1] \in SuOpens /\ s[n + 2] \in SuShut /\ \A i \in 2 .. n + 1 : s[i] \in SuBusy
         \/ s[1] \in ProbeOpens /\ s[n + 2] \in ProbeShut /\ \A i \in 2 .. n + 1 : s[i] \in ProbeBusy
  PROVE  Shape(s) /\ HubFree(s)
  <1>1. \A i \in 1 .. n + 2 : i = 1 \/ i \in 2 .. n + 1 \/ i = n + 2
    OBVIOUS
  <1>2. n + 2 \in 1 .. n + 2 /\ 1 \in 1 .. n + 2
    OBVIOUS
  <1>3. HubFree(s)
    BY <1>1 DEF HubFree, HubOpen, SuOpens, SuBusy, SuShut, ProbeOpens, ProbeBusy, ProbeShut, Exchanges
  <1>4. ASSUME NEW opens, NEW busy, NEW shut, s[n + 2] \in shut, s[n + 2] \notin opens \cup busy,
               \A i \in 2 .. n + 1 : s[i] \in busy
        PROVE  Bracketed(s, opens, busy, shut)
    <2>1. ASSUME NEW i \in 1 .. Len(s), s[i] \in opens \cup busy
          PROVE  \E j \in i + 1 .. Len(s) : s[j] \in shut /\ \A k \in i + 1 .. j - 1 : s[k] \in busy
      <3>1. i # n + 2
        BY <1>4, <2>1
      <3>2. n + 2 \in i + 1 .. Len(s) /\ \A k \in i + 1 .. (n + 2) - 1 : k \in 2 .. n + 1
        BY <3>1
      <3> QED
        BY <1>4, <3>2
    <2> QED
      BY <2>1 DEF Bracketed
  <1>5. CASE s[1] \in SuOpens /\ s[n + 2] \in SuShut /\ \A i \in 2 .. n + 1 : s[i] \in SuBusy
    <2>1. Bracketed(s, SuOpens, SuBusy, SuShut)
      <3>1. s[n + 2] \notin SuOpens \cup SuBusy
        BY <1>5 DEF SuOpens, SuBusy, SuShut
      <3> QED
        BY <1>4, <1>5, <3>1
    <2>2. Bracketed(s, ProbeOpens, ProbeBusy, ProbeShut)
      <3>1. \A i \in 1 .. n + 2 : s[i] \notin ProbeOpens \cup ProbeBusy
        BY <1>1, <1>5 DEF SuOpens, SuBusy, SuShut, ProbeOpens, ProbeBusy, Exchanges
      <3> QED
        BY <3>1 DEF Bracketed
    <2> QED
      BY <1>3, <2>1, <2>2 DEF Shape, Once, HubFree
  <1>6. CASE s[1] \in ProbeOpens /\ s[n + 2] \in ProbeShut /\ \A i \in 2 .. n + 1 : s[i] \in ProbeBusy
    <2>1. Bracketed(s, ProbeOpens, ProbeBusy, ProbeShut)
      <3>1. s[n + 2] \notin ProbeOpens \cup ProbeBusy
        BY <1>6 DEF ProbeOpens, ProbeBusy, ProbeShut, Exchanges
      <3> QED
        BY <1>4, <1>6, <3>1
    <2>2. Bracketed(s, SuOpens, SuBusy, SuShut)
      <3>1. \A i \in 1 .. n + 2 : s[i] \notin SuOpens \cup SuBusy
        BY <1>1, <1>6 DEF SuOpens, SuBusy, ProbeShut, ProbeOpens, ProbeBusy, Exchanges
      <3> QED
        BY <3>1 DEF Bracketed
    <2> QED
      BY <1>3, <2>1, <2>2 DEF Shape, Once, HubFree
  <1> QED
    BY <1>5, <1>6

\* A place of a repeated script and its place in the script, for the two lengths there are.
LEMMA Places ==
  ASSUME NEW L \in {2, 3}, NEW n \in Nat, NEW i \in 1 .. n * L
  PROVE  LET r == 1 + ((i - 1) % L) IN
         /\ n * L \in Nat /\ r \in 1 .. L /\ i + (L - r) <= n * L
         /\ \A d \in 0 .. L - r : 1 + (((i + d) - 1) % L) = r + d
  <1>1. CASE L = 2
    <2>1. n * 2 \in Nat /\ i \in 1 .. n * 2
      BY <1>1
    <2>2. LET r == 1 + ((i - 1) % 2) IN
          /\ r \in 1 .. 2 /\ i + (2 - r) <= n * 2
          /\ \A d \in 0 .. 2 - r : 1 + (((i + d) - 1) % 2) = r + d
      BY <2>1
    <2> QED
      BY <1>1, <2>1, <2>2
  <1>2. CASE L = 3
    <2>1. n * 3 \in Nat /\ i \in 1 .. n * 3
      BY <1>2
    <2>2. LET r == 1 + ((i - 1) % 3) IN
          /\ r \in 1 .. 3 /\ i + (3 - r) <= n * 3
          /\ \A d \in 0 .. 3 - r : 1 + (((i + d) - 1) % 3) = r + d
      BY <2>1
    <2> QED
      BY <1>2, <2>1, <2>2
  <1> QED
    BY <1>1, <1>2

\* A script that is repeated.
LEMMA CycledShape ==
  ASSUME NEW s, Shape(s), HubFree(s), Len(s) \in {2, 3}, NEW n \in Nat
  PROVE  Shape(Cycled(n, s)) /\ HubFree(Cycled(n, s))
  <1> DEFINE L == Len(s)
             u == Cycled(n, s)
             At(i) == 1 + ((i - 1) % L)
  <1>1. /\ n * L \in Nat /\ L \in {2, 3}
        /\ \A i \in 1 .. n * L :
             /\ At(i) \in 1 .. L /\ i + (L - At(i)) <= n * L
             /\ \A d \in 0 .. L - At(i) : At(i + d) = At(i) + d
    <2>1. n * L \in Nat
      OBVIOUS
    <2> QED
      BY <2>1, Places
  <1>2. u = [i \in 1 .. n * L |-> s[At(i)]]
    BY DEF Cycled
  <1>3. s \in Seq(Steps)
    BY DEF Shape
  <1> HIDE DEF u, At, L
  <1>4. u \in Seq(Steps) /\ Len(u) = n * L /\ \A i \in 1 .. n * L : u[i] = s[At(i)]
    <2> DEFINE N == n * L
    <2>1. \A i \in 1 .. n * L : s[At(i)] \in Steps
      BY <1>1, <1>3 DEF L
    <2>2. N \in Nat /\ u = [i \in 1 .. N |-> s[At(i)]] /\ \A i \in 1 .. N : s[At(i)] \in Steps
      BY <1>1, <1>2, <2>1
    <2> HIDE DEF N
    <2>3. u \in Seq(Steps) /\ Len(u) = N /\ \A i \in 1 .. N : u[i] = s[At(i)]
      BY <2>2
    <2> QED
      BY <2>3 DEF N
  <1>5. ASSUME NEW opens, NEW busy, NEW shut, Bracketed(s, opens, busy, shut)
        PROVE  Bracketed(u, opens, busy, shut)
    <2>1. ASSUME NEW i \in 1 .. n * L, u[i] \in opens \cup busy
          PROVE  \E j \in i + 1 .. n * L : u[j] \in shut /\ \A k \in i + 1 .. j - 1 : u[k] \in busy
      <3> DEFINE r == At(i)
      <3>1. r \in 1 .. L /\ s[r] \in opens \cup busy /\ i + (L - r) <= n * L
            /\ \A d \in 0 .. L - r : At(i + d) = r + d
        BY <1>1, <1>4, <2>1
      <3> HIDE DEF r
      <3>2. PICK q \in r + 1 .. L : s[q] \in shut /\ \A k \in r + 1 .. q - 1 : s[k] \in busy
        BY <1>5, <3>1 DEF Bracketed, L
      <3>3. \A d \in 0 .. L - r : i + d \in 1 .. n * L /\ u[i + d] = s[r + d]
        <4>1. ASSUME NEW d \in 0 .. L - r
              PROVE  i + d \in 1 .. n * L /\ u[i + d] = s[r + d]
          <5>1. i + d \in 1 .. n * L
            BY <1>1, <3>1
          <5>2. u[i + d] = s[At(i + d)] /\ At(i + d) = r + d
            BY <1>4, <3>1, <5>1
          <5> QED
            BY <5>1, <5>2
        <4> QED
          BY <4>1
      <3>4. q - r \in 0 .. L - r /\ i + (q - r) \in i + 1 .. n * L /\ r + (q - r) = q
        BY <1>1, <3>1, <3>2
      <3>5. u[i + (q - r)] = s[r + (q - r)]
        BY <3>3, <3>4
      <3>6. u[i + (q - r)] \in shut
        BY <3>2, <3>4, <3>5
      <3>7. ASSUME NEW k \in i + 1 .. (i + (q - r)) - 1
            PROVE  u[k] \in busy
        <4>1. k - i \in 0 .. L - r /\ i + (k - i) = k /\ r + (k - i) \in r + 1 .. q - 1
          BY <1>1, <3>1, <3>2
        <4>2. u[i + (k - i)] = s[r + (k - i)]
          BY <3>3, <4>1
        <4> QED
          BY <3>2, <4>1, <4>2
      <3> QED
        BY <3>4, <3>6, <3>7
    <2> QED
      BY <1>4, <2>1 DEF Bracketed
  <1>6. HubFree(u)
    BY <1>1, <1>4 DEF HubFree, L
  <1> QED
    BY <1>4, <1>5, <1>6 DEF Shape, Once, HubFree, u

\* A sequence of three steps, and what is at its places.
LEMMA Triple ==
  ASSUME NEW x \in Steps, NEW y \in Steps, NEW z \in Steps, NEW s, s = <<x, y, z>>
  PROVE  s \in Seq(Steps) /\ Len(s) = 3 /\ s[1] = x /\ s[2] = y /\ s[3] = z
  OBVIOUS

\* A sequence of two.
LEMMA Pair ==
  ASSUME NEW x \in Steps, NEW y \in Steps, NEW s, s = <<x, y>>
  PROVE  s \in Seq(Steps) /\ Len(s) = 2 /\ s[1] = x /\ s[2] = y
  OBVIOUS

\* A sequence of four.
LEMMA Quadruple ==
  ASSUME NEW w \in Steps, NEW x \in Steps, NEW y \in Steps, NEW z \in Steps,
         NEW s, s = <<w, x, y, z>>
  PROVE  s \in Seq(Steps) /\ Len(s) = 4 /\ s[1] = w /\ s[2] = x /\ s[3] = y /\ s[4] = z
  OBVIOUS

\* The steps of the probes.
LEMMA ProbeSteps ==
  /\ Do("open", "probe") \in ProbeOpens /\ Do("scan", "probe") \in ProbeOpens
  /\ Do("attach", "probe") \in ProbeBusy /\ Do("spmi16", "probe") \in ProbeBusy
  /\ Read("probe", 0, "id") \in ProbeBusy
  /\ [Do("spmi16", "probe") EXCEPT !.reg = "swapped"] \in ProbeBusy
  /\ Do("close", "probe") \in ProbeShut
  <1>1. Do("open", "probe") \in ProbeOpens /\ Do("scan", "probe") \in ProbeOpens
    BY DoIs DEF ProbeOpens, Steps, Exchanges, Routes
  <1>2. Do("attach", "probe") \in ProbeBusy /\ Do("spmi16", "probe") \in ProbeBusy
    BY DoIs DEF ProbeBusy, Steps, Exchanges, Routes
  <1>3. Read("probe", 0, "id") \in ProbeBusy
    BY ReadIs DEF ProbeBusy, Exchanges, Routes, Registers
  <1>4. [Do("spmi16", "probe") EXCEPT !.reg = "swapped"] \in ProbeBusy
    <2> DEFINE d == Do("spmi16", "probe")
    <2>1. d \in [do : {"spmi16"}, on : {"probe"}, reg : Registers, write : BOOLEAN, variant : Nat]
      BY DoIs
    <2> HIDE DEF d
    <2>2. [d EXCEPT !.reg = "swapped"]
            \in [do : {"spmi16"}, on : {"probe"}, reg : Registers, write : BOOLEAN, variant : Nat]
      BY <2>1 DEF Registers
    <2>3. [d EXCEPT !.reg = "swapped"] \in ProbeBusy
      BY <2>2 DEF ProbeBusy, Steps, Exchanges, Routes
    <2> QED
      BY <2>3 DEF d
  <1>5. Do("close", "probe") \in ProbeShut
    BY DoIs DEF ProbeShut, Steps, Exchanges, Routes
  <1> QED
    BY <1>1, <1>2, <1>3, <1>4, <1>5

\* The steps of SUPERUSER.
LEMMA SuSteps ==
  /\ Do("su_open", None) \in SuOpens /\ Do("su_close", None) \in SuShut
  /\ Do("su_try", None) \in SuBusy /\ SuTransfer \in SuBusy
  BY DoIs DEF SuOpens, SuShut, SuBusy, SuTransfer, Steps, Exchanges, Routes

\* Sessions are made of steps.
LEMMA SessionSteps ==
  /\ SuOpens \subseteq Steps /\ SuBusy \subseteq Steps /\ SuShut \subseteq Steps
  /\ ProbeOpens \subseteq Steps /\ ProbeBusy \subseteq Steps /\ ProbeShut \subseteq Steps
  BY DEF SuOpens, SuBusy, SuShut, ProbeOpens, ProbeBusy, ProbeShut

\* A probe of three steps.
LEMMA ProbeShape ==
  ASSUME NEW x \in ProbeOpens, NEW y \in ProbeBusy, NEW z \in ProbeShut, NEW s, s = <<x, y, z>>
  PROVE  Shape(s) /\ HubFree(s) /\ Len(s) = 3
  <1>1. s \in Seq(Steps) /\ Len(s) = 3 /\ s[1] = x /\ s[2] = y /\ s[3] = z
    BY SessionSteps, Triple
  <1>2. Len(s) = 1 + 2 /\ s[1 + 2] = z /\ \A i \in 2 .. 1 + 1 : s[i] = y
    BY <1>1
  <1> QED
    BY <1>1, <1>2, SessionShape

\* Every layout on a route.
LEMMA VariantsShape ==
  ASSUME NEW b \in {"parent", "hub"}
  PROVE  Shape(TryVariants(b)) /\ HubFree(TryVariants(b))
  <1>1. \A i \in 1 .. LastVariant + 1 : Read(b, i - 1, "id") \in Plain
    <2>1. ASSUME NEW i \in 1 .. LastVariant + 1
          PROVE  Read(b, i - 1, "id") \in Plain
      <3>1. i - 1 \in Nat
        BY BusAssumption
      <3>2. b \in Routes /\ "id" \in Registers
        BY DEF Routes, Registers
      <3> QED
        BY <3>1, <3>2, ReadIs DEF Plain
    <2> QED
      BY <2>1
  <1>2. LastVariant + 1 \in Nat
    BY BusAssumption
  <1> DEFINE s == TryVariants(b)
  <1>3. s \in Seq(Plain)
    BY <1>1, <1>2 DEF TryVariants
  <1> HIDE DEF s
  <1>4. Shape(s) /\ HubFree(s)
    BY <1>3, PlainShape
  <1> QED
    BY <1>4 DEF s

\* One plain step, three of them, and seven.
LEMMA PlainShapes ==
  ASSUME NEW x \in Plain, NEW y \in Plain, NEW z \in Plain
  PROVE  /\ Shape(<<x>>) /\ HubFree(<<x>>)
         /\ Shape(<<x, y, z>>) /\ HubFree(<<x, y, z>>)
         /\ Shape(Times(7, x)) /\ HubFree(Times(7, x))
  <1>1. <<x>> \in Seq(Plain) /\ <<x, y, z>> \in Seq(Plain)
    OBVIOUS
  <1>2. Times(7, x) \in Seq(Plain)
    BY DEF Times
  <1> QED
    BY <1>1, <1>2, PlainShape

\* The plain steps of evt_prepare_hardware.
LEMMA PlainSteps ==
  /\ Do("attach", "parent") \in Plain /\ Do("restore", "parent") \in Plain
  /\ Do("lock", "parent") \in Plain /\ Do("ioctl", "parent") \in Plain /\ Do("pump", None) \in Plain
  /\ \A r \in {"id", "reg00", "reg03", "reg31"} : Read("parent", 0, r) \in Plain
  <1>1. /\ Do("attach", "parent") \in Plain /\ Do("restore", "parent") \in Plain
        /\ Do("lock", "parent") \in Plain /\ Do("ioctl", "parent") \in Plain
        /\ Do("pump", None) \in Plain
    BY DoIs DEF Plain, Steps, Exchanges, Routes
  <1>2. \A r \in {"id", "reg00", "reg03", "reg31"} : Read("parent", 0, r) \in Plain
    BY ReadIs DEF Plain, Registers, Routes
  <1> QED
    BY <1>1, <1>2

\* The probes and the sessions of evt_prepare_hardware.
LEMMA ProbeShapes ==
  /\ Shape(parent_attach_probe) /\ HubFree(parent_attach_probe)
  /\ Shape(parent_sequence_probe) /\ HubFree(parent_sequence_probe)
  /\ Shape(Cycled(Candidates, ScanNode)) /\ HubFree(Cycled(Candidates, ScanNode))
  /\ Shape(NamedProbing) /\ HubFree(NamedProbing)
  /\ Shape(probe_superuser_apsd) /\ HubFree(probe_superuser_apsd)
  /\ Shape(probe_usbin_spmi) /\ HubFree(probe_usbin_spmi)
  <1>1. Shape(parent_attach_probe) /\ HubFree(parent_attach_probe)
    BY ProbeSteps, ProbeShape DEF parent_attach_probe
  <1>2. Shape(parent_sequence_probe) /\ HubFree(parent_sequence_probe)
    BY ProbeSteps, ProbeShape DEF parent_sequence_probe
  <1>3. Shape(Cycled(Candidates, ScanNode)) /\ HubFree(Cycled(Candidates, ScanNode))
    <2>1. Shape(ScanNode) /\ HubFree(ScanNode) /\ Len(ScanNode) = 3
      BY ProbeSteps, ProbeShape DEF ScanNode
    <2>2. Len(ScanNode) \in {2, 3} /\ Candidates \in Nat
      BY <2>1, BusAssumption
    <2> QED
      BY <2>1, <2>2, CycledShape
  <1>4. Shape(NamedProbing) /\ HubFree(NamedProbing)
    <2> DEFINE s == probe_named_target
               x == Do("su_open", None)
               y == Do("su_close", None)
    <2>1. s = <<x, y>> /\ x \in SuOpens /\ y \in SuShut
      BY SuSteps DEF probe_named_target
    <2> HIDE DEF s, x, y
    <2>2. s \in Seq(Steps) /\ Len(s) = 2 /\ s[1] = x /\ s[2] = y
      BY <2>1, SessionSteps, Pair
    <2>3. Shape(s) /\ HubFree(s)
      <3>1. Len(s) = 0 + 2 /\ s[0 + 2] = y /\ \A i \in 2 .. 0 + 1 : s[i] \in SuBusy
        BY <2>2
      <3> QED
        BY <2>1, <2>2, <3>1, SessionShape
    <2>4. Len(s) \in {2, 3} /\ NamedProbes \in Nat
      BY <2>2, BusAssumption
    <2>5. Shape(Cycled(NamedProbes, s)) /\ HubFree(Cycled(NamedProbes, s))
      BY <2>3, <2>4, CycledShape
    <2> QED
      BY <2>5 DEF NamedProbing, s
  <1>5. Shape(probe_superuser_apsd) /\ HubFree(probe_superuser_apsd)
    <2> DEFINE s == probe_superuser_apsd
               w == Do("su_open", None)
               x == Do("su_try", None)
               z == Do("su_close", None)
    <2>1. s = <<w, x, x, z>> /\ w \in SuOpens /\ x \in SuBusy /\ z \in SuShut
      BY SuSteps DEF probe_superuser_apsd
    <2> HIDE DEF s, w, x, z
    <2>2. s \in Seq(Steps) /\ Len(s) = 4 /\ s[1] = w /\ s[2] = x /\ s[3] = x /\ s[4] = z
      BY <2>1, SessionSteps, Quadruple
    <2>3. Len(s) = 2 + 2 /\ s[2 + 2] = z /\ \A i \in 2 .. 2 + 1 : s[i] = x
      <3>1. \A i \in 2 .. 2 + 1 : i = 2 \/ i = 3
        OBVIOUS
      <3> QED
        BY <2>2, <3>1
    <2>4. Shape(s) /\ HubFree(s)
      BY <2>1, <2>2, <2>3, SessionShape
    <2> QED
      BY <2>4 DEF s
  <1>6. Shape(probe_usbin_spmi) /\ HubFree(probe_usbin_spmi)
    <2> DEFINE s == probe_usbin_spmi
               w == Do("open", "probe")
               x == Do("spmi16", "probe")
               y == [Do("spmi16", "probe") EXCEPT !.reg = "swapped"]
               z == Do("close", "probe")
    <2>1. s = <<w, x, y, z>> /\ w \in ProbeOpens /\ x \in ProbeBusy /\ y \in ProbeBusy /\ z \in ProbeShut
      BY ProbeSteps DEF probe_usbin_spmi
    <2> HIDE DEF s, w, x, y, z
    <2>2. s \in Seq(Steps) /\ Len(s) = 4 /\ s[1] = w /\ s[2] = x /\ s[3] = y /\ s[4] = z
      BY <2>1, SessionSteps, Quadruple
    <2>3. Len(s) = 2 + 2 /\ s[2 + 2] = z /\ \A i \in 2 .. 2 + 1 : s[i] = x \/ s[i] = y
      <3>1. \A i \in 2 .. 2 + 1 : i = 2 \/ i = 3
        OBVIOUS
      <3> QED
        BY <2>2, <3>1
    <2>4. \A i \in 2 .. 2 + 1 : s[i] \in ProbeBusy
      BY <2>1, <2>3
    <2>5. Shape(s) /\ HubFree(s)
      BY <2>1, <2>2, <2>3, <2>4, SessionShape
    <2> QED
      BY <2>5 DEF s
  <1> QED
    BY <1>1, <1>2, <1>3, <1>4, <1>5, <1>6

\* The one script that opens the hub's bus.
LEMMA HubShape == Shape(<<Do("open", "hub")>>)
  <1> DEFINE x == Do("open", "hub")
             s == <<x>>
  <1>1. x \in Steps /\ x \notin SuOpens \cup SuBusy \cup ProbeOpens \cup ProbeBusy
    BY DoIs DEF Steps, Exchanges, Routes, SuOpens, SuBusy, ProbeOpens, ProbeBusy
  <1> HIDE DEF x
  <1>2. s \in Seq(Steps) /\ Len(s) = 1 /\ s[1] = x
    BY <1>1
  <1> HIDE DEF s
  <1>3. \A i \in 1 .. Len(s) : i = 1
    BY <1>2
  <1>4. Shape(s)
    BY <1>1, <1>2, <1>3 DEF Shape, Bracketed, Once
  <1> QED
    BY <1>4 DEF s, x

\* A script goes on without opening the hub's bus.
LEMMA GoesOn ==
  ASSUME NEW s, Shape(s), NEW t, Shape(t), HubFree(t)
  PROVE  Shape(s \o t) /\ (HubFree(s) => HubFree(s \o t))
  BY ShapeConcat

\* evt_prepare_hardware has the shape.
LEMMA PrepareShape ==
  ASSUME NEW usbin \in BOOLEAN
  PROVE  Shape(PrepareScript(usbin))
  <1> DEFINE r == <<Do("restore", "parent"), Do("lock", "parent"), Read("parent", 0, "id")>>
             g == <<Read("parent", 0, "reg00"), Read("parent", 0, "reg03"), Read("parent", 0, "reg31")>>
             a == <<Do("attach", "parent")>>
             i == Times(7, Do("ioctl", "parent"))
             h == <<Do("open", "hub")>>
             e == <<Do("pump", None)>>
             q == IF usbin THEN probe_usbin_spmi ELSE <<>>
             v == TryVariants("parent")
             w == TryVariants("hub")
             c == Cycled(Candidates, ScanNode)
             one == parent_attach_probe
             two == parent_sequence_probe
             named == NamedProbing
             apsd == probe_superuser_apsd
  <1>1. /\ Shape(one) /\ HubFree(one) /\ Shape(two) /\ HubFree(two) /\ Shape(c) /\ HubFree(c)
        /\ Shape(named) /\ HubFree(named) /\ Shape(apsd) /\ HubFree(apsd)
    BY ProbeShapes
  <1>2. Shape(v) /\ HubFree(v) /\ Shape(w) /\ HubFree(w)
    BY VariantsShape
  <1>3. /\ Shape(r) /\ HubFree(r) /\ Shape(g) /\ HubFree(g) /\ Shape(a) /\ HubFree(a)
        /\ Shape(i) /\ HubFree(i) /\ Shape(e) /\ HubFree(e)
    BY PlainSteps, PlainShapes
  <1>4. Shape(h)
    BY HubShape
  <1>5. Shape(q) /\ HubFree(q)
    <2>1. <<>> \in Seq(Plain)
      OBVIOUS
    <2>2. Shape(<<>>) /\ HubFree(<<>>)
      BY <2>1, PlainShape
    <2> QED
      BY <2>2, ProbeShapes
  <1>6. PrepareScript(usbin)
          = one \o two \o a \o v \o r \o g \o i \o h \o w \o c \o named \o apsd \o q \o e
    BY DEF PrepareScript
  <1> HIDE DEF r, g, a, i, h, e, q, v, w, c, one, two, named, apsd
  <1>7. Shape(one \o two \o a \o v) /\ HubFree(one \o two \o a \o v)
    <2>1. Shape(one \o two) /\ HubFree(one \o two)
      BY <1>1, GoesOn
    <2>2. Shape(one \o two \o a) /\ HubFree(one \o two \o a)
      BY <1>3, <2>1, GoesOn
    <2> QED
      BY <1>2, <2>2, GoesOn
  <1> DEFINE first == one \o two \o a \o v
  <1>8. Shape(first) /\ HubFree(first)
    BY <1>7
  <1> HIDE DEF first
  <1>9. Shape(first \o r \o g \o i) /\ HubFree(first \o r \o g \o i)
    <2>1. Shape(first \o r) /\ HubFree(first \o r)
      BY <1>3, <1>8, GoesOn
    <2>2. Shape(first \o r \o g) /\ HubFree(first \o r \o g)
      BY <1>3, <2>1, GoesOn
    <2> QED
      BY <1>3, <2>2, GoesOn
  <1> DEFINE second == first \o r \o g \o i
  <1>10. Shape(second) /\ HubFree(second)
    BY <1>9
  <1> HIDE DEF second
  <1>11. Shape(second \o h)
    BY <1>4, <1>10, ShapeConcat
  <1>12. Shape(second \o h \o w \o c)
    <2>1. Shape(second \o h \o w)
      BY <1>2, <1>11, GoesOn
    <2> QED
      BY <1>1, <2>1, GoesOn
  <1>13. Shape(second \o h \o w \o c \o named \o apsd)
    <2>1. Shape(second \o h \o w \o c \o named)
      BY <1>1, <1>12, GoesOn
    <2> QED
      BY <1>1, <2>1, GoesOn
  <1>14. Shape(second \o h \o w \o c \o named \o apsd \o q \o e)
    <2>1. Shape(second \o h \o w \o c \o named \o apsd \o q)
      BY <1>5, <1>13, GoesOn
    <2> QED
      BY <1>3, <2>1, GoesOn
  <1> QED
    BY <1>6, <1>14 DEF first, second

\* What is concatenated is found in its place.
LEMMA Concat ==
  ASSUME NEW s \in Seq(Steps), NEW t \in Seq(Steps), NEW u, u = s \o t
  PROVE  /\ u \in Seq(Steps) /\ Len(u) = Len(s) + Len(t)
         /\ \A i \in 1 .. Len(s) : u[i] = s[i]
         /\ \A i \in 1 .. Len(t) : u[Len(s) + i] = t[i]
  OBVIOUS

\* A session with SUPERUSER has it.
LEMMA SuSessionShape ==
  ASSUME NEW grants \in Nat, NEW transfers \in Nat
  PROVE  Shape(SuSession(grants, transfers)) /\ HubFree(SuSession(grants, transfers))
  <1> DEFINE n == grants + transfers
             x == Do("su_open", None)
             z == Do("su_close", None)
             f == <<x>>
             m == Times(n, SuTransfer)
             l == <<z>>
             s == (f \o m) \o l
  <1>1. x \in SuOpens /\ z \in SuShut /\ SuTransfer \in SuBusy
        /\ x \in Steps /\ z \in Steps /\ SuTransfer \in Steps /\ n \in Nat
    BY SuSteps, SessionSteps
  <1> HIDE DEF x, z, n
  <1>2. /\ f \in Seq(Steps) /\ Len(f) = 1 /\ f[1] = x
        /\ l \in Seq(Steps) /\ Len(l) = 1 /\ l[1] = z
    BY <1>1
  <1>3. m \in Seq(Steps) /\ Len(m) = n /\ \A i \in 1 .. n : m[i] = SuTransfer
    BY <1>1 DEF Times
  <1> HIDE DEF f, l, m
  <1> DEFINE fm == f \o m
  <1>4. /\ fm \in Seq(Steps) /\ Len(fm) = n + 1 /\ fm[1] = x
        /\ \A i \in 2 .. n + 1 : fm[i] = SuTransfer
    <2>1. fm = f \o m /\ f \in Seq(Steps) /\ m \in Seq(Steps)
      BY <1>2, <1>3
    <2> HIDE DEF fm
    <2>2. /\ fm \in Seq(Steps) /\ Len(fm) = Len(f) + Len(m) /\ \A i \in 1 .. Len(f) : fm[i] = f[i]
          /\ \A i \in 1 .. Len(m) : fm[Len(f) + i] = m[i]
      BY <2>1, Concat
    <2>3. /\ fm \in Seq(Steps) /\ Len(fm) = 1 + n /\ fm[1] = f[1]
          /\ \A i \in 1 .. n : fm[1 + i] = m[i]
      BY <1>2, <1>3, <2>2
    <2>4. ASSUME NEW i \in 2 .. n + 1
          PROVE  fm[i] = SuTransfer
      <3>1. i - 1 \in 1 .. n /\ 1 + (i - 1) = i
        BY <1>1
      <3> QED
        BY <1>3, <2>3, <3>1
    <2> QED
      BY <1>1, <1>2, <2>3, <2>4
  <1> HIDE DEF fm
  <1>5. /\ s \in Seq(Steps) /\ Len(s) = n + 2 /\ s[1] = x /\ s[n + 2] = z
        /\ \A i \in 2 .. n + 1 : s[i] = SuTransfer
    <2>1. s = fm \o l /\ fm \in Seq(Steps) /\ l \in Seq(Steps)
      BY <1>2, <1>4 DEF fm
    <2> HIDE DEF s
    <2>2. /\ s \in Seq(Steps) /\ Len(s) = Len(fm) + Len(l) /\ \A i \in 1 .. Len(fm) : s[i] = fm[i]
          /\ \A i \in 1 .. Len(l) : s[Len(fm) + i] = l[i]
      BY <2>1, Concat
    <2>3. /\ s \in Seq(Steps) /\ Len(s) = (n + 1) + 1 /\ \A i \in 1 .. n + 1 : s[i] = fm[i]
          /\ s[(n + 1) + 1] = l[1]
      BY <1>2, <1>4, <2>2
    <2>4. n + 1 \in Nat /\ (n + 1) + 1 = n + 2 /\ 1 \in 1 .. n + 1 /\ 2 .. n + 1 \subseteq 1 .. n + 1
      BY <1>1
    <2> QED
      BY <1>2, <1>4, <2>3, <2>4
  <1>6. SuSession(grants, transfers) = s
    BY DEF SuSession, fm, f, m, l, n, x, z
  <1> HIDE DEF s
  <1>7. Shape(s) /\ HubFree(s)
    BY <1>1, <1>5, SessionShape
  <1> QED
    BY <1>6, <1>7

-----------------------------------------------------------------------------
(* One exchange.                                                           *)

\* What a request may become: b, or b with a request lost.
Left(c, b) ==
  /\ c \in Buses /\ c.open = b.open /\ c.variant = b.variant
  /\ c = b \/ c.lost

\* A request that is sent.
LEMMA SentIs ==
  ASSUME NEW b \in Buses, NEW op \in Exchanges, NEW r \in Sent(b, op)
  PROVE  Left(r.bus, b)
  <1>1. r.bus = b \/ r.bus = send_failed(b, op)
    BY DEF Sent
  <1>2. send_failed(b, op) \in Buses /\ send_failed(b, op).open = b.open
        /\ send_failed(b, op).variant = b.variant /\ send_failed(b, op).lost
    <2> DEFINE Yes == TRUE
    <2>1. Yes \in BOOLEAN /\ Yes /\ send_failed(b, op) = [b EXCEPT !.lost = Yes, !.held = Yes, !.format = op]
      <3>1. Yes = TRUE /\ Yes \in BOOLEAN /\ Yes
        OBVIOUS
      <3> QED
        BY <3>1, Zenon DEF send_failed
    <2> HIDE DEF Yes
    <2> QED
      BY <2>1 DEF Buses
  <1> QED
    BY <1>1, <1>2 DEF Left

\* An exchange, on the bus with the layout of the step: a bus that has lost its
\* request is left as it was, and so a held request is.
LEMMA ExchangeIs ==
  ASSUME NEW b \in Buses, b.held => b.lost,
         NEW s \in Steps, s.do \in Exchanges, NEW r \in exchange(b, s)
  PROVE  /\ r.bus \in Buses /\ r.bus.open = b.open
         /\ r.bus.held => r.bus.lost
         /\ b.held => r.bus.lost /\ r.bus.list = b.list /\ r.bus.format = b.format
  <1> DEFINE c == [b EXCEPT !.variant = s.variant]
  <1>1. /\ c \in Buses /\ c.open = b.open /\ c.lost = b.lost /\ c.held = b.held
        /\ c.list = b.list /\ c.format = b.format
    BY DEF Buses, Steps
  <1>2. s.reg \in Registers /\ s.write \in BOOLEAN
    BY DEF Steps
  <1>3. prepare_spmi16(b, s) \in [reg : Registers, count : Nat]
        /\ prepare(c, s) \in [reg : Registers, count : Nat]
    <2>1. prepare_spmi16(b, s) \in [reg : Registers, count : Nat]
          /\ prepare_spmi16(c, s) \in [reg : Registers, count : Nat]
      BY <1>2 DEF prepare_spmi16
    <2> QED
      BY <2>1 DEF prepare
  <1> HIDE DEF c
  <1> DEFINE p == [c EXCEPT !.list = prepare(c, s)]
             q == [b EXCEPT !.list = prepare_spmi16(b, s)]
  <1>4. /\ p \in Buses /\ p.open = b.open /\ p.lost = b.lost /\ p.held = b.held
        /\ q \in Buses /\ q.open = b.open /\ q.lost = b.lost /\ q.held = b.held
    BY <1>1, <1>3 DEF Buses
  <1> HIDE DEF p, q
  <1>5. exchange(b, s) \in
          {IF b.lost THEN Refused(c) ELSE Sent(p, s.do),
           IF b.lost THEN Refused(b) ELSE Sent(q, s.do),
           IF b.lost THEN Refused(b) ELSE Sent(b, "attach"),
           IF b.lost THEN Refused(b) ELSE Sent(b, "lock"),
           IF b.lost THEN Refused(b) ELSE Sent(b, "ioctl")}
    <2>1. CASE s.do = "transact"
      BY <1>1, <2>1 DEF exchange, transact, cached_request, c, p
    <2>2. CASE s.do = "spmi16"
      BY <2>2 DEF exchange, transact_spmi16, cached_request, q
    <2>3. CASE s.do = "attach"
      BY <2>3 DEF exchange, attach, cached_request
    <2>4. CASE s.do = "lock"
      BY <2>4 DEF exchange, lock_connection, cached_request
    <2>5. CASE s.do = "ioctl"
      BY <2>5 DEF exchange, probe_ioctl, cached_request
    <2> QED
      BY <2>1, <2>2, <2>3, <2>4, <2>5 DEF Exchanges
  <1>6. CASE b.lost
    <2>1. r.bus = b \/ r.bus = c
      BY <1>5, <1>6 DEF Refused
    <2> QED
      BY <1>1, <1>6, <2>1
  <1>7. CASE ~b.lost
    <2>1. \E d \in {p, q, b}, op \in Exchanges : r \in Sent(d, op)
      BY <1>5, <1>7 DEF Exchanges
    <2>2. PICK d \in {p, q, b} : Left(r.bus, d)
      BY <1>4, <2>1, SentIs
    <2>3. d.open = b.open /\ d.lost = b.lost /\ d.held = b.held
      BY <1>4, <2>2
    <2>4. ~b.held
      BY <1>7
    <2> QED
      BY <2>2, <2>3, <2>4 DEF Left
  <1> QED
    BY <1>6, <1>7

-----------------------------------------------------------------------------
(* The steps.                                                              *)

\* What a step leaves alone: the request that is held of a bus that stays open.
LeftAlone ==
  \A b \in DOMAIN bus :
    bus[b].held /\ bus'[b].open
      => bus'[b].lost /\ bus'[b].list = bus[b].list /\ bus'[b].format = bus[b].format

\* A bus that is closed, and one that was just opened.
LEMMA ClosedIs ==
  /\ Closed \in Buses /\ ~Closed.open /\ ~Closed.held
  /\ Opened \in Buses /\ ~Opened.held
  <1> DEFINE No == FALSE
             Yes == TRUE
             l == [reg |-> None, count |-> 0]
  <1>1. /\ Closed = [open |-> No, variant |-> 0, lost |-> No, held |-> No, list |-> l, format |-> None]
        /\ Opened = [Closed EXCEPT !.open = Yes]
        /\ No \in BOOLEAN /\ Yes \in BOOLEAN /\ ~No
    <2>1. No = FALSE /\ Yes = TRUE /\ No \in BOOLEAN /\ Yes \in BOOLEAN /\ ~No
      OBVIOUS
    <2>2. Closed = [open |-> No, variant |-> 0, lost |-> No, held |-> No, list |-> l, format |-> None]
      BY <2>1, Zenon DEF Closed
    <2>3. Opened = [Closed EXCEPT !.open = Yes]
      BY <2>1, Zenon DEF Opened
    <2> QED
      BY <2>1, <2>2, <2>3
  <1>2. l \in [reg : Registers, count : Nat]
    BY DEF Registers
  <1> HIDE DEF No, Yes, l
  <1>3. Closed \in Buses /\ ~Closed.open /\ ~Closed.held
    BY <1>1, <1>2 DEF Buses
  <1> QED
    BY <1>1, <1>3 DEF Buses

\* A step that is not one of the probe's, and one that is not one of a session.
LEMMA Elsewhere ==
  ASSUME IInv
  PROVE  /\ ~(Running /\ Now \in ProbeBusy \cup ProbeShut) => bus["probe"] = Closed
         /\ ~(Running /\ Now.do \in {"su_io", "su_try", "su_close"}) => ~su.open
         /\ Running /\ Now.do = "open" /\ Now.on = "hub" => bus["hub"] = Closed
  <1>1. Running => Now = script[1] /\ 1 \in 1 .. Len(script)
    BY Advance DEF IInv, Scripted
  <1> QED
    BY <1>1 DEF IInv, Scripted, SlotIsReturned, HubOpen

\* One bus becomes another.
LEMMA BusStep ==
  ASSUME IInv, NEW n \in Routes, NEW c \in Buses, bus' = [bus EXCEPT ![n] = c],
         c.held => c.lost,
         bus[n].held /\ c.open => c.lost /\ c.list = bus[n].list /\ c.format = bus[n].format
  PROVE  bus' \in [Routes -> Buses] /\ HeldIsLost' /\ LeftAlone
  <1>1. bus \in [Routes -> Buses] /\ DOMAIN bus = Routes
    BY DEF IInv, Typed
  <1>2. bus' \in [Routes -> Buses] /\ bus'[n] = c /\ \A b \in Routes : b # n => bus'[b] = bus[b]
    BY <1>1
  <1>3. HeldIsLost'
    BY <1>2 DEF HeldIsLost, IInv
  <1>4. LeftAlone
    BY <1>1, <1>2 DEF HeldIsLost, IInv, LeftAlone
  <1> QED
    BY <1>2, <1>3, <1>4

\* No bus changes.
LEMMA BusSame ==
  ASSUME IInv, bus' = bus
  PROVE  bus' \in [Routes -> Buses] /\ HeldIsLost' /\ LeftAlone
  <1>1. bus \in [Routes -> Buses] /\ DOMAIN bus = Routes
    BY DEF IInv, Typed
  <1> QED
    BY <1>1 DEF HeldIsLost, IInv, LeftAlone

\* Some of the script is done.
LEMMA ScriptStep ==
  ASSUME IInv, NEW m \in 1 .. Len(script), From(script', script, m), phase' # "stopped",
         bus'["hub"] # Closed => HubFree(script'),
         bus'["probe"] # Closed => script' # <<>> /\ Head(script') \in ProbeBusy \cup ProbeShut
  PROVE  Scripted'
  <1>1. Shape(script)'
    BY ShapeFrom DEF IInv, Scripted
  <1> QED
    BY <1>1 DEF Scripted, HubFree, Running, Now

\* What is left of a script opens the hub's bus no more than the script does.
LEMMA HubFreeFrom ==
  ASSUME NEW s, Shape(s), NEW m, NEW t, From(t, s, m)
  PROVE  HubFree(s) => HubFree(t)
  <1>1. Len(s) \in Nat /\ m \in Nat /\ Len(t) \in Nat /\ Len(s) = Len(t) + m
    BY DEF Shape, From
  <1>2. \A i \in 1 .. Len(t) : i + m \in 1 .. Len(s) /\ t[i] = s[i + m]
    BY <1>1 DEF From
  <1> QED
    BY <1>2 DEF HubFree

\* The hub's bus, once it is open, is not opened again.
LEMMA HubOnce ==
  ASSUME IInv, Running
  PROVE  /\ bus["hub"] # Closed => HubFree(Rest)
         /\ Now.do = "open" /\ Now.on = "hub" => HubFree(Rest)
  <1>1. Shape(script) /\ Now = script[1] /\ Len(script) \in Nat \ {0} /\ From(Rest, script, 1)
    BY Advance DEF IInv, Scripted
  <1>2. bus["hub"] # Closed => HubFree(Rest)
    BY <1>1, HubFreeFrom DEF IInv, Scripted, HubFree
  <1>3. ASSUME HubOpen(Now)
        PROVE  HubFree(Rest)
    <2>1. ASSUME NEW i \in 1 .. Len(Rest), HubOpen(Rest[i])
          PROVE  FALSE
      <3>1. i + 1 \in 1 .. Len(script) /\ 1 \in 1 .. Len(script) /\ Rest[i] = script[i + 1]
        BY <1>1 DEF From
      <3>2. i + 1 = 1
        BY <1>1, <1>3, <2>1, <3>1 DEF Shape, Once
      <3> QED
        BY <3>2
    <2> QED
      BY <2>1 DEF HubFree
  <1> QED
    BY <1>2, <1>3 DEF HubOpen

\* evt_prepare_hardware begins: all buses are closed, the script has its shape.
LEMMA PrepareInv ==
  ASSUME IInv, Prepare
  PROVE  IInv' /\ LeftAlone
  <1>1. script = <<>> /\ phase' = "preparing" /\ \A b \in Routes : bus[b] = Closed
    BY DEF Prepare, IInv, Scripted
  <1>2. "parent" \in Routes /\ bus' = [bus EXCEPT !["parent"] = Opened] /\ bus \in [Routes -> Buses]
    BY DEF Prepare, Routes, IInv, Typed
  <1>3. bus' \in [Routes -> Buses] /\ HeldIsLost' /\ LeftAlone
    BY <1>1, <1>2, ClosedIs, BusStep
  <1>4. Shape(script')
    <2>1. \E r \in Resources : script' = PrepareScript(select_usbin_connection(collect_connections(r)))
      BY DEF Prepare
    <2>2. PICK r \in Resources : script' = PrepareScript(select_usbin_connection(collect_connections(r)))
      BY <2>1
    <2> DEFINE u == select_usbin_connection(collect_connections(r))
    <2>3. u \in BOOLEAN
      BY Zenon DEF select_usbin_connection
    <2> HIDE DEF u
    <2>4. Shape(PrepareScript(u))
      BY <2>3, PrepareShape
    <2> QED
      BY <2>2, <2>4 DEF u
  <1>5. bus'["hub"] = Closed /\ bus'["probe"] = Closed
    BY <1>1, <1>2 DEF Routes
  <1>6. Typed'
    BY <1>1, <1>3 DEF Prepare, IInv, Typed
  <1>7. Scripted'
    BY <1>1, <1>4, <1>5 DEF Scripted, Shape
  <1>8. ~su.open /\ su' = su
    BY <1>1, Elsewhere DEF Prepare, Running
  <1> QED
    BY <1>3, <1>6, <1>7, <1>8 DEF IInv, SlotIsReturned

\* A bus is opened where a closed one was.
LEMMA OpenInv ==
  ASSUME IInv, Open
  PROVE  IInv' /\ LeftAlone
  <1>1. /\ Running /\ Now.do \in {"open", "scan"} /\ Shape(script) /\ phase # "stopped"
        /\ Now \in Steps /\ 1 \in 1 .. Len(script) /\ From(Rest, script, 1) /\ script' = Rest
    BY Advance DEF Open, IInv, Scripted, Running
  <1> DEFINE n == Now.on
  <1>2. n \in Routes /\ (n = "probe" \/ (n = "hub" /\ Now.do = "open"))
    BY <1>1 DEF Steps, Routes
  <1>3. ~(Now \in ProbeBusy \cup ProbeShut) /\ Now.do \notin {"su_io", "su_try", "su_close"}
    BY <1>1 DEF ProbeBusy, ProbeShut, Exchanges
  <1>4. bus[n] = Closed /\ bus["probe"] = Closed /\ ~su.open
    BY <1>1, <1>2, <1>3, Elsewhere
  <1>5. PICK c \in {Opened, Closed} : bus' = [bus EXCEPT ![n] = c]
    BY DEF Open
  <1>6. c \in Buses /\ ~c.held /\ ~bus[n].held
    BY <1>4, ClosedIs
  <1> HIDE DEF n
  <1>7. bus' \in [Routes -> Buses] /\ HeldIsLost' /\ LeftAlone
    BY <1>2, <1>5, <1>6, BusStep
  <1>8. bus \in [Routes -> Buses]
    BY DEF IInv, Typed
  <1>9. bus'["hub"] # Closed => HubFree(script')
    <2>1. CASE n = "hub"
      BY <1>1, <1>2, <2>1, HubOnce DEF n
    <2>2. CASE n # "hub"
      <3>1. bus'["hub"] = bus["hub"]
        BY <1>5, <1>8, <2>2 DEF Routes
      <3> QED
        BY <1>1, <3>1, HubOnce
    <2> QED
      BY <2>1, <2>2
  <1>10. bus'["probe"] # Closed => script' # <<>> /\ Head(script') \in ProbeBusy \cup ProbeShut
    <2>1. CASE n = "hub"
      BY <1>4, <1>5, <1>8, <2>1 DEF Routes
    <2>2. CASE n = "probe"
      <3>1. Now \in ProbeOpens
        BY <1>1, <2>2 DEF ProbeOpens, n
      <3> QED
        BY <1>1, <3>1, Ahead DEF Shape
    <2> QED
      BY <1>2, <2>1, <2>2
  <1>11. phase' = phase /\ su' = su
    BY DEF Open
  <1>12. Scripted'
    BY <1>1, <1>9, <1>10, <1>11, ScriptStep
  <1>13. Typed'
    BY <1>7 DEF Open, IInv, Typed
  <1> QED
    BY <1>4, <1>7, <1>11, <1>12, <1>13 DEF IInv, SlotIsReturned

\* A probe's bus is given up.
LEMMA CloseInv ==
  ASSUME IInv, Close
  PROVE  IInv' /\ LeftAlone
  <1>1. /\ Running /\ Now.do = "close" /\ Shape(script) /\ phase # "stopped"
        /\ Now \in Steps /\ 1 \in 1 .. Len(script) /\ From(Rest, script, 1) /\ script' = Rest
    BY Advance DEF Close, IInv, Scripted, Running
  <1>2. "probe" \in Routes /\ bus' = [bus EXCEPT !["probe"] = Closed]
    BY <1>1 DEF Close, Steps, Routes
  <1>3. bus' \in [Routes -> Buses] /\ HeldIsLost' /\ LeftAlone
    BY <1>2, ClosedIs, BusStep
  <1>4. bus'["hub"] = bus["hub"] /\ bus'["probe"] = Closed
    BY <1>2 DEF IInv, Typed, Routes
  <1>5. phase' = phase /\ su' = su
    BY DEF Close
  <1>6. Scripted'
    BY <1>1, <1>4, <1>5, HubOnce, ScriptStep
  <1>7. ~su.open
    BY <1>1, Elsewhere
  <1>8. Typed'
    BY <1>3 DEF Close, IInv, Typed
  <1> QED
    BY <1>3, <1>5, <1>6, <1>7, <1>8 DEF IInv, SlotIsReturned

\* A step's exchange, on a bus that is open.
LEMMA ExchangeInv ==
  ASSUME IInv, Exchange
  PROVE  IInv' /\ LeftAlone
  <1>1. /\ Running /\ Now.do \in Exchanges /\ Shape(script) /\ phase # "stopped"
        /\ Now \in Steps /\ 1 \in 1 .. Len(script) /\ From(Rest, script, 1) /\ script' = Rest
    BY Advance DEF Exchange, IInv, Scripted, Running, Exchanges
  <1> DEFINE n == Now.on
  <1>2. n \in Routes /\ bus \in [Routes -> Buses] /\ Now.variant \in Nat
    BY <1>1 DEF Steps, IInv, Typed
  <1>3. ~su.open /\ su' = su /\ phase' = phase /\ pump' = pump
    BY <1>1, Elsewhere DEF Exchange, Exchanges
  <1>4. /\ bus' \in [Routes -> Buses] /\ HeldIsLost' /\ LeftAlone
        /\ working' \in Nat \cup {Untried} /\ hub_working' \in Nat \cup {Untried}
        /\ bus'["hub"] # Closed => bus["hub"] # Closed
        /\ n # "probe" => bus'["probe"] = bus["probe"]
    <2>1. CASE ~bus[n].open
      <3>1. bus' = bus /\ working' = working /\ hub_working' = hub_working
        BY <2>1 DEF Exchange
      <3> QED
        BY <3>1, BusSame DEF IInv, Typed
    <2>2. CASE bus[n].open
      <3>1. PICK r \in exchange(bus[n], Now) :
              /\ bus' = [bus EXCEPT ![n] = r.bus]
              /\ working' = IF n = "parent" /\ Now.reg = "id" THEN First(working, r, Now.variant) ELSE working
              /\ hub_working' = IF n = "hub" THEN First(hub_working, r, Now.variant) ELSE hub_working
        BY <2>2 DEF Exchange
      <3>2. bus[n] \in Buses /\ (bus[n].held => bus[n].lost)
        BY <1>2 DEF IInv, HeldIsLost
      <3>3. /\ r.bus \in Buses /\ (r.bus.held => r.bus.lost)
            /\ bus[n].held => r.bus.lost /\ r.bus.list = bus[n].list /\ r.bus.format = bus[n].format
        BY <1>1, <3>2, ExchangeIs
      <3>4. bus' \in [Routes -> Buses] /\ HeldIsLost' /\ LeftAlone
        BY <1>2, <3>1, <3>3, BusStep
      <3>5. /\ bus'["hub"] # Closed => bus["hub"] # Closed
            /\ n # "probe" => bus'["probe"] = bus["probe"]
        <4>1. bus["hub"] = Closed => n # "hub"
          BY <2>2, ClosedIs
        <4> QED
          BY <1>2, <3>1, <4>1 DEF Routes
      <3>6. working' \in Nat \cup {Untried} /\ hub_working' \in Nat \cup {Untried}
        BY <1>2, <3>1 DEF First, IInv, Typed
      <3> QED
        BY <3>4, <3>5, <3>6
    <2> QED
      BY <2>1, <2>2
  <1>5. bus'["probe"] # Closed => script' # <<>> /\ Head(script') \in ProbeBusy \cup ProbeShut
    <2>1. CASE n = "probe"
      <3>1. Now \in ProbeBusy
        BY <1>1, <2>1 DEF ProbeBusy
      <3> QED
        BY <1>1, <3>1, Ahead DEF Shape
    <2>2. CASE n # "probe"
      <3>1. ~(Now \in ProbeBusy \cup ProbeShut)
        BY <1>1, <2>2 DEF ProbeBusy, ProbeShut, Exchanges
      <3> QED
        BY <1>4, <2>2, <3>1, Elsewhere
    <2> QED
      BY <2>1, <2>2
  <1>6. Scripted'
    BY <1>1, <1>3, <1>4, <1>5, HubOnce, ScriptStep
  <1>7. Typed'
    BY <1>3, <1>4 DEF IInv, Typed
  <1> QED
    BY <1>3, <1>4, <1>6, <1>7 DEF IInv, SlotIsReturned

\* The parent's bus gets its working layout back.
LEMMA RestoreInv ==
  ASSUME IInv, Restore
  PROVE  IInv' /\ LeftAlone
  <1>1. /\ Running /\ Now.do = "restore" /\ Shape(script) /\ phase # "stopped"
        /\ Now \in Steps /\ 1 \in 1 .. Len(script) /\ From(Rest, script, 1) /\ script' = Rest
    BY Advance DEF Restore, IInv, Scripted, Running
  <1>2. ~su.open /\ su' = su /\ phase' = phase
    BY <1>1, Elsewhere DEF Restore
  <1> DEFINE c == [bus["parent"] EXCEPT !.variant = IF working = Untried THEN @ ELSE working]
  <1>3. "parent" \in Routes /\ bus \in [Routes -> Buses] /\ bus["parent"] \in Buses
    BY DEF Routes, IInv, Typed
  <1>4. bus' = [bus EXCEPT !["parent"] = c]
    BY <1>3 DEF Restore
  <1>5. /\ c \in Buses /\ c.held = bus["parent"].held /\ c.lost = bus["parent"].lost
        /\ c.list = bus["parent"].list /\ c.format = bus["parent"].format
    BY <1>3 DEF Buses, IInv, Typed
  <1> HIDE DEF c
  <1>6. bus' \in [Routes -> Buses] /\ HeldIsLost' /\ LeftAlone
    BY <1>3, <1>4, <1>5, BusStep DEF IInv, HeldIsLost
  <1>7. bus'["hub"] = bus["hub"] /\ bus'["probe"] = bus["probe"]
    BY <1>3, <1>4 DEF Routes
  <1>8. bus["probe"] = Closed
    BY <1>1, Elsewhere DEF ProbeBusy, ProbeShut, Exchanges
  <1>9. Scripted'
    BY <1>1, <1>2, <1>7, <1>8, HubOnce, ScriptStep
  <1>10. Typed'
    BY <1>6 DEF Restore, IInv, Typed
  <1> QED
    BY <1>2, <1>6, <1>9, <1>10 DEF IInv, SlotIsReturned

\* The pump gets its route's bus; the others are given up.
LEMMA PumpOpenInv ==
  ASSUME IInv, PumpOpen
  PROVE  IInv' /\ LeftAlone
  <1>1. /\ Running /\ Now.do = "pump" /\ Shape(script)
        /\ Now \in Steps /\ 1 \in 1 .. Len(script) /\ From(Rest, script, 1) /\ script' = Rest
    BY Advance DEF PumpOpen, IInv, Scripted
  <1>2. ~su.open /\ su' = su /\ phase' = "prepared"
    BY <1>1, Elsewhere DEF PumpOpen
  <1> DEFINE n == PumpRoute
             v == IF hub_working = Untried THEN 0 ELSE hub_working
  <1>3. n \in {"parent", "hub"} /\ n \in Routes /\ (n = "hub" => bus["hub"].open)
    BY DEF PumpRoute, Routes
  <1>4. /\ bus \in [Routes -> Buses] /\ bus[n] \in Buses /\ (bus[n].held => bus[n].lost)
        /\ DOMAIN bus = Routes
    BY <1>3 DEF IInv, Typed, HeldIsLost
  <1>5. Read(n, v, "id") \in Steps /\ Read(n, v, "id").do \in Exchanges
    <2>1. v \in Nat /\ "id" \in Registers
      BY DEF IInv, Typed, Registers
    <2> HIDE DEF n, v
    <2> QED
      BY <1>3, <2>1, ReadIs DEF Exchanges
  <1>6. PICK r \in exchange(bus[n], Read(n, v, "id")) :
          /\ pump' = IF r.answer = "id" THEN n ELSE None
          /\ bus' = [b \in DOMAIN bus |-> IF b = pump' THEN r.bus ELSE Closed]
    BY DEF PumpOpen
  <1> HIDE DEF n, v
  <1>7. /\ r.bus \in Buses /\ (r.bus.held => r.bus.lost)
        /\ bus[n].held => r.bus.lost /\ r.bus.list = bus[n].list /\ r.bus.format = bus[n].format
    BY <1>4, <1>5, <1>6, ExchangeIs
  <1>8. pump' \in {n, None}
    BY <1>6
  <1>9. \A b \in Routes : bus'[b] = Closed \/ (b = n /\ bus'[b] = r.bus)
    <2>1. None \notin Routes
      BY DEF None, Routes
    <2> QED
      BY <1>4, <1>6, <1>8, <2>1
  <1>10. bus' \in [Routes -> Buses]
    BY <1>4, <1>6, <1>7, ClosedIs
  <1>11. HeldIsLost' /\ LeftAlone
    BY <1>4, <1>7, <1>9, ClosedIs DEF HeldIsLost, LeftAlone
  <1>12. bus'["probe"] = Closed /\ (bus'["hub"] # Closed => bus["hub"] # Closed)
    BY <1>3, <1>9, ClosedIs DEF Routes
  <1>13. Scripted'
    BY <1>1, <1>2, <1>12, HubOnce, ScriptStep
  <1>14. Typed'
    BY <1>2, <1>3, <1>8, <1>10 DEF PumpOpen, IInv, Typed
  <1> QED
    BY <1>2, <1>11, <1>13, <1>14 DEF IInv, SlotIsReturned

\* The steps of a session with SUPERUSER.
LEMMA SuInv ==
  ASSUME IInv, SuOpen \/ SuIo \/ SuTry \/ SuClose
  PROVE  IInv' /\ LeftAlone
  <1>1. /\ Running /\ Now.do \in {"su_open", "su_io", "su_try", "su_close"}
        /\ bus' = bus /\ phase' = phase
        /\ UNCHANGED <<working, hub_working, pump>>
    BY DEF SuOpen, SuIo, SuTry, SuClose
  <1>2. /\ Shape(script) /\ phase # "stopped" /\ Now \in Steps /\ Len(script) \in Nat
        /\ 1 \in 1 .. Len(script) /\ From(Rest, script, 1)
    BY <1>1, Advance DEF IInv, Scripted, Running
  <1>3. Now \in SuOpens \cup SuBusy \cup SuShut
    BY <1>1, <1>2 DEF SuOpens, SuBusy, SuShut
  <1>4. bus'["probe"] = Closed
    BY <1>1, Elsewhere DEF ProbeBusy, ProbeShut, Exchanges
  <1>5. bus' \in [Routes -> Buses] /\ HeldIsLost' /\ LeftAlone
    BY <1>1, BusSame
  <1>6. \/ script' = Rest
        \/ Now.do # "su_close" /\ script' \in {ToClose, Tail(ToClose)}
    BY DEF SuOpen, SuIo, SuTry, SuClose
  <1>7. Now.do # "su_close" =>
          /\ \E m \in 1 .. Len(script) : From(ToClose, script, m)
          /\ ToClose # <<>> /\ Head(ToClose) \in SuShut
          /\ \E m \in 1 .. Len(script) : From(Tail(ToClose), script, m)
          /\ Rest # <<>> /\ Head(Rest) \in SuBusy \cup SuShut
    <2>1. SUFFICES ASSUME Now.do # "su_close"
                   PROVE  /\ \E m \in 1 .. Len(script) : From(ToClose, script, m)
                          /\ ToClose # <<>> /\ Head(ToClose) \in SuShut
                          /\ \E m \in 1 .. Len(script) : From(Tail(ToClose), script, m)
                          /\ Rest # <<>> /\ Head(Rest) \in SuBusy \cup SuShut
      OBVIOUS
    <2>2. Now \in SuOpens \cup SuBusy
      BY <1>3, <2>1 DEF SuShut
    <2>3. /\ \E m \in 1 .. Len(script) - 1 : From(ToClose, script, m)
          /\ ToClose # <<>> /\ Head(ToClose) \in SuShut
          /\ \E m \in 1 .. Len(script) : From(Tail(ToClose), script, m)
      BY <1>1, <1>2, <2>2, ToCloseIs
    <2>4. 1 .. Len(script) - 1 \subseteq 1 .. Len(script)
      BY <1>2
    <2>5. Rest # <<>> /\ Head(Rest) \in SuBusy \cup SuShut
      BY <1>1, <1>2, <2>2, Ahead DEF Shape
    <2> QED
      BY <2>3, <2>4, <2>5
  <1>8. PICK m \in 1 .. Len(script) : From(script', script, m)
    BY <1>2, <1>6, <1>7
  <1>9. bus'["hub"] # Closed => HubFree(script')
    BY <1>1, <1>2, <1>8, HubFreeFrom DEF IInv, Scripted, HubFree
  <1>10. Scripted'
    BY <1>1, <1>2, <1>4, <1>8, <1>9, ScriptStep
  <1>11. su' \in [open : BOOLEAN, held : BOOLEAN]
    <2>1. su \in [open : BOOLEAN, held : BOOLEAN]
      BY DEF IInv, Typed
    <2>2. \E o \in BOOLEAN, h \in BOOLEAN : su' \in {su, [su EXCEPT !.open = o], [su EXCEPT !.held = h]}
      BY Zenon DEF SuOpen, SuIo, SuTry, SuClose
    <2> QED
      BY <2>1, <2>2
  <1>12. SlotIsReturned'
    <2>1. CASE Now.do = "su_close"
      BY <2>1 DEF SuOpen, SuIo, SuTry, SuClose, SlotIsReturned, IInv, Typed
    <2>2. CASE script' \notin {Rest, ToClose} /\ Now.do # "su_close"
      <3>1. Now.do = "su_open" /\ su' = su
        BY <2>2 DEF SuOpen, SuIo, SuTry, SuClose
      <3> QED
        BY <3>1, Elsewhere DEF SlotIsReturned
    <2>3. CASE script' \in {Rest, ToClose} /\ Now.do # "su_close"
      <3>1. script' # <<>> /\ Head(script') \in SuBusy \cup SuShut
        BY <1>7, <2>3
      <3> QED
        BY <3>1 DEF SlotIsReturned, Running, Now, SuBusy, SuShut
    <2> QED
      BY <1>6, <2>1, <2>2, <2>3
  <1>13. Typed'
    BY <1>1, <1>5, <1>11 DEF IInv, Typed
  <1> QED
    BY <1>5, <1>10, <1>12, <1>13 DEF IInv

\* A session begins when nothing else runs.
LEMMA SessionInv ==
  ASSUME IInv, Session
  PROVE  IInv' /\ LeftAlone
  <1>1. /\ ~Running /\ phase = "prepared" /\ script' \in Sessions
        /\ UNCHANGED <<phase, bus, working, hub_working, pump, su>>
    BY DEF Session
  <1>2. Shape(script') /\ HubFree(script')
    <2>1. 1 \in Nat /\ 2 \in Nat /\ 3 \in Nat /\ Parts \in Nat
      BY BusAssumption
    <2> QED
      BY <1>1, <2>1, SuSessionShape DEF Sessions
  <1>3. bus["probe"] = Closed /\ ~su.open
    BY <1>1, Elsewhere
  <1>4. bus' \in [Routes -> Buses] /\ HeldIsLost' /\ LeftAlone
    BY <1>1, BusSame
  <1>5. Scripted'
    BY <1>1, <1>2, <1>3 DEF Scripted, HubFree
  <1>6. Typed'
    BY <1>1, <1>4 DEF IInv, Typed
  <1> QED
    BY <1>1, <1>3, <1>4, <1>5, <1>6 DEF IInv, SlotIsReturned

\* A register of the pump is read or written.
LEMMA TrafficInv ==
  ASSUME IInv, Traffic
  PROVE  IInv' /\ LeftAlone
  <1>1. /\ ~Running /\ phase = "prepared" /\ pump # None
        /\ UNCHANGED <<phase, script, working, hub_working, pump, su>>
    BY DEF Traffic
  <1>2. PICK w \in BOOLEAN, r \in {"reg03", "reg31"} :
          \E out \in exchange(bus[pump], [Read(pump, bus[pump].variant, r) EXCEPT !.write = w]) :
            bus' = [bus EXCEPT ![pump] = out.bus]
    BY Zenon DEF Traffic
  <1> DEFINE d == Read(pump, bus[pump].variant, r)
             s == [d EXCEPT !.write = w]
  <1>3. PICK out \in exchange(bus[pump], s) : bus' = [bus EXCEPT ![pump] = out.bus]
    BY <1>2
  <1>4. /\ pump \in {"parent", "hub"} /\ pump \in Routes /\ bus \in [Routes -> Buses]
        /\ bus[pump] \in Buses /\ (bus[pump].held => bus[pump].lost)
    BY <1>1 DEF IInv, Typed, HeldIsLost, Routes
  <1>5. d \in Steps /\ d.do = "transact" /\ d.on = pump
    BY <1>4, ReadIs DEF Buses, Registers
  <1> HIDE DEF d
  <1>6. s \in Steps /\ s.do \in Exchanges
    BY <1>4, <1>5 DEF Steps, Exchanges
  <1> HIDE DEF s
  <1>7. /\ out.bus \in Buses /\ (out.bus.held => out.bus.lost)
        /\ bus[pump].held => out.bus.lost /\ out.bus.list = bus[pump].list
                             /\ out.bus.format = bus[pump].format
    BY <1>3, <1>4, <1>6, ExchangeIs
  <1>8. bus' \in [Routes -> Buses] /\ HeldIsLost' /\ LeftAlone
    BY <1>3, <1>4, <1>7, BusStep
  <1>9. bus["probe"] = Closed /\ ~su.open
    BY <1>1, Elsewhere
  <1>10. bus'["probe"] = Closed
    BY <1>3, <1>4, <1>9 DEF Routes
  <1>11. script = <<>> /\ Len(script) = 0
    BY <1>1 DEF Running
  <1>12. Scripted'
    BY <1>1, <1>10, <1>11 DEF IInv, Scripted
  <1>13. Typed'
    BY <1>1, <1>8 DEF IInv, Typed
  <1> QED
    BY <1>1, <1>8, <1>9, <1>12, <1>13 DEF IInv, SlotIsReturned

\* The target completes a request it kept.
LEMMA CompletesInv ==
  ASSUME IInv, TargetCompletes
  PROVE  IInv' /\ LeftAlone
  <1>1. UNCHANGED <<phase, script, working, hub_working, pump>>
    BY DEF TargetCompletes
  <1>2. CASE \E b \in DOMAIN bus : bus[b].held /\ bus' = [bus EXCEPT ![b].held = FALSE] /\ UNCHANGED su
    <2> DEFINE No == FALSE
    <2>1. PICK b \in DOMAIN bus : bus[b].held /\ bus' = [bus EXCEPT ![b].held = No] /\ UNCHANGED su
      BY <1>2, Zenon
    <2>2. No \in BOOLEAN /\ ~No
      OBVIOUS
    <2> HIDE DEF No
    <2>3. b \in Routes /\ bus \in [Routes -> Buses] /\ bus[b] \in Buses
      BY <2>1 DEF IInv, Typed
    <2> DEFINE c == [bus[b] EXCEPT !.held = No]
    <2>4. bus' = [bus EXCEPT ![b] = c]
      BY <2>1, <2>3
    <2>5. /\ c \in Buses /\ ~c.held /\ c.lost = bus[b].lost
          /\ c.list = bus[b].list /\ c.format = bus[b].format
      BY <2>2, <2>3 DEF Buses
    <2> HIDE DEF c
    <2>6. bus' \in [Routes -> Buses] /\ HeldIsLost' /\ LeftAlone
      BY <2>1, <2>3, <2>4, <2>5, BusStep DEF IInv, HeldIsLost
    <2>7. \A a \in Routes : bus[a] = Closed => bus'[a] = Closed
      BY <2>1, <2>3, <2>4, ClosedIs
    <2>8. bus[b] # Closed
      BY <2>1, ClosedIs
    <2>9. Scripted'
      BY <1>1, <2>3, <2>7, <2>8 DEF IInv, Scripted, Routes, Running, Now
    <2>10. Typed'
      BY <1>1, <2>1, <2>6 DEF IInv, Typed
    <2> QED
      BY <1>1, <2>1, <2>6, <2>9, <2>10 DEF IInv, SlotIsReturned, Running, Now
  <1>3. CASE su.held /\ su' = [su EXCEPT !.held = FALSE] /\ UNCHANGED bus
    <2> DEFINE No == FALSE
    <2>1. su' = [su EXCEPT !.held = No] /\ bus' = bus /\ No \in BOOLEAN
      BY <1>3, Zenon
    <2> HIDE DEF No
    <2>2. su' \in [open : BOOLEAN, held : BOOLEAN] /\ su'.open = su.open
      BY <2>1 DEF IInv, Typed
    <2>3. bus' \in [Routes -> Buses] /\ HeldIsLost' /\ LeftAlone
      BY <2>1, BusSame
    <2>4. Typed'
      BY <1>1, <2>2, <2>3 DEF IInv, Typed
    <2>5. Scripted' /\ SlotIsReturned'
      BY <1>1, <2>1, <2>2 DEF IInv, Scripted, SlotIsReturned, Running, Now
    <2> QED
      BY <2>3, <2>4, <2>5 DEF IInv
  <1> QED
    BY <1>2, <1>3 DEF TargetCompletes

\* evt_release_hardware gives every bus up.
LEMMA ReleaseInv ==
  ASSUME IInv, Release
  PROVE  IInv' /\ LeftAlone
  <1>1. /\ ~Running /\ phase' = "stopped" /\ pump' = None
        /\ bus' = [b \in DOMAIN bus |-> Closed] /\ UNCHANGED <<script, working, hub_working, su>>
    BY DEF Release
  <1>2. DOMAIN bus = Routes
    BY DEF IInv, Typed
  <1>3. bus' \in [Routes -> Buses] /\ (\A b \in Routes : bus'[b] = Closed)
    BY <1>1, <1>2, ClosedIs
  <1>4. HeldIsLost' /\ LeftAlone
    BY <1>2, <1>3, ClosedIs DEF HeldIsLost, LeftAlone
  <1>5. Typed'
    BY <1>1, <1>3 DEF IInv, Typed
  <1>6. Scripted'
    BY <1>1, <1>3 DEF IInv, Scripted, Running, Routes
  <1>7. ~su.open
    BY <1>1, Elsewhere
  <1> QED
    BY <1>1, <1>4, <1>5, <1>6, <1>7 DEF IInv, SlotIsReturned

\* In the beginning nothing is open and nothing runs.
LEMMA InitInv ==
  ASSUME Init
  PROVE  IInv
  <1>1. /\ phase = "stopped" /\ script = <<>> /\ bus = [b \in Routes |-> Closed]
        /\ working = Untried /\ hub_working = Untried /\ pump = None
        /\ su \in [open : BOOLEAN, held : BOOLEAN] /\ ~su.open
    <2>1. su \in [open : BOOLEAN, held : BOOLEAN] /\ ~su.open
      <3> DEFINE No == FALSE
      <3>1. su = [open |-> No, held |-> No] /\ No \in BOOLEAN /\ ~No
        BY Zenon DEF Init
      <3> HIDE DEF No
      <3> QED
        BY <3>1
    <2> QED
      BY <2>1 DEF Init, Routes
  <1>2. \A b \in Routes : bus[b] = Closed
    BY <1>1
  <1>3. Typed
    BY <1>1, ClosedIs DEF Typed
  <1>4. Shape(script)
    <2>1. <<>> \in Seq(Plain)
      OBVIOUS
    <2> QED
      BY <1>1, <2>1, PlainShape
  <1>5. Scripted
    BY <1>1, <1>2, <1>4 DEF Scripted, Routes
  <1> QED
    BY <1>1, <1>2, <1>3, <1>5, ClosedIs DEF IInv, HeldIsLost, SlotIsReturned

\* Every step keeps the invariant and leaves a request that is held alone.
LEMMA NextInv ==
  ASSUME IInv, [Next]_vars
  PROVE  IInv' /\ LeftAlone
  <1>1. CASE Next
    BY <1>1, PrepareInv, OpenInv, CloseInv, ExchangeInv, RestoreInv, PumpOpenInv, SuInv,
       SessionInv, TrafficInv, CompletesInv, ReleaseInv DEF Next
  <1>2. CASE UNCHANGED vars
    <2>1. UNCHANGED <<phase, script, bus, working, hub_working, pump, su>>
      BY <1>2 DEF vars
    <2>2. LeftAlone /\ HeldIsLost'
      BY <2>1, BusSame
    <2> QED
      BY <2>1, <2>2 DEF IInv, Typed, Scripted, SlotIsReturned, Running, Now
  <1> QED
    BY <1>1, <1>2

-----------------------------------------------------------------------------
(* Theorems.                                                               *)

\* The invariant: what is left of a script opens nothing that is open and ends
\* what it has begun.
THEOREM InvHolds == Spec => []IInv
  <1>1. Init => IInv
    BY InitInv
  <1>2. IInv /\ [Next]_vars => IInv'
    BY NextInv
  <1> QED
    BY <1>1, <1>2, PTL DEF Spec

\* Whatever fails in a session with SUPERUSER, its slot is back before any other
\* code of the driver runs (spb.rs:1112, Drop at spb.rs:2035).
THEOREM SlotReturned == Spec => []SlotIsReturned
  <1>1. IInv => SlotIsReturned
    BY DEF IInv
  <1> QED
    BY <1>1, InvHolds, PTL

\* A request that stayed with the target (send_failed, spb.rs:383) is left alone
\* until its bus is given up: nothing rewrites its transfer area or formats it again.
THEOREM NeverTouched == Spec => LostRequestIsNeverTouched
  <1>1. IInv /\ [Next]_vars =>
          [\A b \in DOMAIN bus :
             bus[b].held /\ bus'[b].open
               => bus'[b].lost /\ bus'[b].list = bus[b].list /\ bus'[b].format = bus[b].format]_vars
    BY NextInv DEF LeftAlone
  <1> QED
    BY <1>1, InvHolds, PTL DEF Spec, LostRequestIsNeverTouched
=============================================================================
