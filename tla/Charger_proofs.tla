--------------------------- MODULE Charger_proofs ---------------------------
(***************************************************************************)
(* Theorems about Charger, for every value of its constants: the type      *)
(* invariant, that a limit reported as written is in the registers, that a *)
(* session at rest in Ready names the brick in the port, that a detection  *)
(* never ends by the runner's fuse, and that every call and every run uses *)
(* up a bounded number of steps.                                           *)
(***************************************************************************)
EXTENDS Charger, TLAPS

\* A register access: a read, or a write or a read-back of a value the register has.
Accesses ==
  [do : {"read"}, reg : {"status", "result", "override", "pulse_max", "cmd_apsd"}, value : {None}]
    \cup [do : {"write", "verify"}, reg : {"icl"}, value : 0 .. ICL_RAW_MAX]
    \cup [do : {"write", "verify"}, reg : {"override", "cmd_apsd"}, value : {TRUE}]
    \cup [do : {"write", "verify"}, reg : {"pulse_max"}, value : {"9V"}]

\* The accesses t are the last ones of s.
Behind(t, s) ==
  /\ Len(t) <= Len(s)
  /\ \A i \in 1 .. Len(t) : t[i] = s[i + (Len(s) - Len(t))]

-----------------------------------------------------------------------------
(* The inductive invariant, in parts.                                      *)

Statuses ==
  [brick : Bricks \cup {None}, done : BOOLEAN, unstable : BOOLEAN, qc : BOOLEAN,
   pattern : Patterns \cup {"bad"}]

\* Beside TypeOK: the chip, the call, and which call a run makes.
Typed ==
  /\ TypeOK
  /\ chip \in Statuses /\ status \in Statuses /\ moved \in BOOLEAN
  /\ \/ run = None /\ call \in {None, "open", "reinit", "close"}
     \/ run = "detect" /\ call \in {None, "detect", "rerun"}
     \/ run = "sleep" /\ call = None
     \/ run = "apply" /\ call \in {None, "apply"}
     \/ run = "monitor" /\ call = "monitor"
  /\ run = "apply" => adapter \in Adapters

\* What is left of a call is the end of its accesses.
Scripted ==
  /\ todo \in Seq(Accesses)
  /\ call = None => todo = <<>> /\ status = Off
  /\ call \in {"open", "reinit"} => todo \in {Read("status"), <<>>}
  /\ call \in {"detect", "monitor"} => todo \in {Read("status"), Read("result"), <<>>}
  /\ call = "close" => Behind(todo, write_reg("icl", SAFE_ICL))
  /\ call = "rerun" => Behind(todo, update_reg("cmd_apsd", TRUE))
  /\ call = "apply" => Behind(todo, apply_writes(adapter))

\* A detection that is complete is the brick's.
ChipShows ==
  chip.done => /\ chip.brick # None /\ chip.qc = (chip.brick \in Qc)
               /\ chip.pattern = IF chip.brick = "hvdcp2" THEN "dcp" ELSE chip.brick

\* A complete and stable status, read by a poll that the cable did not move in, is still the
\* chip's when the result has been read.
Sampled ==
  call \in {"detect", "monitor"} /\ status.done /\ ~status.unstable /\ ~moved
    => chip.done /\ status.qc = chip.qc /\ (todo = <<>> => status.pattern = chip.pattern)

\* What is to be applied is the brick, and what a session that is ready and at rest names,
\* unless the cable moved.
Named ==
  /\ run = "apply" /\ ~moved => adapter = chip.brick
  /\ run = None /\ state = "ready" /\ adapter # None /\ ~moved => adapter = chip.brick

\* The detection steps of a run are paid for by its clock and by its reruns.
Age == IF age = NotStarted THEN 0 ELSE age
Budget ==
  /\ run = "detect" /\ call = None => steps <= Age + reruns
  /\ run = "detect" /\ call = "detect" => age # NotStarted /\ steps <= age + reruns + 1
  /\ run = "detect" /\ call = "rerun" => age # NotStarted /\ steps <= age + reruns
  /\ run = "sleep" => /\ age # NotStarted /\ steps <= age + reruns + 1
                      /\ age = DetectTimeout => steps <= age + reruns
  /\ ret # "fuse"

\* The accesses of apply for Quick Charge, behind the others.
Extra(a) == IF a \in Qc THEN 3 ELSE 0

\* What has been verified is in the registers, and nothing is reported meanwhile.
Written ==
  /\ call = "close" /\ todo = <<>> => regs.icl = SAFE_ICL
  /\ call = "apply" =>
       /\ Len(todo) <= Extra(adapter) + 3 => regs.icl = policy_for(adapter).icl
       /\ Len(todo) <= Extra(adapter) => regs.override
       /\ adapter \in Qc /\ todo = <<>> => regs.pulse_max = "9V"
  /\ call \in {"close", "apply"} => reported = None
  /\ ReportedLimitHolds

\* What bounds the session and carries ReportedLimitHolds.
IInv == Typed /\ Scripted /\ Written

\* What carries ReadyNamesTheBrick, with it.
NInv == ChipShows /\ Sampled /\ Named /\ Budget

-----------------------------------------------------------------------------
(* Accesses.                                                               *)

\* The policy of an adapter is on the grid, and asks for nine volts for Quick Charge alone.
LEMMA Policy ==
  ASSUME NEW a \in Adapters
  PROVE  /\ policy_for(a).icl \in 0 .. ICL_RAW_MAX
         /\ quantize_down(policy_for(a).icl) = policy_for(a).icl
         /\ a \in Qc => policy_for(a).qc2 = "9V"
         /\ a \notin Qc => policy_for(a).qc2 = None
  BY DEF policy_for, quantize_down, ICL_SDP, ICL_DCP, ICL_HVDCP3, ICL_RAW_MAX, SAFE_ICL, Qc, None

\* A register access as a record.
Acc(do, reg, value) == [do |-> do, reg |-> reg, value |-> value]

\* The accesses of a write.
LEMMA WriteScript ==
  ASSUME NEW r, NEW v
  PROVE  LET s == write_reg(r, v) IN
         Len(s) = 2 /\ s[1] = Acc("write", r, v) /\ s[2] = Acc("verify", r, v)
  BY DEF write_reg, Acc

\* The accesses of an update: the write behind a read.
LEMMA UpdateScript ==
  ASSUME NEW r, NEW v
  PROVE  LET s == update_reg(r, v) IN
         /\ Len(s) = 3
         /\ s[1] = Acc("read", r, None) /\ s[2] = Acc("write", r, v) /\ s[3] = Acc("verify", r, v)
  BY DEF write_reg, update_reg, Read, Acc

\* What is concatenated is found in its place.
LEMMA Concat ==
  ASSUME NEW S, NEW s \in Seq(S), NEW t \in Seq(S), NEW u, u = s \o t
  PROVE  /\ u \in Seq(S) /\ Len(u) = Len(s) + Len(t)
         /\ \A i \in 1 .. Len(s) : u[i] = s[i]
         /\ \A i \in 1 .. Len(t) : u[Len(s) + i] = t[i]
  OBVIOUS

\* The sequence of nothing.
LEMMA Empty ==
  ASSUME NEW S
  PROVE  <<>> \in Seq(S) /\ Len(<<>>) = 0
  OBVIOUS

\* One access.
LEMMA One ==
  ASSUME NEW S, NEW x \in S
  PROVE  <<x>> \in Seq(S)
  OBVIOUS

\* Three accesses, the first of them a read.
LEMMA Three ==
  ASSUME NEW S, NEW x \in S, NEW y \in S, NEW z \in S, NEW u, u = <<x>> \o <<y, z>>
  PROVE  u \in Seq(S) /\ Len(u) = 3 /\ u[1] = x /\ u[2] = y /\ u[3] = z
  OBVIOUS

\* The script of close is one of accesses.
LEMMA CloseScript == write_reg("icl", SAFE_ICL) \in Seq(Accesses)
  <1> DEFINE s == write_reg("icl", SAFE_ICL)
             x == Acc("write", "icl", SAFE_ICL)
             y == Acc("verify", "icl", SAFE_ICL)
  <1>1. s = <<x, y>> /\ x \in Accesses /\ y \in Accesses
    BY DEF write_reg, Acc, Accesses, SAFE_ICL, ICL_RAW_MAX
  <1>2. s \in Seq(Accesses)
    <2> HIDE DEF s, x, y
    <2> QED
      BY <1>1
  <1> QED
    BY <1>2

\* The script of a rerun is one of accesses.
LEMMA RerunScript == update_reg("cmd_apsd", TRUE) \in Seq(Accesses)
  <1> DEFINE s == update_reg("cmd_apsd", TRUE)
             x == Acc("read", "cmd_apsd", None)
             y == Acc("write", "cmd_apsd", TRUE)
             z == Acc("verify", "cmd_apsd", TRUE)
  <1>1. s = <<x>> \o <<y, z>> /\ x \in Accesses /\ y \in Accesses /\ z \in Accesses
    BY DEF update_reg, write_reg, Read, Acc, Accesses
  <1>2. s \in Seq(Accesses)
    <2> HIDE DEF s, x, y, z
    <2> QED
      BY <1>1, Three
  <1> QED
    BY <1>2, Zenon

\* The accesses of apply.
LEMMA ApplyScript ==
  ASSUME NEW a \in Adapters
  PROVE  LET s == apply_writes(a)
             icl == policy_for(a).icl
         IN /\ s \in Seq(Accesses) /\ Len(s) = 5 + Extra(a)
            /\ s[1] = Acc("write", "icl", icl) /\ s[2] = Acc("verify", "icl", icl)
            /\ s[3] = Acc("read", "override", None)
            /\ s[4] = Acc("write", "override", TRUE) /\ s[5] = Acc("verify", "override", TRUE)
            /\ a \in Qc => /\ s[6] = Acc("read", "pulse_max", None)
                           /\ s[7] = Acc("write", "pulse_max", "9V")
                           /\ s[8] = Acc("verify", "pulse_max", "9V")
  <1> DEFINE icl  == policy_for(a).icl
             w    == write_reg("icl", icl)
             u    == update_reg("override", TRUE)
             q    == IF a \in Qc THEN update_reg("pulse_max", "9V") ELSE <<>>
  <1>1. apply_writes(a) = (w \o u) \o q
    <2>1. a \in Qc => policy_for(a).qc2 = "9V" /\ policy_for(a).qc2 # None
      BY Policy DEF None
    <2> QED
      BY <2>1, Policy DEF apply_writes
  <1>2. /\ w \in Seq(Accesses) /\ Len(w) = 2
        /\ w[1] = Acc("write", "icl", icl) /\ w[2] = Acc("verify", "icl", icl)
    <2>1. Acc("write", "icl", icl) \in Accesses /\ Acc("verify", "icl", icl) \in Accesses
      BY Policy DEF Accesses, Acc
    <2>2. w = <<Acc("write", "icl", icl), Acc("verify", "icl", icl)>>
      BY DEF write_reg, Acc
    <2> HIDE DEF w
    <2> QED
      BY <2>1, <2>2
  <1>3. /\ u \in Seq(Accesses) /\ Len(u) = 3
        /\ u[1] = Acc("read", "override", None)
        /\ u[2] = Acc("write", "override", TRUE) /\ u[3] = Acc("verify", "override", TRUE)
    <2>1. u = <<Acc("read", "override", None)>>
              \o <<Acc("write", "override", TRUE), Acc("verify", "override", TRUE)>>
      BY DEF update_reg, write_reg, Read, Acc
    <2>2. /\ Acc("read", "override", None) \in Accesses
          /\ Acc("write", "override", TRUE) \in Accesses
          /\ Acc("verify", "override", TRUE) \in Accesses
      BY DEF Accesses, Acc
    <2> DEFINE x == Acc("read", "override", None)
               y == Acc("write", "override", TRUE)
               z == Acc("verify", "override", TRUE)
    <2>3. u = <<x>> \o <<y, z>> /\ x \in Accesses /\ y \in Accesses /\ z \in Accesses
      BY <2>1, <2>2
    <2> HIDE DEF u, x, y, z
    <2>4. u \in Seq(Accesses) /\ Len(u) = 3 /\ u[1] = x /\ u[2] = y /\ u[3] = z
      BY <2>3, Three
    <2> QED
      BY <2>4 DEF x, y, z
  <1>4. /\ q \in Seq(Accesses) /\ Len(q) = Extra(a)
        /\ a \in Qc => /\ q[1] = Acc("read", "pulse_max", None)
                       /\ q[2] = Acc("write", "pulse_max", "9V")
                       /\ q[3] = Acc("verify", "pulse_max", "9V")
    <2>1. CASE a \in Qc
      <3>1. q = <<Acc("read", "pulse_max", None)>>
                \o <<Acc("write", "pulse_max", "9V"), Acc("verify", "pulse_max", "9V")>>
        BY <2>1 DEF update_reg, write_reg, Read, Acc
      <3>2. /\ Acc("read", "pulse_max", None) \in Accesses
            /\ Acc("write", "pulse_max", "9V") \in Accesses
            /\ Acc("verify", "pulse_max", "9V") \in Accesses
        BY DEF Accesses, Acc
      <3> HIDE DEF q
      <3>3. /\ q \in Seq(Accesses) /\ Len(q) = 3
            /\ q[1] = Acc("read", "pulse_max", None)
            /\ q[2] = Acc("write", "pulse_max", "9V") /\ q[3] = Acc("verify", "pulse_max", "9V")
        BY <3>1, <3>2, Three
      <3> QED
        BY <2>1, <3>3 DEF Extra
    <2>2. CASE a \notin Qc
      BY <2>2 DEF Extra
    <2> QED
      BY <2>1, <2>2
  <1> HIDE DEF w, u, q
  <1> DEFINE wu == w \o u
  <1>5. /\ wu \in Seq(Accesses) /\ Len(wu) = 5
        /\ wu[1] = w[1] /\ wu[2] = w[2] /\ wu[3] = u[1] /\ wu[4] = u[2] /\ wu[5] = u[3]
    <2>1. /\ wu \in Seq(Accesses) /\ Len(wu) = Len(w) + Len(u)
          /\ \A i \in 1 .. Len(w) : wu[i] = w[i]
          /\ \A i \in 1 .. Len(u) : wu[Len(w) + i] = u[i]
      <3>1. w \in Seq(Accesses) /\ u \in Seq(Accesses) /\ wu = w \o u
        BY <1>2, <1>3
      <3> HIDE DEF wu
      <3> QED
        BY <3>1, Concat
    <2> HIDE DEF wu
    <2>2. /\ wu \in Seq(Accesses) /\ Len(wu) = 5
          /\ \A i \in 1 .. 2 : wu[i] = w[i]
          /\ \A i \in 1 .. 3 : wu[2 + i] = u[i]
      BY <1>2, <1>3, <2>1
    <2>3. wu[2 + 1] = u[1] /\ wu[2 + 2] = u[2] /\ wu[2 + 3] = u[3]
      BY <2>2
    <2> QED
      BY <2>2, <2>3
  <1> HIDE DEF wu
  <1> DEFINE s == wu \o q
  <1>6. /\ s \in Seq(Accesses) /\ Len(s) = 5 + Extra(a)
        /\ s[1] = wu[1] /\ s[2] = wu[2] /\ s[3] = wu[3] /\ s[4] = wu[4] /\ s[5] = wu[5]
        /\ a \in Qc => s[6] = q[1] /\ s[7] = q[2] /\ s[8] = q[3]
    <2>1. /\ s \in Seq(Accesses) /\ Len(s) = Len(wu) + Len(q)
          /\ \A i \in 1 .. Len(wu) : s[i] = wu[i]
          /\ \A i \in 1 .. Len(q) : s[Len(wu) + i] = q[i]
      <3>1. wu \in Seq(Accesses) /\ q \in Seq(Accesses) /\ s = wu \o q
        BY <1>4, <1>5
      <3> HIDE DEF s
      <3> QED
        BY <3>1, Concat
    <2> HIDE DEF s
    <2>2. /\ s \in Seq(Accesses) /\ Len(s) = 5 + Extra(a)
          /\ \A i \in 1 .. 5 : s[i] = wu[i]
          /\ \A i \in 1 .. Extra(a) : s[5 + i] = q[i]
      BY <1>4, <1>5, <2>1
    <2>3. a \in Qc => s[5 + 1] = q[1] /\ s[5 + 2] = q[2] /\ s[5 + 3] = q[3]
      BY <2>2 DEF Extra
    <2> QED
      BY <2>2, <2>3
  <1> QED
    BY <1>1, <1>2, <1>3, <1>4, <1>5, <1>6 DEF wu

\* The first access that is left, and what is left behind it.
LEMMA BehindTail ==
  ASSUME NEW S, NEW s \in Seq(S), NEW t \in Seq(S), Behind(t, s), t # <<>>
  PROVE  /\ Head(t) = s[Len(s) - Len(t) + 1] /\ Head(t) \in S
         /\ Tail(t) \in Seq(S) /\ Len(Tail(t)) = Len(t) - 1 /\ Len(t) \in Nat \ {0}
         /\ Behind(Tail(t), s)
  <1>1. /\ Tail(t) \in Seq(S) /\ Len(Tail(t)) = Len(t) - 1 /\ Len(t) \in Nat \ {0}
        /\ Head(t) = t[1] /\ Head(t) \in S /\ Len(s) \in Nat
        /\ \A i \in 1 .. Len(t) - 1 : Tail(t)[i] = t[i + 1]
    OBVIOUS
  <1>2. Head(t) = s[1 + (Len(s) - Len(t))]
    BY <1>1 DEF Behind
  <1>3. Behind(Tail(t), s)
    <2>1. ASSUME NEW i \in 1 .. Len(Tail(t))
          PROVE  Tail(t)[i] = s[i + (Len(s) - Len(Tail(t)))]
      <3>1. Tail(t)[i] = t[i + 1] /\ i + 1 \in 1 .. Len(t)
        BY <1>1
      <3>2. t[i + 1] = s[(i + 1) + (Len(s) - Len(t))]
        BY <3>1 DEF Behind
      <3>3. (i + 1) + (Len(s) - Len(t)) = i + (Len(s) - Len(Tail(t)))
        BY <1>1
      <3> QED
        BY <3>1, <3>2, <3>3
    <2> QED
      BY <1>1, <2>1 DEF Behind
  <1>4. 1 + (Len(s) - Len(t)) = Len(s) - Len(t) + 1
    BY <1>1
  <1> QED
    BY <1>1, <1>2, <1>3, <1>4

\* A script is behind itself.
LEMMA BehindAll ==
  ASSUME NEW S, NEW s \in Seq(S)
  PROVE  Behind(s, s)
  BY DEF Behind

-----------------------------------------------------------------------------
(* The access at hand.                                                     *)

\* A call that polls or probes reads, and nothing is left behind its access.
LEMMA AtPoll ==
  ASSUME IInv, Busy, call \in {"open", "reinit", "detect", "monitor"}
  PROVE  /\ todo \in {Read("status"), Read("result")} /\ Head(todo).do = "read"
         /\ Head(todo).reg \in {"status", "result"}
         /\ Head(todo).reg = "status" <=> todo = Read("status")
         /\ Tail(todo) = <<>>
  <1>1. todo \in {Read("status"), Read("result")}
    BY DEF IInv, Scripted, Busy
  <1>2. CASE todo = Read("status")
    <2>1. Head(todo).do = "read" /\ Head(todo).reg = "status" /\ Tail(todo) = <<>>
      BY <1>2 DEF Read
    <2> QED
      BY <1>2, <2>1
  <1>3. CASE todo = Read("result")
    <2>1. Head(todo).do = "read" /\ Head(todo).reg = "result" /\ Tail(todo) = <<>>
      BY <1>3 DEF Read
    <2>2. todo # Read("status")
      <3>1. Head(Read("status")).reg = "status"
        BY DEF Read
      <3> QED
        BY <2>1, <3>1
    <2> QED
      BY <1>3, <2>1, <2>2
  <1> QED
    BY <1>1, <1>2, <1>3

\* The accesses of close.
LEMMA AtClose ==
  ASSUME IInv, Busy, call = "close"
  PROVE  /\ Len(todo) \in {1, 2}
         /\ Len(todo) = 2 => Head(todo) = Acc("write", "icl", SAFE_ICL)
         /\ Len(todo) = 1 => Head(todo) = Acc("verify", "icl", SAFE_ICL)
         /\ Tail(todo) \in Seq(Accesses) /\ Len(Tail(todo)) = Len(todo) - 1
         /\ Behind(Tail(todo), write_reg("icl", SAFE_ICL))
  <1> DEFINE s == write_reg("icl", SAFE_ICL)
  <1>1. /\ Len(s) = 2
        /\ s[1] = Acc("write", "icl", SAFE_ICL) /\ s[2] = Acc("verify", "icl", SAFE_ICL)
    BY WriteScript
  <1>2. s \in Seq(Accesses)
    BY CloseScript
  <1>3. todo \in Seq(Accesses) /\ Behind(todo, s) /\ todo # <<>>
    BY DEF IInv, Scripted, Busy
  <1> HIDE DEF s
  <1>4. /\ Head(todo) = s[Len(s) - Len(todo) + 1]
        /\ Tail(todo) \in Seq(Accesses) /\ Len(Tail(todo)) = Len(todo) - 1
        /\ Len(todo) \in Nat \ {0} /\ Behind(Tail(todo), s)
    BY <1>2, <1>3, BehindTail
  <1>5. Len(todo) \in {1, 2}
    BY <1>1, <1>3, <1>4 DEF Behind
  <1>6. Len(todo) = 2 => Len(s) - Len(todo) + 1 = 1
    BY <1>1
  <1>7. Len(todo) = 1 => Len(s) - Len(todo) + 1 = 2
    BY <1>1
  <1>8. /\ Len(todo) = 2 => Head(todo) = Acc("write", "icl", SAFE_ICL)
        /\ Len(todo) = 1 => Head(todo) = Acc("verify", "icl", SAFE_ICL)
    BY <1>1, <1>4, <1>6, <1>7
  <1> QED
    BY <1>4, <1>5, <1>8 DEF s

\* The accesses of a rerun.
LEMMA AtRerun ==
  ASSUME IInv, Busy, call = "rerun"
  PROVE  /\ Head(todo).reg = "cmd_apsd"
         /\ Tail(todo) \in Seq(Accesses) /\ Len(Tail(todo)) = Len(todo) - 1
         /\ Behind(Tail(todo), update_reg("cmd_apsd", TRUE))
  <1> DEFINE s == update_reg("cmd_apsd", TRUE)
  <1>1. /\ Len(s) = 3 /\ s[1] = Acc("read", "cmd_apsd", None)
        /\ s[2] = Acc("write", "cmd_apsd", TRUE) /\ s[3] = Acc("verify", "cmd_apsd", TRUE)
    BY UpdateScript
  <1>2. s \in Seq(Accesses)
    BY RerunScript, Zenon
  <1>3. todo \in Seq(Accesses) /\ Behind(todo, s) /\ todo # <<>>
    BY DEF IInv, Scripted, Busy
  <1> HIDE DEF s
  <1>4. /\ Head(todo) = s[Len(s) - Len(todo) + 1]
        /\ Tail(todo) \in Seq(Accesses) /\ Len(Tail(todo)) = Len(todo) - 1
        /\ Len(todo) \in Nat \ {0} /\ Behind(Tail(todo), s)
    BY <1>2, <1>3, BehindTail
  <1>5. Len(s) - Len(todo) + 1 \in {1, 2, 3}
    BY <1>1, <1>3, <1>4 DEF Behind
  <1>6. Head(todo).reg = "cmd_apsd"
    BY <1>1, <1>4, <1>5 DEF Acc
  <1> QED
    BY <1>4, <1>6 DEF s

\* The accesses of apply: the limit, its override, and nine volts for Quick Charge.
LEMMA AtApply ==
  ASSUME IInv, Busy, call = "apply"
  PROVE  LET n == Len(todo)
             k == Extra(adapter)
             icl == policy_for(adapter).icl
         IN /\ adapter \in Adapters /\ n \in Nat \ {0}
            /\ \/ n = k + 5 /\ Head(todo) = Acc("write", "icl", icl)
               \/ n = k + 4 /\ Head(todo) = Acc("verify", "icl", icl)
               \/ n = k + 3 /\ Head(todo) = Acc("read", "override", None)
               \/ n = k + 2 /\ Head(todo) = Acc("write", "override", TRUE)
               \/ n = k + 1 /\ Head(todo) = Acc("verify", "override", TRUE)
               \/ n = 3 /\ adapter \in Qc /\ Head(todo) = Acc("read", "pulse_max", None)
               \/ n = 2 /\ adapter \in Qc /\ Head(todo) = Acc("write", "pulse_max", "9V")
               \/ n = 1 /\ adapter \in Qc /\ Head(todo) = Acc("verify", "pulse_max", "9V")
            /\ Tail(todo) \in Seq(Accesses) /\ Len(Tail(todo)) = n - 1
            /\ Behind(Tail(todo), apply_writes(adapter))
  <1> DEFINE s == apply_writes(adapter)
             n == Len(todo)
             k == Extra(adapter)
             icl == policy_for(adapter).icl
  <1>1. adapter \in Adapters
    BY DEF IInv, Typed, None
  <1>2. /\ s \in Seq(Accesses) /\ Len(s) = 5 + k
        /\ s[1] = Acc("write", "icl", icl) /\ s[2] = Acc("verify", "icl", icl)
        /\ s[3] = Acc("read", "override", None)
        /\ s[4] = Acc("write", "override", TRUE) /\ s[5] = Acc("verify", "override", TRUE)
        /\ adapter \in Qc => /\ s[6] = Acc("read", "pulse_max", None)
                             /\ s[7] = Acc("write", "pulse_max", "9V")
                             /\ s[8] = Acc("verify", "pulse_max", "9V")
    BY <1>1, ApplyScript
  <1>3. todo \in Seq(Accesses) /\ Behind(todo, s) /\ todo # <<>>
    BY DEF IInv, Scripted, Busy
  <1>4. k \in {0, 3} /\ (k = 3 <=> adapter \in Qc)
    BY DEF Extra
  <1> HIDE DEF s, k, icl
  <1>5. /\ Head(todo) = s[Len(s) - n + 1]
        /\ Tail(todo) \in Seq(Accesses) /\ Len(Tail(todo)) = n - 1
        /\ n \in Nat \ {0} /\ Behind(Tail(todo), s)
    BY <1>2, <1>3, BehindTail
  <1>6. n <= 5 + k
    BY <1>2, <1>3 DEF Behind
  <1> HIDE DEF n
  <1>7. Len(s) - n + 1 \in 1 .. 5 + k
    BY <1>2, <1>4, <1>5, <1>6
  <1> DEFINE m == Len(s) - n + 1
  <1>8. n = 6 + k - m /\ m \in 1 .. 5 + k /\ Head(todo) = s[m]
    BY <1>2, <1>4, <1>5, <1>7
  <1> HIDE DEF m
  <1>9. \/ n = k + 5 /\ Head(todo) = Acc("write", "icl", icl)
        \/ n = k + 4 /\ Head(todo) = Acc("verify", "icl", icl)
        \/ n = k + 3 /\ Head(todo) = Acc("read", "override", None)
        \/ n = k + 2 /\ Head(todo) = Acc("write", "override", TRUE)
        \/ n = k + 1 /\ Head(todo) = Acc("verify", "override", TRUE)
        \/ n = 3 /\ adapter \in Qc /\ Head(todo) = Acc("read", "pulse_max", None)
        \/ n = 2 /\ adapter \in Qc /\ Head(todo) = Acc("write", "pulse_max", "9V")
        \/ n = 1 /\ adapter \in Qc /\ Head(todo) = Acc("verify", "pulse_max", "9V")
    <2>1. /\ m = 1 => n = k + 5 /\ Head(todo) = s[1]
          /\ m = 2 => n = k + 4 /\ Head(todo) = s[2]
          /\ m = 3 => n = k + 3 /\ Head(todo) = s[3]
          /\ m = 4 => n = k + 2 /\ Head(todo) = s[4]
          /\ m = 5 => n = k + 1 /\ Head(todo) = s[5]
      BY <1>4, <1>8
    <2>2. /\ m = 6 => k = 3 /\ n = 3 /\ Head(todo) = s[6]
          /\ m = 7 => k = 3 /\ n = 2 /\ Head(todo) = s[7]
          /\ m = 8 => k = 3 /\ n = 1 /\ Head(todo) = s[8]
      BY <1>4, <1>8
    <2>3. m \in {1, 2, 3, 4, 5, 6, 7, 8}
      BY <1>4, <1>8
    <2> QED
      BY <1>2, <1>4, <2>1, <2>2, <2>3
  <1> QED
    BY <1>1, <1>5, <1>9 DEF s, n, k, icl

-----------------------------------------------------------------------------
(* What an access and a failure do.                                        *)

Registers == [icl : 0 .. ICL_RAW_MAX, override : BOOLEAN, pulse_max : {"5V", "9V"}]

\* A write, accepted or not, moves a register of its own call: a limit that was verified
\* stays, and the detection starts over in a rerun only.
Struck ==
  /\ regs' \in Registers /\ chip' \in Statuses /\ chip'.brick = chip.brick
  /\ call # "rerun" => chip' = chip
  /\ chip' = chip \/ ~chip'.done
  /\ call \notin {"close", "apply"} => regs' = regs
  /\ call = "apply" /\ Len(todo) <= Extra(adapter) + 3 => regs'.icl = regs.icl
  /\ call = "apply" /\ Len(todo) <= Extra(adapter) => regs'.override = regs.override

\* A chip that detects anew.
LEMMA Restarted ==
  ASSUME IInv, chip' = [Off EXCEPT !.brick = chip.brick]
  PROVE  chip' \in Statuses /\ chip'.brick = chip.brick /\ ~chip'.done
  BY DEF IInv, Typed, Statuses, Off, Patterns

\* A write that lands is of the register its call is at, so nothing verified moves.
LEMMA LandedStruck ==
  ASSUME IInv, Busy, Head(todo).do = "write", Landed(Head(todo))
  PROVE  Struck
  <1>1. regs \in Registers /\ chip \in Statuses
    BY DEF IInv, Typed, TypeOK, Registers
  <1>2. call \in {"close", "rerun", "apply"}
    <2>1. call \notin {"open", "reinit", "detect", "monitor"}
      BY AtPoll
    <2> QED
      BY <2>1 DEF IInv, Typed, Busy
  <1>3. CASE call = "close"
    <2>1. Head(todo) = Acc("write", "icl", SAFE_ICL)
      BY <1>3, AtClose DEF Acc
    <2>2. regs' = [regs EXCEPT !["icl"] = SAFE_ICL] /\ chip' = chip
      BY <2>1 DEF Landed, Acc
    <2> QED
      BY <1>1, <1>3, <2>2 DEF Struck, Registers, SAFE_ICL, ICL_RAW_MAX
  <1>4. CASE call = "rerun"
    <2>1. chip' = [Off EXCEPT !.brick = chip.brick] /\ regs' = regs
      BY <1>4, AtRerun DEF Landed
    <2> QED
      BY <1>1, <1>4, <2>1, Restarted DEF Struck
  <1>5. CASE call = "apply"
    <2> DEFINE n == Len(todo)
               k == Extra(adapter)
               icl == policy_for(adapter).icl
               Overridden == TRUE
    <2>1. k \in {0, 3} /\ (adapter \in Qc => k = 3)
      BY DEF Extra
    <2>2. icl \in 0 .. ICL_RAW_MAX
      BY <1>5, AtApply, Policy
    <2>3. \/ n = k + 5 /\ Head(todo) = Acc("write", "icl", icl)
          \/ n = k + 2 /\ Head(todo) = Acc("write", "override", TRUE)
          \/ n = 2 /\ adapter \in Qc /\ Head(todo) = Acc("write", "pulse_max", "9V")
      BY <1>5, AtApply DEF Acc
    <2> HIDE DEF n, k, icl, Overridden
    <2>4. CASE n = k + 5 /\ Head(todo) = Acc("write", "icl", icl)
      <3>1. regs' = [regs EXCEPT !["icl"] = icl] /\ chip' = chip
        BY <2>4 DEF Landed, Acc
      <3>2. regs' \in Registers
        BY <1>1, <2>2, <3>1 DEF Registers
      <3>3. ~(n <= k + 3) /\ ~(n <= k)
        BY <2>1, <2>4
      <3> QED
        BY <1>1, <1>5, <3>1, <3>2, <3>3 DEF Struck, n, k
    <2>5. CASE n = k + 2 /\ Head(todo) = Acc("write", "override", TRUE)
      <3>1. Head(todo) = Acc("write", "override", Overridden)
        BY <2>5, Zenon DEF Overridden
      <3>2. /\ regs' = [regs EXCEPT !["override"] = Overridden] /\ chip' = chip
            /\ Overridden \in BOOLEAN
        BY <3>1 DEF Landed, Acc, Overridden
      <3>3. regs' \in Registers /\ regs'.icl = regs.icl
        BY <1>1, <3>2 DEF Registers
      <3>4. ~(n <= k)
        BY <2>1, <2>5
      <3> QED
        BY <1>1, <1>5, <3>2, <3>3, <3>4 DEF Struck, n, k
    <2>6. CASE n = 2 /\ adapter \in Qc /\ Head(todo) = Acc("write", "pulse_max", "9V")
      <3>1. regs' = [regs EXCEPT !["pulse_max"] = "9V"] /\ chip' = chip
        BY <2>6 DEF Landed, Acc
      <3>2. regs' \in Registers /\ regs'.icl = regs.icl /\ regs'.override = regs.override
        BY <1>1, <3>1 DEF Registers
      <3> QED
        BY <1>1, <1>5, <3>1, <3>2 DEF Struck
    <2> QED
      BY <2>3, <2>4, <2>5, <2>6
  <1> QED
    BY <1>2, <1>3, <1>4, <1>5

\* An access that moves nothing.
LEMMA StillStruck ==
  ASSUME IInv, UNCHANGED <<chip, regs>>
  PROVE  Struck
  BY DEF IInv, Typed, TypeOK, Registers, Struck

\* An access that errs.
LEMMA ErrsStruck ==
  ASSUME IInv, Busy, Errs
  PROVE  Struck /\ moved' = moved
  BY LandedStruck, StillStruck DEF Errs

\* What is reported is still in the registers.
LEMMA ReportStands ==
  ASSUME IInv, Struck, reported' = reported
  PROVE  ReportedLimitHolds'
  <1>1. CASE reported = None
    BY <1>1 DEF ReportedLimitHolds, None, Adapters, Patterns
  <1>2. CASE reported # None
    <2>1. regs' = regs
      BY <1>2 DEF IInv, Written, Struck
    <2> QED
      BY <2>1 DEF IInv, Written, ReportedLimitHolds
  <1> QED
    BY <1>1, <1>2

\* A failure ends the call and the run, and leaves no session that is ready, unless it is the
\* probe of a session that was.
LEMMA FailsIs ==
  ASSUME Fails
  PROVE  /\ call' = None /\ todo' = <<>> /\ attempt' = 0 /\ status' = Off
         /\ run' = None
         /\ run = None => UNCHANGED <<steps, ret>>
         /\ run # None => steps' = 0 /\ ret' = "error"
         /\ UNCHANGED <<adapter, age, reruns, reported>>
         /\ state' \in {"closed", "faulted", state}
         /\ call # "reinit" => state' \in {"closed", "faulted"}
         /\ call = "reinit" => state' = state
  <1>1. UNCHANGED <<adapter, age, reruns, reported>> /\ Done
    BY DEF Fails
  <1>2. /\ run = None => UNCHANGED <<run, steps, ret>>
        /\ run # None => run' = None /\ steps' = 0 /\ ret' = "error"
    BY DEF Fails, host, Returns
  <1>3. /\ call \in {"open", "close"} => state' = "closed"
        /\ call = "reinit" => state' = state
        /\ call \notin {"open", "close", "reinit"} => state' = "faulted"
    BY DEF Fails
  <1> QED
    BY <1>1, <1>2, <1>3 DEF Done

\* So it keeps the invariant.
LEMMA FailsKept ==
  ASSUME IInv, Fails, Struck, moved' \in BOOLEAN
  PROVE  IInv'
  <1>1. /\ call' = None /\ todo' = <<>> /\ attempt' = 0 /\ status' = Off
        /\ run' = None /\ (steps' = steps \/ steps' = 0)
        /\ UNCHANGED <<adapter, age, reruns, reported>>
        /\ state' \in {"closed", "faulted", state}
    BY FailsIs
  <1>2. Typed'
    BY <1>1, ChargerAssumption DEF IInv, Typed, TypeOK, Struck, Registers, Statuses, Off, Patterns, None
  <1>3. Scripted'
    BY <1>1 DEF Scripted, None
  <1>4. Written'
    BY <1>1, ReportStands DEF Written, None
  <1> QED
    BY <1>2, <1>3, <1>4 DEF IInv

-----------------------------------------------------------------------------
(* The invariant of the limits.                                            *)

\* The next access of a call: what is left of it is still the end of its script.
LEMMA Shortened ==
  ASSUME IInv, Busy, todo' = Tail(todo), UNCHANGED <<call, adapter>>
  PROVE  Scripted' /\ Len(todo') <= Len(todo)
  <1>1. call # None /\ call' # None
    BY DEF Busy
  <1>2. CASE call \in {"open", "reinit", "detect", "monitor"}
    <2>1. todo' = <<>>
      BY <1>2, AtPoll
    <2>2. Len(todo) \in Nat
      BY DEF IInv, Scripted
    <2>3. todo' \in Seq(Accesses) /\ Len(todo') = 0
      BY <2>1, Empty, Zenon
    <2>4. Scripted'
      <3>1. call' \notin {"close", "rerun", "apply"}
        BY <1>2
      <3> QED
        BY <1>1, <2>1, <2>3, <3>1 DEF Scripted
    <2> QED
      BY <2>2, <2>3, <2>4
  <1>3. CASE call = "close"
    <2>1. /\ Tail(todo) \in Seq(Accesses) /\ Len(Tail(todo)) = Len(todo) - 1
          /\ Behind(Tail(todo), write_reg("icl", SAFE_ICL))
      BY <1>3, AtClose
    <2>2. Len(todo) \in Nat
      BY DEF IInv, Scripted
    <2>3. Scripted'
      BY <1>1, <1>3, <2>1 DEF Scripted
    <2> QED
      BY <2>1, <2>2, <2>3
  <1>4. CASE call = "rerun"
    <2>1. /\ Tail(todo) \in Seq(Accesses) /\ Len(Tail(todo)) = Len(todo) - 1
          /\ Behind(Tail(todo), update_reg("cmd_apsd", TRUE))
      BY <1>4, AtRerun
    <2>2. Len(todo) \in Nat
      BY DEF IInv, Scripted
    <2>3. Scripted'
      <3>1. todo' \in Seq(Accesses)
        BY <2>1
      <3>2. Behind(todo', update_reg("cmd_apsd", TRUE))
        BY <2>1, Zenon
      <3> QED
        BY <1>1, <1>4, <3>1, <3>2, Zenon DEF Scripted
    <2> QED
      BY <2>1, <2>2, <2>3
  <1>5. CASE call = "apply"
    <2>1. /\ Tail(todo) \in Seq(Accesses) /\ Len(Tail(todo)) = Len(todo) - 1 /\ Len(todo) \in Nat
          /\ Behind(Tail(todo), apply_writes(adapter))
      BY <1>5, AtApply
    <2> QED
      BY <1>1, <1>5, <2>1 DEF Scripted
  <1> QED
    BY <1>1, <1>2, <1>3, <1>4, <1>5 DEF IInv, Typed

\* A read-back that matched.
Verified ==
  Head(todo).do = "verify" /\ call # "rerun" =>
    regs' = regs /\ regs[Head(todo).reg] = Head(todo).value

\* A call whose access went through goes on, with one more register verified.
LEMMA Proceeds ==
  ASSUME IInv, Busy, Struck, Verified, Continue(<<>>), status' \in Statuses,
         UNCHANGED <<moved, state, adapter, age, reruns, run, steps, ret, reported>>
  PROVE  IInv'
  <1>1. todo' = Tail(todo) /\ attempt' = 0 /\ call' = call
    <2>1. Tail(todo) \in Seq(Accesses)
      BY DEF IInv, Scripted, Busy
    <2> QED
      BY <2>1 DEF Continue
  <1>2. Scripted' /\ Len(todo') <= Len(todo)
    BY <1>1, Shortened
  <1>3. Typed'
    <2>1. Len(todo') \in Nat /\ Len(todo) \in Nat
      BY <1>2 DEF IInv, Scripted
    <2> QED
      BY <1>1, <1>2, <2>1, ChargerAssumption DEF IInv, Typed, TypeOK, Struck, Registers
  <1>4. Written'
    <2>1. call = "close" /\ todo' = <<>> => regs'.icl = SAFE_ICL
      <3>1. ASSUME call = "close", todo' = <<>>
            PROVE  regs'.icl = SAFE_ICL
        <4>1. Len(todo) = 1
          <5>1. Len(todo) \in {1, 2} /\ Len(todo') = Len(todo) - 1
            BY <1>1, <3>1, AtClose
          <5>2. Len(todo') = 0
            BY <3>1, Empty, Zenon
          <5> QED
            BY <5>1, <5>2
        <4>2. Head(todo).do = "verify" /\ Head(todo).reg = "icl" /\ Head(todo).value = SAFE_ICL
          BY <3>1, <4>1, AtClose DEF Acc
        <4> QED
          BY <3>1, <4>2 DEF Verified
      <3> QED
        BY <3>1
    <2>2. ASSUME call = "apply"
          PROVE  /\ Len(todo') <= Extra(adapter) + 3 => regs'.icl = policy_for(adapter).icl
                 /\ Len(todo') <= Extra(adapter) => regs'.override
                 /\ adapter \in Qc /\ todo' = <<>> => regs'.pulse_max = "9V"
      <3> DEFINE n == Len(todo)
                 k == Extra(adapter)
                 icl == policy_for(adapter).icl
                 Overridden == TRUE
      <3>1. k \in {0, 3} /\ (adapter \in Qc => k = 3) /\ n \in Nat \ {0} /\ Len(todo') = n - 1
        BY <1>1, <2>2, AtApply DEF Extra
      <3>2. \/ n = k + 5
            \/ n = k + 4 /\ Head(todo) = Acc("verify", "icl", icl)
            \/ n = k + 3
            \/ n = k + 2
            \/ n = k + 1 /\ Head(todo) = Acc("verify", "override", Overridden)
            \/ n = 3 /\ adapter \in Qc
            \/ n = 2 /\ adapter \in Qc
            \/ n = 1 /\ adapter \in Qc /\ Head(todo) = Acc("verify", "pulse_max", "9V")
        BY <2>2, AtApply, Zenon
      <3>3. Overridden
        OBVIOUS
      <3>4. /\ n <= k + 3 => regs.icl = icl
            /\ n <= k => regs.override
        BY <2>2 DEF IInv, Written
      <3>5. /\ n <= k + 3 => regs'.icl = regs.icl
            /\ n <= k => regs'.override = regs.override
        BY <2>2 DEF Struck
      <3> HIDE DEF n, k, icl, Overridden
      <3>6. /\ n = k + 4 => Head(todo) = Acc("verify", "icl", icl)
            /\ n = k + 1 => Head(todo) = Acc("verify", "override", Overridden)
            /\ n = 1 /\ adapter \in Qc => Head(todo) = Acc("verify", "pulse_max", "9V")
        BY <3>1, <3>2
      <3>7. n - 1 <= k + 3 => regs'.icl = icl
        <4>1. CASE n = k + 4
          <5>1. Head(todo).do = "verify" /\ Head(todo).reg = "icl" /\ Head(todo).value = icl
            BY <3>6, <4>1 DEF Acc
          <5>2. regs' = regs /\ regs["icl"] = icl
            BY <2>2, <5>1 DEF Verified
          <5> QED
            BY <5>2
        <4>2. CASE n # k + 4
          BY <3>1, <3>4, <3>5, <4>2
        <4> QED
          BY <4>1, <4>2
      <3>8. n - 1 <= k => regs'.override
        <4>1. CASE n = k + 1
          <5>1. Head(todo).do = "verify" /\ Head(todo).reg = "override" /\ Head(todo).value = Overridden
            BY <3>6, <4>1 DEF Acc
          <5>2. regs' = regs /\ regs["override"] = Overridden
            BY <2>2, <5>1 DEF Verified
          <5> QED
            BY <3>3, <5>2, Zenon
        <4>2. CASE n # k + 1
          BY <3>1, <3>4, <3>5, <4>2
        <4> QED
          BY <4>1, <4>2
      <3>9. adapter \in Qc /\ n = 1 => regs'.pulse_max = "9V"
        <4>1. ASSUME adapter \in Qc, n = 1
              PROVE  regs'.pulse_max = "9V"
          <5>1. Head(todo).do = "verify" /\ Head(todo).reg = "pulse_max" /\ Head(todo).value = "9V"
            BY <3>6, <4>1 DEF Acc
          <5> QED
            BY <2>2, <5>1 DEF Verified
        <4> QED
          BY <4>1
      <3>10. todo' = <<>> => n = 1
        BY <3>1
      <3> QED
        BY <3>1, <3>7, <3>8, <3>9, <3>10 DEF n, k, icl
    <2>3. ReportedLimitHolds'
      BY ReportStands
    <2>4. call \in {"close", "apply"} => reported = None
      BY DEF IInv, Written
    <2> QED
      BY <1>1, <2>1, <2>2, <2>3, <2>4 DEF Written
  <1> QED
    BY <1>2, <1>3, <1>4 DEF IInv

\* A step beside the call and the registers.
LEMMA Framed ==
  ASSUME IInv, Typed', UNCHANGED <<regs, adapter, call, todo, status, reported>>
  PROVE  IInv'
  <1>1. Scripted'
    BY Zenon DEF IInv, Scripted
  <1>2. ReportedLimitHolds'
    BY Zenon DEF IInv, Written, ReportedLimitHolds
  <1>3. Written'
    BY <1>2, Zenon DEF IInv, Written
  <1> QED
    BY <1>1, <1>3 DEF IInv

\* What a completed detection shows.
LEMMA DetectedIs ==
  ASSUME NEW b \in Bricks, NEW u \in BOOLEAN
  PROVE  Detected(b, u) \in Statuses
  <1> DEFINE qc == b \in Qc
             done == TRUE
             pattern == IF b = "hvdcp2" THEN "dcp" ELSE b
  <1>1. pattern \in Patterns \cup {"bad"}
    BY ChargerAssumption DEF Patterns
  <1>2. qc \in BOOLEAN /\ done \in BOOLEAN
    OBVIOUS
  <1>3. Detected(b, u)
          = [brick |-> b, done |-> done, unstable |-> u, qc |-> qc, pattern |-> pattern]
    BY Zenon DEF Detected
  <1> HIDE DEF qc, done, pattern
  <1> QED
    BY <1>1, <1>2, <1>3 DEF Statuses

\* The cable and the detection of the hardware.
LEMMA EnvironmentKept ==
  ASSUME IInv, Environment
  PROVE  IInv'
  <1>1. /\ UNCHANGED <<regs, state, adapter, age, reruns>>
        /\ UNCHANGED <<call, todo, attempt, status, run, steps, ret, reported>>
    BY DEF Environment, Plug, Unplug, Apsd, session, io, host
  <1>2. moved' \in BOOLEAN
    BY DEF Environment, Plug, Unplug, Apsd, IInv, Typed
  <1>3. chip' \in Statuses
    <2>1. CASE \E b \in Bricks : Plug(b)
      BY <2>1 DEF Plug, Off, Statuses, Patterns
    <2>2. CASE Unplug
      BY <2>2 DEF Unplug, Off, Statuses, Patterns
    <2>3. CASE Apsd
      <3>1. PICK u \in {FALSE, chip.brick \in Qc} : chip' = Detected(chip.brick, u)
        BY <2>3 DEF Apsd
      <3>2. chip.brick \in Bricks
        BY <2>3 DEF Apsd, IInv, Typed, Statuses
      <3>3. u \in BOOLEAN
        <4> DEFINE qc == chip.brick \in Qc
        <4>1. qc \in BOOLEAN
          OBVIOUS
        <4>2. FALSE \in BOOLEAN
          OBVIOUS
        <4>3. u = FALSE \/ u = qc
          BY Zenon
        <4> HIDE DEF qc
        <4> QED
          BY <4>1, <4>2, <4>3, Zenon
      <3> QED
        BY <3>1, <3>2, <3>3, DetectedIs, Zenon
    <2> QED
      BY <2>1, <2>2, <2>3 DEF Environment
  <1>4. Typed'
    BY <1>1, <1>2, <1>3 DEF IInv, Typed, TypeOK
  <1> QED
    BY <1>1, <1>4, Framed

\* A poll interval passes.
LEMMA ElapseKept ==
  ASSUME IInv, Elapse
  PROVE  IInv'
  <1>1. /\ UNCHANGED <<chip, moved, regs, state, adapter, reruns>>
        /\ UNCHANGED <<call, todo, attempt, status, steps, ret, reported>>
    BY DEF Elapse, env, io
  <1>2. age' \in {NotStarted} \cup 0 .. DetectTimeout
    BY ChargerAssumption DEF Elapse, IInv, Typed, TypeOK, NotStarted
  <1>3. run' = run \/ (run = "sleep" /\ run' = "detect")
    BY DEF Elapse
  <1>4. call = None
    BY DEF Elapse
  <1>5. Typed'
    BY <1>1, <1>2, <1>3, <1>4 DEF IInv, Typed, TypeOK
  <1> QED
    BY <1>1, <1>5, Framed

\* A run begins.
LEMMA RunUntilReadyKept ==
  ASSUME IInv, RunUntilReady
  PROVE  IInv'
  <1>1. /\ UNCHANGED <<chip, moved, regs, state, adapter, age, reruns>>
        /\ UNCHANGED <<call, todo, attempt, status, reported>>
        /\ call = None /\ run' = "detect" /\ steps' = 0
    BY DEF RunUntilReady, AtRest, env, io, session
  <1>2. Typed'
    BY <1>1, ChargerAssumption DEF IInv, Typed, TypeOK
  <1> QED
    BY <1>1, <1>2, Framed

\* A call that polls or probes begins, or goes on to the result.
LEMMA PollBegun ==
  ASSUME IInv, Typed', UNCHANGED <<regs, reported>>,
         \/ call' \in {"open", "reinit", "detect", "monitor"} /\ todo' = Read("status")
         \/ call' \in {"detect", "monitor"} /\ todo' = Read("result")
  PROVE  IInv'
  <1>1. call' \in {"open", "reinit", "detect", "monitor"}
        /\ call' \notin {None, "close", "rerun", "apply"}
    BY DEF None
  <1>2. todo' \in Seq(Accesses)
    <2>1. todo' = <<Acc("read", "status", None)>> \/ todo' = <<Acc("read", "result", None)>>
      BY Zenon DEF Read, Acc
    <2>2. Acc("read", "status", None) \in Accesses /\ Acc("read", "result", None) \in Accesses
      BY DEF Acc, Accesses
    <2> QED
      BY <2>1, <2>2, One, Zenon
  <1>3. Scripted'
    <2>1. call' \in {"open", "reinit"} => todo' = Read("status")
      OBVIOUS
    <2>2. todo' = Read("status") \/ todo' = Read("result")
      OBVIOUS
    <2> QED
      BY <1>1, <1>2, <2>1, <2>2, Zenon DEF Scripted
  <1>4. ReportedLimitHolds'
    BY Zenon DEF IInv, Written, ReportedLimitHolds
  <1>5. Written'
    BY <1>1, <1>4, Zenon DEF Written
  <1> QED
    BY <1>3, <1>5 DEF IInv

\* The length of one access, as the type invariant bounds it.
LEMMA OneRead ==
  ASSUME NEW r
  PROVE  Len(Read(r)) = 1 /\ Read(r) # <<>>
  BY DEF Read

\* open begins.
LEMMA OpenKept ==
  ASSUME IInv, Open
  PROVE  IInv'
  <1>1. /\ UNCHANGED <<chip, moved, regs, state, run, steps, reported, status>>
        /\ adapter' = None /\ age' = NotStarted /\ reruns' = 0
        /\ call' = "open" /\ todo' = Read("status") /\ attempt' = 0 /\ run = None
    BY DEF Open, AtRest, env, Begin
  <1>2. Len(todo') <= 8
    BY <1>1, OneRead
  <1>3. Typed'
    BY <1>1, <1>2, ChargerAssumption DEF IInv, Typed, TypeOK, None
  <1> QED
    BY <1>1, <1>3, PollBegun

\* reinit begins, or its reset fails.
LEMMA ReinitKept ==
  ASSUME IInv, Reinit
  PROVE  IInv'
  <1>1. /\ UNCHANGED <<chip, moved, regs, run, steps, reported, status>> /\ run = None /\ call = None
    BY DEF Reinit, AtRest, env, io, Begin
  <1>2. CASE state' = "faulted" /\ UNCHANGED <<adapter, age, reruns, io>>
    <2>1. Typed'
      BY <1>1, <1>2 DEF IInv, Typed, TypeOK, io
    <2> QED
      BY <1>1, <1>2, <2>1, Framed DEF io
  <1>3. CASE /\ adapter' = None /\ age' = NotStarted /\ reruns' = 0
             /\ state' = "idle"
             /\ Begin("reinit", Read("status"))
    <2>1. call' = "reinit" /\ todo' = Read("status") /\ attempt' = 0
      BY <1>3 DEF Begin
    <2>2. Len(todo') <= 8
      BY <2>1, OneRead
    <2>3. Typed'
      BY <1>1, <1>3, <2>1, <2>2, ChargerAssumption DEF IInv, Typed, TypeOK, None
    <2> QED
      BY <1>1, <2>1, <2>3, PollBegun
  <1> QED
    BY <1>2, <1>3 DEF Reinit

\* monitor_cycle begins.
LEMMA MonitorCycleKept ==
  ASSUME IInv, MonitorCycle
  PROVE  IInv'
  <1>1. /\ UNCHANGED <<chip, regs, state, adapter, age, reruns, steps, reported, status>>
        /\ run' = "monitor" /\ moved' \in BOOLEAN
        /\ call' = "monitor" /\ todo' = Read("status") /\ attempt' = 0
    BY DEF MonitorCycle, session, Begin
  <1>2. Len(todo') <= 8
    <2>1. Len(todo') = 1
      BY <1>1, OneRead, Zenon
    <2> QED
      BY <2>1
  <1>3. Typed'
    BY <1>1, <1>2, ChargerAssumption DEF IInv, Typed, TypeOK
  <1> QED
    BY <1>1, <1>3, PollBegun

\* A step of the detection begins, or the run ends by the fuse.
LEMMA DetectStepKept ==
  ASSUME IInv, DetectStep
  PROVE  IInv'
  <1>1. UNCHANGED <<chip, regs, reported>> /\ run = "detect" /\ call = None
    BY DEF DetectStep
  <1>2. CASE Returns("fuse") /\ UNCHANGED <<moved, session, io>>
    <2>1. /\ UNCHANGED <<moved, state, adapter, age, reruns, call, todo, attempt, status>>
          /\ run' = None /\ steps' = 0
      BY <1>2 DEF session, io, Returns
    <2>2. Typed'
      BY <1>1, <2>1, ChargerAssumption DEF IInv, Typed, TypeOK, None
    <2> QED
      BY <1>1, <2>1, <2>2, Framed
  <1>3. CASE steps # MaxSteps
    <2>1. /\ steps' = steps + 1
          /\ age' = IF age = NotStarted THEN 0 ELSE age
          /\ state' = IF age = NotStarted THEN "detecting" ELSE state
          /\ call' = "detect" /\ todo' = Read("status") /\ attempt' = 0 /\ status' = status
          /\ UNCHANGED <<adapter, reruns, run, ret>>
      BY <1>3 DEF DetectStep, Begin
    <2>2. moved' \in BOOLEAN
      BY <1>3 DEF DetectStep
    <2>3. Len(todo') <= 8
      <3>1. Len(todo') = 1
        BY <2>1, OneRead, Zenon
      <3> QED
        BY <3>1
    <2>4. steps' \in 0 .. MaxSteps
      BY <1>3, <2>1, ChargerAssumption DEF IInv, Typed, TypeOK
    <2>5. age' \in {NotStarted} \cup 0 .. DetectTimeout
      BY <2>1, ChargerAssumption DEF IInv, Typed, TypeOK
    <2>6. Typed'
      BY <1>1, <2>1, <2>2, <2>3, <2>4, <2>5, ChargerAssumption DEF IInv, Typed, TypeOK
    <2> QED
      BY <1>1, <2>1, <2>6, PollBegun
  <1> QED
    BY <1>2, <1>3 DEF DetectStep

\* close begins.
LEMMA CloseKept ==
  ASSUME IInv, Close
  PROVE  IInv'
  <1>1. /\ UNCHANGED <<chip, moved, regs, state, adapter, age, reruns, run, steps, status>>
        /\ reported' = None /\ run = None
        /\ call' = "close" /\ todo' = write_reg("icl", SAFE_ICL) /\ attempt' = 0
    BY DEF Close, AtRest, env, session, Begin
  <1>2. todo' \in Seq(Accesses) /\ Behind(todo', write_reg("icl", SAFE_ICL))
    BY <1>1, CloseScript, BehindAll, Zenon
  <1>3. Len(todo') = 2
    BY <1>1, WriteScript
  <1>4. Scripted'
    BY <1>1, <1>2 DEF Scripted, None
  <1>5. Written'
    BY <1>1, <1>3 DEF Written, ReportedLimitHolds, None, Adapters, Patterns
  <1>6. Typed'
    <2>1. call' = "close" /\ Len(todo') <= 8 /\ attempt' = 0 /\ reported' = None
      <3>1. call' = "close" /\ attempt' = 0 /\ reported' = None
        BY <1>1, Zenon
      <3> QED
        BY <1>3, <3>1
    <2>2. UNCHANGED <<chip, moved, regs, state, adapter, age, reruns, run, steps, status>> /\ run = None
      BY <1>1
    <2> QED
      BY <2>1, <2>2, ChargerAssumption DEF IInv, Typed, TypeOK
  <1> QED
    BY <1>4, <1>5, <1>6 DEF IInv

\* apply begins.
LEMMA ApplyKept ==
  ASSUME IInv, Apply
  PROVE  IInv'
  <1>1. /\ UNCHANGED <<chip, moved, regs, state, adapter, age, reruns, run, steps, ret, status>>
        /\ reported' = None /\ run = "apply"
        /\ call' = "apply" /\ todo' = apply_writes(adapter) /\ attempt' = 0
    BY DEF Apply, env, session, host, Begin
  <1>2. adapter \in Adapters
    BY <1>1 DEF IInv, Typed
  <1>3. todo' \in Seq(Accesses) /\ Len(todo') = 5 + Extra(adapter)
    BY <1>1, <1>2, ApplyScript
  <1>4. Behind(todo', apply_writes(adapter'))
    BY <1>1, <1>3, BehindAll, Zenon
  <1>5. Extra(adapter) \in {0, 3}
    BY DEF Extra
  <1>6. Scripted'
    BY <1>1, <1>3, <1>4 DEF Scripted, None
  <1>7. Written'
    <2>1. ~(Len(todo') <= Extra(adapter') + 3) /\ ~(Len(todo') <= Extra(adapter')) /\ todo' # <<>>
      BY <1>1, <1>3, <1>5
    <2>2. ReportedLimitHolds'
      BY <1>1 DEF ReportedLimitHolds, None, Adapters, Patterns
    <2> QED
      BY <1>1, <2>1, <2>2 DEF Written
  <1>8. Typed'
    BY <1>1, <1>2, <1>3, <1>5, ChargerAssumption DEF IInv, Typed, TypeOK
  <1> QED
    BY <1>6, <1>7, <1>8 DEF IInv

\* No call is in hand after a step that ends it.
LEMMA Ended ==
  ASSUME IInv, Done, UNCHANGED chip, moved' \in BOOLEAN, regs' = regs,
         state' \in {"closed", "idle", "detecting", "ready", "faulted"},
         adapter' \in Adapters \cup {None}, age' = age, reruns' = reruns,
         run' \in {None, "detect", "sleep", "apply"}, run' = "apply" => adapter' \in Adapters,
         steps' \in 0 .. MaxSteps, reported' \in Adapters \cup {None, "safe"},
         ReportedLimitHolds'
  PROVE  IInv'
  <1>1. call' = None /\ todo' = <<>> /\ attempt' = 0 /\ status' = Off
    BY DEF Done
  <1>2. Len(todo') = 0 /\ todo' \in Seq(Accesses)
    BY <1>1, Empty, Zenon
  <1>3. status' \in Statuses
    BY <1>1 DEF Off, Statuses, Patterns
  <1>4. Scripted'
    BY <1>1, <1>2 DEF Scripted, None
  <1>5. Written'
    BY <1>1 DEF Written, None
  <1>6. TypeOK'
    BY <1>2, <1>1, ChargerAssumption DEF IInv, Typed, TypeOK
  <1>7. Typed'
    BY <1>1, <1>3, <1>6 DEF IInv, Typed
  <1> QED
    BY <1>4, <1>5, <1>7 DEF IInv

\* The poll ends: the next one waits.
LEMMA PendingKept ==
  ASSUME IInv, Pending, UNCHANGED <<chip, moved, regs>>
  PROVE  IInv'
  <1>1. /\ Done /\ run' = "sleep"
        /\ UNCHANGED <<steps, state, adapter, age, reruns, reported>>
    BY DEF Pending, session
  <1>2. ReportedLimitHolds'
    BY <1>1, Zenon DEF IInv, Written, ReportedLimitHolds
  <1>3. moved' \in BOOLEAN /\ adapter \in Adapters \cup {None} /\ steps \in 0 .. MaxSteps
        /\ state \in {"closed", "idle", "detecting", "ready", "faulted"}
        /\ reported \in Adapters \cup {None, "safe"}
    BY DEF IInv, Typed, TypeOK
  <1> QED
    BY <1>1, <1>2, <1>3, Ended

\* The return of a call whose accesses all went through.
LEMMA ReturnKept ==
  ASSUME IInv, Return
  PROVE  IInv'
  <1> DEFINE d == decode(status, status.pattern)
  <1>1. UNCHANGED <<chip, moved, regs>>
    BY DEF Return, StepDetected, Rerun, Applied, Monitored, Settled, env
  <1>2. /\ moved' \in BOOLEAN /\ adapter \in Adapters \cup {None} /\ steps \in 0 .. MaxSteps
        /\ state \in {"closed", "idle", "detecting", "ready", "faulted"}
        /\ reported \in Adapters \cup {None, "safe"}
        /\ age \in {NotStarted} \cup 0 .. DetectTimeout /\ reruns \in 0 .. MaxReruns
    BY <1>1 DEF IInv, Typed, TypeOK
  <1>3. /\ call \in {"detect", "rerun"} => run = "detect"
        /\ call \in {"open", "reinit", "close"} => run = None
        /\ call = "apply" => adapter \in Adapters
    BY DEF IInv, Typed, None
  <1>4. 0 \in 0 .. MaxSteps
    BY ChargerAssumption
  <1>5. Struck
    BY <1>1, StillStruck
  <1>6. ASSUME reported' = reported
        PROVE  ReportedLimitHolds'
    BY <1>1, <1>6, Zenon DEF IInv, Written, ReportedLimitHolds
  <1>7. ASSUME Fails
        PROVE  IInv'
    BY <1>2, <1>5, <1>7, FailsKept
  <1>8. ASSUME StepDetected
        PROVE  IInv'
    <2>1. CASE /\ d \in Adapters
               /\ Done
               /\ adapter' = d /\ state' = "ready"
               /\ (run' = "apply" /\ UNCHANGED <<steps, ret>>) \/ (CallbackErrs /\ Returns("error"))
               /\ UNCHANGED <<age, reruns, reported>>
      <3>1. run' \in {None, "apply"} /\ steps' \in 0 .. MaxSteps
        BY <1>2, <1>4, <2>1 DEF Returns
      <3> HIDE DEF d
      <3>2. adapter' \in Adapters
        BY <2>1
      <3> QED
        BY <1>1, <1>2, <1>6, <2>1, <3>1, <3>2, Ended
    <2>2. CASE d = "not_complete" /\ age < DetectTimeout /\ Pending
      BY <1>1, <2>2, PendingKept
    <2>3. CASE /\ (d = "not_complete" /\ age >= DetectTimeout) \/ d = "check_timeout"
               /\ IF reruns >= MaxReruns THEN Fails ELSE retry_detection
      <3>1. CASE Fails
        BY <1>7, <3>1
      <3>2. CASE ~(reruns >= MaxReruns) /\ retry_detection
        <4>1. /\ reruns' = reruns + 1 /\ call' = "rerun" /\ todo' = update_reg("cmd_apsd", TRUE)
              /\ attempt' = 0 /\ status' = Off
              /\ UNCHANGED <<state, adapter, age, run, steps, ret, reported>>
          BY <3>2 DEF retry_detection, host
        <4>2. todo' \in Seq(Accesses) /\ Behind(todo', update_reg("cmd_apsd", TRUE))
          BY <4>1, RerunScript, BehindAll, Zenon
        <4>3. Len(todo') = 3
          BY <4>1, UpdateScript, Zenon
        <4>4. Scripted'
          <5>1. call' = "rerun" /\ call' \notin {None, "open", "reinit", "detect", "monitor", "close", "apply"}
            BY <4>1 DEF None
          <5> QED
            BY <4>2, <5>1, Zenon DEF Scripted
        <4>5. Written'
          <5>1. call' \notin {"close", "apply"} /\ reported' = reported
            BY <4>1
          <5> QED
            BY <1>6, <5>1 DEF Written
        <4>6. reruns' \in 0 .. MaxReruns
          BY <1>2, <3>2, <4>1, ChargerAssumption
        <4>7. status' \in Statuses
          BY <4>1 DEF Off, Statuses, Patterns
        <4>8. run = "detect" /\ call' = "rerun" /\ attempt' = 0
              /\ UNCHANGED <<state, adapter, age, run, steps, reported>>
          BY <1>3, <1>8, <4>1 DEF StepDetected
        <4>9. TypeOK'
          BY <1>1, <4>3, <4>6, <4>8, ChargerAssumption DEF IInv, Typed, TypeOK
        <4>10. Typed'
          BY <1>1, <4>7, <4>8, <4>9 DEF IInv, Typed
        <4> QED
          BY <4>4, <4>5, <4>10 DEF IInv
      <3> QED
        BY <2>3, <3>1, <3>2
    <2>4. CASE d = "unknown_pattern" /\ Fails
      BY <1>7, <2>4
    <2> QED
      BY <1>8, <2>1, <2>2, <2>3, <2>4 DEF StepDetected
  <1>9. ASSUME Rerun
        PROVE  IInv'
    BY <1>1, <1>9, PendingKept DEF Rerun
  <1>10. ASSUME Applied
         PROVE  IInv'
    <2>1. /\ Done /\ call = "apply" /\ todo = <<>> /\ state' = "ready" /\ reported' = adapter
          /\ run' = None /\ steps' = 0 /\ UNCHANGED <<adapter, age, reruns>>
      BY <1>10 DEF Applied, Returns
    <2>2. ReportedLimitHolds'
      <3>1. Len(todo) <= Extra(adapter) + 3 /\ Len(todo) <= Extra(adapter)
        <4>1. Len(todo) = 0
          BY <2>1, Empty, Zenon
        <4> QED
          BY <4>1 DEF Extra
      <3>2. /\ regs.icl = policy_for(adapter).icl
            /\ adapter \in Qc => regs.pulse_max = "9V"
        BY <2>1, <3>1 DEF IInv, Written
      <3>3. regs.override
        BY <2>1, <3>1, Zenon DEF IInv, Written
      <3>4. reported' # "safe"
        BY <1>3, <2>1 DEF Adapters, Patterns
      <3>5. regs' = regs /\ reported' = adapter
        BY <1>1, <2>1
      <3> QED
        BY <3>2, <3>3, <3>4, <3>5, Zenon DEF ReportedLimitHolds
    <2>3. adapter' \in Adapters \cup {None} /\ reported' \in Adapters \cup {None, "safe"}
          /\ run' \in {None, "detect", "sleep", "apply"} /\ run' # "apply"
      BY <1>2, <2>1 DEF None
    <2> QED
      BY <1>1, <1>2, <1>4, <2>1, <2>2, <2>3, Ended
  <1>11. ASSUME Monitored
         PROVE  IInv'
    <2>1. CASE /\ Done /\ adapter' = None /\ Returns("detached")
               /\ UNCHANGED <<state, age, reruns, reported>>
      BY <1>1, <1>2, <1>4, <1>6, <2>1, Ended DEF Returns, None
    <2>2. CASE /\ d \in Adapters
               /\ Done /\ adapter' = d
               /\ IF d = adapter THEN Returns("unchanged")
                  ELSE run' = "apply" /\ UNCHANGED <<steps, ret>>
               /\ UNCHANGED <<state, age, reruns, reported>>
      <3>1. run' \in {None, "apply"} /\ steps' \in 0 .. MaxSteps
        BY <1>2, <1>4, <2>2 DEF Returns
      <3> HIDE DEF d
      <3>2. adapter' \in Adapters
        BY <2>2
      <3> QED
        BY <1>1, <1>2, <1>6, <2>2, <3>1, <3>2, Ended
    <2>3. CASE Fails
      BY <1>7, <2>3
    <2> QED
      BY <1>11, <2>1, <2>2, <2>3 DEF Monitored
  <1>12. ASSUME Settled
         PROVE  IInv'
    <2>1. /\ call \in {"open", "reinit", "close"} /\ todo = <<>> /\ Done
          /\ state' = IF call = "close" THEN "closed" ELSE "idle"
          /\ reported' = IF call = "close" THEN "safe" ELSE reported
          /\ UNCHANGED <<adapter, age, reruns, run, steps>>
      BY <1>12 DEF Settled, host
    <2>2. CASE call = "close"
      <3>1. reported' = "safe" /\ regs'.icl = SAFE_ICL
        BY <1>1, <2>1, <2>2 DEF IInv, Written
      <3>2. ReportedLimitHolds'
        BY <3>1 DEF ReportedLimitHolds, Adapters, Patterns
      <3> QED
        BY <1>1, <1>2, <1>3, <2>1, <2>2, <3>1, <3>2, Ended DEF None
    <2>3. CASE call # "close"
      BY <1>1, <1>2, <1>3, <1>6, <2>1, <2>3, Ended DEF None
    <2> QED
      BY <2>2, <2>3
  <1> QED
    BY <1>8, <1>9, <1>10, <1>11, <1>12 DEF Return

\* What the status register answers is a status.
LEMMA StatusRead ==
  ASSUME NEW c \in Statuses, NEW st,
         st \in {c, [c EXCEPT !.done = TRUE, !.unstable = TRUE, !.qc = TRUE]}
  PROVE  [st EXCEPT !.pattern = "zero"] \in Statuses
  <1> DEFINE Set == TRUE
  <1>1. Set \in BOOLEAN
    OBVIOUS
  <1>2. st = c \/ st = [c EXCEPT !.done = Set, !.unstable = Set, !.qc = Set]
    BY Zenon
  <1> HIDE DEF Set
  <1>3. st \in Statuses
    BY <1>1, <1>2 DEF Statuses
  <1> QED
    BY <1>3 DEF Statuses, Patterns

\* A read of the status.
LEMMA ReadStatusKept ==
  ASSUME IInv, ReadStatus
  PROVE  IInv'
  <1>1. /\ UNCHANGED <<chip, moved, regs>> /\ Busy
        /\ Head(todo).do = "read" /\ Head(todo).reg = "status"
    BY DEF ReadStatus, env
  <1>2. Struck /\ moved' \in BOOLEAN
    BY <1>1, StillStruck DEF IInv, Typed
  <1>3. PICK st \in {chip, [chip EXCEPT !.done = TRUE, !.unstable = TRUE, !.qc = TRUE]} :
          IF st # chip /\ call \in {"open", "reinit"}
          THEN Fails
          ELSE /\ status' = [st EXCEPT !.pattern = "zero"]
               /\ Continue(IF st.done /\ call \in {"detect", "monitor"} THEN Read("result") ELSE <<>>)
               /\ UNCHANGED <<session, host, reported>>
    BY Zenon DEF ReadStatus
  <1>4. CASE Fails
    BY <1>2, <1>4, FailsKept
  <1>5. CASE /\ status' = [st EXCEPT !.pattern = "zero"]
             /\ Continue(IF st.done /\ call \in {"detect", "monitor"} THEN Read("result") ELSE <<>>)
             /\ UNCHANGED <<session, host, reported>>
    <2>1. status' \in Statuses
      <3>1. chip \in Statuses
        BY DEF IInv, Typed
      <3>2. [st EXCEPT !.pattern = "zero"] \in Statuses
        BY <3>1, StatusRead, Zenon
      <3> QED
        BY <1>5, <3>2, Zenon
    <2>2. UNCHANGED <<moved, state, adapter, age, reruns, run, steps, ret, reported>>
      BY <1>1, <1>5, Zenon DEF session, host
    <2>3. CASE Continue(<<>>)
      <3>1. Verified
        BY <1>1 DEF Verified
      <3> QED
        BY <1>1, <1>2, <2>1, <2>2, <2>3, <3>1, Proceeds
    <2>4. CASE call \in {"detect", "monitor"} /\ Continue(Read("result"))
      <3>1. todo' = Tail(todo) \o Read("result") /\ attempt' = 0 /\ call' = call
        BY <2>4, Zenon DEF Continue
      <3>2. Tail(todo) = <<>>
        BY <1>1, <2>4, AtPoll
      <3>3. <<>> \o Read("result") = Read("result")
        BY DEF Read
      <3>4. todo' = Read("result")
        BY <3>1, <3>2, <3>3, Zenon
      <3>5. Len(todo') <= 8
        <4>1. Len(todo') = 1
          BY <3>4, OneRead, Zenon
        <4> QED
          BY <4>1
      <3>6. attempt' = 0 /\ call' = call
        BY <3>1
      <3>7. TypeOK'
        BY <1>1, <2>2, <3>5, <3>6, ChargerAssumption DEF IInv, Typed, TypeOK
      <3>8. Typed'
        BY <1>1, <2>1, <2>2, <3>6, <3>7 DEF IInv, Typed
      <3> QED
        BY <1>1, <2>2, <2>4, <3>4, <3>6, <3>8, PollBegun
    <2> QED
      BY <1>5, <2>3, <2>4, Zenon
  <1> QED
    BY <1>3, <1>4, <1>5, Zenon

\* A read-back that matched is of a register that holds the value, but for a rerun's command.
LEMMA VerifyMatched ==
  ASSUME IInv, Busy, Head(todo).do = "verify", TRUE \in ReadsBack(Head(todo)), regs' = regs
  PROVE  Verified
  <1>1. ASSUME call # "rerun"
        PROVE  Head(todo).reg # "cmd_apsd"
    <2>1. call \in {"close", "apply"}
      <3>1. call \notin {"open", "reinit", "detect", "monitor"}
        BY AtPoll
      <3> QED
        BY <1>1, <3>1 DEF IInv, Typed, Busy
    <2>2. CASE call = "close"
      BY <2>2, AtClose DEF Acc
    <2>3. CASE call = "apply"
      <3>1. Head(todo).reg \in {"icl", "override", "pulse_max"}
        <4> DEFINE icl == policy_for(adapter).icl
                   Set == TRUE
        <4>1. \/ Head(todo) = Acc("write", "icl", icl)
              \/ Head(todo) = Acc("verify", "icl", icl)
              \/ Head(todo) = Acc("read", "override", None)
              \/ Head(todo) = Acc("write", "override", Set)
              \/ Head(todo) = Acc("verify", "override", Set)
              \/ Head(todo) = Acc("read", "pulse_max", None)
              \/ Head(todo) = Acc("write", "pulse_max", "9V")
              \/ Head(todo) = Acc("verify", "pulse_max", "9V")
          BY <2>3, AtApply, Zenon
        <4> HIDE DEF icl, Set
        <4>2. \/ Head(todo).reg = "icl"
              \/ Head(todo).reg = "override"
              \/ Head(todo).reg = "pulse_max"
          BY <4>1 DEF Acc
        <4> QED
          BY <4>2
      <3> QED
        BY <3>1
    <2> QED
      BY <2>1, <2>2, <2>3
  <1>2. ASSUME call # "rerun"
        PROVE  regs[Head(todo).reg] = Head(todo).value
    <2>1. TRUE \in {regs[Head(todo).reg] = Head(todo).value}
      BY <1>1, <1>2, Zenon DEF ReadsBack
    <2> QED
      BY <2>1, Zenon
  <1> QED
    BY <1>2 DEF Verified

\* A register access, whatever becomes of it.
LEMMA AccessKept ==
  ASSUME IInv, Access
  PROVE  IInv'
  <1>1. ASSUME ReadOther
        PROVE  IInv'
    <2>1. /\ UNCHANGED <<chip, moved, regs>> /\ Busy /\ Head(todo).do = "read"
          /\ Continue(<<>>)
          /\ UNCHANGED <<state, adapter, age, reruns, run, steps, ret, reported>>
      BY <1>1 DEF ReadOther, env, session, host
    <2>2. status' \in Statuses
      <3>1. status' = status \/ status' = [status EXCEPT !.pattern = chip.pattern]
        BY <1>1 DEF ReadOther
      <3>2. chip \in Statuses /\ status \in Statuses
        BY DEF IInv, Typed
      <3> QED
        BY <3>1, <3>2 DEF Statuses
    <2>3. Struck /\ Verified
      BY <2>1, StillStruck DEF Verified
    <2> QED
      BY <2>1, <2>2, <2>3, Proceeds
  <1>2. ASSUME Write
        PROVE  IInv'
    <2>1. /\ Busy /\ Head(todo).do = "write" /\ Continue(<<>>)
          /\ Landed(Head(todo)) \/ UNCHANGED <<chip, regs>>
          /\ UNCHANGED <<status, moved, state, adapter, age, reruns, run, steps, ret, reported>>
      BY <1>2 DEF Write, session, host
    <2>2. Struck /\ Verified
      BY <2>1, LandedStruck, StillStruck DEF Verified
    <2>3. status' \in Statuses
      BY <2>1 DEF IInv, Typed
    <2> QED
      BY <2>1, <2>2, <2>3, Proceeds
  <1>3. ASSUME Verify
        PROVE  IInv'
    <2>1. /\ UNCHANGED <<chip, moved, regs>> /\ Busy /\ Head(todo).do = "verify"
      BY <1>3 DEF Verify, env
    <2>2. Struck /\ moved' \in BOOLEAN
      BY <2>1, StillStruck DEF IInv, Typed
    <2>3. PICK match \in ReadsBack(Head(todo)) :
            IF match THEN Continue(<<>>) /\ UNCHANGED <<status, session, host, reported>>
            ELSE Fails
      BY <1>3, Zenon DEF Verify
    <2>4. CASE Fails
      BY <2>2, <2>4, FailsKept
    <2>5. CASE match
      <3>1. match \in BOOLEAN
        BY Zenon DEF ReadsBack
      <3>2. TRUE \in ReadsBack(Head(todo))
        BY <2>5, <3>1, Zenon
      <3>3. Verified
        BY <2>1, <3>2, VerifyMatched
      <3>4. Continue(<<>>) /\ UNCHANGED <<status, session, host, reported>>
        BY <2>3, <2>5, Zenon
      <3>5. status' \in Statuses /\ UNCHANGED <<state, adapter, age, reruns, run, steps, ret, reported>>
        BY <3>4 DEF IInv, Typed, session, host
      <3> QED
        BY <2>1, <2>2, <3>3, <3>4, <3>5, Proceeds
    <2> QED
      BY <2>3, <2>4, <2>5, Zenon
  <1>4. ASSUME Retry
        PROVE  IInv'
    <2>1. /\ Busy /\ attempt < MaxTransportRetries /\ attempt' = attempt + 1
          /\ UNCHANGED <<call, todo, status, state, adapter, age, reruns, run, steps, ret, reported>>
      BY <1>4 DEF Retry, session, host
    <2>2. Struck /\ moved' = moved
      BY <1>4, ErrsStruck DEF Retry
    <2>3. attempt' \in 0 .. MaxTransportRetries
      BY <2>1, ChargerAssumption DEF IInv, Typed, TypeOK
    <2>4. Typed'
      <3>1. TypeOK'
        BY <2>1, <2>2, <2>3 DEF IInv, Typed, TypeOK, Struck, Registers
      <3> QED
        BY <2>1, <2>2, <3>1 DEF IInv, Typed, Struck
    <2>5. Scripted'
      BY <2>1, Zenon DEF IInv, Scripted
    <2>6. Written'
      <3>1. ReportedLimitHolds'
        BY <2>1, <2>2, ReportStands
      <3>2. todo # <<>> /\ todo' = todo /\ call' = call /\ adapter' = adapter /\ reported' = reported
        BY <2>1 DEF Busy
      <3>3. call = "apply" /\ Len(todo) <= Extra(adapter) + 3 => regs'.icl = policy_for(adapter).icl
        BY <2>2, Zenon DEF Struck, IInv, Written
      <3>4. call = "apply" /\ Len(todo) <= Extra(adapter) => regs'.override
        BY <2>2, Zenon DEF Struck, IInv, Written
      <3>5. call \in {"close", "apply"} => reported = None
        BY DEF IInv, Written
      <3> QED
        BY <3>1, <3>2, <3>3, <3>4, <3>5, Zenon DEF Written
    <2> QED
      BY <2>4, <2>5, <2>6 DEF IInv
  <1>5. ASSUME GiveUp
        PROVE  IInv'
    <2>1. Struck /\ moved' = moved /\ Fails
      BY <1>5, ErrsStruck DEF GiveUp
    <2>2. moved' \in BOOLEAN
      BY <2>1 DEF IInv, Typed
    <2> QED
      BY <2>1, <2>2, FailsKept
  <1> QED
    BY <1>1, <1>2, <1>3, <1>4, <1>5, ReadStatusKept DEF Access

\* The invariant holds at first.
LEMMA InitHolds ==
  ASSUME Init
  PROVE  IInv
  <1> DEFINE No == FALSE
  <1>1. Off \in Statuses
    BY DEF Off, Statuses, Patterns
  <1>2. chip \in Statuses
    <2>1. \A b \in Bricks : Detected(b, FALSE) \in Statuses
      BY DetectedIs, Zenon
    <2> QED
      BY <1>1, <2>1, Zenon DEF Init
  <1>3. regs \in Registers
    <2>1. regs = [icl |-> BootIcl, override |-> No, pulse_max |-> "5V"] /\ No \in BOOLEAN
      BY DEF Init
    <2> HIDE DEF No
    <2> QED
      BY <2>1, ChargerAssumption DEF Registers, ICL_RAW_MAX
  <1>4. /\ state = "closed" /\ adapter = None /\ age = NotStarted /\ reruns = 0
        /\ call = None /\ todo = <<>> /\ attempt = 0 /\ status = Off
        /\ run = None /\ steps = 0 /\ reported = None
    BY Zenon DEF Init
  <1>5. moved \in BOOLEAN
    BY DEF Init
  <1>6. Len(todo) = 0 /\ todo \in Seq(Accesses)
    BY <1>4, Empty, Zenon
  <1>7. TypeOK
    BY <1>3, <1>4, <1>6, ChargerAssumption DEF TypeOK, Registers
  <1>8. Typed
    BY <1>1, <1>2, <1>4, <1>5, <1>7 DEF Typed, None
  <1>9. Scripted
    BY <1>4, <1>6 DEF Scripted, None
  <1>10. Written
    BY <1>4 DEF Written, ReportedLimitHolds, None, Adapters, Patterns
  <1> QED
    BY <1>8, <1>9, <1>10 DEF IInv

\* Every step keeps it.
LEMMA StepKept ==
  ASSUME IInv, [Next]_vars
  PROVE  IInv'
  <1>1. CASE UNCHANGED vars
    <2>1. /\ UNCHANGED <<chip, moved, regs, state, adapter, age, reruns>>
          /\ UNCHANGED <<call, todo, attempt, status, run, steps, ret, reported>>
      BY <1>1 DEF vars, env, session, io, host
    <2>2. Typed'
      BY <2>1 DEF IInv, Typed, TypeOK
    <2> QED
      BY <2>1, <2>2, Framed
  <1>2. CASE Next
    BY <1>2, EnvironmentKept, AccessKept, ReturnKept, OpenKept, ReinitKept, CloseKept,
       RunUntilReadyKept, MonitorCycleKept, DetectStepKept, ApplyKept, ElapseKept
       DEF Next, Choose, Host
  <1> QED
    BY <1>1, <1>2

\* In every behaviour the session keeps its invariant.
THEOREM InvHolds == Spec => []IInv
  BY InitHolds, StepKept, PTL DEF Spec

\* The state keeps its shape, and reruns and transport attempts their limits.
THEOREM TypeCorrect == Spec => []TypeOK
  <1>1. IInv => TypeOK
    BY DEF IInv, Typed
  <1> QED
    BY <1>1, InvHolds, PTL

\* What apply and close report as written is in the registers until the next of them begins,
\* for every adapter, retry limit and sequence of link errors.
THEOREM ReportedHolds == Spec => []ReportedLimitHolds
  <1>1. IInv => ReportedLimitHolds
    BY DEF IInv, Written
  <1> QED
    BY <1>1, InvHolds, PTL

-----------------------------------------------------------------------------
(* The invariant of the detection.                                         *)

\* A register access moves what it may, and no cable.
LEMMA AccessStruck ==
  ASSUME IInv, Access
  PROVE  Struck /\ moved' = moved
  <1>1. CASE ReadStatus \/ ReadOther \/ Verify
    <2>1. UNCHANGED <<chip, moved, regs>>
      BY <1>1 DEF ReadStatus, ReadOther, Verify, env
    <2> QED
      BY <2>1, StillStruck
  <1>2. CASE Write
    BY <1>2, LandedStruck, StillStruck DEF Write
  <1>3. CASE Retry \/ GiveUp
    BY <1>3, ErrsStruck DEF Retry, GiveUp
  <1> QED
    BY <1>1, <1>2, <1>3 DEF Access

\* The steps that are neither an access nor the environment's leave the chip alone.
LEMMA ChipStays ==
  ASSUME Return \/ Choose \/ Host \/ Elapse
  PROVE  UNCHANGED <<chip, regs>>
  BY DEF Return, Choose, Host, StepDetected, Rerun, Applied, Monitored, Settled, Open, Reinit, Close,
         RunUntilReady, MonitorCycle, DetectStep, Apply, Elapse, env

\* A chip without a complete detection.
LEMMA OffShows ==
  ASSUME NEW b
  PROVE  ~Off.done /\ ~[Off EXCEPT !.brick = b].done
  BY DEF Off

\* A chip with one.
LEMMA DetectedShows ==
  ASSUME NEW b, NEW u
  PROVE  LET c == Detected(b, u) IN
         /\ c.done /\ c.brick = b /\ c.qc = (b \in Qc)
         /\ c.pattern = IF b = "hvdcp2" THEN "dcp" ELSE b
  BY DEF Detected

\* A complete detection stays the brick's.
LEMMA ShowsKept ==
  ASSUME IInv, ChipShows, Next
  PROVE  ChipShows'
  <1>1. CASE Environment
    <2>1. CASE \E b \in Bricks : Plug(b)
      <3>1. ~chip'.done
        BY <2>1, OffShows DEF Plug
      <3> QED
        BY <3>1 DEF ChipShows
    <2>2. CASE Unplug
      <3>1. ~chip'.done
        BY <2>2, OffShows DEF Unplug
      <3> QED
        BY <3>1 DEF ChipShows
    <2>3. CASE Apsd
      <3>1. PICK u \in {FALSE, chip.brick \in Qc} : chip' = Detected(chip.brick, u)
        BY <2>3 DEF Apsd
      <3>2. chip.brick # None
        BY <2>3 DEF Apsd
      <3>3. /\ chip'.brick = chip.brick /\ chip'.qc = (chip.brick \in Qc)
            /\ chip'.pattern = IF chip.brick = "hvdcp2" THEN "dcp" ELSE chip.brick
        BY <3>1, DetectedShows, Zenon
      <3> QED
        BY <3>2, <3>3, Zenon DEF ChipShows
    <2> QED
      BY <1>1, <2>1, <2>2, <2>3 DEF Environment
  <1>2. CASE Access
    BY <1>2, AccessStruck DEF Struck, ChipShows
  <1>3. CASE Return \/ Choose \/ Host \/ Elapse
    BY <1>3, ChipStays DEF ChipShows
  <1> QED
    BY <1>1, <1>2, <1>3 DEF Next

\* A status that is complete, stable and of an unmoved cable stays the chip's.
LEMMA SampledKept ==
  ASSUME IInv, Sampled, Next
  PROVE  Sampled'
  <1>1. CASE Environment
    <2>1. UNCHANGED <<call, todo, status>>
      BY <1>1 DEF Environment, Plug, Unplug, Apsd, io
    <2>2. CASE moved'
      BY <2>2 DEF Sampled
    <2>3. CASE ~moved'
      <3>1. Apsd
        BY <1>1, <2>3 DEF Environment, Plug, Unplug
      <3>2. ~chip.done /\ moved' = moved
        BY <3>1 DEF Apsd
      <3> QED
        BY <2>1, <3>2 DEF Sampled
    <2> QED
      BY <2>2, <2>3
  <1>2. CASE Access
    <2>1. Struck /\ moved' = moved
      BY <1>2, AccessStruck
    <2>2. CASE Fails
      <3>1. call' \notin {"detect", "monitor"}
        BY <2>2, FailsIs DEF None
      <3> QED
        BY <3>1 DEF Sampled
    <2>3. CASE ~Fails
      <3>1. call' = call /\ Busy
        <4>1. CASE ReadStatus
          BY <2>3, <4>1, Zenon DEF ReadStatus, Continue
        <4>2. CASE ReadOther \/ Write \/ Retry
          BY <4>2 DEF ReadOther, Write, Retry, Continue
        <4>3. CASE Verify
          BY <2>3, <4>3, Zenon DEF Verify, Continue
        <4>4. CASE GiveUp
          BY <2>3, <4>4 DEF GiveUp
        <4> QED
          BY <1>2, <4>1, <4>2, <4>3, <4>4 DEF Access
      <3>2. CASE call \notin {"detect", "monitor"}
        BY <3>1, <3>2 DEF Sampled
      <3>3. CASE call \in {"detect", "monitor"}
        <4>1. chip' = chip /\ Head(todo).do = "read"
          BY <2>1, <3>1, <3>3, AtPoll DEF Struck
        <4>2. CASE ReadStatus
          <5>1. PICK st \in {chip, [chip EXCEPT !.done = TRUE, !.unstable = TRUE, !.qc = TRUE]} :
                  /\ status' = [st EXCEPT !.pattern = "zero"]
                  /\ Continue(IF st.done /\ call \in {"detect", "monitor"} THEN Read("result") ELSE <<>>)
            BY <2>3, <4>2, Zenon DEF ReadStatus
          <5>2. CASE ~st.done
            <6>1. ~status'.done
              <7>1. [st EXCEPT !.pattern = "zero"].done = st.done
                BY DEF IInv, Typed, Statuses
              <7> QED
                BY <5>1, <5>2, <7>1, Zenon
            <6> QED
              BY <6>1 DEF Sampled
          <5>3. CASE st.done
            <6>1. todo' # <<>>
              <7>1. todo' = Tail(todo) \o Read("result")
                BY <3>3, <5>1, <5>3, Zenon DEF Continue
              <7>2. Tail(todo) = <<>>
                BY <3>1, <3>3, AtPoll
              <7>3. <<>> \o Read("result") = Read("result") /\ Read("result") # <<>>
                BY DEF Read
              <7> QED
                BY <7>1, <7>2, <7>3, Zenon
            <6>2. CASE st = chip
              <7>1. [chip EXCEPT !.pattern = "zero"].done = chip.done
                    /\ [chip EXCEPT !.pattern = "zero"].qc = chip.qc
                BY DEF IInv, Typed, Statuses
              <7>2. status'.qc = chip.qc
                BY <5>1, <6>2, <7>1, Zenon
              <7> QED
                BY <4>1, <5>3, <6>1, <6>2, <7>2 DEF Sampled
            <6>3. CASE st # chip
              <7> DEFINE Set == TRUE
                         dead == [chip EXCEPT !.done = Set, !.unstable = Set, !.qc = Set]
              <7>1. status' = [dead EXCEPT !.pattern = "zero"]
                BY <5>1, <6>3, Zenon
              <7>2. Set
                OBVIOUS
              <7>3. [dead EXCEPT !.pattern = "zero"].unstable = Set
                <8> HIDE DEF Set
                <8> QED
                  BY DEF IInv, Typed, Statuses
              <7> HIDE DEF Set, dead
              <7>4. status'.unstable
                BY <7>1, <7>2, <7>3, Zenon
              <7> QED
                BY <7>4 DEF Sampled
            <6> QED
              BY <6>2, <6>3
          <5> QED
            BY <5>2, <5>3
        <4>3. CASE ReadOther
          <5>1. Head(todo).reg = "result"
            BY <3>1, <3>3, <4>3, AtPoll DEF ReadOther
          <5>2. status' = [status EXCEPT !.pattern = chip.pattern]
            BY <4>3, <5>1 DEF ReadOther
          <5>3. /\ status'.pattern = chip.pattern /\ status'.done = status.done
                /\ status'.unstable = status.unstable /\ status'.qc = status.qc
            BY <5>2 DEF IInv, Typed, Statuses
          <5> QED
            BY <2>1, <3>1, <4>1, <5>3 DEF Sampled
        <4>4. CASE Retry
          <5>1. UNCHANGED <<todo, status>>
            BY <4>4 DEF Retry
          <5> QED
            BY <2>1, <3>1, <4>1, <5>1 DEF Sampled
        <4>5. ~Write /\ ~Verify /\ ~GiveUp
          BY <2>3, <4>1 DEF Write, Verify, GiveUp
        <4> QED
          BY <1>2, <4>2, <4>3, <4>4, <4>5 DEF Access
      <3> QED
        BY <3>2, <3>3
    <2> QED
      BY <2>2, <2>3
  <1>3. CASE Return
    <2>1. call' \in {None, "rerun"}
      <3>1. Fails => call' = None
        BY FailsIs
      <3> QED
        BY <1>3, <3>1, Zenon DEF Return, StepDetected, Rerun, Applied, Monitored, Settled, Pending,
           Done, retry_detection
    <2> QED
      BY <2>1 DEF Sampled, None
  <1>4. CASE Choose \/ Host \/ Elapse
    <2>1. call = None
      BY <1>4 DEF Choose, Host, Open, Reinit, Close, RunUntilReady, MonitorCycle, AtRest, DetectStep,
                  Apply, Elapse
    <2>2. status' = status
      BY <1>4 DEF Choose, Host, Open, Reinit, Close, RunUntilReady, MonitorCycle, DetectStep,
                  Apply, Elapse, Begin, io
    <2>3. ~status'.done
      BY <2>1, <2>2, OffShows, Zenon DEF IInv, Scripted
    <2> QED
      BY <2>3 DEF Sampled
  <1> QED
    BY <1>1, <1>2, <1>3, <1>4 DEF Next

\* What a poll decodes is the brick, if the cable did not move meanwhile.
LEMMA Decoded ==
  ASSUME IInv, ChipShows, Sampled, call \in {"detect", "monitor"}, todo = <<>>, ~moved,
         decode(status, status.pattern) \in Adapters
  PROVE  decode(status, status.pattern) = chip.brick
  <1> DEFINE d == decode(status, status.pattern)
  <1>1. "not_complete" \notin Adapters /\ "check_timeout" \notin Adapters
        /\ "unknown_pattern" \notin Adapters
    BY DEF Adapters, Patterns
  <1>2. status.done /\ ~status.unstable /\ status.pattern # "bad"
    BY <1>1, Zenon DEF decode
  <1>3. chip.done /\ status.qc = chip.qc /\ status.pattern = chip.pattern
    BY <1>2 DEF Sampled
  <1>4. /\ chip.qc = (chip.brick \in Qc)
        /\ chip.pattern = IF chip.brick = "hvdcp2" THEN "dcp" ELSE chip.brick
    BY <1>3 DEF ChipShows
  <1>5. chip.brick \in Bricks
    BY <1>3 DEF ChipShows, IInv, Typed, Statuses
  <1>6. d = IF status.qc /\ status.pattern # "hvdcp3" THEN "hvdcp2" ELSE from_pattern(status.pattern)
    BY <1>2, Zenon DEF decode
  <1>7. status.qc <=> chip.brick \in Qc
    BY <1>3, <1>4, Zenon
  <1> HIDE DEF d
  <1>8. CASE chip.brick = "hvdcp2"
    <2>1. status.qc /\ status.pattern # "hvdcp3"
      BY <1>3, <1>4, <1>7, <1>8 DEF Qc
    <2> QED
      BY <1>6, <1>8, <2>1, Zenon DEF d
  <1>9. CASE chip.brick # "hvdcp2"
    <2>1. status.pattern = chip.brick
      BY <1>3, <1>4, <1>9
    <2>2. ~(status.qc /\ status.pattern # "hvdcp3")
      BY <1>7, <1>9, <2>1 DEF Qc
    <2>3. chip.brick # "zero"
      BY <1>5, ChargerAssumption
    <2> QED
      BY <1>6, <2>1, <2>2, <2>3, Zenon DEF d, from_pattern
  <1> QED
    BY <1>8, <1>9 DEF d

\* A session that is ready keeps naming the brick.
LEMMA NamedKept ==
  ASSUME IInv, NInv, Budget', Next
  PROVE  Named'
  <1>1. CASE Environment
    <2>1. UNCHANGED <<adapter, state, run>>
      BY <1>1 DEF Environment, Plug, Unplug, Apsd, session, host
    <2>2. CASE moved'
      BY <2>2, Zenon DEF Named
    <2>3. CASE ~moved'
      <3>1. Apsd
        BY <1>1, <2>3 DEF Environment, Plug, Unplug
      <3>2. chip'.brick = chip.brick /\ moved' = moved
        <4>1. PICK u \in {FALSE, chip.brick \in Qc} : chip' = Detected(chip.brick, u)
          BY <3>1 DEF Apsd
        <4>2. chip'.brick = chip.brick
          BY <4>1, DetectedShows, Zenon
        <4> QED
          BY <3>1, <4>2 DEF Apsd
      <3> QED
        BY <2>1, <3>2 DEF NInv, Named
    <2> QED
      BY <2>2, <2>3
  <1>2. CASE Access
    <2>1. chip'.brick = chip.brick /\ moved' = moved
      BY <1>2, AccessStruck DEF Struck
    <2>2. CASE Fails
      <3>1. CASE call = "reinit"
        <4>1. run = None /\ run' = None /\ UNCHANGED <<adapter, state>>
          <5>1. run = None
            BY <3>1 DEF IInv, Typed, None
          <5> QED
            BY <2>2, <3>1, <5>1, FailsIs
        <4> QED
          BY <2>1, <4>1 DEF NInv, Named, None
      <3>2. CASE call # "reinit"
        <4>1. run' = None /\ state' # "ready"
          BY <2>2, <3>2, FailsIs
        <4> QED
          BY <4>1 DEF Named, None
      <3> QED
        BY <3>1, <3>2
    <2>3. CASE UNCHANGED <<adapter, state, run>>
      BY <2>1, <2>3 DEF NInv, Named
    <2>4. Fails \/ UNCHANGED <<session, host>>
      BY <1>2, Zenon DEF Access, ReadStatus, ReadOther, Write, Verify, Retry, GiveUp
    <2> QED
      BY <2>2, <2>3, <2>4 DEF session, host
  <1>3. CASE Return
    <2> DEFINE d == decode(status, status.pattern)
    <2>1. UNCHANGED <<chip, moved>>
      BY <1>3 DEF Return, StepDetected, Rerun, Applied, Monitored, Settled, env
    <2>2. ASSUME call \in {"detect", "monitor"}, todo = <<>>, ~moved, d \in Adapters
          PROVE  d = chip.brick
      BY <2>2, Decoded DEF NInv
    <2>3. ASSUME Fails, call # "reinit"
          PROVE  Named'
      <3>1. run' = None /\ state' # "ready"
        BY <2>3, FailsIs
      <3> QED
        BY <3>1 DEF Named, None
    <2>4. CASE StepDetected
      <3>1. call = "detect" /\ todo = <<>>
        BY <2>4 DEF StepDetected
      <3>2. CASE d \in Adapters /\ adapter' = d
        <4> HIDE DEF d
        <4> QED
          BY <2>1, <2>2, <3>1, <3>2 DEF Named
      <3>3. CASE Fails
        BY <2>3, <3>1, <3>3
      <3>4. CASE Pending \/ retry_detection
        <4>1. run' = "sleep" \/ run' = run
          BY <3>4 DEF Pending, retry_detection, host
        <4>2. run = "detect"
          BY <3>1 DEF IInv, Typed, None
        <4> QED
          BY <4>1, <4>2 DEF Named, None
      <3> QED
        BY <2>4, <3>2, <3>3, <3>4, Zenon DEF StepDetected
    <2>5. CASE Rerun
      <3>1. run' = "sleep"
        BY <2>5 DEF Rerun, Pending
      <3> QED
        BY <3>1 DEF Named, None
    <2>6. CASE Applied
      <3>1. call = "apply" /\ run' = None /\ adapter' = adapter
        BY <2>6 DEF Applied, Returns
      <3>2. run = "apply"
        BY <3>1 DEF IInv, Typed, None
      <3> QED
        BY <2>1, <3>1, <3>2 DEF NInv, Named, None
    <2>7. CASE Monitored
      <3>1. call = "monitor" /\ todo = <<>>
        BY <2>7 DEF Monitored
      <3>2. CASE d \in Adapters /\ adapter' = d
        <4> HIDE DEF d
        <4> QED
          BY <2>1, <2>2, <3>1, <3>2 DEF Named
      <3>3. CASE Fails
        BY <2>3, <3>1, <3>3
      <3>4. CASE adapter' = None /\ Returns("detached")
        BY <3>4 DEF Named, Returns, None
      <3> QED
        BY <2>7, <3>2, <3>3, <3>4, Zenon DEF Monitored
    <2>8. CASE Settled
      <3>1. run' = run /\ state' # "ready" /\ call \in {"open", "reinit", "close"}
        BY <2>8 DEF Settled, host
      <3>2. run = None
        BY <3>1 DEF IInv, Typed, None
      <3> QED
        BY <3>1, <3>2 DEF Named, None
    <2> QED
      BY <1>3, <2>4, <2>5, <2>6, <2>7, <2>8 DEF Return
  <1>4. CASE Choose
    <2>1. CASE Open
      BY <2>1 DEF Open, AtRest, Named, None
    <2>2. CASE Reinit
      BY <2>2 DEF Reinit, AtRest, Named, None
    <2>3. CASE Close
      BY <2>3 DEF Close, AtRest, NInv, Named, env, session
    <2>4. CASE RunUntilReady \/ MonitorCycle
      <3>1. run' \in {"detect", "monitor"}
        BY <2>4 DEF RunUntilReady, MonitorCycle
      <3> QED
        BY <3>1 DEF Named, None
    <2> QED
      BY <1>4, <2>1, <2>2, <2>3, <2>4 DEF Choose
  <1>5. CASE DetectStep
    <2>1. ~Returns("fuse")
      BY DEF Budget, Returns
    <2>2. run' = "detect"
      BY <1>5, <2>1 DEF DetectStep
    <2> QED
      BY <2>2 DEF Named, None
  <1>6. CASE Apply
    BY <1>6 DEF Apply, NInv, Named, env, session, host
  <1>7. CASE Elapse
    <2>1. UNCHANGED <<chip, moved, state, adapter>> /\ (run' = run \/ run' = "detect")
      BY <1>7 DEF Elapse, env
    <2> QED
      BY <2>1 DEF NInv, Named, None
  <1> QED
    BY <1>1, <1>2, <1>3, <1>4, <1>5, <1>6, <1>7 DEF Next, Host

\* The steps of a run stay within what its clock and its reruns pay for.
LEMMA BudgetKept ==
  ASSUME IInv, Budget, Next
  PROVE  Budget'
  <1>1. /\ age \in {NotStarted} \cup 0 .. DetectTimeout /\ reruns \in 0 .. MaxReruns
        /\ steps \in 0 .. MaxSteps
    BY DEF IInv, Typed, TypeOK
  <1>2. {DetectTimeout, MaxReruns, MaxSteps} \subseteq Nat /\ MaxSteps > DetectTimeout + MaxReruns
    BY ChargerAssumption, FuseAssumption
  <1>3. ret # "fuse"
    BY DEF Budget
  <1>4. ASSUME run' = None, ret' # "fuse"
        PROVE  Budget'
    BY <1>4 DEF Budget, None
  <1>5. ASSUME UNCHANGED <<age, reruns, run, steps, ret>>, call' = call
        PROVE  Budget'
    BY <1>5 DEF Budget, Age
  <1>6. ASSUME Fails
        PROVE  Budget'
    BY <1>3, <1>4, <1>6, FailsIs
  <1>7. CASE Environment
    BY <1>5, <1>7 DEF Environment, Plug, Unplug, Apsd, session, io, host
  <1>8. CASE Access
    <2>1. Fails \/ (UNCHANGED <<session, host>> /\ call' = call)
      BY <1>8, Zenon DEF Access, ReadStatus, ReadOther, Write, Verify, Retry, GiveUp, Continue
    <2> QED
      BY <1>5, <1>6, <2>1 DEF session, host
  <1>9. ASSUME Pending, run = "detect", call \in {"detect", "rerun"},
               call = "detect" => age < DetectTimeout
        PROVE  Budget'
    <2>1. run' = "sleep" /\ UNCHANGED <<steps, ret, age, reruns>>
      BY <1>9 DEF Pending, session
    <2> QED
      BY <1>1, <1>2, <1>9, <2>1 DEF Budget
  <1>10. CASE Return
    <2>1. CASE StepDetected
      <3>1. call = "detect" /\ run = "detect"
        BY <2>1 DEF StepDetected, IInv, Typed, None
      <3>2. CASE Returns("error") \/ (run' = "apply" /\ ret' = ret)
        BY <1>3, <3>2 DEF Budget, Returns, None
      <3>3. CASE Fails
        BY <1>6, <3>3
      <3>4. CASE age < DetectTimeout /\ Pending
        BY <1>9, <3>1, <3>4
      <3>5. CASE retry_detection
        <4>1. reruns' = reruns + 1 /\ call' = "rerun" /\ UNCHANGED <<age, run, steps, ret>>
          BY <3>5 DEF retry_detection, host
        <4> QED
          BY <1>1, <1>2, <3>1, <4>1 DEF Budget, None
      <3> QED
        BY <2>1, <3>2, <3>3, <3>4, <3>5, Zenon DEF StepDetected
    <2>2. CASE Rerun
      <3>1. call = "rerun" /\ Pending
        BY <2>2 DEF Rerun
      <3>2. run = "detect"
        BY <3>1 DEF IInv, Typed, None
      <3> QED
        BY <1>9, <3>1, <3>2
    <2>3. CASE Applied
      BY <1>4, <2>3 DEF Applied, Returns
    <2>4. CASE Monitored
      <3>1. Fails \/ Returns("detached") \/ Returns("unchanged") \/ (run' = "apply" /\ ret' = ret)
        BY <2>4, Zenon DEF Monitored
      <3> QED
        BY <1>3, <1>6, <3>1 DEF Budget, Returns, None
    <2>5. CASE Settled
      <3>1. run = None /\ run' = run /\ ret' = ret
        BY <2>5 DEF Settled, host, IInv, Typed, None
      <3> QED
        BY <1>3, <1>4, <3>1
    <2> QED
      BY <1>10, <2>1, <2>2, <2>3, <2>4, <2>5 DEF Return
  <1>11. CASE Choose
    <2>1. CASE Open \/ Reinit \/ Close
      <3>1. run' = None /\ ret' = None
        BY <2>1 DEF Open, Reinit, Close, AtRest
      <3> QED
        BY <1>4, <3>1 DEF None
    <2>2. CASE RunUntilReady
      <3>1. run' = "detect" /\ steps' = 0 /\ ret' = None /\ call' = None /\ UNCHANGED <<age, reruns>>
        BY <2>2 DEF RunUntilReady, AtRest, session, io
      <3> QED
        BY <1>1, <1>2, <3>1 DEF Budget, Age, None
    <2>3. CASE MonitorCycle
      BY <2>3 DEF MonitorCycle, Budget, None
    <2> QED
      BY <1>11, <2>1, <2>2, <2>3 DEF Choose
  <1>12. CASE DetectStep
    <2>1. steps <= Age + reruns /\ run = "detect"
      BY <1>12 DEF DetectStep, Budget
    <2>2. steps # MaxSteps
      BY <1>1, <1>2, <2>1 DEF Age, NotStarted
    <2>3. /\ steps' = steps + 1 /\ call' = "detect" /\ UNCHANGED <<reruns, run, ret>>
          /\ age' = IF age = NotStarted THEN 0 ELSE age
      BY <1>12, <2>2 DEF DetectStep, Begin
    <2>4. age' = Age /\ age' # NotStarted
      BY <1>1, <1>2, <2>3 DEF Age, NotStarted
    <2> QED
      BY <1>1, <1>3, <2>1, <2>3, <2>4 DEF Budget, None
  <1>13. CASE Apply
    <2>1. run' = "apply" /\ ret' = ret
      BY <1>13 DEF Apply, host
    <2> QED
      BY <1>3, <2>1 DEF Budget, None
  <1>14. CASE Elapse
    <2>1. UNCHANGED <<steps, ret, reruns>> /\ call' = call /\ call = None
      BY <1>14 DEF Elapse, io
    <2>2. CASE run = "sleep"
      <3>1. /\ run' = "detect" /\ age # NotStarted /\ steps <= age + reruns + 1
            /\ age = DetectTimeout => steps <= age + reruns
            /\ age' = IF age \in {NotStarted, DetectTimeout} THEN age ELSE age + 1
        BY <1>14, <2>2 DEF Elapse, Budget
      <3>2. steps <= age' + reruns /\ age' # NotStarted
        BY <1>1, <1>2, <3>1 DEF NotStarted
      <3> QED
        BY <1>3, <2>1, <3>1, <3>2 DEF Budget, Age, None
    <2>3. CASE run # "sleep"
      <3>1. run' = None
        BY <1>14, <2>3 DEF Elapse
      <3> QED
        BY <1>3, <1>4, <2>1, <3>1
    <2> QED
      BY <2>2, <2>3
  <1> QED
    BY <1>7, <1>8, <1>10, <1>11, <1>12, <1>13, <1>14 DEF Next, Host

\* It holds at first.
LEMMA InitNamed ==
  ASSUME Init
  PROVE  NInv
  <1>1. /\ state = "closed" /\ age = NotStarted /\ reruns = 0
        /\ call = None /\ run = None /\ steps = 0 /\ ret = None
    BY Zenon DEF Init
  <1>2. ChipShows
    <2>1. CASE chip = Off
      BY <2>1, OffShows, Zenon DEF ChipShows
    <2>2. CASE \E b \in Bricks : chip = Detected(b, FALSE)
      <3>1. PICK b \in Bricks : chip = Detected(b, FALSE)
        BY <2>2
      <3>2. b # None
        BY ChargerAssumption DEF None, Patterns
      <3>3. /\ chip.brick = b /\ chip.qc = (b \in Qc)
            /\ chip.pattern = IF b = "hvdcp2" THEN "dcp" ELSE b
        BY <3>1, DetectedShows, Zenon
      <3> QED
        BY <3>2, <3>3, Zenon DEF ChipShows
    <2> QED
      BY <2>1, <2>2, Zenon DEF Init
  <1>3. Sampled /\ Named /\ Budget
    BY <1>1 DEF Sampled, Named, Budget, None
  <1> QED
    BY <1>2, <1>3 DEF NInv

\* Every step keeps it.
LEMMA StepNamed ==
  ASSUME IInv, NInv, [Next]_vars
  PROVE  NInv'
  <1>1. CASE UNCHANGED vars
    <2>1. /\ UNCHANGED <<chip, moved, state, adapter, age, reruns>>
          /\ UNCHANGED <<call, todo, status, run, steps, ret>>
      BY <1>1 DEF vars, env, session, io, host
    <2> QED
      BY <2>1, Zenon DEF NInv, ChipShows, Sampled, Named, Budget, Age
  <1>2. CASE Next
    <2>1. Budget'
      BY <1>2, BudgetKept DEF NInv
    <2> QED
      BY <1>2, <2>1, ShowsKept, SampledKept, NamedKept DEF NInv
  <1> QED
    BY <1>1, <1>2

\* In every behaviour the detection keeps its invariant.
THEOREM DetectionHolds == Spec => [](IInv /\ NInv)
  BY InitHolds, StepKept, InitNamed, StepNamed, PTL DEF Spec

\* A session that rests in Ready names the brick in the port, unless the cable moved since the
\* last poll began, for every timeout and rerun limit that the fuse outlasts.
THEOREM NamesTheBrick == Spec => []ReadyNamesTheBrick
  <1>1. IInv /\ NInv => ReadyNamesTheBrick
    BY Zenon DEF NInv, Named, ReadyNamesTheBrick, AtRest
  <1> QED
    BY <1>1, DetectionHolds, PTL

\* A detection ends by its own timeout and reruns, never by the runner's fuse, while the link
\* errs and the cable comes and goes as it likes.
THEOREM FuseSpared == Spec => [](ret # "fuse")
  <1>1. IInv /\ NInv => ret # "fuse"
    BY DEF NInv, Budget
  <1> QED
    BY <1>1, DetectionHolds, PTL

-----------------------------------------------------------------------------
(* How long a call and a run may take.                                     *)

Tries == MaxTransportRetries + 1
Polls == DetectTimeout + MaxReruns + 1

\* The most steps of one poll: it begins, reads two registers, decodes them, asks for a rerun,
\* returns from it and sleeps.
PollSteps == 5 * Tries + 4

\* The most steps of apply: it begins, makes its eight accesses and returns.
ApplySteps == 8 * Tries + 2

\* A run of the detection takes no more than its polls and one apply.
MostSteps == Polls * PollSteps + ApplySteps

\* The accesses of the call c that are left when it still has to make those of t: a complete
\* status is followed by the result.
AccessesAt(c, t) == IF c \in {"detect", "monitor"} /\ t = Read("status") THEN 2 ELSE Len(t)

\* The most steps left to the call c with the accesses t, of which the first has failed a times.
CallAt(c, t, a) ==
  IF c = None THEN 0
  ELSE IF t = <<>> THEN 1
  ELSE AccessesAt(c, t) * Tries - a + 1

\* The most steps left to the run r behind the call c in hand, after s polls.
RunAt(r, c, s) ==
  CASE r = None -> 0
    [] r = "apply" -> IF c = None THEN ApplySteps ELSE 0
    [] r = "monitor" -> ApplySteps
    [] OTHER ->
         (Polls - s) * PollSteps + ApplySteps
           + CASE r = "sleep" -> 1
               [] r = "detect" /\ c = "detect" -> 3 * Tries + 2
               [] r = "detect" /\ c = "rerun" -> 1
               [] OTHER -> 0

CallLeft == CallAt(call, todo, attempt)
RunLeft == RunAt(run, call, steps)
StepsLeft == CallLeft + RunLeft

\* Every step of the session and its host brings it nearer to rest, and the chip and the cable
\* do not take it further away; from rest no call and no run is further than MostSteps.
Nearer ==
  IF AtRest THEN StepsLeft' <= MostSteps
  ELSE /\ StepsLeft' <= StepsLeft
       /\ Access \/ Return \/ Host \/ Elapse => StepsLeft' < StepsLeft

\* The bounds are numbers.
LEMMA BoundsAre ==
  /\ Tries \in Nat \ {0} /\ Tries = MaxTransportRetries + 1
  /\ Polls \in Nat \ {0} /\ Polls = DetectTimeout + MaxReruns + 1
  /\ PollSteps = 5 * Tries + 4 /\ ApplySteps = 8 * Tries + 2
  BY ChargerAssumption DEF Tries, Polls, PollSteps, ApplySteps

\* One factor less.
LEMMA OneLess ==
  ASSUME NEW n \in Nat \ {0}, NEW t \in Nat
  PROVE  (n - 1) * t = n * t - t /\ (n - 1) * t \in Nat /\ n * t \in Nat /\ n * t >= t
  <1>1. (n - 1) * t = n * t - t
    OBVIOUS
  <1>2. \A i \in Nat : i * t \in Nat
    OBVIOUS
  <1>3. (n - 1) * t \in Nat /\ n * t \in Nat
    BY <1>2
  <1> QED
    BY <1>1, <1>3

\* The steps left to a call, by what it still has to do.
LEMMA CallSteps ==
  ASSUME NEW c, NEW t, NEW a
  PROVE  /\ c = None => CallAt(c, t, a) = 0
         /\ c # None /\ t = <<>> => CallAt(c, t, a) = 1
         /\ c # None /\ t # <<>> => CallAt(c, t, a) = AccessesAt(c, t) * Tries - a + 1
         /\ c \in {"detect", "monitor"} /\ t = Read("status") => AccessesAt(c, t) = 2
         /\ ~(c \in {"detect", "monitor"} /\ t = Read("status")) => AccessesAt(c, t) = Len(t)
  BY DEF CallAt, AccessesAt

\* The steps left to a run, by where it is.
LEMMA RunSteps ==
  ASSUME NEW c, NEW s \in Int
  PROVE  LET d == (Polls - s) * PollSteps + ApplySteps IN
         /\ RunAt(None, c, s) = 0
         /\ RunAt("apply", None, s) = ApplySteps
         /\ c # None => RunAt("apply", c, s) = 0
         /\ RunAt("monitor", c, s) = ApplySteps
         /\ RunAt("sleep", c, s) = d + 1
         /\ RunAt("detect", None, s) = d
         /\ RunAt("detect", "detect", s) = d + (3 * Tries + 2)
         /\ RunAt("detect", "rerun", s) = d + 1
  <1> DEFINE d == (Polls - s) * PollSteps + ApplySteps
  <1>1. d \in Int
    <2>1. Polls - s \in Int /\ PollSteps \in Int /\ ApplySteps \in Int
      BY BoundsAre
    <2>2. \A i, j \in Int : i * j \in Int
      OBVIOUS
    <2>3. (Polls - s) * PollSteps \in Int
      BY <2>1, <2>2
    <2> QED
      BY <2>1, <2>3
  <1>2. d + 0 = d
    BY <1>1
  <1>3. /\ RunAt(None, c, s) = 0
        /\ RunAt("apply", None, s) = ApplySteps
        /\ c # None => RunAt("apply", c, s) = 0
        /\ RunAt("monitor", c, s) = ApplySteps
    BY DEF RunAt, None
  <1>4. /\ RunAt("sleep", c, s) = d + 1
        /\ RunAt("detect", None, s) = d + 0
        /\ RunAt("detect", "detect", s) = d + (3 * Tries + 2)
        /\ RunAt("detect", "rerun", s) = d + 1
    BY DEF RunAt, None
  <1> QED
    BY <1>2, <1>3, <1>4

\* The polls of a run are not used up before its clock and its reruns are.
LEMMA PollsLeft ==
  ASSUME IInv, NInv
  PROVE  /\ run = "detect" /\ call = None => Polls - steps \in Nat \ {0}
         /\ run \in {"detect", "sleep"} => Polls - steps \in Nat
  <1>1. /\ age \in {NotStarted} \cup 0 .. DetectTimeout /\ reruns \in 0 .. MaxReruns
        /\ steps \in Nat
    BY ChargerAssumption DEF IInv, Typed, TypeOK
  <1>2. DetectTimeout \in Nat /\ MaxReruns \in Nat /\ Polls = DetectTimeout + MaxReruns + 1
    BY ChargerAssumption DEF Polls
  <1>3. run = "detect" => call \in {None, "detect", "rerun"}
    BY DEF IInv, Typed, None
  <1>4. Age \in 0 .. DetectTimeout
    BY <1>1, <1>2 DEF Age
  <1>5. run = "detect" /\ call = None => steps <= Age + reruns
    BY DEF NInv, Budget
  <1>6. /\ run = "detect" /\ call = "detect" => age # NotStarted /\ steps <= age + reruns + 1
        /\ run = "detect" /\ call = "rerun" => age # NotStarted /\ steps <= age + reruns
        /\ run = "sleep" => age # NotStarted /\ steps <= age + reruns + 1
    BY DEF NInv, Budget
  <1>7. run = "detect" /\ call = None => Polls - steps \in Nat \ {0}
    BY <1>1, <1>2, <1>4, <1>5
  <1>8. run \in {"detect", "sleep"} => Polls - steps \in Nat
    BY <1>1, <1>2, <1>3, <1>6, <1>7
  <1> QED
    BY <1>7, <1>8

\* A call in hand has steps left.
LEMMA CallCounts ==
  ASSUME IInv
  PROVE  /\ CallLeft \in Nat /\ (CallLeft = 0 <=> call = None)
         /\ call # None /\ todo # <<>> =>
              /\ AccessesAt(call, todo) \in Nat \ {0}
              /\ CallLeft = AccessesAt(call, todo) * Tries - attempt + 1
              /\ CallLeft >= 2
  <1>1. /\ attempt \in Nat /\ attempt <= MaxTransportRetries /\ MaxTransportRetries \in Nat
        /\ Tries = MaxTransportRetries + 1
    BY ChargerAssumption, BoundsAre DEF IInv, Typed, TypeOK
  <1>2. CASE call = None \/ todo = <<>>
    BY <1>2, CallSteps DEF CallLeft
  <1>3. CASE call # None /\ todo # <<>>
    <2> DEFINE n == AccessesAt(call, todo)
    <2>1. n \in Nat \ {0}
      <3>1. Len(todo) \in Nat \ {0}
        BY <1>3 DEF IInv, Scripted
      <3>2. n = 2 \/ n = Len(todo)
        BY CallSteps
      <3> QED
        BY <3>1, <3>2
    <2>2. CallLeft = n * Tries - attempt + 1
      BY <1>3, CallSteps DEF CallLeft
    <2> HIDE DEF n
    <2>3. n * Tries \in Nat /\ n * Tries >= Tries
      BY <1>1, <2>1, OneLess
    <2>4. CallLeft \in Nat /\ CallLeft >= 2
      BY <1>1, <2>2, <2>3
    <2> QED
      BY <1>3, <2>1, <2>2, <2>4 DEF n
  <1> QED
    BY <1>2, <1>3

\* A run has steps left but for those of its last call.
LEMMA RunCounts ==
  ASSUME IInv, NInv
  PROVE  /\ RunLeft \in Nat
         /\ run = None => RunLeft = 0
         /\ run # None /\ call = None => RunLeft > 0
  <1> DEFINE d == (Polls - steps) * PollSteps
  <1>1. steps \in Int
    BY ChargerAssumption DEF IInv, Typed, TypeOK
  <1>2. PollSteps \in Nat /\ ApplySteps \in Nat \ {0} /\ Tries \in Nat
    BY BoundsAre
  <1>3. ASSUME run \in {"detect", "sleep"}
        PROVE  d \in Nat
    <2>1. Polls - steps \in Nat
      BY <1>3, PollsLeft
    <2>2. \A i, j \in Nat : i * j \in Nat
      OBVIOUS
    <2> QED
      BY <1>2, <2>1, <2>2
  <1>4. /\ run = None => RunLeft = 0
        /\ run = "apply" /\ call = None => RunLeft = ApplySteps
        /\ run = "apply" /\ call # None => RunLeft = 0
        /\ run = "monitor" => RunLeft = ApplySteps
        /\ run = "sleep" => RunLeft = (d + ApplySteps) + 1
        /\ run = "detect" /\ call = None => RunLeft = d + ApplySteps
        /\ run = "detect" /\ call = "detect" => RunLeft = (d + ApplySteps) + (3 * Tries + 2)
        /\ run = "detect" /\ call = "rerun" => RunLeft = (d + ApplySteps) + 1
    <2>1. \A c : LET e == d + ApplySteps IN
            /\ RunAt(None, c, steps) = 0
            /\ RunAt("apply", None, steps) = ApplySteps
            /\ c # None => RunAt("apply", c, steps) = 0
            /\ RunAt("monitor", c, steps) = ApplySteps
            /\ RunAt("sleep", c, steps) = e + 1
            /\ RunAt("detect", None, steps) = e
            /\ RunAt("detect", "detect", steps) = e + (3 * Tries + 2)
            /\ RunAt("detect", "rerun", steps) = e + 1
      BY <1>1, RunSteps
    <2> HIDE DEF d
    <2> QED
      BY <2>1 DEF RunLeft
  <1> HIDE DEF d
  <1>5. \/ run = None \/ run = "apply" \/ run = "monitor" \/ run = "sleep"
        \/ run = "detect" /\ (call = None \/ call = "detect" \/ call = "rerun")
    BY DEF IInv, Typed
  <1>6. run = "monitor" \/ run = "sleep" => run # None
    BY DEF None
  <1> QED
    BY <1>2, <1>3, <1>4, <1>5, <1>6

\* The steps left are a number, and none are left at rest.
LEMMA StepsCount ==
  ASSUME IInv, NInv
  PROVE  /\ StepsLeft \in Nat /\ (StepsLeft = 0 <=> AtRest)
         /\ call # None => StepsLeft >= 1
  <1>1. CallLeft \in Nat /\ (CallLeft = 0 <=> call = None)
    BY CallCounts
  <1>2. RunLeft \in Nat /\ (run = None => RunLeft = 0) /\ (run # None /\ call = None => RunLeft > 0)
    BY RunCounts
  <1> QED
    BY <1>1, <1>2 DEF StepsLeft, AtRest

\* A failure leaves none.
LEMMA FailsEnds ==
  ASSUME IInv, NInv, Fails, call # None
  PROVE  StepsLeft' < StepsLeft
  <1>1. call' = None /\ run' = None
    BY FailsIs
  <1>2. steps' \in Int
    <2>1. steps' = steps \/ steps' = 0
      BY FailsIs
    <2> QED
      BY <2>1, ChargerAssumption DEF IInv, Typed, TypeOK
  <1>3. CallLeft' = 0
    BY <1>1, CallSteps DEF CallLeft
  <1>4. RunLeft' = 0
    BY <1>1, <1>2, RunSteps DEF RunLeft
  <1> QED
    BY <1>3, <1>4, StepsCount DEF StepsLeft

\* An access that went through leaves its call fewer steps.
LEMMA ContinueSpends ==
  ASSUME IInv, Busy, todo' = Tail(todo), attempt' = 0, call' = call
  PROVE  CallLeft' \in Int /\ CallLeft' < CallLeft
  <1> DEFINE rest == Tail(todo)
             n == Len(todo)
  <1>1. /\ attempt \in Nat /\ attempt <= MaxTransportRetries /\ MaxTransportRetries \in Nat
        /\ Tries = MaxTransportRetries + 1
    BY ChargerAssumption, BoundsAre DEF IInv, Typed, TypeOK
  <1>2. call # None /\ todo # <<>>
    BY DEF Busy
  <1>3. CallLeft >= 2 /\ CallLeft \in Nat
    BY <1>2, CallCounts
  <1>4. n \in Nat \ {0} /\ Len(rest) = n - 1
    BY <1>2 DEF IInv, Scripted
  <1>5. CallLeft' = CallAt(call, rest, 0)
    BY DEF CallLeft
  <1>6. rest # <<>> => call \notin {"detect", "monitor"}
    BY AtPoll
  <1> HIDE DEF rest
  <1>7. CASE rest = <<>>
    <2>1. CallLeft' = 1
      BY <1>2, <1>5, <1>7, CallSteps
    <2> QED
      BY <1>3, <2>1
  <1>8. CASE rest # <<>>
    <2>1. AccessesAt(call, todo) = n /\ AccessesAt(call, rest) = n - 1
      BY <1>4, <1>6, <1>8, CallSteps
    <2>2. CallLeft = n * Tries - attempt + 1
      BY <1>2, <2>1, CallCounts
    <2>3. CallLeft' = (n - 1) * Tries - 0 + 1
      BY <1>2, <1>5, <1>8, <2>1, CallSteps
    <2> HIDE DEF n
    <2>4. /\ (n - 1) * Tries = n * Tries - Tries
          /\ (n - 1) * Tries \in Nat /\ n * Tries \in Nat
      BY <1>1, <1>4, OneLess
    <2> QED
      BY <1>1, <2>2, <2>3, <2>4
  <1> QED
    BY <1>7, <1>8

\* The call and the run go on as they were.
LEMMA SameRun ==
  ASSUME UNCHANGED <<call, run, steps>>
  PROVE  RunLeft' = RunLeft
  BY DEF RunLeft

\* An access is a step nearer to the end, whatever becomes of it.
LEMMA AccessIsNearer ==
  ASSUME IInv, NInv, Access
  PROVE  StepsLeft' < StepsLeft
  <1>1. Busy /\ call # None /\ todo # <<>>
    BY DEF Access, ReadStatus, ReadOther, Write, Verify, Retry, GiveUp, Busy
  <1>2. /\ CallLeft \in Nat /\ RunLeft \in Nat
        /\ AccessesAt(call, todo) \in Nat \ {0}
        /\ CallLeft = AccessesAt(call, todo) * Tries - attempt + 1
    BY <1>1, CallCounts, RunCounts
  <1>3. /\ attempt \in Nat /\ attempt <= MaxTransportRetries /\ MaxTransportRetries \in Nat
        /\ Tries = MaxTransportRetries + 1
    BY ChargerAssumption, BoundsAre DEF IInv, Typed, TypeOK
  <1>4. CASE Fails
    BY <1>1, <1>4, FailsEnds
  <1>5. ASSUME Continue(<<>>), UNCHANGED <<run, steps>>
        PROVE  StepsLeft' < StepsLeft
    <2>1. todo' = Tail(todo) /\ attempt' = 0 /\ call' = call
      <3>1. Tail(todo) \in Seq(Accesses)
        BY <1>1 DEF IInv, Scripted
      <3> QED
        BY <1>5, <3>1 DEF Continue
    <2>2. CallLeft' \in Int /\ CallLeft' < CallLeft
      BY <1>1, <2>1, ContinueSpends
    <2>3. RunLeft' = RunLeft
      BY <1>5, <2>1, SameRun
    <2> QED
      BY <1>2, <2>2, <2>3 DEF StepsLeft
  <1>6. CASE ReadStatus
    <2>1. CASE Continue(<<>>) /\ UNCHANGED <<session, host, reported>>
      BY <1>5, <2>1 DEF host
    <2>2. CASE call \in {"detect", "monitor"} /\ Continue(Read("result"))
               /\ UNCHANGED <<session, host, reported>>
      <3>1. todo = Read("status") /\ Tail(todo) = <<>>
        BY <1>1, <1>6, <2>2, AtPoll DEF ReadStatus
      <3>2. todo' = Read("result") /\ attempt' = 0 /\ call' = call
        <4>1. todo' = Tail(todo) \o Read("result") /\ attempt' = 0 /\ call' = call
          BY <2>2, Zenon DEF Continue
        <4>2. <<>> \o Read("result") = Read("result")
          BY DEF Read
        <4> QED
          BY <3>1, <4>1, <4>2, Zenon
      <3>3. Read("result") # Read("status")
        <4>1. Head(Read("result")).reg = "result" /\ Head(Read("status")).reg = "status"
          BY DEF Read
        <4> QED
          BY <4>1
      <3>4. CallLeft = 2 * Tries - attempt + 1
        <4>1. AccessesAt(call, todo) = 2
          BY <2>2, <3>1, CallSteps
        <4> QED
          BY <1>2, <4>1
      <3>5. CallLeft' = 1 * Tries - 0 + 1
        <4>1. Read("result") # <<>> /\ Len(Read("result")) = 1
          BY OneRead
        <4>2. CallLeft' = CallAt(call, Read("result"), 0)
          BY <3>2 DEF CallLeft
        <4>3. AccessesAt(call, Read("result")) = 1
          BY <3>3, <4>1, CallSteps
        <4>4. CallAt(call, Read("result"), 0) = AccessesAt(call, Read("result")) * Tries - 0 + 1
          BY <1>1, <4>1, CallSteps
        <4> QED
          BY <4>2, <4>3, <4>4
      <3>6. RunLeft' = RunLeft
        BY <2>2, <3>2, SameRun DEF host
      <3> QED
        BY <1>2, <1>3, <3>4, <3>5, <3>6 DEF StepsLeft
    <2> QED
      BY <1>4, <1>6, <2>1, <2>2, Zenon DEF ReadStatus
  <1>7. CASE ReadOther \/ Write
    BY <1>5, <1>7 DEF ReadOther, Write, host
  <1>8. CASE Verify
    <2>1. Fails \/ (Continue(<<>>) /\ UNCHANGED <<status, session, host, reported>>)
      BY <1>8, Zenon DEF Verify
    <2> QED
      BY <1>4, <1>5, <2>1 DEF host
  <1>9. CASE Retry
    <2>1. attempt' = attempt + 1 /\ UNCHANGED <<call, todo, run, steps>>
      BY <1>9 DEF Retry, host
    <2>2. CallLeft' = AccessesAt(call, todo) * Tries - (attempt + 1) + 1
      BY <1>1, <2>1, CallSteps DEF CallLeft
    <2>3. RunLeft' = RunLeft
      BY <2>1, SameRun
    <2>4. AccessesAt(call, todo) * Tries \in Nat
      BY <1>2, <1>3, OneLess
    <2> QED
      BY <1>2, <1>3, <2>2, <2>3, <2>4 DEF StepsLeft
  <1>10. CASE GiveUp
    BY <1>4, <1>10 DEF GiveUp
  <1> QED
    BY <1>6, <1>7, <1>8, <1>9, <1>10 DEF Access

\* At rest no step is left.
LEMMA RestedIs ==
  ASSUME run' = None, call' = None, steps' \in Int
  PROVE  StepsLeft' = 0
  <1>1. CallLeft' = 0
    BY CallSteps DEF CallLeft
  <1>2. RunLeft' = 0
    BY RunSteps DEF RunLeft
  <1> QED
    BY <1>1, <1>2 DEF StepsLeft

\* The polls that are left, as steps.
LEMMA PollsAhead ==
  ASSUME IInv, NInv, run \in {"detect", "sleep"}
  PROVE  (Polls - steps) * PollSteps \in Nat
  <1>1. Polls - steps \in Nat /\ PollSteps \in Nat
    BY PollsLeft, BoundsAre
  <1>2. \A i, j \in Nat : i * j \in Nat
    OBVIOUS
  <1> QED
    BY <1>1, <1>2

\* The return of a call is a step nearer to the end.
LEMMA ReturnIsNearer ==
  ASSUME IInv, NInv, Return
  PROVE  StepsLeft' < StepsLeft
  <1> DEFINE d == (Polls - steps) * PollSteps + ApplySteps
             e == (Polls - steps) * PollSteps
  <1>1. call # None /\ todo = <<>> /\ CallLeft = 1
    <2>1. call # None /\ todo = <<>>
      BY DEF Return, StepDetected, Rerun, Applied, Monitored, Settled, None
    <2> QED
      BY <2>1, CallSteps DEF CallLeft
  <1>2. /\ Tries \in Nat \ {0} /\ ApplySteps \in Nat
        /\ RunLeft \in Nat /\ StepsLeft = 1 + RunLeft
    BY <1>1, BoundsAre, RunCounts DEF StepsLeft
  <1>3. steps \in Int
    BY ChargerAssumption DEF IInv, Typed, TypeOK
  <1>4. ASSUME run' = None, call' = None, steps' = steps \/ steps' = 0
        PROVE  StepsLeft' < StepsLeft
    BY <1>2, <1>3, <1>4, RestedIs
  <1>5. CASE Fails
    BY <1>1, <1>5, FailsEnds
  <1>6. ASSUME run = "detect"
        PROVE  e \in Nat /\ d = e + ApplySteps
    BY <1>6, PollsAhead
  <1>7. ASSUME Pending
        PROVE  CallLeft' = 0 /\ RunLeft' = d + 1
    <2>1. call' = None /\ run' = "sleep" /\ steps' = steps
      BY <1>7 DEF Pending, Done
    <2>2. CallLeft' = 0
      BY <2>1, CallSteps DEF CallLeft
    <2> QED
      BY <1>3, <2>1, <2>2, RunSteps DEF RunLeft
  <1>8. ASSUME Done, run' = "apply", steps' = steps
        PROVE  StepsLeft' = ApplySteps
    <2>1. call' = None
      BY <1>8 DEF Done
    <2>2. CallLeft' = 0
      BY <2>1, CallSteps DEF CallLeft
    <2>3. RunLeft' = ApplySteps
      BY <1>3, <1>8, <2>1, RunSteps DEF RunLeft
    <2> QED
      BY <1>2, <2>2, <2>3 DEF StepsLeft
  <1>9. CASE StepDetected
    <2>1. call = "detect" /\ run = "detect"
      BY <1>9 DEF StepDetected, IInv, Typed, None
    <2>2. RunLeft = d + (3 * Tries + 2)
      BY <1>3, <2>1, RunSteps DEF RunLeft
    <2>3. e \in Nat /\ d = e + ApplySteps
      BY <1>6, <2>1
    <2>4. \/ Fails \/ Pending \/ retry_detection
          \/ Done /\ run' = "apply" /\ steps' = steps
          \/ Done /\ Returns("error")
      BY <1>9, Zenon DEF StepDetected
    <2>5. CASE Pending
      <3>1. CallLeft' = 0 /\ RunLeft' = d + 1
        BY <1>7, <2>5
      <3> HIDE DEF d, e
      <3> QED
        BY <1>2, <2>2, <2>3, <3>1 DEF StepsLeft
    <2>6. CASE retry_detection
      <3>1. call' = "rerun" /\ todo' = update_reg("cmd_apsd", TRUE) /\ attempt' = 0
            /\ UNCHANGED <<run, steps>>
        BY <2>6 DEF retry_detection, host
      <3>2. CallLeft' = 3 * Tries - 0 + 1
        <4> DEFINE s == update_reg("cmd_apsd", TRUE)
        <4>1. Len(s) = 3 /\ s # <<>>
          <5>1. Len(s) = 3
            BY UpdateScript, Zenon
          <5>2. s \in Seq(Accesses)
            BY RerunScript, Zenon
          <5> HIDE DEF s
          <5> QED
            BY <5>1, <5>2, Empty
        <4>2. CallLeft' = CallAt("rerun", s, 0)
          BY <3>1, Zenon DEF CallLeft
        <4> HIDE DEF s
        <4>3. AccessesAt("rerun", s) = 3
          BY <4>1, CallSteps
        <4> QED
          BY <4>1, <4>2, <4>3, CallSteps DEF None
      <3>3. RunLeft' = d + 1
        BY <1>3, <2>1, <3>1, RunSteps DEF RunLeft
      <3> HIDE DEF d, e
      <3> QED
        BY <1>2, <2>2, <2>3, <3>2, <3>3 DEF StepsLeft
    <2>7. CASE Done /\ run' = "apply" /\ steps' = steps
      <3>1. StepsLeft' = ApplySteps
        BY <1>8, <2>7
      <3> HIDE DEF d, e
      <3> QED
        BY <1>2, <2>2, <2>3, <3>1
    <2>8. CASE Done /\ Returns("error")
      BY <1>4, <2>8 DEF Done, Returns
    <2> QED
      BY <1>5, <2>4, <2>5, <2>6, <2>7, <2>8
  <1>10. CASE Rerun
    <2>1. call = "rerun" /\ run = "detect" /\ Pending
      BY <1>10 DEF Rerun, IInv, Typed, None
    <2>2. RunLeft = d + 1
      BY <1>3, <2>1, RunSteps DEF RunLeft
    <2>3. CallLeft' = 0 /\ RunLeft' = d + 1
      BY <1>7, <2>1
    <2>4. e \in Nat /\ d = e + ApplySteps
      BY <1>6, <2>1
    <2> HIDE DEF d, e
    <2> QED
      BY <1>2, <2>2, <2>3, <2>4 DEF StepsLeft
  <1>11. CASE Applied
    BY <1>4, <1>11 DEF Applied, Done, Returns
  <1>12. CASE Monitored
    <2>1. call = "monitor" /\ run = "monitor"
      BY <1>12 DEF Monitored, IInv, Typed, None
    <2>2. RunLeft = ApplySteps
      BY <1>3, <2>1, RunSteps DEF RunLeft
    <2>3. \/ Fails
          \/ Done /\ run' = "apply" /\ steps' = steps
          \/ Done /\ (Returns("detached") \/ Returns("unchanged"))
      BY <1>12, Zenon DEF Monitored
    <2>4. CASE Done /\ run' = "apply" /\ steps' = steps
      BY <1>2, <1>8, <2>2, <2>4
    <2>5. CASE Done /\ (Returns("detached") \/ Returns("unchanged"))
      BY <1>4, <2>5 DEF Done, Returns
    <2> QED
      BY <1>5, <2>3, <2>4, <2>5
  <1>13. CASE Settled
    <2>1. run = None /\ call' = None /\ UNCHANGED <<run, steps>>
      BY <1>13 DEF Settled, Done, host, IInv, Typed, None
    <2> QED
      BY <1>4, <2>1
  <1> QED
    BY <1>9, <1>10, <1>11, <1>12, <1>13 DEF Return

\* So is the beginning of a poll or of apply.
LEMMA HostIsNearer ==
  ASSUME IInv, NInv, Host
  PROVE  StepsLeft' < StepsLeft
  <1> DEFINE n == Polls - steps
  <1>1. call = None /\ CallLeft = 0 /\ StepsLeft = 0 + RunLeft /\ RunLeft \in Nat
    <2>1. call = None
      BY DEF Host, DetectStep, Apply
    <2>2. CallLeft = 0
      BY <2>1, CallSteps DEF CallLeft
    <2> QED
      BY <2>1, <2>2, RunCounts DEF StepsLeft
  <1>2. /\ Tries \in Nat \ {0} /\ PollSteps \in Nat /\ PollSteps = 5 * Tries + 4
        /\ ApplySteps = 8 * Tries + 2 /\ Polls \in Nat
    BY BoundsAre
  <1>3. steps \in 0 .. MaxSteps /\ MaxSteps \in Nat
    BY ChargerAssumption DEF IInv, Typed, TypeOK
  <1>4. CASE DetectStep
    <2>1. run = "detect"
      BY <1>4 DEF DetectStep
    <2>2. steps # MaxSteps
      <3>1. steps <= Age + reruns
        BY <1>1, <2>1 DEF NInv, Budget
      <3>2. age \in {NotStarted} \cup 0 .. DetectTimeout /\ reruns \in 0 .. MaxReruns
        BY DEF IInv, Typed, TypeOK
      <3> QED
        BY <1>3, <3>1, <3>2, ChargerAssumption, FuseAssumption DEF Age, NotStarted
    <2>3. /\ steps' = steps + 1 /\ run' = "detect" /\ call' = "detect"
          /\ todo' = Read("status") /\ attempt' = 0
      BY <1>4, <2>1, <2>2 DEF DetectStep, Begin
    <2>4. n \in Nat \ {0} /\ Polls - (steps + 1) = n - 1
      BY <1>1, <1>2, <1>3, <2>1, PollsLeft
    <2>5. RunLeft = n * PollSteps + ApplySteps
      BY <1>1, <1>3, <2>1, RunSteps DEF RunLeft
    <2>6. RunLeft' = ((n - 1) * PollSteps + ApplySteps) + (3 * Tries + 2)
      <3>1. steps + 1 \in Int
        BY <1>3
      <3>2. RunLeft' = RunAt("detect", "detect", steps + 1)
        BY <2>3 DEF RunLeft
      <3>3. RunAt("detect", "detect", steps + 1)
              = ((Polls - (steps + 1)) * PollSteps + ApplySteps) + (3 * Tries + 2)
        BY <3>1, RunSteps
      <3> HIDE DEF n
      <3> QED
        BY <2>4, <3>2, <3>3
    <2>7. CallLeft' = 2 * Tries - 0 + 1
      <3>1. Read("status") # <<>>
        BY OneRead
      <3>2. AccessesAt("detect", Read("status")) = 2
        BY CallSteps
      <3>3. CallLeft' = CallAt("detect", Read("status"), 0)
        BY <2>3 DEF CallLeft
      <3> QED
        BY <3>1, <3>2, <3>3, CallSteps DEF None
    <2> HIDE DEF n
    <2>8. /\ (n - 1) * PollSteps = n * PollSteps - PollSteps
          /\ n * PollSteps \in Nat /\ (n - 1) * PollSteps \in Nat
      BY <1>2, <2>4, OneLess
    <2> QED
      BY <1>1, <1>2, <2>5, <2>6, <2>7, <2>8 DEF StepsLeft
  <1>5. CASE Apply
    <2>1. /\ run = "apply" /\ call' = "apply" /\ todo' = apply_writes(adapter) /\ attempt' = 0
          /\ UNCHANGED <<run, steps>>
      BY <1>5 DEF Apply, Begin, host
    <2>2. RunLeft = ApplySteps
      BY <1>1, <1>3, <2>1, RunSteps DEF RunLeft
    <2>3. RunLeft' = 0
      BY <1>3, <2>1, RunSteps DEF RunLeft, None
    <2>4. CallLeft' = 5 * Tries - 0 + 1 \/ CallLeft' = 8 * Tries - 0 + 1
      <3> DEFINE s == apply_writes(adapter)
      <3>1. adapter \in Adapters
        BY <2>1 DEF IInv, Typed
      <3>2. s \in Seq(Accesses) /\ Len(s) = 5 + Extra(adapter)
        BY <3>1, ApplyScript
      <3>3. Len(s) = 5 \/ Len(s) = 8
        BY <3>2 DEF Extra
      <3>4. s # <<>>
        BY <3>2, <3>3, Empty
      <3>5. CallLeft' = CallAt("apply", s, 0)
        BY <2>1 DEF CallLeft
      <3> HIDE DEF s
      <3>6. AccessesAt("apply", s) = Len(s)
        BY DEF AccessesAt
      <3>7. CallAt("apply", s, 0) = Len(s) * Tries - 0 + 1
        BY <3>4, <3>6, CallSteps DEF None
      <3> QED
        BY <3>3, <3>5, <3>7
    <2> QED
      BY <1>1, <1>2, <2>2, <2>3, <2>4 DEF StepsLeft
  <1> QED
    BY <1>4, <1>5 DEF Host

\* And so is the end of a sleep.
LEMMA ElapseIsNearer ==
  ASSUME IInv, NInv, Elapse, ~AtRest
  PROVE  StepsLeft' < StepsLeft
  <1> DEFINE d == (Polls - steps) * PollSteps + ApplySteps
             e == (Polls - steps) * PollSteps
  <1>1. /\ run = "sleep" /\ run' = "detect" /\ call = None
        /\ call' = None /\ steps' = steps
    BY DEF Elapse, AtRest, io
  <1>2. steps \in Int /\ ApplySteps \in Nat
    <2>1. steps \in Int
      BY ChargerAssumption DEF IInv, Typed, TypeOK
    <2>2. ApplySteps \in Nat
      BY BoundsAre
    <2> QED
      BY <2>1, <2>2
  <1>3. RunLeft = d + 1 /\ RunLeft' = d
    BY <1>1, <1>2, RunSteps DEF RunLeft
  <1>4. CallLeft = 0 /\ CallLeft' = 0
    BY <1>1, CallSteps DEF CallLeft
  <1>5. e \in Nat /\ d = e + ApplySteps
    BY <1>1, PollsAhead
  <1> HIDE DEF d, e
  <1> QED
    BY <1>2, <1>3, <1>4, <1>5 DEF StepsLeft

\* A call or a run begins no further than MostSteps from its end.
LEMMA ChoiceIsBounded ==
  ASSUME IInv, Choose
  PROVE  StepsLeft' <= MostSteps
  <1> DEFINE all == Polls * PollSteps
  <1>1. /\ Tries \in Nat \ {0} /\ PollSteps \in Nat /\ PollSteps = 5 * Tries + 4
        /\ ApplySteps = 8 * Tries + 2 /\ Polls \in Nat \ {0}
    BY BoundsAre
  <1>2. all \in Nat /\ all >= PollSteps /\ MostSteps = all + ApplySteps
    BY <1>1, OneLess DEF MostSteps
  <1> HIDE DEF all
  <1>3. steps \in Int
    BY ChargerAssumption DEF IInv, Typed, TypeOK
  <1>4. call = None /\ run = None
    BY DEF Choose, Open, Reinit, Close, RunUntilReady, MonitorCycle, AtRest
  <1>5. ASSUME run' = None, steps' = steps
        PROVE  RunLeft' = 0
    BY <1>3, <1>5, RunSteps DEF RunLeft
  <1>6. ASSUME call' \in {"open", "reinit"}, todo' = Read("status"), attempt' = 0
        PROVE  CallLeft' = 1 * Tries - 0 + 1
    <2>1. Read("status") # <<>> /\ Len(Read("status")) = 1
      BY OneRead
    <2>2. CallLeft' = CallAt(call', Read("status"), 0)
      BY <1>6 DEF CallLeft
    <2>3. AccessesAt(call', Read("status")) = 1
      BY <1>6, <2>1, CallSteps
    <2> QED
      BY <1>6, <2>1, <2>2, <2>3, CallSteps DEF None
  <1>7. CASE Open
    <2>1. CallLeft' = 1 * Tries - 0 + 1
      BY <1>6, <1>7 DEF Open, Begin
    <2>2. RunLeft' = 0
      BY <1>4, <1>5, <1>7 DEF Open
    <2> QED
      BY <1>1, <1>2, <2>1, <2>2 DEF StepsLeft
  <1>8. CASE Reinit
    <2>1. RunLeft' = 0
      BY <1>4, <1>5, <1>8 DEF Reinit
    <2>2. CASE Begin("reinit", Read("status"))
      <3>1. CallLeft' = 1 * Tries - 0 + 1
        BY <1>6, <2>2 DEF Begin
      <3> QED
        BY <1>1, <1>2, <2>1, <3>1 DEF StepsLeft
    <2>3. CASE UNCHANGED io
      <3>1. CallLeft' = 0
        BY <1>4, <2>3, CallSteps DEF CallLeft, io
      <3> QED
        BY <1>1, <1>2, <2>1, <3>1 DEF StepsLeft
    <2> QED
      BY <1>8, <2>2, <2>3 DEF Reinit
  <1>9. CASE Close
    <2> DEFINE s == write_reg("icl", SAFE_ICL)
    <2>1. call' = "close" /\ todo' = s /\ attempt' = 0 /\ run' = None /\ steps' = steps
      BY <1>4, <1>9 DEF Close, Begin
    <2>2. Len(s) = 2 /\ s # <<>>
      <3>1. Len(s) = 2
        BY WriteScript
      <3> QED
        BY <3>1, Empty
    <2>3. CallLeft' = CallAt("close", s, 0)
      BY <2>1 DEF CallLeft
    <2> HIDE DEF s
    <2>4. AccessesAt("close", s) = 2
      BY <2>2, CallSteps
    <2>5. CallLeft' = 2 * Tries - 0 + 1
      BY <2>2, <2>3, <2>4, CallSteps DEF None
    <2>6. RunLeft' = 0
      BY <1>5, <2>1
    <2> QED
      BY <1>1, <1>2, <2>5, <2>6 DEF StepsLeft
  <1>10. CASE RunUntilReady
    <2>1. call' = None /\ run' = "detect" /\ steps' = 0
      BY <1>4, <1>10 DEF RunUntilReady, io
    <2>2. CallLeft' = 0
      BY <2>1, CallSteps DEF CallLeft
    <2>3. RunLeft' = all + ApplySteps
      <3>1. RunLeft' = (Polls - 0) * PollSteps + ApplySteps
        BY <2>1, RunSteps DEF RunLeft
      <3>2. Polls - 0 = Polls
        BY <1>1
      <3> QED
        BY <3>1, <3>2 DEF all
    <2> QED
      BY <1>1, <1>2, <2>2, <2>3 DEF StepsLeft
  <1>11. CASE MonitorCycle
    <2>1. call' = "monitor" /\ todo' = Read("status") /\ attempt' = 0 /\ run' = "monitor" /\ steps' = steps
      BY <1>11 DEF MonitorCycle, Begin
    <2>2. CallLeft' = 2 * Tries - 0 + 1
      <3>1. Read("status") # <<>>
        BY OneRead
      <3>2. AccessesAt("monitor", Read("status")) = 2
        BY CallSteps
      <3>3. CallLeft' = CallAt("monitor", Read("status"), 0)
        BY <2>1 DEF CallLeft
      <3> QED
        BY <3>1, <3>2, <3>3, CallSteps DEF None
    <2>3. RunLeft' = ApplySteps
      BY <1>3, <2>1, RunSteps DEF RunLeft
    <2> QED
      BY <1>1, <1>2, <2>2, <2>3 DEF StepsLeft
  <1> QED
    BY <1>7, <1>8, <1>9, <1>10, <1>11 DEF Choose

\* The steps left are a number, and none are left at rest.
Counted == StepsLeft \in Nat /\ (StepsLeft = 0 <=> AtRest)

\* Every step is one nearer to rest, or of the chip and the cable, or begins from rest.
LEMMA StepIsNearer ==
  ASSUME IInv, NInv, Counted', [Next]_vars
  PROVE  [Nearer]_vars
  <1>1. StepsLeft \in Nat /\ (StepsLeft = 0 <=> AtRest)
    BY StepsCount
  <1>2. MostSteps \in Nat
    <2>1. Polls * PollSteps \in Nat /\ ApplySteps \in Nat
      BY BoundsAre, OneLess
    <2> QED
      BY <2>1 DEF MostSteps
  <1>3. ASSUME StepsLeft' < StepsLeft, ~AtRest
        PROVE  Nearer
    <2>1. StepsLeft' <= StepsLeft
      BY <1>1, <1>3 DEF Counted
    <2> QED
      BY <1>3, <2>1 DEF Nearer
  <1>4. CASE Access \/ Return \/ Host
    <2>1. ~AtRest
      BY <1>4 DEF AtRest, Access, ReadStatus, ReadOther, Write, Verify, Retry, GiveUp, Busy, Return,
         StepDetected, Rerun, Applied, Monitored, Settled, Host, DetectStep, Apply, None
    <2> QED
      BY <1>3, <1>4, <2>1, AccessIsNearer, ReturnIsNearer, HostIsNearer
  <1>5. CASE Elapse
    <2>1. CASE AtRest
      <3>1. run' = None /\ call' = None /\ steps' \in Int
        <4>1. run = None /\ call = None
          BY <2>1 DEF AtRest
        <4>2. steps' = steps /\ call' = call /\ run' = run
          BY <1>5, <4>1 DEF Elapse, io, None
        <4> QED
          BY <4>1, <4>2, ChargerAssumption DEF IInv, Typed, TypeOK
      <3>2. StepsLeft' = 0
        BY <3>1, RestedIs
      <3> QED
        BY <1>2, <2>1, <3>2 DEF Nearer
    <2>2. CASE ~AtRest
      BY <1>3, <1>5, <2>2, ElapseIsNearer
    <2> QED
      BY <2>1, <2>2
  <1>6. CASE Environment /\ ~(Access \/ Return \/ Host \/ Elapse)
    <2>1. UNCHANGED <<call, todo, attempt, run, steps>>
      BY <1>6 DEF Environment, Plug, Unplug, Apsd, io, host
    <2>2. StepsLeft' = StepsLeft
      BY <2>1 DEF StepsLeft, CallLeft, RunLeft
    <2> QED
      BY <1>1, <1>2, <1>6, <2>2 DEF Nearer
  <1>7. CASE Choose
    <2>1. AtRest
      BY <1>7 DEF Choose, Open, Reinit, Close, RunUntilReady, MonitorCycle
    <2> QED
      BY <1>7, <2>1, ChoiceIsBounded DEF Nearer
  <1> QED
    BY <1>4, <1>5, <1>6, <1>7 DEF Next

\* Every call and every run uses up a number of steps: every access, retry, poll and sleep takes
\* one, whatever the link and the cable do, and the call or the run is over when there is none
\* left.  A run has MostSteps at most, which the fuse has no part in.  With the fairness of the
\* thread this is why run_until_ready and monitor_cycle return.
THEOREM StepsRunOut == Spec => []Counted /\ [][Nearer]_vars
  <1>1. IInv /\ NInv => Counted
    BY StepsCount DEF Counted
  <1>2. IInv /\ NInv /\ Counted' /\ [Next]_vars => [Nearer]_vars
    BY StepIsNearer
  <1> QED
    BY <1>1, <1>2, DetectionHolds, PTL DEF Spec
=============================================================================
