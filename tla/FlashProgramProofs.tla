-------------------------- MODULE FlashProgramProofs --------------------------
(***************************************************************************)
(* Theorems of FlashProgram, for any number of sectors, any numbers to     *)
(* name them and blocks of any length.                                     *)
(***************************************************************************)
EXTENDS FlashProgram, SequenceTheorems, TLAPS

-----------------------------------------------------------------------------
(* The inductive invariant.  A run of accesses is known by what precedes   *)
(* what in it, and the state of an operation by which accesses of its run  *)
(* it has made.                                                            *)

\* Of run r the access x comes before the k-th.
Before(r, k, x) == \E j \in 1 .. k - 1 : r.does[j] = x

\* The operation has made access x of the run it is at.
Past(x) == Before(Head(op.todo), op.at, x)

Writing == {"write", "write_bulk"}
Kinds == {"none", "unlock", "lock"} \cup Erases \cup Writing

AccessesOf(m, kind) ==
  CASE kind = "unlock" -> {"check_lock", "key1", "key2"}
    [] kind = "lock" -> {"read_cr", "set_lock"}
    [] kind \in Erases /\ m = "G0" ->
         {"read_cr", "set_page", "wait", "read_sr", "clear_sr", "start", "poll", "clear_per"}
    [] kind = "erase_sector" /\ m # "G0" -> {"read_cr", "set_sector", "start", "poll"}
    [] kind = "erase_all" /\ m # "G0" -> {"read_cr", "set_mass", "start", "poll"}
    [] kind \in Writing /\ m = "G0" ->
         {"read_flash", "wait", "read_sr", "clear_sr", "read_cr", "set_pg", "low", "high", "poll",
          "clear_pg"}
    [] kind \in Writing /\ m # "G0" -> {"inc_on", "read_cr", "set_pg", "data", "poll", "inc_off"}
    [] OTHER -> {}

\* What comes before the k-th access of a run, and what does not.
Ordered(m, r, k) ==
  LET d == r.does[k]
      B(x) == Before(r, k, x)
  IN  /\ d = "poll" => B("start") \/ B("high") \/ B("data")
      /\ d \in {"set_page", "set_sector", "set_mass", "set_pg", "clear_pg", "clear_per", "start"} =>
           B("read_cr")
      /\ d = "start" => B("set_page") \/ B("set_sector") \/ B("set_mass")
      /\ d = "read_cr" /\ (B("set_page") \/ B("set_sector") \/ B("set_mass")) => B("start")
      /\ d = "clear_per" => B("start")
      /\ d \in {"set_page", "set_sector", "set_mass", "start", "clear_sr", "wait", "low", "high"} =>
           ~B("start") /\ ~B("high") /\ ~B("data")
      /\ d = "clear_pg" => k = Len(r.does)
      /\ m = "G0" =>
           /\ d = "clear_sr" => B("wait")
           /\ d \in {"start", "low", "high", "poll"} => B("clear_sr")
           /\ d = "low" => B("set_pg")
           /\ d = "high" => B("low")
           /\ d \in {"wait", "set_pg", "read_cr"} => ~B("low") \/ B("high")
           /\ d \in {"wait", "set_pg"} => ~B("high")

RunOk(m, kind, asked, r) ==
  /\ r.does # <<>>
  /\ r.on \subseteq asked
  /\ \A k \in DOMAIN r.does : r.does[k] \in AccessesOf(m, kind) /\ Ordered(m, r, k)
  /\ r.on = {} \/ \E k \in DOMAIN r.does : r.does[k] = "poll"
  /\ kind = "erase_all" /\ m # "G0" => r.on = Sectors
  /\ kind = "erase_sector" \/ (kind = "erase_all" /\ m = "G0") => \E n \in asked : r.on = {n}

UnlockRun == <<"check_lock", "key1", "key2">>

JobType == [do : {"none", "erase", "program"}, on : SUBSET Nat, own : BOOLEAN]
FlType == [cr : CrType, key : {"none", "first", "jam"}, err : {"none", "old", "own"},
           half : BOOLEAN, job : JobType]
RunType == [does : Seq(Accesses), on : SUBSET Nat]
OpType == [kind : Kinds, asked : SUBSET Nat, todo : Seq(RunType),
           at : Nat, res : {"Ok", "Access", "FlashError", "Api", "Unsupported", "NotReady"},
           cr : CrType, done : SUBSET Nat, own : BOOLEAN, reset : BOOLEAN, clean : BOOLEAN,
           open : BOOLEAN, blank : BOOLEAN]

FlashTypes ==
  /\ mcu \in Mcus /\ fl \in FlType /\ used \subseteq Words /\ op \in OpType
  /\ op.asked \in Targets(op.kind \in Erases)
  /\ fl.job.on \in Targets(fl.job.do = "erase")
  /\ fl.job.do = "none" => ~fl.job.own

\* Operations of one run.
Single(m, kind) == (kind = "unlock" /\ m = "G0") \/ (kind \in Erases /\ m # "G0")

\* An operation that goes on is at an access of one of its runs.
Shape ==
  op.todo # <<>> =>
    /\ mcu \in {"F4", "G0"} /\ op.res \in {"Ok", "FlashError"}
    /\ op.at \in DOMAIN Head(op.todo).does
    /\ \A i \in DOMAIN op.todo : RunOk(mcu, op.kind, op.asked, op.todo[i])
    /\ op.kind = "unlock" /\ mcu = "G0" => Head(op.todo).does = UnlockRun
    /\ Single(mcu, op.kind) => Len(op.todo) = 1
    /\ op.kind \in Erases /\ mcu = "G0" => op.asked \subseteq Sectors

\* An STM32G0 is known to be idle, and its errors and its job are this
\* operation's.
Idle ==
  mcu = "G0" /\ op.todo # <<>> =>
    /\ Past("wait") /\ ~Past("start") /\ ~Past("high") => fl.job.do = "none"
    /\ Past("wait") /\ ~Past("start") /\ ~Past("low") => ~fl.half
    /\ Past("clear_sr") => fl.err # "old" /\ (fl.job.do # "none" => fl.job.own)

\* The keys of an STM32G0.
Unlocking ==
  op.kind = "unlock" /\ mcu = "G0" /\ op.res = "Ok" /\ op.open /\ ~op.reset =>
    /\ op.todo = <<>> => ~fl.cr.lock
    /\ op.todo # <<>> /\ op.at = 1 => fl.key = "none"
    /\ op.todo # <<>> /\ op.at = 2 => fl.key = "none" /\ fl.cr.lock
    /\ op.todo # <<>> /\ op.at = 3 => fl.key = "first" /\ fl.cr.lock

\* An STM32G0 is never asked for a mass erase; an STM32F4 names a sector only
\* together with SER, which then stays.
Modes ==
  /\ mcu = "G0" => ~fl.cr.mer /\ ~op.cr.mer
  /\ mcu = "F4" => /\ ~fl.cr.ser => fl.cr.snb = {}
                   /\ ~op.cr.ser => op.cr.snb = {}

\* An erase whose sectors are known exactly.
Exact == op.kind \in Erases /\ op.asked \subseteq Sectors /\ (mcu = "F4" => op.clean)

\* What CR, and its copy, hold for an erase.
Erasing ==
  Exact /\ op.todo # <<>> =>
    /\ mcu = "F4" /\ ~Past("set_sector") /\ ~Past("set_mass") =>
         /\ ~fl.cr.pg /\ ~fl.cr.ser /\ ~fl.cr.mer
         /\ Past("read_cr") => ~op.cr.ser /\ ~op.cr.mer
    /\ ~Past("start") /\ (Past("set_page") \/ Past("set_sector")) =>
         op.cr.ser /\ ~op.cr.mer /\ op.cr.snb = BitsOn(Head(op.todo).on)
    /\ ~Past("start") /\ Past("set_mass") => op.cr.mer /\ ~op.cr.ser

\* An own job, and what it has done, is what was asked for.
Own ==
  /\ fl.job.own => IF op.kind \in Erases THEN fl.job.do = "erase"
                   ELSE op.kind \in Writing /\ fl.job.do = "program"
  /\ Exact \/ op.kind \in Writing =>
       (fl.job.own => fl.job.on \subseteq op.asked) /\ op.done \subseteq op.asked

\* An operation that will have done all that was asked if it succeeds.
Sure ==
  /\ op.res = "Ok" /\ op.clean /\ op.open /\ ~op.reset
  /\ \/ Exact
     \/ op.kind \in Writing /\ op.blank /\ (mcu = "G0" \/ op.kind = "write_bulk")

Blank ==
  op.kind \in Writing /\ op.blank /\ ~op.reset =>
    /\ (op.asked \ op.done) \cap used = {}
    /\ fl.job.do = "program" /\ ~fl.job.own => fl.job.on \cap op.asked = {}

\* Its controller is unlocked and set up.
SetUp ==
  Sure /\ op.todo # <<>> =>
    /\ ~fl.cr.lock \/ (mcu = "F4" /\ op.kind \in Writing)
    /\ op.kind \in Erases => ~fl.cr.pg
    /\ mcu = "G0" /\ op.kind \in Writing => ~fl.cr.ser
    /\ Past("read_cr") =>
         /\ ~op.cr.lock \/ (mcu = "F4" /\ op.kind \in Writing)
         /\ op.kind \in Erases => ~op.cr.pg
         /\ mcu = "G0" /\ op.kind \in Writing => ~op.cr.ser
    /\ mcu = "G0" /\ Past("set_pg") => fl.cr.pg
    /\ mcu = "G0" /\ Past("low") /\ ~Past("high") => fl.half

\* What its run is for is done, under way, or failed; when it was polled, done.
\* The runs left have all the rest.
Doing ==
  Sure =>
    /\ op.todo # <<>> =>
         /\ Past("start") \/ Past("high") \/ Past("data") =>
              \/ fl.err # "none" \/ On \subseteq op.done
              \/ fl.job.do # "none" /\ fl.job.own /\ fl.job.on = On
         /\ Past("poll") => On \subseteq op.done
    /\ \A x \in op.asked : x \in op.done \/ \E i \in DOMAIN op.todo : x \in op.todo[i].on

FlashInv ==
  /\ FlashTypes /\ Shape /\ Idle /\ Unlocking /\ Modes /\ Erasing /\ Own /\ Blank /\ SetUp /\ Doing
  /\ ErrorsAreOwn

-----------------------------------------------------------------------------
(* Runs of accesses *)

LEMMA BeforeFacts ==
  ASSUME NEW r, NEW k \in Nat \ {0}, NEW x
  PROVE  /\ ~Before(r, 1, x)
         /\ Before(r, k + 1, x) <=> Before(r, k, x) \/ r.does[k] = x
  <1>1. ~Before(r, 1, x) BY DEF Before
  <1>2. ASSUME Before(r, k, x) \/ r.does[k] = x PROVE Before(r, k + 1, x)
    <2>1. CASE Before(r, k, x)
      <3>1. PICK j \in 1 .. k - 1 : r.does[j] = x BY <2>1 DEF Before
      <3>2. j \in 1 .. k + 1 - 1 OBVIOUS
      <3> QED BY <3>1, <3>2 DEF Before
    <2>2. CASE r.does[k] = x
      <3>1. k \in 1 .. k + 1 - 1 OBVIOUS
      <3> QED BY <2>2, <3>1 DEF Before
    <2> QED BY <1>2, <2>1, <2>2
  <1>3. ASSUME Before(r, k + 1, x) PROVE Before(r, k, x) \/ r.does[k] = x
    <2>1. PICK j \in 1 .. k + 1 - 1 : r.does[j] = x BY <1>3 DEF Before
    <2>2. j \in 1 .. k - 1 \/ j = k OBVIOUS
    <2> QED BY <2>1, <2>2 DEF Before
  <1> QED BY <1>1, <1>2, <1>3

LEMMA Joined ==
  ASSUME NEW S, NEW s \in Seq(S), NEW t \in Seq(S)
  PROVE  /\ s \o t \in Seq(S) /\ Len(s \o t) = Len(s) + Len(t)
         /\ \A i \in 1 .. Len(s) : (s \o t)[i] = s[i]
         /\ \A i \in 1 .. Len(t) : (s \o t)[Len(s) + i] = t[i]
  BY ConcatProperties

LEMMA Tabled ==
  ASSUME NEW S, NEW n \in Nat, NEW f \in [1 .. n -> S]
  PROVE  f \in Seq(S) /\ Len(f) = n
  <1>1. f \in Seq(S) OBVIOUS
  <1>2. DOMAIN f = 1 .. n OBVIOUS
  <1> QED BY <1>1, <1>2, LenProperties

\* A sequence with one more item at each end.
LEMMA Enclosed ==
  ASSUME NEW S, NEW x \in S, NEW z \in S, NEW n \in Nat, NEW w \in Seq(S), Len(w) = n,
         NEW e, e = <<x>> \o w \o <<z>>
  PROVE  /\ e \in Seq(S) /\ Len(e) = n + 2
         /\ e[1] = x /\ e[n + 2] = z
         /\ \A i \in 1 .. n : e[i + 1] = w[i]
  <1>1. PICK f : f = <<x>> /\ f \in Seq(S) /\ Len(f) = 1 /\ f[1] = x
    <2>1. <<x>> \in Seq(S) /\ Len(<<x>>) = 1 /\ <<x>>[1] = x OBVIOUS
    <2> QED BY <2>1
  <1>2. PICK l : l = <<z>> /\ l \in Seq(S) /\ Len(l) = 1 /\ l[1] = z
    <2>1. <<z>> \in Seq(S) /\ Len(<<z>>) = 1 /\ <<z>>[1] = z OBVIOUS
    <2> QED BY <2>1
  <1>3. PICK s : /\ s = f \o w /\ s \in Seq(S) /\ Len(s) = Len(f) + Len(w)
                 /\ \A i \in 1 .. Len(f) : s[i] = f[i]
                 /\ \A i \in 1 .. Len(w) : s[Len(f) + i] = w[i]
    <2>1. PICK s : s = f \o w OBVIOUS
    <2>2. f \o w \in Seq(S) /\ Len(f \o w) = Len(f) + Len(w) BY <1>1, Joined
    <2>3. \A i \in 1 .. Len(f) : (f \o w)[i] = f[i] BY <1>1, Joined
    <2>4. \A i \in 1 .. Len(w) : (f \o w)[Len(f) + i] = w[i] BY <1>1, Joined
    <2> QED BY <2>1, <2>2, <2>3, <2>4
  <1>4. PICK t : /\ t = s \o l /\ t \in Seq(S) /\ Len(t) = Len(s) + Len(l)
                 /\ \A i \in 1 .. Len(s) : t[i] = s[i]
                 /\ \A i \in 1 .. Len(l) : t[Len(s) + i] = l[i]
    <2>1. PICK t : t = s \o l OBVIOUS
    <2>2. s \o l \in Seq(S) /\ Len(s \o l) = Len(s) + Len(l) BY <1>2, <1>3, Joined
    <2>3. \A i \in 1 .. Len(s) : (s \o l)[i] = s[i] BY <1>2, <1>3, Joined
    <2>4. \A i \in 1 .. Len(l) : (s \o l)[Len(s) + i] = l[i] BY <1>2, <1>3, Joined
    <2> QED BY <2>1, <2>2, <2>3, <2>4
  <1>5. Len(s) = n + 1 /\ Len(t) = n + 2 /\ t[1] = x BY <1>1, <1>2, <1>3, <1>4
  <1>6. t[n + 2] = z
    <2>1. t[(n + 1) + 1] = z BY <1>2, <1>4, <1>5
    <2>2. (n + 1) + 1 = n + 2 OBVIOUS
    <2> QED BY <2>1, <2>2
  <1>7. ASSUME NEW i \in 1 .. n PROVE t[i + 1] = w[i]
    <2>1. s[1 + i] = w[i] BY <1>1, <1>3
    <2>2. 1 + i = i + 1 /\ i + 1 \in 1 .. n + 1 OBVIOUS
    <2>3. s[i + 1] = w[i] BY <2>1, <2>2
    <2> QED BY <1>4, <1>5, <2>2, <2>3
  <1>8. t = e BY <1>1, <1>2, <1>3, <1>4
  <1> QED BY <1>4, <1>5, <1>6, <1>7, <1>8

PageRun == <<"read_cr", "set_page">> \o ExecuteErasePage \o <<"read_cr", "clear_per">>

\* The accesses of the runs, one by one.
LEMMA UnlockRunIs ==
  /\ Len(UnlockRun) = 3
  /\ UnlockRun[1] = "check_lock" /\ UnlockRun[2] = "key1" /\ UnlockRun[3] = "key2"
  BY DEF UnlockRun

LEMMA PageRunIs ==
  /\ Len(PageRun) = 9
  /\ PageRun[1] = "read_cr" /\ PageRun[2] = "set_page" /\ PageRun[3] = "wait"
  /\ PageRun[4] = "read_sr" /\ PageRun[5] = "clear_sr" /\ PageRun[6] = "start"
  /\ PageRun[7] = "poll" /\ PageRun[8] = "read_cr" /\ PageRun[9] = "clear_per"
  BY DEF PageRun, ExecuteErasePage, Ready

LEMMA DoublewordIs ==
  /\ Len(ProgramDoubleword) = 10
  /\ ProgramDoubleword[1] = "wait" /\ ProgramDoubleword[2] = "read_sr"
  /\ ProgramDoubleword[3] = "clear_sr" /\ ProgramDoubleword[4] = "read_cr"
  /\ ProgramDoubleword[5] = "set_pg" /\ ProgramDoubleword[6] = "low"
  /\ ProgramDoubleword[7] = "high" /\ ProgramDoubleword[8] = "poll"
  /\ ProgramDoubleword[9] = "read_cr" /\ ProgramDoubleword[10] = "clear_pg"
  BY DEF ProgramDoubleword, Ready

LEMMA RmwIs ==
  /\ Len(WriteRmw) = 12
  /\ WriteRmw[1] = "read_flash" /\ WriteRmw[2] = "read_flash" /\ WriteRmw[3] = "wait"
  /\ WriteRmw[4] = "read_sr" /\ WriteRmw[5] = "clear_sr" /\ WriteRmw[6] = "read_cr"
  /\ WriteRmw[7] = "set_pg" /\ WriteRmw[8] = "low" /\ WriteRmw[9] = "high"
  /\ WriteRmw[10] = "poll" /\ WriteRmw[11] = "read_cr" /\ WriteRmw[12] = "clear_pg"
  BY DEF WriteRmw, ProgramDoubleword, Ready

LEMMA RunTypes ==
  /\ UnlockRun \in Seq(Accesses) /\ PageRun \in Seq(Accesses)
  /\ ProgramDoubleword \in Seq(Accesses) /\ WriteRmw \in Seq(Accesses)
  /\ ProgramWord \in Seq(Accesses)
  <1>1. /\ Ready \in Seq(Accesses) /\ UnlockRun \in Seq(Accesses)
        /\ ProgramWord \in Seq(Accesses)
    BY DEF Ready, Accesses, UnlockRun, ProgramWord
  <1>2. /\ <<"start", "poll">> \in Seq(Accesses) /\ <<"read_cr", "set_page">> \in Seq(Accesses)
        /\ <<"read_cr", "clear_per">> \in Seq(Accesses)
        /\ <<"read_flash", "read_flash">> \in Seq(Accesses)
        /\ <<"read_cr", "set_pg", "low", "high", "poll", "read_cr", "clear_pg">> \in Seq(Accesses)
    BY DEF Accesses
  <1>3. ExecuteErasePage \in Seq(Accesses) BY <1>1, <1>2, ConcatProperties DEF ExecuteErasePage
  <1>4. ProgramDoubleword \in Seq(Accesses) BY <1>1, <1>2, ConcatProperties DEF ProgramDoubleword
  <1>5. <<"read_cr", "set_page">> \o ExecuteErasePage \in Seq(Accesses)
    BY <1>2, <1>3, ConcatProperties
  <1>6. PageRun \in Seq(Accesses) BY <1>2, <1>5, ConcatProperties DEF PageRun
  <1>7. WriteRmw \in Seq(Accesses) BY <1>2, <1>4, ConcatProperties DEF WriteRmw
  <1> QED BY <1>1, <1>4, <1>6, <1>7

\* Each is in order.
LEMMA PageRunOrder ==
  ASSUME NEW on, NEW k \in 1 .. 9 PROVE Ordered("G0", Run(PageRun, on), k)
  BY PageRunIs DEF Ordered, Before, Run

LEMMA DoublewordOrder ==
  ASSUME NEW on, NEW k \in 1 .. 10 PROVE Ordered("G0", Run(ProgramDoubleword, on), k)
  BY DoublewordIs DEF Ordered, Before, Run

LEMMA RmwOrder ==
  ASSUME NEW on, NEW k \in 1 .. 12 PROVE Ordered("G0", Run(WriteRmw, on), k)
  BY RmwIs DEF Ordered, Before, Run

\* What an operation begins with.
Begins(m, kind, asked, todo) ==
  /\ todo \in Seq(RunType) /\ todo # <<>>
  /\ \A i \in DOMAIN todo : RunOk(m, kind, asked, todo[i])
  /\ kind \in Erases \cup Writing => \A x \in asked : \E i \in DOMAIN todo : x \in todo[i].on
  /\ kind = "unlock" /\ m = "G0" => todo[1].does = UnlockRun
  /\ Single(m, kind) => Len(todo) = 1

LEMMA OneRun ==
  ASSUME NEW m, NEW kind, NEW asked, NEW does \in Seq(Accesses), NEW on \in SUBSET Nat,
         RunOk(m, kind, asked, Run(does, on)),
         kind \in Erases \cup Writing => on = asked,
         kind = "unlock" /\ m = "G0" => does = UnlockRun
  PROVE  Begins(m, kind, asked, <<Run(does, on)>>)
  <1> DEFINE r == Run(does, on)
  <1>1. r \in RunType /\ r.on = on /\ r.does = does BY DEF Run, RunType
  <1>2. RunOk(m, kind, asked, r) OBVIOUS
  <1> HIDE DEF r
  <1>3. <<r>> \in Seq(RunType) /\ <<r>> # <<>> /\ Len(<<r>>) = 1 /\ <<r>>[1] = r BY <1>1
  <1>4. PICK s : s = <<r>> OBVIOUS
  <1>5. DOMAIN s = {1} /\ s[1] = r /\ s \in Seq(RunType) /\ s # <<>> /\ Len(s) = 1 BY <1>3, <1>4
  <1>6. Begins(m, kind, asked, s) BY <1>1, <1>2, <1>5 DEF Begins
  <1> QED BY <1>4, <1>6 DEF r

\* The run is N accesses, in order.
Listed(m, kind, does, on, N) ==
  /\ N \in Nat \ {0} /\ Len(does) = N
  /\ \A k \in 1 .. N : does[k] \in AccessesOf(m, kind) /\ Ordered(m, Run(does, on), k)
  /\ on = {} \/ \E k \in 1 .. N : does[k] = "poll"

\* An erase of all on an STM32F4 is one run, others are one for each sector.
SectorsOk(m, kind, asked, on) ==
  /\ on \subseteq asked
  /\ kind = "erase_all" /\ m # "G0" => on = Sectors
  /\ kind = "erase_sector" \/ (kind = "erase_all" /\ m = "G0") => \E n \in asked : on = {n}

LEMMA RunIsOk ==
  ASSUME NEW m, NEW kind, NEW asked, NEW does \in Seq(Accesses), NEW on, NEW N,
         Listed(m, kind, does, on, N), SectorsOk(m, kind, asked, on)
  PROVE  RunOk(m, kind, asked, Run(does, on))
  <1>1. Run(does, on).does = does /\ Run(does, on).on = on BY DEF Run
  <1>2. DOMAIN does = 1 .. N /\ does # <<>> BY EmptySeq, LenProperties DEF Listed
  <1>3. \A k \in DOMAIN does : does[k] \in AccessesOf(m, kind) /\ Ordered(m, Run(does, on), k)
    BY <1>2 DEF Listed
  <1>4. on = {} \/ \E k \in DOMAIN does : does[k] = "poll" BY <1>2 DEF Listed
  <1> QED BY <1>1, <1>2, <1>3, <1>4, Zenon DEF RunOk, SectorsOk

LEMMA UnlockBegins == ASSUME NEW m PROVE Begins(m, "unlock", {}, Unlock(m))
  <1>1. CASE m = "G0"
    <2>1. RunOk(m, "unlock", {}, Run(UnlockRun, {}))
      <3>1. \A k \in 1 .. 3 : UnlockRun[k] \in AccessesOf(m, "unlock")
        BY UnlockRunIs DEF AccessesOf, Erases, Writing
      <3>2. \A k \in 1 .. 3 : Ordered(m, Run(UnlockRun, {}), k)
        BY UnlockRunIs DEF Ordered, Before, Run
      <3>3. Listed(m, "unlock", UnlockRun, {}, 3) BY <3>1, <3>2, UnlockRunIs DEF Listed
      <3>4. SectorsOk(m, "unlock", {}, {}) BY DEF SectorsOk
      <3> QED BY <3>3, <3>4, RunTypes, RunIsOk
    <2>2. Unlock(m) = <<Run(UnlockRun, {})>> BY <1>1 DEF Unlock, UnlockRun
    <2> QED BY <2>1, <2>2, RunTypes, OneRun DEF Erases, Writing
  <1>2. CASE m # "G0"
    <2> DEFINE does == <<"key1", "key2">>
    <2>1. does \in Seq(Accesses) /\ Len(does) = 2 /\ does[1] = "key1" /\ does[2] = "key2"
      BY DEF Accesses
    <2>2. Unlock(m) = <<Run(does, {})>> BY <1>2 DEF Unlock
    <2> HIDE DEF does
    <2>3. RunOk(m, "unlock", {}, Run(does, {}))
      <3>1. \A k \in 1 .. 2 : does[k] \in AccessesOf(m, "unlock")
        BY <1>2, <2>1 DEF AccessesOf, Erases, Writing
      <3>2. \A k \in 1 .. 2 : Ordered(m, Run(does, {}), k)
        BY <1>2, <2>1 DEF Ordered, Before, Run
      <3>3. {} = {} \/ \E k \in 1 .. 2 : does[k] = "poll" BY <2>1
      <3>4. Listed(m, "unlock", does, {}, 2) BY <2>1, <3>1, <3>2, <3>3 DEF Listed
      <3>5. SectorsOk(m, "unlock", {}, {}) BY <1>2 DEF SectorsOk
      <3> QED BY <2>1, <3>4, <3>5, RunIsOk
    <2> QED BY <1>2, <2>1, <2>2, <2>3, OneRun DEF Erases, Writing
  <1> QED BY <1>1, <1>2

LEMMA LockBegins == ASSUME NEW m PROVE Begins(m, "lock", {}, Lock(m))
  <1> DEFINE does == <<"read_cr", "set_lock">>
  <1>1. does \in Seq(Accesses) /\ Len(does) = 2 /\ does[1] = "read_cr" /\ does[2] = "set_lock"
    BY DEF Accesses
  <1>2. Lock(m) = <<Run(does, {})>> BY DEF Lock
  <1> HIDE DEF does
  <1>3. RunOk(m, "lock", {}, Run(does, {}))
    <2>1. \A k \in 1 .. 2 : does[k] \in AccessesOf(m, "lock") BY <1>1 DEF AccessesOf, Erases, Writing
    <2>2. \A k \in 1 .. 2 : Ordered(m, Run(does, {}), k)
        BY <1>1 DEF Ordered, Before, Run
    <2>3. Listed(m, "lock", does, {}, 2) BY <1>1, <2>1, <2>2 DEF Listed
    <2>4. SectorsOk(m, "lock", {}, {}) BY DEF SectorsOk
    <2> QED BY <1>1, <2>3, <2>4, RunIsOk
  <1> QED BY <1>1, <1>2, <1>3, OneRun DEF Erases, Writing

LEMMA PageOk ==
  ASSUME NEW kind \in Erases, NEW asked, NEW n \in asked
  PROVE  RunOk("G0", kind, asked, Run(PageRun, {n}))
  <1>1. \A k \in 1 .. 9 : Ordered("G0", Run(PageRun, {n}), k) BY PageRunOrder
  <1>2. \A k \in 1 .. 9 : PageRun[k] \in AccessesOf("G0", kind)
    <2>1. kind # "unlock" /\ kind # "lock" BY DEF Erases
    <2>2. AccessesOf("G0", kind) =
            {"read_cr", "set_page", "wait", "read_sr", "clear_sr", "start", "poll", "clear_per"}
      BY <2>1 DEF AccessesOf, Erases, Writing
    <2> QED BY <2>2, PageRunIs
  <1>3. \E k \in 1 .. 9 : PageRun[k] = "poll" BY PageRunIs
  <1>4. Len(PageRun) = 9 /\ PageRun \in Seq(Accesses) BY RunTypes, PageRunIs
  <1>5. Listed("G0", kind, PageRun, {n}, 9) BY <1>1, <1>2, <1>3, <1>4 DEF Listed
  <1>6. SectorsOk("G0", kind, asked, {n}) BY DEF SectorsOk
  <1> QED BY <1>4, <1>5, <1>6, RunIsOk

LEMMA EraseSectorBegins ==
  ASSUME NEW m, NEW n \in Nat PROVE Begins(m, "erase_sector", {n}, EraseSector(m, n))
  <1>1. CASE m = "G0"
    <2>1. EraseSector(m, n) = <<Run(PageRun, {n})>> BY <1>1 DEF EraseSector, ErasePage, PageRun
    <2>2. RunOk(m, "erase_sector", {n}, Run(PageRun, {n})) BY <1>1, PageOk DEF Erases
    <2> QED BY <2>1, <2>2, RunTypes, OneRun
  <1>2. CASE m # "G0"
    <2> DEFINE does == <<"read_cr", "set_sector", "start", "poll">>
    <2>1. /\ does \in Seq(Accesses) /\ Len(does) = 4 /\ does[1] = "read_cr"
          /\ does[2] = "set_sector" /\ does[3] = "start" /\ does[4] = "poll"
      BY DEF Accesses
    <2>2. EraseSector(m, n) = <<Run(does, {n})>> BY <1>2 DEF EraseSector
    <2> HIDE DEF does
    <2>3. RunOk(m, "erase_sector", {n}, Run(does, {n}))
      <3>1. \A k \in 1 .. 4 : does[k] \in AccessesOf(m, "erase_sector")
        BY <1>2, <2>1 DEF AccessesOf, Erases, Writing
      <3>2. \A k \in 1 .. 4 : Ordered(m, Run(does, {n}), k)
        BY <1>2, <2>1 DEF Ordered, Before, Run
      <3>3. {n} = {} \/ \E k \in 1 .. 4 : does[k] = "poll" BY <2>1
      <3>4. Listed(m, "erase_sector", does, {n}, 4) BY <2>1, <3>1, <3>2, <3>3 DEF Listed
      <3>5. SectorsOk(m, "erase_sector", {n}, {n}) BY <1>2 DEF SectorsOk
      <3> QED BY <2>1, <3>4, <3>5, RunIsOk
    <2> QED BY <1>2, <2>1, <2>2, <2>3, OneRun
  <1> QED BY <1>1, <1>2

LEMMA EraseAllBegins == ASSUME NEW m PROVE Begins(m, "erase_all", Sectors, EraseAll(m))
  <1>0. NSectors \in Nat \ {0} /\ Sectors \in SUBSET Nat BY FlashAssumption DEF Sectors
  <1>1. CASE m = "G0"
    <2> DEFINE todo == [i \in 1 .. NSectors |-> Run(PageRun, {i - 1})]
    <2>1. EraseAll(m) = todo BY <1>1 DEF EraseAll, ErasePage, PageRun
    <2>2. ASSUME NEW i \in 1 .. NSectors
          PROVE  todo[i] \in RunType /\ RunOk(m, "erase_all", Sectors, todo[i])
      <3>1. i - 1 \in Sectors /\ {i - 1} \in SUBSET Nat BY <1>0 DEF Sectors
      <3>2. RunOk(m, "erase_all", Sectors, Run(PageRun, {i - 1})) BY <1>1, <3>1, PageOk DEF Erases
      <3> QED BY <3>1, <3>2, RunTypes DEF RunType, Run
    <2>3. todo \in Seq(RunType) /\ todo # <<>> /\ DOMAIN todo = 1 .. NSectors BY <1>0, <2>2
    <2>4. ASSUME NEW x \in Sectors PROVE \E i \in DOMAIN todo : x \in todo[i].on
      <3>1. x + 1 \in 1 .. NSectors /\ x + 1 - 1 = x BY <1>0 DEF Sectors
      <3>2. PICK i \in 1 .. NSectors : i = x + 1 BY <3>1
      <3>3. todo[i].on = {i - 1} BY DEF Run
      <3>4. i - 1 = x BY <1>0, <3>1, <3>2 DEF Sectors
      <3>5. x \in todo[i].on BY <3>3, <3>4
      <3> HIDE DEF todo
      <3> QED BY <2>3, <3>5
    <2> HIDE DEF todo
    <2> QED BY <1>1, <2>1, <2>2, <2>3, <2>4 DEF Begins, Single
  <1>2. CASE m # "G0"
    <2> DEFINE does == <<"read_cr", "set_mass", "start", "poll">>
    <2>1. /\ does \in Seq(Accesses) /\ Len(does) = 4 /\ does[1] = "read_cr"
          /\ does[2] = "set_mass" /\ does[3] = "start" /\ does[4] = "poll"
      BY DEF Accesses
    <2>2. EraseAll(m) = <<Run(does, Sectors)>> BY <1>2 DEF EraseAll
    <2> HIDE DEF does
    <2>3. RunOk(m, "erase_all", Sectors, Run(does, Sectors))
      <3>1. \A k \in 1 .. 4 : does[k] \in AccessesOf(m, "erase_all")
        BY <1>2, <2>1 DEF AccessesOf, Erases, Writing
      <3>2. \A k \in 1 .. 4 : Ordered(m, Run(does, Sectors), k)
        BY <1>2, <2>1 DEF Ordered, Before, Run
      <3>3. Sectors = {} \/ \E k \in 1 .. 4 : does[k] = "poll" BY <2>1
      <3>4. Listed(m, "erase_all", does, Sectors, 4) BY <2>1, <3>1, <3>2, <3>3 DEF Listed
      <3>5. SectorsOk(m, "erase_all", Sectors, Sectors) BY <1>2 DEF SectorsOk
      <3> QED BY <2>1, <3>4, <3>5, RunIsOk
    <2> QED BY <1>0, <1>2, <2>1, <2>2, <2>3, OneRun
  <1> QED BY <1>1, <1>2

LEMMA WriteBegins ==
  ASSUME NEW m, NEW w \in Nat PROVE Begins(m, "write", {w}, WriteFlash(m, w))
  <1>1. CASE m = "G0"
    <2>1. WriteFlash(m, w) = <<Run(WriteRmw, {w})>> BY <1>1 DEF WriteFlash
    <2>2. \A k \in 1 .. 12 : WriteRmw[k] \in AccessesOf(m, "write")
      BY <1>1, RmwIs DEF AccessesOf, Erases, Writing
    <2>3. \A k \in 1 .. 12 : Ordered(m, Run(WriteRmw, {w}), k) BY <1>1, RmwOrder
    <2>4. \E k \in 1 .. 12 : WriteRmw[k] = "poll" BY RmwIs
    <2>5. Listed(m, "write", WriteRmw, {w}, 12) BY <2>2, <2>3, <2>4, RmwIs DEF Listed
    <2>6. SectorsOk(m, "write", {w}, {w}) BY DEF SectorsOk
    <2>7. RunOk(m, "write", {w}, Run(WriteRmw, {w})) BY <2>5, <2>6, RunTypes, RunIsOk
    <2> QED BY <2>1, <2>7, RunTypes, OneRun
  <1>2. CASE m # "G0"
    <2> DEFINE does == <<"read_cr", "data">> \o ExecuteProgram
    <2>1. /\ Len(does) = 4 /\ does[1] = "read_cr" /\ does[2] = "data" /\ does[3] = "set_pg"
          /\ does[4] = "poll"
      BY DEF ExecuteProgram
    <2>2. does \in Seq(Accesses)
      <3>1. <<"read_cr", "data">> \in Seq(Accesses) /\ ExecuteProgram \in Seq(Accesses)
        BY DEF Accesses, ExecuteProgram
      <3> QED BY <3>1, ConcatProperties
    <2>3. WriteFlash(m, w) = <<Run(does, {w})>> BY <1>2 DEF WriteFlash
    <2> HIDE DEF does
    <2>4. \A k \in 1 .. 4 : does[k] \in AccessesOf(m, "write")

        BY <1>2, <2>1 DEF AccessesOf, Erases, Writing
    <2>5. \A k \in 1 .. 4 : Ordered(m, Run(does, {w}), k) BY <1>2, <2>1 DEF Ordered, Before, Run
    <2>6. \E k \in 1 .. 4 : does[k] = "poll" BY <2>1
    <2>7. Listed(m, "write", does, {w}, 4) BY <2>1, <2>4, <2>5, <2>6 DEF Listed
    <2>8. SectorsOk(m, "write", {w}, {w}) BY DEF SectorsOk
    <2>9. RunOk(m, "write", {w}, Run(does, {w})) BY <2>2, <2>7, <2>8, RunIsOk
    <2> QED BY <2>2, <2>3, <2>9, OneRun
  <1> QED BY <1>1, <1>2

\* The runs of a block on an STM32F4.
LEMMA IncOffOk ==
  ASSUME NEW asked PROVE RunOk("F4", "write_bulk", asked, Run(<<"inc_off">>, {}))
  <1> DEFINE does == <<"inc_off">>
  <1>1. does \in Seq(Accesses) /\ Len(does) = 1 /\ does[1] = "inc_off" BY DEF Accesses
  <1> HIDE DEF does
  <1>2. \A k \in 1 .. 1 : does[k] \in AccessesOf("F4", "write_bulk")
    BY <1>1 DEF AccessesOf, Erases, Writing
  <1>3. \A k \in 1 .. 1 : Ordered("F4", Run(does, {}), k) BY <1>1 DEF Ordered, Before, Run
  <1>4. Listed("F4", "write_bulk", does, {}, 1) BY <1>1, <1>2, <1>3 DEF Listed
  <1>5. SectorsOk("F4", "write_bulk", asked, {}) BY DEF SectorsOk
  <1> QED BY <1>1, <1>4, <1>5, RunIsOk DEF does

LEMMA IncOnOk ==
  ASSUME NEW asked
  PROVE  RunOk("F4", "write_bulk", asked, Run(<<"inc_on", "read_cr", "set_pg">>, {}))
  <1> DEFINE does == <<"inc_on", "read_cr", "set_pg">>
  <1>1. /\ does \in Seq(Accesses) /\ Len(does) = 3
        /\ does[1] = "inc_on" /\ does[2] = "read_cr" /\ does[3] = "set_pg"
    BY DEF Accesses
  <1> HIDE DEF does
  <1>2. \A k \in 1 .. 3 : does[k] \in AccessesOf("F4", "write_bulk")
    BY <1>1 DEF AccessesOf, Erases, Writing
  <1>3. \A k \in 1 .. 3 : Ordered("F4", Run(does, {}), k) BY <1>1 DEF Ordered, Before, Run
  <1>4. Listed("F4", "write_bulk", does, {}, 3) BY <1>1, <1>2, <1>3 DEF Listed
  <1>5. SectorsOk("F4", "write_bulk", asked, {}) BY DEF SectorsOk
  <1> QED BY <1>1, <1>4, <1>5, RunIsOk DEF does

LEMMA WordOk ==
  ASSUME NEW asked, NEW w \in asked
  PROVE  RunOk("F4", "write_bulk", asked, Run(ProgramWord, {w}))
  <1>1. /\ ProgramWord \in Seq(Accesses) /\ Len(ProgramWord) = 2
        /\ ProgramWord[1] = "data" /\ ProgramWord[2] = "poll"
    BY DEF Accesses, ProgramWord
  <1>2. \A k \in 1 .. 2 : ProgramWord[k] \in AccessesOf("F4", "write_bulk")
    BY <1>1 DEF AccessesOf, Erases, Writing
  <1>3. \A k \in 1 .. 2 : Ordered("F4", Run(ProgramWord, {w}), k) BY <1>1 DEF Ordered, Before, Run
  <1>4. \E k \in 1 .. 2 : ProgramWord[k] = "poll" BY <1>1
  <1>5. Listed("F4", "write_bulk", ProgramWord, {w}, 2) BY <1>1, <1>2, <1>3, <1>4 DEF Listed
  <1>6. SectorsOk("F4", "write_bulk", asked, {w}) BY DEF SectorsOk
  <1> QED BY <1>1, <1>5, <1>6, RunIsOk

\* Runs for each target between two that are for none.
LEMMA EnclosedBegins ==
  ASSUME NEW asked, NEW n \in Nat, NEW first \in RunType, NEW last \in RunType,
         NEW words \in Seq(RunType), Len(words) = n,
         RunOk("F4", "write_bulk", asked, first), RunOk("F4", "write_bulk", asked, last),
         \A i \in 1 .. n : RunOk("F4", "write_bulk", asked, words[i]),
         \A x \in asked : \E i \in 1 .. n : x \in words[i].on
  PROVE  Begins("F4", "write_bulk", asked, <<first>> \o words \o <<last>>)
  <1>0. PICK t : t = <<first>> \o words \o <<last>> OBVIOUS
  <1>1. /\ t \in Seq(RunType) /\ Len(t) = n + 2
        /\ t[1] = first /\ t[n + 2] = last
        /\ \A i \in 1 .. n : t[i + 1] = words[i]
    BY <1>0, Enclosed
  <1>2. DOMAIN t = 1 .. n + 2 /\ t # <<>> BY <1>1
  <1>3. ASSUME NEW i \in DOMAIN t PROVE RunOk("F4", "write_bulk", asked, t[i])
    <2>1. i = 1 \/ i - 1 \in 1 .. n \/ i = n + 2 BY <1>2
    <2>2. CASE i = 1 BY <1>1, <2>2
    <2>3. CASE i = n + 2 BY <1>1, <2>3
    <2>4. CASE i - 1 \in 1 .. n
      <3>1. PICK j \in 1 .. n : j = i - 1 BY <2>4
      <3>2. i = j + 1 BY <1>2, <3>1
      <3>3. t[i] = words[j] BY <1>1, <3>2
      <3> QED BY <3>3
    <2> QED BY <2>1, <2>2, <2>3, <2>4
  <1>4. ASSUME NEW x \in asked PROVE \E i \in DOMAIN t : x \in t[i].on
    <2>1. PICK j \in 1 .. n : x \in words[j].on OBVIOUS
    <2>2. j + 1 \in DOMAIN t BY <1>2
    <2>3. t[j + 1] = words[j] BY <1>1
    <2> QED BY <2>1, <2>2, <2>3
  <1>5. Begins("F4", "write_bulk", asked, t) BY <1>1, <1>2, <1>3, <1>4 DEF Begins, Single, Erases
  <1> QED BY <1>0, <1>5

LEMMA BulkF4Begins ==
  ASSUME NEW a \in Nat, NEW n \in Nat \ {0}
  PROVE  Begins("F4", "write_bulk", a .. a + n - 1, BulkF4(a, n))
  <1> DEFINE asked == a .. a + n - 1
  <1>1. PICK first : first = Run(<<"inc_on", "read_cr", "set_pg">>, {}) OBVIOUS
  <1>2. PICK last : last = Run(<<"inc_off">>, {}) OBVIOUS
  <1>3. PICK words : words = [i \in 1 .. n |-> Run(ProgramWord, {a + i - 1})] OBVIOUS
  <1>4. first \in RunType /\ last \in RunType
    <2>1. <<"inc_on", "read_cr", "set_pg">> \in Seq(Accesses) /\ <<"inc_off">> \in Seq(Accesses)
      BY DEF Accesses
    <2> QED BY <1>1, <1>2, <2>1 DEF Run, RunType
  <1>5. ASSUME NEW i \in 1 .. n
        PROVE  /\ words[i] \in RunType /\ words[i].on = {a + i - 1}
               /\ RunOk("F4", "write_bulk", asked, words[i])
    <2>1. a + i - 1 \in asked /\ {a + i - 1} \in SUBSET Nat OBVIOUS
    <2>2. RunOk("F4", "write_bulk", asked, Run(ProgramWord, {a + i - 1})) BY <2>1, WordOk
    <2> QED BY <1>3, <2>1, <2>2, RunTypes DEF Run, RunType
  <1>6. words \in Seq(RunType) /\ Len(words) = n
    <2>1. words \in [1 .. n -> RunType] BY <1>3, <1>5
    <2> QED BY <2>1, Tabled
  <1>7. RunOk("F4", "write_bulk", asked, first) /\ RunOk("F4", "write_bulk", asked, last)
    BY <1>1, <1>2, IncOnOk, IncOffOk
  <1>8. ASSUME NEW x \in asked PROVE \E i \in 1 .. n : x \in words[i].on
    <2>1. PICK i \in 1 .. n : i = x - a + 1 OBVIOUS
    <2>2. x = a + i - 1 BY <2>1
    <2> QED BY <1>5, <2>2
  <1>9. BulkF4(a, n) = <<first>> \o words \o <<last>> BY <1>1, <1>2, <1>3 DEF BulkF4
  <1> HIDE DEF asked
  <1>10. Begins("F4", "write_bulk", asked, <<first>> \o words \o <<last>>)
    BY <1>4, <1>5, <1>6, <1>7, <1>8, EnclosedBegins
  <1> QED BY <1>9, <1>10 DEF asked

LEMMA Halves ==
  ASSUME NEW x \in Nat PROVE x \div 2 \in Nat /\ (x = 2 * (x \div 2) \/ x = 2 * (x \div 2) + 1)
  OBVIOUS

\* The runs of a block on an STM32G0.
LEMMA PairOk ==
  ASSUME NEW asked, NEW on \in SUBSET asked, NEW does \in {ProgramDoubleword, WriteRmw}
  PROVE  RunOk("G0", "write_bulk", asked, Run(does, on))
  <1>1. SectorsOk("G0", "write_bulk", asked, on) BY DEF SectorsOk
  <1>2. CASE does = ProgramDoubleword
    <2>1. \A k \in 1 .. 10 : does[k] \in AccessesOf("G0", "write_bulk")
      BY <1>2, DoublewordIs DEF AccessesOf, Erases, Writing
    <2>2. \A k \in 1 .. 10 : Ordered("G0", Run(does, on), k) BY <1>2, DoublewordOrder
    <2>3. \E k \in 1 .. 10 : does[k] = "poll" BY <1>2, DoublewordIs
    <2>4. Listed("G0", "write_bulk", does, on, 10) BY <1>2, <2>1, <2>2, <2>3, DoublewordIs DEF Listed
    <2> QED BY <1>1, <1>2, <2>4, RunTypes, RunIsOk
  <1>3. CASE does = WriteRmw
    <2>1. \A k \in 1 .. 12 : does[k] \in AccessesOf("G0", "write_bulk")
      BY <1>3, RmwIs DEF AccessesOf, Erases, Writing
    <2>2. \A k \in 1 .. 12 : Ordered("G0", Run(does, on), k) BY <1>3, RmwOrder
    <2>3. \E k \in 1 .. 12 : does[k] = "poll" BY <1>3, RmwIs
    <2>4. Listed("G0", "write_bulk", does, on, 12) BY <1>3, <2>1, <2>2, <2>3, RmwIs DEF Listed
    <2> QED BY <1>1, <1>3, <2>4, RunTypes, RunIsOk
  <1> QED BY <1>2, <1>3

LEMMA BulkG0Begins ==
  ASSUME NEW a \in Nat, NEW n \in Nat \ {0}
  PROVE  Begins("G0", "write_bulk", a .. a + n - 1, BulkG0(a, n))
  <1>1. PICK block : block = a .. a + n - 1 OBVIOUS
  <1>2. PICK first \in Nat : first = a \div 2 /\ (a = 2 * first \/ a = 2 * first + 1) BY Halves
  <1>3. PICK z \in Nat : z = a + n - 1 OBVIOUS
  <1>4. PICK last \in Nat : last = z \div 2 /\ (z = 2 * last \/ z = 2 * last + 1) BY Halves
  <1>5. PICK c \in Nat \ {0} : c = last - first + 1
    <2>1. last >= first BY <1>2, <1>3, <1>4
    <2> QED BY <2>1
  <1> DEFINE pair(i) == {2 * (first + i - 1), 2 * (first + i - 1) + 1}
             does(i) == IF pair(i) \subseteq block THEN ProgramDoubleword ELSE WriteRmw
  <1>6. PICK todo : todo = [i \in 1 .. c |-> Run(does(i), pair(i) \cap block)] OBVIOUS
  <1>7. BulkG0(a, n) = todo
    <2>1. (a + n - 1) \div 2 - first + 1 = c BY <1>3, <1>4, <1>5
    <2> QED BY <1>1, <1>2, <1>6, <2>1 DEF BulkG0
  <1>8. block \subseteq Nat BY <1>1
  <1>9. ASSUME NEW i \in 1 .. c
        PROVE  /\ todo[i].on = pair(i) \cap block /\ todo[i] \in RunType
               /\ RunOk("G0", "write_bulk", block, todo[i])
    <2>1. does(i) \in {ProgramDoubleword, WriteRmw} OBVIOUS
    <2>2. pair(i) \cap block \in SUBSET block OBVIOUS
    <2>3. does(i) \in Seq(Accesses) /\ pair(i) \cap block \in SUBSET Nat BY <1>8, <2>1, RunTypes
    <2>4. todo[i] = Run(does(i), pair(i) \cap block) BY <1>6
    <2> HIDE DEF does, pair
    <2>5. RunOk("G0", "write_bulk", block, Run(does(i), pair(i) \cap block)) BY <2>1, <2>2, PairOk
    <2> QED BY <2>3, <2>4, <2>5 DEF Run, RunType
  <1>10. todo \in Seq(RunType) /\ Len(todo) = c
    <2>1. todo \in [1 .. c -> RunType] BY <1>6, <1>9
    <2> QED BY <2>1, Tabled
  <1>11. DOMAIN todo = 1 .. c /\ todo # <<>> BY <1>10
  <1>12. ASSUME NEW x \in block PROVE \E i \in 1 .. c : x \in todo[i].on
    <2>1. x \in Nat /\ a <= x /\ x <= z BY <1>1, <1>3
    <2>2. PICK h \in Nat : x = 2 * h \/ x = 2 * h + 1 BY <2>1, Halves
    <2>3. first <= h /\ h <= last BY <1>2, <1>4, <2>1, <2>2
    <2>4. PICK i \in 1 .. c : i = h - first + 1 BY <1>5, <2>3
    <2>5. first + i - 1 = h BY <2>4
    <2>6. x \in pair(i) BY <2>2, <2>5
    <2> HIDE DEF pair, does
    <2> QED BY <1>9, <2>6
  <1> HIDE DEF pair, does
  <1> QED BY <1>1, <1>7, <1>9, <1>10, <1>11, <1>12 DEF Begins, Single, Erases

-----------------------------------------------------------------------------
(* A step of an operation: what its access d makes of the controller and   *)
(* of the copy of CR, and how the operation goes on.                       *)

Setting == {"set_page", "set_sector", "set_mass", "set_pg", "clear_pg", "clear_per", "set_lock"}

NewCr(d) ==
  CASE d = "read_cr" -> fl.cr
    [] d = "set_page" -> [op.cr EXCEPT !.ser = TRUE, !.snb = BitsOn(On)]
    [] d = "set_sector" -> [op.cr EXCEPT !.ser = TRUE, !.snb = @ \cup Field(On)]
    [] d = "set_mass" -> [op.cr EXCEPT !.mer = TRUE]
    [] d = "set_pg" -> [op.cr EXCEPT !.pg = TRUE]
    [] d = "clear_pg" -> [op.cr EXCEPT !.pg = FALSE]
    [] d = "clear_per" -> [op.cr EXCEPT !.ser = FALSE]
    [] d = "set_lock" -> [op.cr EXCEPT !.lock = TRUE]
    [] OTHER -> op.cr

Effect(d) ==
  CASE d \in Setting -> {WriteCr(fl, NewCr(d))}
    [] d = "start" -> StartErase(fl, op.cr)
    [] d = "key1" -> Key1(fl)
    [] d = "key2" -> Key2(fl)
    [] d = "clear_sr" -> {[fl EXCEPT !.err = "none"]}
    [] d = "data" -> WriteWord(fl, On)
    [] d = "low" -> WriteLow(fl)
    [] d = "high" -> WriteHigh(fl, On)
    [] OTHER -> {fl}

\* What is known when the access ends well.
Allowed(d) ==
  /\ d = "poll" => fl.err = "none" /\ ~Busy
  /\ d = "wait" => ~Busy
  /\ d = "check_lock" => fl.cr.lock

SameAim ==
  /\ op'.kind = op.kind /\ op'.asked = op.asked /\ op'.done = op.done /\ op'.reset = op.reset
  /\ op'.clean = op.clean /\ op'.open = op.open /\ op'.blank = op.blank

Goes(cr) ==
  /\ SameAim /\ op'.res = op.res /\ op'.own = op.own /\ op'.cr = cr
  /\ \/ /\ op.at < Len(Head(op.todo).does)
        /\ op'.todo = op.todo /\ op'.at = op.at + 1
     \/ /\ op.at = Len(Head(op.todo).does)
        /\ op'.todo = Tail(op.todo) /\ op'.at = 1

Ends(res) ==
  SameAim /\ op'.todo = <<>> /\ op'.at = 1 /\ op'.cr = op.cr /\ op'.own = op.own /\ op'.res = res

Errs ==
  /\ SameAim /\ op'.todo = CleanUp /\ op'.at = 1 /\ op'.cr = op.cr
  /\ op'.res = "FlashError" /\ op'.own = (fl.err = "own")

StepForm(d) ==
  \/ op' = op /\ fl' = fl
  \/ fl' \in Effect(d) /\ Allowed(d) /\ Goes(NewCr(d))
  \/ fl' \in Effect(d) \cup {fl} /\ Cleaning /\ Goes(op.cr)
  \/ fl' \in Effect(d) \cup {fl} /\ Ends("Access")
  \/ d = "check_lock" /\ ~fl.cr.lock /\ fl' = fl /\ Ends(op.res)
  \/ d = "poll" /\ fl.err # "none" /\ fl' = fl /\ Errs

LEMMA HeadFacts ==
  ASSUME FlashTypes, Shape, op.todo # <<>>
  PROVE  /\ Len(op.todo) \in Nat \ {0} /\ Head(op.todo) = op.todo[1] /\ 1 \in DOMAIN op.todo
         /\ Head(op.todo).does \in Seq(Accesses) /\ On \in SUBSET Nat
         /\ op.at \in 1 .. Len(Head(op.todo).does) /\ Len(Head(op.todo).does) \in Nat
         /\ RunOk(mcu, op.kind, op.asked, Head(op.todo))
  <1>1. op.todo \in Seq(RunType) BY DEF FlashTypes, OpType
  <1>2. /\ Len(op.todo) \in Nat \ {0} /\ Head(op.todo) = op.todo[1] /\ 1 \in DOMAIN op.todo
        /\ op.todo[1] \in RunType
    BY <1>1
  <1>3. Head(op.todo).does \in Seq(Accesses) /\ On \in SUBSET Nat BY <1>2 DEF RunType, On
  <1>4. Len(Head(op.todo).does) \in Nat /\ DOMAIN Head(op.todo).does = 1 .. Len(Head(op.todo).does)
    BY <1>3, LenProperties
  <1> QED BY <1>2, <1>3, <1>4 DEF Shape

LEMMA LeavesType ==
  ASSUME op \in OpType, NEW t \in Seq(RunType), NEW c \in CrType,
         op' = [op EXCEPT !.todo = t, !.at = 1, !.cr = c]
  PROVE  op' \in OpType
  BY DEF OpType

LEMMA EndsType ==
  ASSUME op \in OpType, NEW t \in Seq(RunType), NEW r \in {"Ok", "Access", "FlashError"},
         op' = [op EXCEPT !.todo = t, !.at = 1, !.res = r]
  PROVE  op' \in OpType
  BY DEF OpType

LEMMA UnlockedType ==
  ASSUME op \in OpType, NEW t \in Seq(RunType), op' = [op EXCEPT !.todo = t, !.at = 1]
  PROVE  op' \in OpType
  BY DEF OpType

LEMMA ErrsType ==
  ASSUME op \in OpType, NEW t \in Seq(RunType), NEW w \in BOOLEAN,
         op' = [op EXCEPT !.todo = t, !.at = 1, !.res = "FlashError", !.own = w]
  PROVE  op' \in OpType
  BY DEF OpType

LEMMA AdvanceIs ==
  ASSUME FlashTypes, Shape, op.todo # <<>>, NEW c \in CrType, op' = [Advance EXCEPT !.cr = c]
  PROVE  Goes(c) /\ op' \in OpType
  <1>1. /\ op.at \in 1 .. Len(Head(op.todo).does) /\ Len(Head(op.todo).does) \in Nat
    BY HeadFacts
  <1>2. op \in OpType BY DEF FlashTypes
  <1>3. CASE op.at < Len(Head(op.todo).does)
    <2>1. op' = [op EXCEPT !.at = op.at + 1, !.cr = c] BY <1>2, <1>3 DEF Advance, OpType
    <2>2. op.at + 1 \in Nat BY <1>1
    <2>3. op' \in OpType BY <1>2, <2>1, <2>2 DEF OpType
    <2> QED BY <1>2, <1>3, <2>1, <2>3 DEF Goes, SameAim, OpType
  <1>4. CASE op.at = Len(Head(op.todo).does)
    <2>0. ~(op.at < Len(Head(op.todo).does)) BY <1>1, <1>4
    <2>1. op' = [op EXCEPT !.todo = Tail(op.todo), !.at = 1, !.cr = c]
      BY <1>2, <2>0 DEF Advance, OpType
    <2>2. Tail(op.todo) \in Seq(RunType) BY <1>2 DEF OpType
    <2>3. op' \in OpType
      <3>1. PICK t : t = Tail(op.todo) OBVIOUS
      <3>2. t \in Seq(RunType) /\ op' = [op EXCEPT !.todo = t, !.at = 1, !.cr = c]
        BY <2>1, <2>2, <3>1
      <3> QED BY <1>2, <3>2, LeavesType
    <2> QED BY <1>2, <1>4, <2>1, <2>3 DEF Goes, SameAim, OpType
  <1> QED BY <1>1, <1>3, <1>4

LEMMA AdvanceOnly == ASSUME FlashTypes PROVE Advance = [Advance EXCEPT !.cr = op.cr]
  BY DEF FlashTypes, OpType, Advance

LEMMA FailedIs ==
  ASSUME FlashTypes, Shape, op.todo # <<>>, op' = Failed
  PROVE  /\ op' \in OpType
         /\ (Cleaning /\ Goes(op.cr)) \/ Ends("Access")
  <1>1. op \in OpType BY DEF FlashTypes
  <1>2. CASE Cleaning
    <2>1. op.cr \in CrType BY <1>1 DEF OpType
    <2>2. op' = [Advance EXCEPT !.cr = op.cr] BY <1>2, AdvanceOnly DEF Failed
    <2> QED BY <1>2, <2>1, <2>2, AdvanceIs
  <1>3. CASE ~Cleaning
    <2>1. op' = [op EXCEPT !.todo = <<>>, !.at = 1, !.res = "Access"]
      BY <1>1, <1>3 DEF Failed, Goto, OpType
    <2>2. <<>> \in Seq(RunType) BY EmptySeq
    <2>3. op' \in OpType
      <3>1. PICK t : t = <<>> OBVIOUS
      <3>2. t \in Seq(RunType) /\ op' = [op EXCEPT !.todo = t, !.at = 1, !.res = "Access"]
        BY <2>1, <2>2, <3>1
      <3> QED BY <1>1, <3>2, EndsType
    <2> QED BY <1>1, <2>1, <2>3 DEF Ends, SameAim, OpType
  <1> QED BY <1>2, <1>3

\* Which operations on which MCU make an access.
LEMMA AtFacts ==
  ASSUME FlashTypes, Shape, op.todo # <<>>, NEW d, At(d)
  PROVE  /\ d = Head(op.todo).does[op.at] /\ Ordered(mcu, Head(op.todo), op.at)
         /\ d \in AccessesOf(mcu, op.kind) /\ mcu \in {"F4", "G0"}
  BY HeadFacts DEF At, RunOk, Shape

LEMMA WhoseAccess ==
  ASSUME NEW m \in {"F4", "G0"}, NEW kind \in Kinds, NEW d \in AccessesOf(m, kind)
  PROVE  /\ d \in {"start", "set_page", "set_sector", "set_mass", "clear_per"} => kind \in Erases
         /\ d \in {"data", "low", "high", "set_pg", "clear_pg", "inc_on", "inc_off"} => kind \in Writing
         /\ d \in {"check_lock", "key1", "key2"} => kind = "unlock"
         /\ d = "set_lock" => kind = "lock"
         /\ d = "poll" => kind \in Erases \cup Writing
         /\ d \in {"wait", "read_sr", "clear_sr", "low", "high", "clear_pg", "set_page", "clear_per"} => m = "G0"
         /\ d \in {"set_sector", "set_mass", "data"} => m = "F4"
         /\ d = "set_sector" => kind = "erase_sector"
         /\ d = "set_mass" => kind = "erase_all"
         /\ d \in Accesses
  BY DEF AccessesOf, Erases, Writing, Kinds, Accesses

LEMMA NewCrType ==
  ASSUME FlashTypes, Shape, op.todo # <<>>, NEW d, At(d)
  PROVE  NewCr(d) \in CrType
  <1>1. fl.cr \in CrType /\ op.cr \in CrType BY DEF FlashTypes, FlType, OpType
  <1>2. Field(On) \subseteq Bits BY DEF Field
  <1>3. d = "set_page" => BitsOn(On) \subseteq Bits
    <2>1. SUFFICES ASSUME d = "set_page" PROVE BitsOn(On) \subseteq Bits OBVIOUS
    <2>2. op.kind \in Kinds BY DEF FlashTypes, OpType
    <2>3. op.kind \in Erases /\ mcu = "G0" BY <2>1, <2>2, AtFacts, WhoseAccess
    <2>4. On \subseteq Sectors BY <2>3, HeadFacts DEF Shape, RunOk, On
    <2>5. \A n \in Sectors : BitsOf[n] \subseteq Bits BY FlashAssumption
    <2> QED BY <2>4, <2>5 DEF BitsOn
  <1>4. CASE d = "read_cr" BY <1>1, <1>4 DEF NewCr
  <1>5. CASE d = "set_page" BY <1>1, <1>3, <1>5 DEF NewCr, CrType
  <1>6. CASE d = "set_sector" BY <1>1, <1>2, <1>6 DEF NewCr, CrType
  <1>7. CASE d \in {"set_mass", "set_pg", "clear_pg", "clear_per", "set_lock"}
    BY <1>1, <1>7 DEF NewCr, CrType
  <1>8. CASE d \notin {"read_cr", "set_page", "set_sector", "set_mass", "set_pg", "clear_pg",
                       "clear_per", "set_lock"}
    BY <1>1, <1>8 DEF NewCr
  <1> QED BY <1>4, <1>5, <1>6, <1>7, <1>8

LEMMA SucceedsIs ==
  ASSUME FlashTypes, Shape, op.todo # <<>>, NEW d, At(d), op' = [Advance EXCEPT !.cr = NewCr(d)]
  PROVE  Goes(NewCr(d)) /\ op' \in OpType
  BY NewCrType, AdvanceIs

LEMMA SetCrForm ==
  ASSUME FlashTypes, Shape, NEW d \in Setting, SetCr(d, NewCr(d))
  PROVE  /\ At(d) /\ op.todo # <<>> /\ StepForm(d) /\ op' \in OpType /\ UNCHANGED <<mcu, used>>
  <1>1. At(d) /\ op.todo # <<>> /\ UNCHANGED <<mcu, used>> BY DEF SetCr, Writes, At
  <1>2. Effect(d) = {WriteCr(fl, NewCr(d))} BY DEF Effect, Setting
  <1>3. Allowed(d) BY DEF Allowed, Setting
  <1>4. CASE fl' \in Effect(d) /\ op' = [Advance EXCEPT !.cr = NewCr(d)]
    BY <1>1, <1>3, <1>4, SucceedsIs DEF StepForm
  <1>5. CASE fl' \in Effect(d) \cup {fl} /\ op' = Failed BY <1>1, <1>5, FailedIs DEF StepForm
  <1> QED BY <1>1, <1>2, <1>4, <1>5 DEF SetCr, Writes

\* Accesses that leave the copy of CR alone.
LEMMA WritesForm ==
  ASSUME FlashTypes, Shape, NEW d, At(d), Writes(Effect(d), Advance), NewCr(d) = op.cr, Allowed(d)
  PROVE  /\ op.todo # <<>> /\ StepForm(d) /\ op' \in OpType /\ UNCHANGED <<mcu, used>>
  <1>1. op.todo # <<>> /\ UNCHANGED <<mcu, used>> BY DEF Writes, At
  <1>2. Advance = [Advance EXCEPT !.cr = NewCr(d)] BY AdvanceOnly
  <1>3. CASE fl' \in Effect(d) /\ op' = Advance BY <1>1, <1>2, <1>3, SucceedsIs DEF StepForm
  <1>4. CASE fl' \in Effect(d) \cup {fl} /\ op' = Failed BY <1>1, <1>4, FailedIs DEF StepForm
  <1> QED BY <1>1, <1>3, <1>4 DEF Writes

LEMMA ReadsForm ==
  ASSUME FlashTypes, Shape, NEW d, At(d), Reads([Advance EXCEPT !.cr = NewCr(d)]), Effect(d) = {fl},
         Allowed(d)
  PROVE  /\ op.todo # <<>> /\ StepForm(d) /\ op' \in OpType /\ UNCHANGED <<mcu, used>>
  <1>1. op.todo # <<>> /\ UNCHANGED <<mcu, used>> /\ fl' = fl BY DEF Reads, At
  <1>2. CASE op' = [Advance EXCEPT !.cr = NewCr(d)]
    BY <1>1, <1>2, SucceedsIs DEF StepForm
  <1>3. CASE op' = Failed BY <1>1, <1>3, FailedIs DEF StepForm
  <1> QED BY <1>1, <1>2, <1>3 DEF Reads

\* An operation that polls, or finds what it asks for.
LEMMA StaysForm ==
  ASSUME FlashTypes, Shape, NEW d, At(d), Reads(op)
  PROVE  /\ op.todo # <<>> /\ StepForm(d) /\ op' \in OpType /\ UNCHANGED <<mcu, used>>
  <1>1. op.todo # <<>> /\ UNCHANGED <<mcu, used>> /\ fl' = fl BY DEF Reads, At
  <1>2. CASE op' = op BY <1>1, <1>2 DEF StepForm, FlashTypes
  <1>3. CASE op' = Failed BY <1>1, <1>3, FailedIs DEF StepForm
  <1> QED BY <1>1, <1>2, <1>3 DEF Reads

LEMMA UnlockedForm ==
  ASSUME FlashTypes, Shape, At("check_lock"), ~fl.cr.lock, Reads(Goto(<<>>))
  PROVE  /\ op.todo # <<>> /\ StepForm("check_lock") /\ op' \in OpType /\ UNCHANGED <<mcu, used>>
  <1>1. op.todo # <<>> /\ UNCHANGED <<mcu, used>> /\ fl' = fl BY DEF Reads, At
  <1>2. CASE op' = Goto(<<>>)
    <2>1. op' = [op EXCEPT !.todo = <<>>, !.at = 1] BY <1>2 DEF Goto
    <2>2. op \in OpType BY DEF FlashTypes
    <2>3. op' \in OpType
      <3>1. PICK t : t = <<>> OBVIOUS
      <3>2. t \in Seq(RunType) /\ op' = [op EXCEPT !.todo = t, !.at = 1] BY <2>1, <3>1, EmptySeq
      <3> QED BY <2>2, <3>2, UnlockedType
    <2>4. Ends(op.res) BY <2>1, <2>2 DEF Ends, SameAim, OpType
    <2> QED BY <1>1, <2>3, <2>4 DEF StepForm
  <1>3. CASE op' = Failed BY <1>1, <1>3, FailedIs DEF StepForm
  <1> QED BY <1>1, <1>2, <1>3 DEF Reads

LEMMA CleanUpType == CleanUp \in Seq(RunType)
  <1>1. <<"inc_off">> \in Seq(Accesses) /\ <<"read_cr", "clear_pg">> \in Seq(Accesses) BY DEF Accesses
  <1>2. Run(<<"inc_off">>, {}) \in RunType /\ Run(<<"read_cr", "clear_pg">>, {}) \in RunType
    BY <1>1 DEF Run, RunType
  <1>3. /\ <<Run(<<"inc_off">>, {})>> \in Seq(RunType) /\ <<Run(<<"read_cr", "clear_pg">>, {})>> \in Seq(RunType)
        /\ <<>> \in Seq(RunType)
    BY <1>2
  <1> QED BY <1>3, Zenon DEF CleanUp

LEMMA ErrsForm ==
  ASSUME FlashTypes, Shape, At("poll"), fl.err # "none",
         Reads([Goto(CleanUp) EXCEPT !.res = "FlashError", !.own = (fl.err = "own")])
  PROVE  /\ op.todo # <<>> /\ StepForm("poll") /\ op' \in OpType /\ UNCHANGED <<mcu, used>>
  <1>1. op.todo # <<>> /\ UNCHANGED <<mcu, used>> /\ fl' = fl BY DEF Reads, At
  <1>2. CASE op' = [Goto(CleanUp) EXCEPT !.res = "FlashError", !.own = (fl.err = "own")]
    <2>1. PICK w \in BOOLEAN : w = (fl.err = "own") OBVIOUS
    <2>2. PICK t : t = CleanUp OBVIOUS
    <2>3. op \in OpType BY DEF FlashTypes
    <2>4. op' = [op EXCEPT !.todo = t, !.at = 1, !.res = "FlashError", !.own = w]
      BY <1>2, <2>1, <2>2, <2>3 DEF Goto, OpType
    <2>5. op' \in OpType BY <2>2, <2>3, <2>4, CleanUpType, ErrsType
    <2>6. Errs BY <2>1, <2>2, <2>3, <2>4 DEF Errs, SameAim, OpType
    <2> QED BY <1>1, <2>5, <2>6 DEF StepForm
  <1>3. CASE op' = Failed BY <1>1, <1>3, FailedIs DEF StepForm
  <1> QED BY <1>1, <1>2, <1>3 DEF Reads

LEMMA StepForms ==
  ASSUME FlashTypes, Shape, Step
  PROVE  /\ op.todo # <<>> /\ op' \in OpType /\ UNCHANGED <<mcu, used>>
         /\ \E d : At(d) /\ StepForm(d)
  <1> DEFINE Form(d) == At(d) /\ op.todo # <<>> /\ StepForm(d) /\ op' \in OpType /\ UNCHANGED <<mcu, used>>
  <1>1. CASE ReadCr
    <2>1. NewCr("read_cr") = fl.cr /\ Effect("read_cr") = {fl} /\ Allowed("read_cr")
      BY DEF NewCr, Effect, Allowed, Setting
    <2>2. At("read_cr") /\ Reads([Advance EXCEPT !.cr = NewCr("read_cr")]) BY <1>1, <2>1 DEF ReadCr
    <2>3. Form("read_cr") BY <2>1, <2>2, ReadsForm
    <2> QED BY <2>3
  <1>2. CASE SetPage
    <2>1. SetCr("set_page", NewCr("set_page")) BY <1>2 DEF SetPage, NewCr
    <2>2. Form("set_page") BY <2>1, SetCrForm DEF Setting
    <2> QED BY <2>2
  <1>3. CASE SetSector
    <2>1. SetCr("set_sector", NewCr("set_sector")) BY <1>3 DEF SetSector, NewCr
    <2>2. Form("set_sector") BY <2>1, SetCrForm DEF Setting
    <2> QED BY <2>2
  <1>4. CASE SetMass
    <2>1. SetCr("set_mass", NewCr("set_mass")) BY <1>4 DEF SetMass, NewCr
    <2>2. Form("set_mass") BY <2>1, SetCrForm DEF Setting
    <2> QED BY <2>2
  <1>5. CASE SetPg
    <2>1. SetCr("set_pg", NewCr("set_pg")) BY <1>5 DEF SetPg, NewCr
    <2>2. Form("set_pg") BY <2>1, SetCrForm DEF Setting
    <2> QED BY <2>2
  <1>6. CASE ClearPg
    <2>1. SetCr("clear_pg", NewCr("clear_pg")) BY <1>6 DEF ClearPg, NewCr
    <2>2. Form("clear_pg") BY <2>1, SetCrForm DEF Setting
    <2> QED BY <2>2
  <1>7. CASE ClearPer
    <2>1. SetCr("clear_per", NewCr("clear_per")) BY <1>7 DEF ClearPer, NewCr
    <2>2. Form("clear_per") BY <2>1, SetCrForm DEF Setting
    <2> QED BY <2>2
  <1>8. CASE SetLock
    <2>1. SetCr("set_lock", NewCr("set_lock")) BY <1>8 DEF SetLock, NewCr
    <2>2. Form("set_lock") BY <2>1, SetCrForm DEF Setting
    <2> QED BY <2>2
  <1>9. CASE StartBit
    <2>1. NewCr("start") = op.cr /\ Allowed("start") /\ Effect("start") = StartErase(fl, op.cr)
      BY DEF NewCr, Allowed, Effect, Setting
    <2>2. At("start") /\ Writes(Effect("start"), Advance) BY <1>9, <2>1 DEF StartBit
    <2>3. Form("start") BY <2>1, <2>2, WritesForm
    <2> QED BY <2>3
  <1>10. CASE WriteKeys
    <2>1. \A d \in {"key1", "key2"} : NewCr(d) = op.cr /\ Allowed(d) BY DEF NewCr, Allowed
    <2>2. Effect("key1") = Key1(fl) /\ Effect("key2") = Key2(fl) BY DEF Effect, Setting
    <2>3. PICK d \in {"key1", "key2"} : At(d) /\ Writes(Effect(d), Advance)
      BY <1>10, <2>2 DEF WriteKeys
    <2>4. Form(d) BY <2>1, <2>3, WritesForm
    <2> QED BY <2>4
  <1>11. CASE CheckLock
    <2>1. CASE fl.cr.lock
      <3>1. NewCr("check_lock") = op.cr /\ Allowed("check_lock") /\ Effect("check_lock") = {fl}
        BY <2>1 DEF NewCr, Allowed, Effect, Setting
      <3>2. At("check_lock") /\ Reads([Advance EXCEPT !.cr = NewCr("check_lock")])
        BY <1>11, <2>1, <3>1, AdvanceOnly DEF CheckLock
      <3>3. Form("check_lock") BY <3>1, <3>2, ReadsForm
      <3> QED BY <3>3
    <2>2. CASE ~fl.cr.lock
      <3>1. At("check_lock") /\ Reads(Goto(<<>>)) BY <1>11, <2>2 DEF CheckLock
      <3>2. Form("check_lock") BY <2>2, <3>1, UnlockedForm
      <3> QED BY <3>2
    <2> QED BY <2>1, <2>2
  <1>12. CASE WaitNotBusy
    <2>1. CASE ~Busy
      <3>1. NewCr("wait") = op.cr /\ Allowed("wait") /\ Effect("wait") = {fl}
        BY <2>1 DEF NewCr, Allowed, Effect, Setting
      <3>2. At("wait") /\ Reads([Advance EXCEPT !.cr = NewCr("wait")])
        BY <1>12, <2>1, <3>1, AdvanceOnly DEF WaitNotBusy
      <3>3. Form("wait") BY <3>1, <3>2, ReadsForm
      <3> QED BY <3>3
    <2>2. CASE Busy
      <3>1. At("wait") /\ Reads(op) BY <1>12, <2>2 DEF WaitNotBusy
      <3>2. Form("wait") BY <3>1, StaysForm
      <3> QED BY <3>2
    <2> QED BY <2>1, <2>2
  <1>13. CASE ReadSr
    <2>1. NewCr("read_sr") = op.cr /\ Allowed("read_sr") /\ Effect("read_sr") = {fl}
      BY DEF NewCr, Allowed, Effect, Setting
    <2>2. At("read_sr") /\ Reads([Advance EXCEPT !.cr = NewCr("read_sr")])
      BY <1>13, <2>1, AdvanceOnly DEF ReadSr
    <2>3. Form("read_sr") BY <2>1, <2>2, ReadsForm
    <2> QED BY <2>3
  <1>14. CASE ClearSr
    <2>1. /\ NewCr("clear_sr") = op.cr /\ Allowed("clear_sr")
          /\ Effect("clear_sr") = {[fl EXCEPT !.err = "none"]}
      BY DEF NewCr, Allowed, Effect, Setting
    <2>2. At("clear_sr") /\ Writes(Effect("clear_sr"), Advance) BY <1>14, <2>1 DEF ClearSr
    <2>3. Form("clear_sr") BY <2>1, <2>2, WritesForm
    <2> QED BY <2>3
  <1>15. CASE Poll
    <2>1. CASE fl.err # "none"
      <3>1. /\ At("poll")
            /\ Reads([Goto(CleanUp) EXCEPT !.res = "FlashError", !.own = (fl.err = "own")])
        BY <1>15, <2>1 DEF Poll
      <3>2. Form("poll") BY <2>1, <3>1, ErrsForm
      <3> QED BY <3>2
    <2>2. CASE fl.err = "none" /\ Busy
      <3>1. At("poll") /\ Reads(op) BY <1>15, <2>2 DEF Poll
      <3>2. Form("poll") BY <3>1, StaysForm
      <3> QED BY <3>2
    <2>3. CASE fl.err = "none" /\ ~Busy
      <3>1. NewCr("poll") = op.cr /\ Allowed("poll") /\ Effect("poll") = {fl}
        BY <2>3 DEF NewCr, Allowed, Effect, Setting
      <3>2. At("poll") /\ Reads([Advance EXCEPT !.cr = NewCr("poll")])
        BY <1>15, <2>3, <3>1, AdvanceOnly DEF Poll
      <3>3. Form("poll") BY <3>1, <3>2, ReadsForm
      <3> QED BY <3>3
    <2> QED BY <2>1, <2>2, <2>3
  <1>16. CASE ReadFlash
    <2>1. NewCr("read_flash") = op.cr /\ Allowed("read_flash") /\ Effect("read_flash") = {fl}
      BY DEF NewCr, Allowed, Effect, Setting
    <2>2. At("read_flash") /\ Reads([Advance EXCEPT !.cr = NewCr("read_flash")])
      BY <1>16, <2>1, AdvanceOnly DEF ReadFlash
    <2>3. Form("read_flash") BY <2>1, <2>2, ReadsForm
    <2> QED BY <2>3
  <1>17. CASE WriteData
    <2>1. \A d \in {"data", "low", "high"} : NewCr(d) = op.cr /\ Allowed(d) BY DEF NewCr, Allowed
    <2>2. /\ Effect("data") = WriteWord(fl, On) /\ Effect("low") = WriteLow(fl)
          /\ Effect("high") = WriteHigh(fl, On)
      BY DEF Effect, Setting
    <2>3. PICK d \in {"data", "low", "high"} : At(d) /\ Writes(Effect(d), Advance)
      BY <1>17, <2>2 DEF WriteData
    <2>4. Form(d) BY <2>1, <2>3, WritesForm
    <2> QED BY <2>4
  <1>18. CASE SetAddrInc
    <2>1. \A d \in {"inc_on", "inc_off"} : NewCr(d) = op.cr /\ Allowed(d) /\ Effect(d) = {fl}
      BY DEF NewCr, Allowed, Effect, Setting
    <2>2. PICK d \in {"inc_on", "inc_off"} : At(d) /\ Reads([Advance EXCEPT !.cr = NewCr(d)])
      BY <1>18, <2>1, AdvanceOnly DEF SetAddrInc
    <2>3. Form(d) BY <2>1, <2>2, ReadsForm
    <2> QED BY <2>3
  <1> HIDE DEF Form
  <1> QED BY <1>1, <1>2, <1>3, <1>4, <1>5, <1>6, <1>7, <1>8, <1>9, <1>10, <1>11, <1>12, <1>13, <1>14,
             <1>15, <1>16, <1>17, <1>18 DEF Step

-----------------------------------------------------------------------------
(* What an access makes of the controller                                  *)

Named(bits) == {n \in Sectors : BitsOf[n] = bits}

\* All that an access can change, and what it does change when nothing is in its way.
Effects(d, f) ==
  /\ f \in FlType
  /\ d \notin {"key1", "key2"} => f.key = fl.key
  /\ f.err \in {fl.err, "own"} \/ d = "clear_sr"
  /\ d = "clear_sr" => f.err = "none"
  /\ d \notin {"low", "high"} => f.half = fl.half
  /\ d = "high" => ~f.half
  /\ \/ f.job = fl.job
     \/ /\ d = "start" /\ f.job.do = "erase" /\ f.job.own
        /\ \/ NewCr(d).ser /\ f.job.on = Named(NewCr(d).snb)
           \/ NewCr(d).mer /\ f.job.on = Sectors
     \/ d \in {"data", "high"} /\ f.job = [do |-> "program", on |-> On, own |-> TRUE]
  /\ d \notin Setting \cup {"start", "key1", "key2"} => f.cr = fl.cr
  /\ d \in Setting \cup {"start"} => f.cr = IF fl.cr.lock THEN fl.cr ELSE NewCr(d)
  /\ d \notin Setting \cup {"start"} =>
       f.cr.ser = fl.cr.ser /\ f.cr.mer = fl.cr.mer /\ f.cr.snb = fl.cr.snb /\ f.cr.pg = fl.cr.pg
  /\ d = "key1" /\ fl.cr.lock /\ fl.key = "none" => f.cr.lock /\ f.key = "first"
  /\ d = "key2" /\ fl.cr.lock /\ fl.key = "first" => ~f.cr.lock
  /\ d = "start" /\ ~fl.cr.lock /\ ~NewCr(d).pg /\ (NewCr(d).ser \/ NewCr(d).mer) =>
       /\ f.job.do = "erase" /\ f.job.own
       /\ \/ NewCr(d).ser /\ f.job.on = Named(NewCr(d).snb)
          \/ NewCr(d).mer /\ f.job.on = Sectors
  /\ d = "low" /\ fl.cr.pg /\ ~fl.cr.ser /\ ~fl.cr.mer => f.half
  /\ d = "high" /\ fl.half => f.job = [do |-> "program", on |-> On, own |-> TRUE]
  /\ d = "data" /\ mcu # "G0" =>
       f.err = "own" \/ f.job = [do |-> "program", on |-> On, own |-> TRUE]

LEMMA RaisedType ==
  ASSUME NEW f \in FlType, NEW g \in Dropped(f)
  PROVE  /\ g \in FlType /\ g.err \in {f.err, "own"}
         /\ g.cr = f.cr /\ g.key = f.key /\ g.half = f.half /\ g.job = f.job
         /\ mcu # "G0" => g.err = "own"
  BY DEF Dropped, Raise, FlType

LEMMA WrittenCr ==
  ASSUME NEW f \in FlType, NEW cr \in CrType, NEW g, g = WriteCr(f, cr)
  PROVE  /\ g \in FlType /\ g.key = f.key /\ g.err = f.err /\ g.half = f.half /\ g.job = f.job
         /\ g.cr = IF f.cr.lock THEN f.cr ELSE cr
  BY DEF WriteCr, FlType

LEMMA JobFacts ==
  ASSUME NEW f \in FlType, NEW do \in {"erase", "program"}, NEW on \in SUBSET Nat,
         NEW g, g = Job(f, do, on)
  PROVE  /\ g \in FlType /\ g.key = f.key /\ g.err = f.err /\ g.half = f.half /\ g.cr = f.cr
         /\ g.job = [do |-> do, on |-> on, own |-> TRUE]
  BY DEF Job, FlType, JobType

LEMMA SettingEffects ==
  ASSUME FlashTypes, NEW d \in Setting, NewCr(d) \in CrType, NEW f \in Effect(d)
  PROVE  Effects(d, f)
  <1>1. f = WriteCr(fl, NewCr(d)) BY DEF Effect, Setting
  <1>2. fl \in FlType BY DEF FlashTypes
  <1>3. /\ f \in FlType /\ f.key = fl.key /\ f.err = fl.err /\ f.half = fl.half /\ f.job = fl.job
        /\ f.cr = IF fl.cr.lock THEN fl.cr ELSE NewCr(d)
    BY <1>1, <1>2, WrittenCr
  <1>4. d \notin {"key1", "key2", "clear_sr", "low", "high", "start", "data"} BY DEF Setting
  <1> QED BY <1>3, <1>4, Zenon DEF Effects

LEMMA KeyEffects ==
  ASSUME FlashTypes, NEW d \in {"key1", "key2"}, NEW f \in Effect(d)
  PROVE  Effects(d, f)
  <1>1. fl \in FlType BY DEF FlashTypes
  <1>2. f \in IF d = "key1" THEN Key1(fl) ELSE Key2(fl) BY DEF Effect, Setting
  <1>3. /\ f \in FlType /\ f.err = fl.err /\ f.half = fl.half /\ f.job = fl.job
        /\ f.cr.ser = fl.cr.ser /\ f.cr.mer = fl.cr.mer /\ f.cr.snb = fl.cr.snb /\ f.cr.pg = fl.cr.pg
        /\ d = "key1" /\ fl.cr.lock /\ fl.key = "none" => f.cr.lock /\ f.key = "first"
        /\ d = "key2" /\ fl.cr.lock /\ fl.key = "first" => ~f.cr.lock
    <2>1. CASE f = fl /\ ~fl.cr.lock BY <1>1, <2>1
    <2>2. CASE f = Jammed(fl) /\ ~(fl.cr.lock /\ IF d = "key1" THEN fl.key = "none" ELSE fl.key = "first")
      <3>1. fl.cr \in CrType /\ f = [fl EXCEPT !.cr.lock = TRUE, !.key = "jam"]
        BY <1>1, <2>2 DEF Jammed, FlType
      <3>2. f = [fl EXCEPT !.cr = [fl.cr EXCEPT !.lock = TRUE], !.key = "jam"] BY <1>1, <3>1 DEF FlType
      <3>3. PICK c : c = [fl.cr EXCEPT !.lock = TRUE] OBVIOUS
      <3>6. /\ c \in CrType /\ c.ser = fl.cr.ser /\ c.lock = TRUE
            /\ c.mer = fl.cr.mer /\ c.snb = fl.cr.snb /\ c.pg = fl.cr.pg
        BY <3>1, <3>3 DEF CrType
      <3>4. f = [fl EXCEPT !.cr = c, !.key = "jam"] BY <3>2, <3>3
      <3>5. /\ f \in FlType /\ f.err = fl.err /\ f.half = fl.half /\ f.job = fl.job /\ f.cr = c
        BY <1>1, <3>4, <3>6 DEF FlType
      <3> QED BY <2>2, <3>6, <3>5
    <2>3. CASE d = "key1" /\ fl.cr.lock /\ f = [fl EXCEPT !.key = "first"]
      BY <1>1, <2>3 DEF FlType
    <2>4. CASE d = "key2" /\ f = [fl EXCEPT !.key = "none", !.cr.lock = FALSE]
      <3>1. fl.cr \in CrType BY <1>1 DEF FlType
      <3>2. f = [fl EXCEPT !.cr = [fl.cr EXCEPT !.lock = FALSE], !.key = "none"]
        BY <1>1, <2>4 DEF FlType
      <3>3. PICK c : c = [fl.cr EXCEPT !.lock = FALSE] OBVIOUS
      <3>6. /\ c \in CrType /\ c.ser = fl.cr.ser /\ c.lock = FALSE
            /\ c.mer = fl.cr.mer /\ c.snb = fl.cr.snb /\ c.pg = fl.cr.pg
        BY <3>1, <3>3 DEF CrType
      <3>4. f = [fl EXCEPT !.cr = c, !.key = "none"] BY <3>2, <3>3
      <3>5. /\ f \in FlType /\ f.err = fl.err /\ f.half = fl.half /\ f.job = fl.job /\ f.cr = c
        BY <1>1, <3>4, <3>6 DEF FlType
      <3> QED BY <2>4, <3>6, <3>5
    <2>5. CASE d = "key1"
      <3>1. \/ ~fl.cr.lock /\ f \in {fl, Jammed(fl)}
            \/ fl.cr.lock /\ fl.key = "none" /\ f = [fl EXCEPT !.key = "first"]
            \/ ~(fl.cr.lock /\ fl.key = "none") /\ f = Jammed(fl)
        BY <1>2, <2>5 DEF Key1
      <3> QED BY <2>1, <2>2, <2>3, <2>5, <3>1
    <2>6. CASE d = "key2"
      <3>1. \/ ~fl.cr.lock /\ f \in {fl, Jammed(fl)}
            \/ fl.cr.lock /\ fl.key = "first" /\ f = [fl EXCEPT !.key = "none", !.cr.lock = FALSE]
            \/ ~(fl.cr.lock /\ fl.key = "first") /\ f = Jammed(fl)
        BY <1>2, <2>6 DEF Key2
      <3> QED BY <2>1, <2>2, <2>4, <2>6, <3>1
    <2> QED BY <2>5, <2>6
  <1>4. d \notin Setting \cup {"clear_sr", "low", "high", "start", "data"} BY DEF Setting
  <1> QED BY <1>3, <1>4, Zenon DEF Effects

LEMMA StartEffects ==
  ASSUME FlashTypes, NEW f \in Effect("start")
  PROVE  Effects("start", f)
  <1> DEFINE cr == op.cr
             g == WriteCr(fl, cr)
  <1>1. fl \in FlType /\ cr \in CrType BY DEF FlashTypes, OpType
  <1>2. f \in StartErase(fl, cr) /\ NewCr("start") = cr BY DEF Effect, Setting, NewCr
  <1>3. /\ g \in FlType /\ g.key = fl.key /\ g.err = fl.err /\ g.half = fl.half /\ g.job = fl.job
        /\ g.cr = IF fl.cr.lock THEN fl.cr ELSE cr
    BY <1>1, WrittenCr
  <1>4. Named(cr.snb) \in SUBSET Nat /\ Sectors \in SUBSET Nat
    BY FlashAssumption DEF Named, Sectors
  <1>5. f \in IF fl.cr.lock \/ ~(cr.ser \/ cr.mer) THEN {g}
              ELSE OrDropped(g) \cup (IF cr.ser THEN {Job(g, "erase", Named(cr.snb))} ELSE {})
                   \cup (IF cr.mer THEN {Job(g, "erase", Sectors)} ELSE {})
    BY <1>2 DEF StartErase, Named
  <1> HIDE DEF g, cr
  <1>6. CASE f = g /\ (fl.cr.lock \/ ~(cr.ser \/ cr.mer))
    BY <1>2, <1>3, <1>6, Zenon DEF Effects, Setting
  <1>7. ASSUME f \in OrDropped(g), ~fl.cr.lock PROVE Effects("start", f)
    <2>1. f \in Dropped(g) /\ g.cr.pg BY <1>7 DEF OrDropped
    <2>2. /\ f \in FlType /\ f.err \in {fl.err, "own"} /\ f.cr = cr /\ f.key = fl.key
          /\ f.half = fl.half /\ f.job = fl.job /\ cr.pg
      BY <1>3, <1>7, <2>1, RaisedType
    <2> QED BY <1>2, <1>7, <2>2, Zenon DEF Effects, Setting
  <1>8. ASSUME cr.ser, f = Job(g, "erase", Named(cr.snb)), ~fl.cr.lock PROVE Effects("start", f)
    <2>1. /\ f \in FlType /\ f.key = fl.key /\ f.err = fl.err /\ f.half = fl.half /\ f.cr = cr
          /\ f.job = [do |-> "erase", on |-> Named(cr.snb), own |-> TRUE]
      BY <1>3, <1>4, <1>8, JobFacts
    <2>2. f.job.do = "erase" /\ f.job.own /\ f.job.on = Named(cr.snb) BY <2>1
    <2> QED BY <1>2, <1>8, <2>1, <2>2, Zenon DEF Effects, Setting
  <1>9. ASSUME cr.mer, f = Job(g, "erase", Sectors), ~fl.cr.lock PROVE Effects("start", f)
    <2>1. /\ f \in FlType /\ f.key = fl.key /\ f.err = fl.err /\ f.half = fl.half /\ f.cr = cr
          /\ f.job = [do |-> "erase", on |-> Sectors, own |-> TRUE]
      BY <1>3, <1>4, <1>9, JobFacts
    <2>2. f.job.do = "erase" /\ f.job.own /\ f.job.on = Sectors BY <2>1
    <2> QED BY <1>2, <1>9, <2>1, <2>2, Zenon DEF Effects, Setting
  <1> QED BY <1>5, <1>6, <1>7, <1>8, <1>9

LEMMA WriteEffects ==
  ASSUME FlashTypes, On \in SUBSET Nat, NEW d \in {"data", "low", "high"}, NEW f \in Effect(d)
  PROVE  Effects(d, f)
  <1>1. fl \in FlType BY DEF FlashTypes
  <1> DEFINE Same == f \in FlType /\ f.key = fl.key /\ f.cr = fl.cr
  <1>2. CASE d = "data"
    <2>1. f \in WriteWord(fl, On) BY <1>2 DEF Effect, Setting
    <2>2. \/ f = Job(fl, "program", On) \/ f \in Dropped(fl) BY <2>1 DEF WriteWord, OrDropped
    <2>3. /\ Same /\ f.half = fl.half /\ f.err \in {fl.err, "own"}
          /\ \/ f.job = [do |-> "program", on |-> On, own |-> TRUE]
             \/ f.job = fl.job /\ (mcu # "G0" => f.err = "own")
      BY <1>1, <2>2, JobFacts, RaisedType
    <2> QED BY <1>2, <2>3, Zenon DEF Effects, Setting
  <1>3. CASE d = "low"
    <2>1. f \in WriteLow(fl) BY <1>3 DEF Effect, Setting
    <2>2. \/ f = [fl EXCEPT !.half = TRUE]
          \/ f \in Dropped(fl) /\ ~(fl.cr.pg /\ ~fl.cr.ser /\ ~fl.cr.mer)
      BY <2>1 DEF WriteLow, OrDropped
    <2>3. /\ Same /\ f.err \in {fl.err, "own"} /\ f.job = fl.job
          /\ fl.cr.pg /\ ~fl.cr.ser /\ ~fl.cr.mer => f.half
      <3>1. CASE f = [fl EXCEPT !.half = TRUE] BY <1>1, <3>1 DEF FlType
      <3>2. CASE f \in Dropped(fl) /\ ~(fl.cr.pg /\ ~fl.cr.ser /\ ~fl.cr.mer)
        BY <1>1, <3>2, RaisedType
      <3> QED BY <2>2, <3>1, <3>2
    <2> QED BY <1>3, <2>3, Zenon DEF Effects, Setting
  <1>4. CASE d = "high"
    <2>1. f \in WriteHigh(fl, On) BY <1>4 DEF Effect, Setting
    <2>2. \/ fl.half /\ f = Job([fl EXCEPT !.half = FALSE], "program", On)
          \/ ~fl.half /\ f \in Dropped(fl)
      BY <2>1 DEF WriteHigh
    <2>3. /\ Same /\ f.err \in {fl.err, "own"} /\ ~f.half
          /\ fl.half => f.job = [do |-> "program", on |-> On, own |-> TRUE]
          /\ ~fl.half => f.job = fl.job
      <3>1. CASE fl.half /\ f = Job([fl EXCEPT !.half = FALSE], "program", On)
        <4>1. PICK g : g = [fl EXCEPT !.half = FALSE] OBVIOUS
        <4>2. g \in FlType /\ g.cr = fl.cr /\ g.key = fl.key /\ g.err = fl.err /\ g.half = FALSE
          BY <1>1, <4>1 DEF FlType
        <4>3. f = Job(g, "program", On) /\ fl.half BY <3>1, <4>1
        <4>4. /\ f \in FlType /\ f.key = g.key /\ f.err = g.err /\ f.half = g.half /\ f.cr = g.cr
              /\ f.job = [do |-> "program", on |-> On, own |-> TRUE]
          BY <4>2, <4>3, JobFacts
        <4> QED BY <4>2, <4>3, <4>4
      <3>2. CASE ~fl.half /\ f \in Dropped(fl) BY <1>1, <3>2, RaisedType
      <3> QED BY <2>2, <3>1, <3>2
    <2> QED BY <1>4, <2>3, Zenon DEF Effects, Setting
  <1> QED BY <1>2, <1>3, <1>4

LEMMA OtherEffects ==
  ASSUME FlashTypes, NEW d, d \notin Setting \cup {"key1", "key2", "start", "data", "low", "high"},
         NEW f \in Effect(d)
  PROVE  Effects(d, f)
  <1>1. fl \in FlType BY DEF FlashTypes
  <1>2. f = IF d = "clear_sr" THEN [fl EXCEPT !.err = "none"] ELSE fl BY DEF Effect, Setting
  <1>3. CASE d = "clear_sr"
    <2>1. /\ f \in FlType /\ f.key = fl.key /\ f.half = fl.half /\ f.job = fl.job /\ f.cr = fl.cr
          /\ f.err = "none"
      BY <1>1, <1>2, <1>3 DEF FlType
    <2> QED BY <1>3, <2>1, Zenon DEF Effects, Setting
  <1>4. CASE d # "clear_sr" BY <1>1, <1>2, <1>4, Zenon DEF Effects
  <1> QED BY <1>3, <1>4

LEMMA EffectFacts ==
  ASSUME FlashTypes, Shape, op.todo # <<>>, NEW d, At(d), NEW f \in Effect(d)
  PROVE  Effects(d, f)
  <1>1. NewCr(d) \in CrType /\ On \in SUBSET Nat BY NewCrType, HeadFacts
  <1> QED BY <1>1, SettingEffects, KeyEffects, StartEffects, WriteEffects, OtherEffects

-----------------------------------------------------------------------------
(* Steps of an operation keep the invariant, part by part                  *)

\* The controller after an access, whether it was lost or not.
LEMMA ControllerStep ==
  ASSUME FlashTypes, Shape, op.todo # <<>>, NEW d, At(d), StepForm(d)
  PROVE  fl' = fl \/ Effects(d, fl')
  BY EffectFacts DEF StepForm

LEMMA SameAimStep ==
  ASSUME NEW d, StepForm(d)
  PROVE  SameAim /\ (op'.res = "Ok" => op.res = "Ok")
  BY DEF StepForm, SameAim, Goes, Ends, Errs

LEMMA LastTail == ASSUME NEW S, NEW s \in Seq(S), Len(s) = 1 PROVE Tail(s) = <<>>
  <1>1. PICK t : t = Tail(s) OBVIOUS
  <1>2. t \in Seq(S) /\ Len(t) = 0 BY <1>1
  <1> QED BY <1>1, <1>2, EmptySeq

\* Which accesses have been made when a step is done.
LEMMA GoesPast ==
  ASSUME FlashTypes, Shape, op.todo # <<>>, NEW d, At(d), NEW c, Goes(c)
  PROVE  \/ /\ op.at < Len(Head(op.todo).does) /\ op'.todo = op.todo /\ op'.at = op.at + 1
            /\ \A x : Past(x)' <=> Past(x) \/ d = x
         \/ /\ op.at = Len(Head(op.todo).does) /\ op'.todo = Tail(op.todo) /\ op'.at = 1
            /\ \A x : ~Past(x)'
  <1>1. op.at \in Nat \ {0} /\ d = Head(op.todo).does[op.at] BY HeadFacts, AtFacts
  <1>2. CASE op.at < Len(Head(op.todo).does) /\ op'.todo = op.todo /\ op'.at = op.at + 1
    <2>1. ASSUME NEW x PROVE Past(x)' <=> Past(x) \/ d = x
      <3>1. Past(x)' <=> Before(Head(op.todo), op.at + 1, x) BY <1>2 DEF Past
      <3>2. Before(Head(op.todo), op.at + 1, x) <=>
              Before(Head(op.todo), op.at, x) \/ Head(op.todo).does[op.at] = x
        BY <1>1, BeforeFacts
      <3> QED BY <1>1, <3>1, <3>2 DEF Past
    <2> QED BY <1>2, <2>1
  <1>3. CASE /\ op.at = Len(Head(op.todo).does) /\ op'.todo = Tail(op.todo) /\ op'.at = 1
    <2>1. ASSUME NEW x PROVE ~Past(x)'
      <3>1. PICK r : r = Head(op.todo)' OBVIOUS
      <3>2. Past(x)' <=> Before(r, 1, x) BY <1>3, <3>1 DEF Past
      <3>3. 1 .. 1 - 1 = {} OBVIOUS
      <3> QED BY <3>2, <3>3 DEF Before
    <2> QED BY <1>3, <2>1
  <1> QED BY <1>2, <1>3 DEF Goes

LEMMA FirstPast == ASSUME op'.at = 1, NEW x PROVE ~Past(x)'
  <1>1. PICK r : r = Head(op.todo)' OBVIOUS
  <1>2. Past(x)' <=> Before(r, 1, x) BY <1>1 DEF Past
  <1>3. 1 .. 1 - 1 = {} OBVIOUS
  <1> QED BY <1>2, <1>3 DEF Before

LEMMA StepTypes ==
  ASSUME FlashTypes, Shape, Step PROVE FlashTypes'
  <1>1. op.todo # <<>> /\ op' \in OpType /\ UNCHANGED <<mcu, used>> BY StepForms
  <1>2. PICK d : At(d) /\ StepForm(d) BY StepForms
  <1>3. SameAim /\ (fl' = fl \/ Effects(d, fl')) BY <1>1, <1>2, SameAimStep, ControllerStep
  <1>4. op.asked' \in Targets((op.kind \in Erases)') BY <1>3 DEF SameAim, FlashTypes
  <1>5. op.kind \in Kinds /\ mcu \in {"F4", "G0"} /\ d \in AccessesOf(mcu, op.kind)
    BY <1>1, <1>2, AtFacts DEF FlashTypes, OpType
  <1>6. On \subseteq op.asked BY <1>1, HeadFacts DEF RunOk, On
  <1>7. /\ fl' \in FlType /\ fl'.job.on \in Targets(fl'.job.do = "erase")
        /\ fl'.job.do = "none" => ~fl'.job.own
    <2>1. CASE fl' = fl BY <2>1 DEF FlashTypes
    <2>2. CASE Effects(d, fl')
      <3>1. fl' \in FlType BY <2>2 DEF Effects
      <3>2. CASE fl'.job = fl.job BY <3>1, <3>2 DEF FlashTypes
      <3>3. CASE fl'.job.do = "erase" /\ fl'.job.on \in SUBSET Sectors
        BY <3>1, <3>3 DEF Targets
      <3>4. CASE d \in {"data", "high"} /\ fl'.job = [do |-> "program", on |-> On, own |-> TRUE]
        <4>1. op.kind \in Writing BY <1>5, <3>4, WhoseAccess
        <4>2. op.kind \notin Erases BY <4>1 DEF Writing, Erases
        <4>3. op.asked \in SUBSET Words BY <4>2 DEF FlashTypes, Targets
        <4> QED BY <1>6, <3>1, <3>4, <4>3 DEF Targets
      <3>5. \A bits : Named(bits) \in SUBSET Sectors BY DEF Named
      <3> QED BY <2>2, <3>2, <3>3, <3>4, <3>5 DEF Effects
    <2> QED BY <1>3, <2>1, <2>2
  <1> QED BY <1>1, <1>4, <1>7 DEF FlashTypes

\* What an operation cleans up after an error of the flash.
LEMMA CleanUpOk ==
  ASSUME NEW m \in {"F4", "G0"}, NEW kind \in Writing, m = "F4" => kind = "write_bulk", NEW asked
  PROVE  /\ m = "F4" => RunOk(m, kind, asked, Run(<<"inc_off">>, {}))
         /\ m = "G0" => RunOk(m, kind, asked, Run(<<"read_cr", "clear_pg">>, {}))
  <1>1. CASE m = "F4" BY <1>1, IncOffOk
  <1>2. CASE m = "G0"
    <2> DEFINE does == <<"read_cr", "clear_pg">>
    <2>1. does \in Seq(Accesses) /\ Len(does) = 2 /\ does[1] = "read_cr" /\ does[2] = "clear_pg"
      BY DEF Accesses
    <2> HIDE DEF does
    <2>2. kind \notin Erases /\ kind \notin {"unlock", "lock"} BY DEF Writing, Erases
    <2>3. \A k \in 1 .. 2 : does[k] \in AccessesOf(m, kind) BY <1>2, <2>1, <2>2 DEF AccessesOf
    <2>4. \A k \in 1 .. 2 : Ordered(m, Run(does, {}), k) BY <1>2, <2>1 DEF Ordered, Before, Run
    <2>5. Listed(m, kind, does, {}, 2) BY <2>1, <2>3, <2>4 DEF Listed
    <2>6. SectorsOk(m, kind, asked, {}) BY <1>2, <2>2 DEF SectorsOk, Erases
    <2>7. RunOk(m, kind, asked, Run(does, {})) BY <2>1, <2>5, <2>6, RunIsOk
    <2> QED BY <1>2, <2>7 DEF does
  <1> QED BY <1>1, <1>2

LEMMA StepShape ==
  ASSUME FlashTypes, Shape, Step PROVE Shape'
  <1>1. op.todo # <<>> /\ op' \in OpType /\ UNCHANGED <<mcu, used>> BY StepForms
  <1>2. PICK d : At(d) /\ StepForm(d) BY StepForms
  <1>3. SameAim BY <1>2, SameAimStep
  <1>4. /\ op.kind \in Kinds /\ mcu \in {"F4", "G0"} /\ d \in AccessesOf(mcu, op.kind)
        /\ op.todo \in Seq(RunType)
    BY <1>1, <1>2, AtFacts DEF FlashTypes, OpType
  <1>5. CASE op' = op BY <1>1, <1>5 DEF Shape, Single
  <1>6. CASE op'.todo = <<>> BY <1>6 DEF Shape
  <1>7. ASSUME NEW c, Goes(c) PROVE Shape'
    <2>1. op'.kind = op.kind /\ op'.asked = op.asked /\ op'.res = op.res /\ mcu' = mcu
      BY <1>1, <1>7 DEF Goes, SameAim
    <2>2. op.at \in 1 .. Len(Head(op.todo).does) /\ Len(Head(op.todo).does) \in Nat
          /\ DOMAIN Head(op.todo).does = 1 .. Len(Head(op.todo).does)
      BY <1>1, HeadFacts, LenProperties
    <2>3. CASE op.at < Len(Head(op.todo).does) /\ op'.todo = op.todo /\ op'.at = op.at + 1
      <3>1. op'.at \in DOMAIN Head(op'.todo).does BY <2>2, <2>3
      <3> QED BY <1>1, <2>1, <2>3, <3>1 DEF Shape
    <2>4. CASE op'.todo = Tail(op.todo) /\ op'.at = 1
      <3>1. SUFFICES ASSUME Tail(op.todo) # <<>> PROVE Shape' BY <2>4 DEF Shape
      <3>10. Tail(op.todo) \in Seq(RunType) BY <1>1, <1>4
      <3>11. PICK t : t = Tail(op.todo) OBVIOUS
      <3>2. t \in Seq(RunType) /\ t = Tail(op.todo) BY <3>10, <3>11
      <3>3. t # <<>> /\ Len(t) = Len(op.todo) - 1 /\ Len(t) \in Nat \ {0} /\ DOMAIN t = 1 .. Len(t)
            /\ \A i \in DOMAIN t : i + 1 \in DOMAIN op.todo /\ t[i] = op.todo[i + 1]
        BY <1>1, <1>4, <3>1, <3>2
      <3>4. \A i \in DOMAIN t : RunOk(mcu, op.kind, op.asked, t[i]) BY <1>1, <3>3 DEF Shape
      <3>5. 1 \in DOMAIN t /\ Head(t) = t[1] /\ t[1] \in RunType BY <3>2, <3>3
      <3>6. t[1].does # <<>> /\ t[1].does \in Seq(Accesses) BY <3>4, <3>5 DEF RunOk, RunType
      <3>7. 1 \in DOMAIN Head(t).does BY <3>5, <3>6
      <3>8. ~Single(mcu, op.kind)
        <4>1. Len(op.todo) # 1 BY <3>3, <1>4
        <4> QED BY <1>1, <4>1 DEF Shape
      <3>9. op'.todo = t /\ op'.at = 1 BY <2>4, <3>2
      <3> QED BY <1>1, <2>1, <3>4, <3>7, <3>8, <3>9 DEF Shape, Single
    <2> QED BY <1>7, <2>3, <2>4 DEF Goes
  <1>8. CASE d = "poll" /\ Errs
    <2>1. op'.kind = op.kind /\ op'.asked = op.asked /\ op'.res = "FlashError" /\ mcu' = mcu /\ op'.at = 1
      BY <1>1, <1>8 DEF Errs, SameAim
    <2>2. op.kind \in Erases \cup Writing BY <1>4, <1>8, WhoseAccess
    <2>3. CASE op'.todo = <<>> BY <2>3 DEF Shape
    <2>4. ASSUME NEW r, op'.todo = <<r>>, op.kind \in Writing, r.does # <<>>, 1 \in DOMAIN r.does,
                 RunOk(mcu, op.kind, op.asked, r)
          PROVE  Shape'
      <3>1. PICK t : t = <<r>> OBVIOUS
      <3>2. DOMAIN t = {1} /\ t[1] = r /\ Head(t) = r /\ Len(t) = 1 BY <3>1
      <3>3. op.kind \notin Erases /\ op.kind # "unlock" BY <2>4 DEF Writing, Erases
      <3>4. op'.todo = t BY <2>4, <3>1
      <3> QED BY <1>4, <2>1, <2>4, <3>2, <3>3, <3>4 DEF Shape, Single
    <2>5. CASE op.kind = "write_bulk" /\ mcu = "F4"
      <3>1. CleanUp = <<Run(<<"inc_off">>, {})>> BY <2>5 DEF CleanUp
      <3>2. op.kind \in Writing BY <2>5 DEF Writing
      <3>3. RunOk(mcu, op.kind, op.asked, Run(<<"inc_off">>, {})) BY <1>4, <2>5, <3>2, CleanUpOk
      <3>4. Run(<<"inc_off">>, {}).does # <<>> /\ 1 \in DOMAIN Run(<<"inc_off">>, {}).does BY DEF Run
      <3>5. op'.todo = <<Run(<<"inc_off">>, {})>> BY <1>8, <3>1 DEF Errs
      <3> QED BY <2>4, <3>2, <3>3, <3>4, <3>5
    <2>6. CASE op.kind \in Writing /\ mcu = "G0"
      <3>1. CleanUp = <<Run(<<"read_cr", "clear_pg">>, {})>> BY <2>6 DEF CleanUp, Writing
      <3>3. RunOk(mcu, op.kind, op.asked, Run(<<"read_cr", "clear_pg">>, {})) BY <1>4, <2>6, CleanUpOk
      <3>4. /\ Run(<<"read_cr", "clear_pg">>, {}).does # <<>>
            /\ 1 \in DOMAIN Run(<<"read_cr", "clear_pg">>, {}).does
        BY DEF Run
      <3>5. op'.todo = <<Run(<<"read_cr", "clear_pg">>, {})>> BY <1>8, <3>1 DEF Errs
      <3> QED BY <2>4, <2>6, <3>3, <3>4, <3>5
    <2>7. CASE ~(op.kind = "write_bulk" /\ mcu = "F4") /\ ~(op.kind \in Writing /\ mcu = "G0")
      <3>1. CleanUp = <<>> BY <2>7 DEF CleanUp, Writing
      <3> QED BY <1>8, <2>3, <3>1 DEF Errs
    <2> QED BY <2>5, <2>6, <2>7
  <1> QED BY <1>2, <1>5, <1>6, <1>7, <1>8 DEF StepForm, Ends

\* On an STM32G0 the controller is idle, and the errors are new, where the operation takes them to be.
LEMMA StepIdle ==
  ASSUME FlashTypes, Shape, Idle, Step PROVE Idle'
  <1>1. op.todo # <<>> /\ op' \in OpType /\ UNCHANGED <<mcu, used>> BY StepForms
  <1>2. PICK d : At(d) /\ StepForm(d) BY StepForms
  <1>3. SUFFICES ASSUME mcu = "G0" PROVE Idle' BY <1>1 DEF Idle
  <1>4. /\ op.kind \in Kinds /\ d \in AccessesOf(mcu, op.kind) /\ fl.err \in {"none", "old", "own"}
    BY <1>1, <1>2, AtFacts DEF FlashTypes, OpType, FlType
  <1>5. d # "data" BY <1>3, <1>4, WhoseAccess
  <1>6. CASE op' = op /\ fl' = fl BY <1>1, <1>6 DEF Idle, Past
  <1>7. CASE op'.at = 1 BY <1>7, FirstPast DEF Idle
  <1>8. ASSUME NEW c, Goes(c), fl' \in Effect(d) \cup {fl},
               d \in {"wait", "clear_sr"} => fl' \in Effect(d) /\ Allowed(d)
        PROVE  Idle'
    <2>1. CASE \A x : ~Past(x)' BY <2>1 DEF Idle
    <2>2. CASE \A x : Past(x)' <=> Past(x) \/ d = x
      <3>1. fl' = fl \/ Effects(d, fl') BY <1>1, <1>2, <1>8, EffectFacts
      <3>2. Ordered(mcu, Head(op.todo), op.at) BY <1>1, <1>2, AtFacts
      <3>3. /\ d = "clear_sr" => Past("wait") /\ ~Past("start") /\ ~Past("high")
        BY <1>1, <1>2, <1>3, <3>2, AtFacts DEF Ordered, Past
      <3>4. d \in {"wait", "clear_sr"} => Effects(d, fl') /\ Allowed(d) BY <1>1, <1>2, <1>8, EffectFacts
      <3>5. /\ Past("wait") /\ ~Past("start") /\ ~Past("high") => fl.job.do = "none"
            /\ Past("wait") /\ ~Past("start") /\ ~Past("low") => ~fl.half
            /\ Past("clear_sr") => fl.err # "old" /\ (fl.job.do # "none" => fl.job.own)
        BY <1>1, <1>3 DEF Idle
      <3>6. Past("wait")' /\ ~Past("start")' /\ ~Past("high")' => fl'.job.do = "none"
        BY <1>5, <2>2, <3>1, <3>4, <3>5 DEF Effects, Allowed, Busy
      <3>7. Past("wait")' /\ ~Past("start")' /\ ~Past("low")' => ~fl'.half
        BY <2>2, <3>1, <3>4, <3>5 DEF Effects, Allowed, Busy
      <3>8. Past("clear_sr")' => fl'.err # "old" /\ (fl'.job.do # "none" => fl'.job.own)
        <4>1. SUFFICES ASSUME Past("clear_sr")'
                       PROVE  fl'.err # "old" /\ (fl'.job.do # "none" => fl'.job.own)
          OBVIOUS
        <4>2. CASE d = "clear_sr" BY <3>3, <3>4, <3>5, <4>2 DEF Effects
        <4>3. CASE d # "clear_sr" BY <2>2, <3>1, <3>5, <4>1, <4>3 DEF Effects
        <4> QED BY <4>2, <4>3
      <3> QED BY <3>6, <3>7, <3>8 DEF Idle
    <2> QED BY <1>1, <1>2, <1>8, <2>1, <2>2, GoesPast
  <1>9. Cleaning => d \in {"clear_pg", "inc_off"} BY <1>2 DEF Cleaning, At
  <1> QED BY <1>2, <1>6, <1>7, <1>8, <1>9 DEF StepForm, Ends, Errs

LEMMA StepErrors ==
  ASSUME FlashTypes, Shape, Idle, ErrorsAreOwn, Step PROVE ErrorsAreOwn'
  <1>1. op.todo # <<>> /\ op' \in OpType /\ UNCHANGED <<mcu, used>> BY StepForms
  <1>2. PICK d : At(d) /\ StepForm(d) BY StepForms
  <1>3. SUFFICES ASSUME mcu = "G0" PROVE ErrorsAreOwn' BY <1>1 DEF ErrorsAreOwn
  <1>4. CASE op'.res = op.res /\ op'.own = op.own BY <1>1, <1>4 DEF ErrorsAreOwn
  <1>5. CASE op'.res = "Access" BY <1>5 DEF ErrorsAreOwn
  <1>6. CASE d = "poll" /\ fl.err # "none" /\ Errs
    <2>1. Ordered(mcu, Head(op.todo), op.at) /\ d = Head(op.todo).does[op.at]
      BY <1>1, <1>2, AtFacts
    <2>2. Past("clear_sr") BY <1>3, <1>6, <2>1 DEF Ordered, Past
    <2>3. fl.err # "old" BY <1>1, <1>3, <2>2 DEF Idle
    <2>4. fl.err = "own" BY <1>6, <2>3 DEF FlashTypes, FlType
    <2> QED BY <1>6, <2>4 DEF Errs, ErrorsAreOwn
  <1> QED BY <1>2, <1>4, <1>5, <1>6 DEF StepForm, Goes, Ends

\* A run makes only accesses of its operation.
LEMMA PastAccess ==
  ASSUME FlashTypes, Shape, op.todo # <<>>, NEW x, Past(x)
  PROVE  x \in AccessesOf(mcu, op.kind)
  <1>1. /\ op.at \in 1 .. Len(Head(op.todo).does) /\ Len(Head(op.todo).does) \in Nat
        /\ Head(op.todo).does \in Seq(Accesses) /\ RunOk(mcu, op.kind, op.asked, Head(op.todo))
    BY HeadFacts
  <1>2. PICK j \in 1 .. op.at - 1 : Head(op.todo).does[j] = x BY DEF Past, Before
  <1>3. j \in DOMAIN Head(op.todo).does BY <1>1, <1>2, LenProperties
  <1> QED BY <1>1, <1>2, <1>3 DEF RunOk

\* The keys of an STM32G0 are written only while it is locked, one after the other.
LEMMA StepUnlocking ==
  ASSUME FlashTypes, Shape, Unlocking, Step PROVE Unlocking'
  <1>1. op.todo # <<>> /\ op' \in OpType /\ UNCHANGED <<mcu, used>> BY StepForms
  <1>2. PICK d : At(d) /\ StepForm(d) BY StepForms
  <1>3. SUFFICES ASSUME op'.kind = "unlock", mcu = "G0", op'.res = "Ok", op'.open, ~op'.reset
                 PROVE  Unlocking'
    BY <1>1 DEF Unlocking
  <1>4. op.kind = "unlock" /\ op.res = "Ok" /\ op.open /\ ~op.reset
    BY <1>2, <1>3, SameAimStep DEF SameAim
  <1>5. Head(op.todo).does = UnlockRun /\ Len(op.todo) = 1 BY <1>1, <1>3, <1>4 DEF Shape, Single
  <1>6. op.at \in 1 .. 3 /\ d = UnlockRun[op.at] BY <1>1, <1>2, <1>5, HeadFacts, AtFacts, UnlockRunIs
  <1>7. /\ op.at = 1 => fl.key = "none"
        /\ op.at = 2 => fl.key = "none" /\ fl.cr.lock
        /\ op.at = 3 => fl.key = "first" /\ fl.cr.lock
    BY <1>1, <1>3, <1>4 DEF Unlocking
  <1>8. CASE op' = op /\ fl' = fl BY <1>1, <1>8 DEF Unlocking
  <1>9. CASE fl' \in Effect(d) /\ Allowed(d) /\ Goes(NewCr(d))
    <2>1. Effects(d, fl') BY <1>1, <1>2, <1>9, EffectFacts
    <2>2. \/ op.at < 3 /\ op'.todo = op.todo /\ op'.at = op.at + 1
          \/ op.at = 3 /\ op'.todo = Tail(op.todo) /\ op'.at = 1
      BY <1>5, <1>9, UnlockRunIs DEF Goes
    <2>3. CASE op.at = 1
      <3>1. d = "check_lock" BY <1>6, <2>3, UnlockRunIs
      <3>2. fl'.key = "none" /\ fl'.cr = fl.cr /\ fl.cr.lock
        BY <1>7, <1>9, <2>1, <2>3, <3>1 DEF Effects, Allowed, Setting
      <3>3. op'.todo # <<>> /\ op'.at = 2 BY <1>1, <2>2, <2>3
      <3> QED BY <3>2, <3>3 DEF Unlocking
    <2>4. CASE op.at = 2
      <3>1. d = "key1" BY <1>6, <2>4, UnlockRunIs
      <3>2. fl'.key = "first" /\ fl'.cr.lock BY <1>7, <2>1, <2>4, <3>1 DEF Effects
      <3>3. op'.todo # <<>> /\ op'.at = 3 BY <1>1, <2>2, <2>4
      <3> QED BY <3>2, <3>3 DEF Unlocking
    <2>5. CASE op.at = 3
      <3>1. d = "key2" BY <1>6, <2>5, UnlockRunIs
      <3>2. ~fl'.cr.lock BY <1>7, <2>1, <2>5, <3>1 DEF Effects
      <3>3. Tail(op.todo) = <<>>
        <4>1. op.todo \in Seq(RunType) BY DEF FlashTypes, OpType
        <4> QED BY <1>1, <1>5, <4>1, LastTail
      <3>4. ~(op.at < 3) BY <2>5
      <3>5. op'.todo = <<>> BY <2>2, <3>3, <3>4, Zenon
      <3> QED BY <3>2, <3>5 DEF Unlocking
    <2> QED BY <1>6, <2>3, <2>4, <2>5
  <1>10. CASE d = "check_lock" /\ ~fl.cr.lock /\ fl' = fl /\ Ends(op.res)
    BY <1>10 DEF Ends, Unlocking
  <1>11. ~Cleaning BY <1>4 DEF Cleaning
  <1> QED BY <1>2, <1>3, <1>8, <1>9, <1>10, <1>11 DEF StepForm, Ends, Errs

\* CR and its copy keep to the modes their MCU uses.
LEMMA StepModes ==
  ASSUME FlashTypes, Shape, Modes, Step PROVE Modes'
  <1>1. op.todo # <<>> /\ op' \in OpType /\ UNCHANGED <<mcu, used>> BY StepForms
  <1>2. PICK d : At(d) /\ StepForm(d) BY StepForms
  <1> DEFINE Kept(cr) == (mcu = "G0" => ~cr.mer) /\ (mcu = "F4" /\ ~cr.ser => cr.snb = {})
  <1>3. Kept(fl.cr) /\ Kept(op.cr) /\ fl.cr \in CrType /\ op.cr \in CrType
    BY DEF Modes, FlashTypes, OpType, FlType
  <1>4. op.kind \in Kinds /\ mcu \in {"F4", "G0"} /\ d \in AccessesOf(mcu, op.kind)
    BY <1>1, <1>2, AtFacts DEF FlashTypes, OpType
  <1>5. Kept(NewCr(d))
    <2>1. CASE d = "set_page" BY <1>3, <1>4, <2>1, WhoseAccess DEF NewCr, CrType
    <2>2. CASE d = "set_sector" BY <1>3, <1>4, <2>2, WhoseAccess DEF NewCr, CrType
    <2>3. CASE d = "set_mass" BY <1>3, <1>4, <2>3, WhoseAccess DEF NewCr, CrType
    <2>4. CASE d = "clear_per" BY <1>3, <1>4, <2>4, WhoseAccess DEF NewCr, CrType
    <2>5. CASE d \in {"set_pg", "clear_pg", "set_lock"} BY <1>3, <2>5 DEF NewCr, CrType
    <2>6. CASE d \notin {"set_page", "set_sector", "set_mass", "clear_per", "set_pg", "clear_pg", "set_lock"}
      BY <1>3, <2>6 DEF NewCr
    <2> QED BY <2>1, <2>2, <2>3, <2>4, <2>5, <2>6
  <1>6. Kept(fl'.cr)
    <2>1. fl' = fl \/ Effects(d, fl') BY <1>1, <1>2, ControllerStep
    <2>2. CASE fl' = fl BY <1>3, <2>2
    <2>3. CASE Effects(d, fl') /\ d \in Setting \cup {"start"} BY <1>3, <1>5, <2>3 DEF Effects
    <2>4. CASE Effects(d, fl') /\ d \notin Setting \cup {"start"} BY <1>3, <2>4 DEF Effects
    <2> QED BY <2>1, <2>2, <2>3, <2>4
  <1>7. op'.cr \in {op.cr, NewCr(d)} BY <1>2 DEF StepForm, Goes, Ends, Errs
  <1>8. Kept(op'.cr) BY <1>3, <1>5, <1>7
  <1> QED BY <1>1, <1>6, <1>8 DEF Modes

\* What CR holds when an erase is started.
LEMMA StartTarget ==
  ASSUME FlashTypes, Shape, Erasing, Exact, op.todo # <<>>, At("start")
  PROVE  /\ op.cr.ser \/ op.cr.mer
         /\ op.cr.ser => Named(op.cr.snb) = On
         /\ op.cr.mer => On = Sectors
         /\ On \subseteq op.asked
  <1>1. /\ Ordered(mcu, Head(op.todo), op.at) /\ "start" = Head(op.todo).does[op.at]
        /\ mcu \in {"F4", "G0"} /\ op.kind \in Kinds
    BY AtFacts DEF FlashTypes, OpType
  <1>2. ~Past("start") /\ (Past("set_page") \/ Past("set_sector") \/ Past("set_mass"))
    BY <1>1 DEF Ordered, Past
  <1>3. RunOk(mcu, op.kind, op.asked, Head(op.todo)) BY HeadFacts
  <1>4. On \subseteq op.asked BY <1>3 DEF RunOk, On
  <1>5. CASE Past("set_page") \/ Past("set_sector")
    <2>1. op.cr.ser /\ ~op.cr.mer /\ op.cr.snb = BitsOn(On) BY <1>2, <1>5 DEF Erasing, On
    <2>2. op.kind = "erase_sector" \/ (op.kind = "erase_all" /\ mcu = "G0")
      <3>1. Past("set_page") => mcu = "G0" BY <1>1, PastAccess, WhoseAccess
      <3>2. Past("set_sector") => op.kind = "erase_sector" BY <1>1, PastAccess, WhoseAccess
      <3> QED BY <1>5, <3>1, <3>2 DEF Exact, Erases
    <2>3. PICK n \in op.asked : On = {n} BY <1>3, <2>2 DEF RunOk, On
    <2>4. n \in Sectors BY <2>3 DEF Exact
    <2>5. BitsOn(On) = BitsOf[n] BY <2>3 DEF BitsOn
    <2>6. \A k \in Sectors : BitsOf[k] = BitsOf[n] => k = n BY <2>4, FlashAssumption
    <2>7. Named(BitsOf[n]) = {n} BY <2>4, <2>6 DEF Named
    <2> QED BY <1>4, <2>1, <2>3, <2>5, <2>7
  <1>6. CASE Past("set_mass") /\ ~Past("set_page") /\ ~Past("set_sector")
    <2>1. op.cr.mer /\ ~op.cr.ser BY <1>2, <1>6 DEF Erasing
    <2>2. op.kind = "erase_all" /\ mcu = "F4" BY <1>1, <1>6, PastAccess, WhoseAccess
    <2>3. On = Sectors BY <1>3, <2>2 DEF RunOk, On
    <2> QED BY <1>4, <2>1, <2>3
  <1> QED BY <1>2, <1>5, <1>6

\* What CR names for an erase.
LEMMA StepErasing ==
  ASSUME FlashTypes, Shape, Modes, Erasing, Step PROVE Erasing'
  <1>1. op.todo # <<>> /\ op' \in OpType /\ UNCHANGED <<mcu, used>> BY StepForms
  <1>2. PICK d : At(d) /\ StepForm(d) BY StepForms
  <1>3. SameAim BY <1>2, SameAimStep
  <1>4. SUFFICES ASSUME Exact, op'.todo # <<>> PROVE Erasing'
    <2>1. Exact' <=> Exact BY <1>1, <1>3 DEF Exact, SameAim
    <2> QED BY <2>1 DEF Erasing
  <1>5. /\ op.kind \in Kinds /\ mcu \in {"F4", "G0"} /\ d \in AccessesOf(mcu, op.kind)
        /\ fl.cr \in CrType /\ op.cr \in CrType
    BY <1>1, <1>2, AtFacts DEF FlashTypes, OpType, FlType
  <1>6. op.kind \in Erases /\ op.kind \notin Writing BY <1>4 DEF Exact, Erases, Writing
  <1>7. CASE op' = op /\ fl' = fl BY <1>1, <1>7 DEF Erasing, Exact, Past
  <1>8. ~Errs
    <2>1. CleanUp = <<>> BY <1>6 DEF CleanUp, Writing, Erases
    <2> QED BY <1>4, <2>1 DEF Errs
  <1>9. ~Cleaning
    <2>1. d \notin {"clear_pg", "inc_off"} BY <1>5, <1>6, WhoseAccess
    <2> QED BY <1>2, <2>1 DEF Cleaning, At
  <1>10. CASE fl' \in Effect(d) /\ Goes(NewCr(d))
    <2>1. Effects(d, fl') BY <1>1, <1>2, <1>10, EffectFacts
    <2>2. \/ /\ op.at < Len(Head(op.todo).does) /\ op'.todo = op.todo /\ op'.at = op.at + 1
             /\ \A x : Past(x)' <=> Past(x) \/ d = x
          \/ /\ op.at = Len(Head(op.todo).does) /\ op'.todo = Tail(op.todo) /\ op'.at = 1
             /\ \A x : ~Past(x)'
      BY <1>1, <1>2, <1>10, GoesPast
    <2>3. CASE op'.todo = Tail(op.todo) /\ \A x : ~Past(x)'
      <3>1. mcu # "F4"
        <4>1. SUFFICES ASSUME mcu = "F4" PROVE FALSE OBVIOUS
        <4>2. Len(op.todo) = 1 BY <1>1, <1>6, <4>1 DEF Shape, Single
        <4>3. op.todo \in Seq(RunType) BY DEF FlashTypes, OpType
        <4>4. Tail(op.todo) = <<>> BY <4>2, <4>3, LastTail
        <4> QED BY <1>4, <2>3, <4>4, Zenon
      <3> QED BY <1>1, <2>3, <3>1 DEF Erasing
    <2>4. CASE op'.todo = op.todo /\ \A x : Past(x)' <=> Past(x) \/ d = x
      <3>1. op'.cr = NewCr(d) /\ Head(op'.todo).on = On BY <1>10, <2>4 DEF Goes, On
      <3>2. Ordered(mcu, Head(op.todo), op.at) /\ d = Head(op.todo).does[op.at] BY <1>1, <1>2, AtFacts
      <3>3. /\ d \in {"set_page", "set_sector", "set_mass", "start"} => Past("read_cr") /\ ~Past("start")
            /\ d = "start" => Past("set_page") \/ Past("set_sector") \/ Past("set_mass")
            /\ d = "read_cr" /\ (Past("set_page") \/ Past("set_sector") \/ Past("set_mass")) => Past("start")
            /\ d = "clear_per" => Past("start")
        BY <3>2 DEF Ordered, Past
      <3>4. /\ d \in {"set_page", "clear_per"} => mcu = "G0"
            /\ d = "set_sector" => mcu = "F4" /\ op.kind = "erase_sector"
            /\ d = "set_mass" => mcu = "F4" /\ op.kind = "erase_all"
            /\ d \notin {"set_pg", "clear_pg", "set_lock", "key1", "key2"}
        BY <1>5, <1>6, WhoseAccess DEF Erases
      <3>5. /\ Past("set_page") => mcu = "G0"
            /\ Past("set_sector") => mcu = "F4" /\ op.kind = "erase_sector"
            /\ Past("set_mass") => mcu = "F4" /\ op.kind = "erase_all"
        BY <1>1, <1>5, PastAccess, WhoseAccess
      <3>6. /\ mcu = "F4" /\ ~Past("set_sector") /\ ~Past("set_mass") =>
                 /\ ~fl.cr.pg /\ ~fl.cr.ser /\ ~fl.cr.mer
                 /\ Past("read_cr") => ~op.cr.ser /\ ~op.cr.mer
            /\ ~Past("start") /\ (Past("set_page") \/ Past("set_sector")) =>
                 op.cr.ser /\ ~op.cr.mer /\ op.cr.snb = BitsOn(On)
            /\ ~Past("start") /\ Past("set_mass") => op.cr.mer /\ ~op.cr.ser
        BY <1>1, <1>4 DEF Erasing, On
      <3>7. /\ d \notin {"set_page", "set_sector", "set_mass", "clear_per", "read_cr"} => NewCr(d) = op.cr
            /\ d = "read_cr" => NewCr(d) = fl.cr
        BY <3>4 DEF NewCr
      <3>8. d \notin {"set_page", "set_sector", "set_mass", "clear_per", "start"} => fl'.cr = fl.cr
        BY <2>1, <3>4 DEF Effects, Setting
      <3>9. mcu = "F4" /\ ~Past("set_sector")' /\ ~Past("set_mass")' =>
              /\ ~fl'.cr.pg /\ ~fl'.cr.ser /\ ~fl'.cr.mer
              /\ Past("read_cr")' => ~op'.cr.ser /\ ~op'.cr.mer
        <4>1. SUFFICES ASSUME mcu = "F4", ~Past("set_sector"), ~Past("set_mass"),
                              d \notin {"set_sector", "set_mass"}
                       PROVE  /\ ~fl'.cr.pg /\ ~fl'.cr.ser /\ ~fl'.cr.mer
                              /\ Past("read_cr")' => ~op'.cr.ser /\ ~op'.cr.mer
          BY <2>4
        <4>2. d \notin {"set_page", "set_sector", "set_mass", "clear_per", "start"}
          BY <3>3, <3>4, <3>5, <4>1
        <4>3. fl'.cr = fl.cr BY <3>8, <4>2
        <4>4. op'.cr = IF d = "read_cr" THEN fl.cr ELSE op.cr BY <3>1, <3>7, <4>2
        <4> QED BY <2>4, <3>6, <4>1, <4>3, <4>4
      <3>10. ~Past("start")' /\ (Past("set_page")' \/ Past("set_sector")') =>
               op'.cr.ser /\ ~op'.cr.mer /\ op'.cr.snb = BitsOn(On)
        <4>1. SUFFICES ASSUME ~Past("start"), d # "start",
                              Past("set_page") \/ Past("set_sector") \/ d \in {"set_page", "set_sector"}
                       PROVE  op'.cr.ser /\ ~op'.cr.mer /\ op'.cr.snb = BitsOn(On)
          BY <2>4
        <4>2. CASE d = "set_page"
          <5>1. op'.cr = [op.cr EXCEPT !.ser = TRUE, !.snb = BitsOn(On)] BY <3>1, <4>2 DEF NewCr
          <5>2. ~op.cr.mer BY <3>4, <4>2 DEF Modes
          <5> QED BY <1>5, <5>1, <5>2 DEF CrType
        <4>3. CASE d = "set_sector"
          <5>1. op'.cr = [op.cr EXCEPT !.ser = TRUE, !.snb = @ \cup Field(On)] BY <3>1, <4>3 DEF NewCr
          <5>2. mcu = "F4" /\ Past("read_cr") /\ ~Past("set_mass") BY <3>3, <3>4, <3>5, <4>3
          <5>3. ~op.cr.mer /\ op.cr.snb \in {{}, BitsOn(On)}
            <6>1. CASE Past("set_sector") BY <3>6, <4>1, <6>1
            <6>2. CASE ~Past("set_sector") BY <3>6, <5>2, <6>2 DEF Modes
            <6> QED BY <6>1, <6>2
          <5>4. BitsOn(On) \subseteq Bits
            <6>1. RunOk(mcu, op.kind, op.asked, Head(op.todo)) BY <1>1, HeadFacts
            <6>2. On \subseteq Sectors BY <1>4, <6>1 DEF RunOk, On, Exact
            <6>3. \A n \in Sectors : BitsOf[n] \subseteq Bits BY FlashAssumption
            <6> QED BY <6>2, <6>3 DEF BitsOn
          <5>5. op.cr.snb \cup Field(On) = BitsOn(On) BY <5>3, <5>4 DEF Field
          <5> QED BY <1>5, <5>1, <5>3, <5>5 DEF CrType
        <4>4. CASE d \notin {"set_page", "set_sector"}
          <5>1. Past("set_page") \/ Past("set_sector") BY <4>1, <4>4
          <5>2. d \notin {"read_cr", "set_mass", "clear_per"} BY <3>3, <3>4, <3>5, <4>1, <5>1
          <5>3. op'.cr = op.cr BY <3>1, <3>7, <4>4, <5>2
          <5> QED BY <3>6, <4>1, <5>1, <5>3
        <4> QED BY <4>2, <4>3, <4>4
      <3>11. ~Past("start")' /\ Past("set_mass")' => op'.cr.mer /\ ~op'.cr.ser
        <4>1. SUFFICES ASSUME ~Past("start"), d # "start", Past("set_mass") \/ d = "set_mass"
                       PROVE  op'.cr.mer /\ ~op'.cr.ser
          BY <2>4
        <4>2. CASE d = "set_mass"
          <5>1. op'.cr = [op.cr EXCEPT !.mer = TRUE] BY <3>1, <4>2 DEF NewCr
          <5>2. mcu = "F4" /\ Past("read_cr") /\ ~Past("set_sector") BY <3>3, <3>4, <3>5, <4>2
          <5>3. ~op.cr.ser BY <3>6, <4>1, <5>2
          <5> QED BY <1>5, <5>1, <5>3 DEF CrType
        <4>3. CASE d # "set_mass"
          <5>1. Past("set_mass") BY <4>1, <4>3
          <5>2. d \notin {"read_cr", "set_page", "set_sector", "clear_per"}
            BY <3>3, <3>4, <3>5, <4>1, <5>1
          <5>3. op'.cr = op.cr BY <3>1, <3>7, <4>3, <5>2
          <5> QED BY <3>6, <4>1, <5>1, <5>3
        <4> QED BY <4>2, <4>3
      <3>12. Head(op.todo)'.on = On BY <3>1
      <3> QED BY <1>1, <3>9, <3>10, <3>11, <3>12, Zenon DEF Erasing
    <2> QED BY <2>2, <2>3, <2>4
  <1> QED BY <1>2, <1>4, <1>7, <1>8, <1>9, <1>10 DEF StepForm, Ends

\* What a job started by this step is for.
LEMMA JobStarted ==
  ASSUME FlashTypes, Shape, Erasing, op.todo # <<>>, NEW d, At(d), NEW f, Effects(d, f)
  PROVE  \/ f.job = fl.job
         \/ d = "start" /\ op.kind \in Erases /\ f.job.do = "erase" /\ f.job.own
            /\ (Exact => f.job.on \subseteq op.asked)
         \/ d \in {"data", "high"} /\ op.kind \in Writing /\ f.job.do = "program" /\ f.job.own
            /\ f.job.on \subseteq op.asked
  <1>1. op.kind \in Kinds /\ mcu \in {"F4", "G0"} /\ d \in AccessesOf(mcu, op.kind)
    BY AtFacts DEF FlashTypes, OpType
  <1>2. On \subseteq op.asked BY HeadFacts DEF RunOk, On
  <1>3. CASE f.job = fl.job BY <1>3
  <1>4. CASE /\ d = "start" /\ f.job.do = "erase" /\ f.job.own
             /\ \/ NewCr(d).ser /\ f.job.on = Named(NewCr(d).snb)
                \/ NewCr(d).mer /\ f.job.on = Sectors
    <2>1. op.kind \in Erases BY <1>1, <1>4, WhoseAccess
    <2>2. NewCr(d) = op.cr BY <1>4 DEF NewCr
    <2>3. ASSUME Exact PROVE f.job.on \subseteq op.asked
      <3>1. /\ op.cr.ser => Named(op.cr.snb) = On
            /\ op.cr.mer => On = Sectors
        BY <1>4, <2>3, StartTarget
      <3> QED BY <1>2, <1>4, <2>2, <3>1
    <2> QED BY <1>4, <2>1, <2>3
  <1>5. CASE d \in {"data", "high"} /\ f.job = [do |-> "program", on |-> On, own |-> TRUE]
    BY <1>1, <1>2, <1>5, WhoseAccess
  <1> QED BY <1>3, <1>4, <1>5 DEF Effects

LEMMA StepOwn ==
  ASSUME FlashTypes, Shape, Erasing, Own, Step PROVE Own'
  <1>1. op.todo # <<>> /\ UNCHANGED <<mcu, used>> BY StepForms
  <1>2. PICK d : At(d) /\ StepForm(d) BY StepForms
  <1>3. SameAim /\ (fl' = fl \/ Effects(d, fl')) BY <1>1, <1>2, SameAimStep, ControllerStep
  <1>4. /\ op'.kind = op.kind /\ op'.asked = op.asked /\ op'.done = op.done
        /\ Exact' <=> Exact
    BY <1>1, <1>3 DEF Exact, SameAim
  <1>5. op.kind \in Erases => op.kind \notin Writing BY DEF Erases, Writing
  <1>6. CASE fl'.job = fl.job BY <1>4, <1>6 DEF Own
  <1>7. CASE op.kind \in Erases /\ fl'.job.do = "erase" /\ (Exact => fl'.job.on \subseteq op.asked)
    BY <1>4, <1>5, <1>7 DEF Own
  <1>8. CASE op.kind \in Writing /\ fl'.job.do = "program" /\ fl'.job.on \subseteq op.asked
    BY <1>4, <1>5, <1>8 DEF Own
  <1> QED BY <1>1, <1>2, <1>3, <1>6, <1>7, <1>8, JobStarted

LEMMA StepBlank ==
  ASSUME FlashTypes, Shape, Erasing, Blank, Step PROVE Blank'
  <1>1. op.todo # <<>> /\ UNCHANGED <<mcu, used>> BY StepForms
  <1>2. PICK d : At(d) /\ StepForm(d) BY StepForms
  <1>3. SameAim /\ (fl' = fl \/ Effects(d, fl')) BY <1>1, <1>2, SameAimStep, ControllerStep
  <1>4. fl'.job = fl.job \/ fl'.job.own BY <1>1, <1>2, <1>3, JobStarted
  <1>5. /\ op'.kind = op.kind /\ op'.asked = op.asked /\ op'.done = op.done
        /\ op'.blank = op.blank /\ op'.reset = op.reset
    BY <1>3 DEF SameAim
  <1> QED BY <1>1, <1>4, <1>5 DEF Blank

\* A step of an operation that goes on as it should.
LEMMA SureStep ==
  ASSUME FlashTypes, Shape, Step, Sure'
  PROVE  /\ op.todo # <<>> /\ UNCHANGED <<mcu, used>> /\ SameAim /\ Sure
         /\ op.kind \in Erases \cup Writing /\ (Exact \/ op.kind \in Writing)
         /\ \/ op' = op /\ fl' = fl
            \/ \E d : At(d) /\ fl' \in Effect(d) /\ Allowed(d) /\ Goes(NewCr(d)) /\ Effects(d, fl')
  <1>1. op.todo # <<>> /\ op' \in OpType /\ UNCHANGED <<mcu, used>> BY StepForms
  <1>2. PICK d : At(d) /\ StepForm(d) BY StepForms
  <1>3. SameAim /\ (op'.res = "Ok" => op.res = "Ok") BY <1>2, SameAimStep
  <1>4. op'.res = "Ok" BY DEF Sure
  <1>5. Exact' <=> Exact BY <1>1, <1>3 DEF Exact, SameAim
  <1>6. Sure BY <1>1, <1>3, <1>4, <1>5 DEF Sure, SameAim
  <1>7. op.kind \in Erases \cup Writing /\ (Exact \/ op.kind \in Writing) BY <1>6 DEF Sure, Exact
  <1>8. op.res = "Ok" /\ ~Cleaning BY <1>3, <1>4 DEF Cleaning
  <1>9. op.kind \in Kinds /\ mcu \in {"F4", "G0"} /\ d \in AccessesOf(mcu, op.kind)
    BY <1>1, <1>2, AtFacts DEF FlashTypes, OpType
  <1>10. d # "check_lock"
    <2>1. op.kind # "unlock" BY <1>7 DEF Erases, Writing
    <2> QED BY <1>9, <2>1, WhoseAccess
  <1>11. CASE op' = op /\ fl' = fl BY <1>1, <1>3, <1>6, <1>7, <1>11
  <1>12. CASE fl' \in Effect(d) /\ Allowed(d) /\ Goes(NewCr(d))
    <2>1. Effects(d, fl') BY <1>1, <1>2, <1>12, EffectFacts
    <2> QED BY <1>1, <1>2, <1>3, <1>6, <1>7, <1>12, <2>1
  <1> QED BY <1>2, <1>4, <1>8, <1>10, <1>11, <1>12 DEF StepForm, Ends, Errs

\* The controller of an operation that goes on as it should is set up for its next access.
LEMMA StepSetUp ==
  ASSUME FlashTypes, Shape, Modes, SetUp, Step PROVE SetUp'
  <1>1. SUFFICES ASSUME Sure', op'.todo # <<>> PROVE SetUp' BY DEF SetUp
  <1>2. /\ op.todo # <<>> /\ mcu' = mcu /\ SameAim /\ Sure
        /\ op.kind \in Erases \cup Writing
        /\ \/ op' = op /\ fl' = fl
           \/ \E d : At(d) /\ fl' \in Effect(d) /\ Allowed(d) /\ Goes(NewCr(d)) /\ Effects(d, fl')
    BY <1>1, SureStep
  <1>3. CASE op' = op /\ fl' = fl BY <1>2, <1>3 DEF SetUp, Past
  <1>4. ASSUME NEW d, At(d), Goes(NewCr(d)), Effects(d, fl') PROVE SetUp'
    <2> DEFINE Plain == mcu = "F4" /\ op.kind \in Writing
               Good(cr) == /\ ~cr.lock \/ Plain
                           /\ op.kind \in Erases => ~cr.pg
                           /\ mcu = "G0" /\ op.kind \in Writing => ~cr.ser
    <2>1. /\ op.kind \in Kinds /\ mcu \in {"F4", "G0"} /\ d \in AccessesOf(mcu, op.kind)
          /\ fl.cr \in CrType /\ op.cr \in CrType
      BY <1>2, <1>4, AtFacts DEF FlashTypes, OpType, FlType
    <2>2. /\ d \in {"start", "set_page", "set_sector", "set_mass", "clear_per"} => op.kind \in Erases
          /\ d \in {"data", "low", "high", "set_pg", "clear_pg"} => op.kind \in Writing
          /\ d \in {"low", "high"} => mcu = "G0"
          /\ d \notin {"check_lock", "key1", "key2", "set_lock"}
          /\ op.kind \in Erases <=> op.kind \notin Writing
      <3>1. op.kind \notin {"unlock", "lock"} /\ (op.kind \in Erases <=> op.kind \notin Writing)
        BY <1>2 DEF Erases, Writing
      <3> QED BY <2>1, <3>1, WhoseAccess
    <2>3. /\ Good(fl.cr)
          /\ Past("read_cr") => Good(op.cr)
          /\ mcu = "G0" /\ Past("set_pg") => fl.cr.pg
          /\ mcu = "G0" /\ Past("low") /\ ~Past("high") => fl.half
      BY <1>2 DEF SetUp
    <2>4. Ordered(mcu, Head(op.todo), op.at) /\ d = Head(op.todo).does[op.at]
      BY <1>2, <1>4, AtFacts
    <2>5. /\ d \in {"set_page", "set_sector", "set_mass", "set_pg", "clear_pg", "clear_per", "start"} =>
               Past("read_cr")
          /\ d = "clear_pg" => op.at = Len(Head(op.todo).does)
          /\ mcu = "G0" /\ d = "low" => Past("set_pg")
      BY <2>4 DEF Ordered, Past
    <2>6. d = "read_cr" \/ Past("read_cr") => Good(NewCr(d))
      <3>1. CASE d = "read_cr"
        <4>1. NewCr(d) = fl.cr BY <3>1 DEF NewCr
        <4> QED BY <2>3, <4>1
      <3>2. CASE d = "set_page" BY <2>1, <2>2, <2>3, <3>2 DEF NewCr, CrType
      <3>3. CASE d = "set_sector" BY <2>1, <2>2, <2>3, <3>3 DEF NewCr, CrType
      <3>4. CASE d = "set_mass" BY <2>1, <2>2, <2>3, <3>4 DEF NewCr, CrType
      <3>5. CASE d = "set_pg" BY <2>1, <2>2, <2>3, <3>5 DEF NewCr, CrType
      <3>6. CASE d = "clear_pg" BY <2>1, <2>2, <2>3, <3>6 DEF NewCr, CrType
      <3>7. CASE d = "clear_per" BY <2>1, <2>2, <2>3, <3>7 DEF NewCr, CrType
      <3>8. CASE d \notin {"read_cr", "set_page", "set_sector", "set_mass", "set_pg", "clear_pg", "clear_per"}
        <4>1. NewCr(d) = op.cr BY <2>2, <3>8 DEF NewCr
        <4> QED BY <2>3, <3>8, <4>1
      <3> QED BY <3>1, <3>2, <3>3, <3>4, <3>5, <3>6, <3>7, <3>8
    <2>7. Good(fl'.cr)
      <3>1. CASE d \in Setting \cup {"start"}
        <4>1. Past("read_cr") BY <2>2, <2>5, <3>1 DEF Setting
        <4>2. fl'.cr \in {fl.cr, NewCr(d)} BY <1>4, <3>1 DEF Effects
        <4> QED BY <2>3, <2>6, <4>1, <4>2
      <3>2. CASE d \notin Setting \cup {"start"}
        <4>1. fl'.cr = fl.cr BY <1>4, <2>2, <3>2 DEF Effects
        <4> QED BY <2>3, <4>1
      <3> QED BY <3>1, <3>2
    <2>8. op'.cr = NewCr(d) /\ op'.kind = op.kind BY <1>2, <1>4 DEF Goes, SameAim
    <2>9. \/ /\ op.at < Len(Head(op.todo).does) /\ \A x : Past(x)' <=> Past(x) \/ d = x
          \/ \A x : ~Past(x)'
      BY <1>2, <1>4, GoesPast
    <2> HIDE DEF Good
    <2>10. Past("read_cr")' => Good(op'.cr) BY <2>6, <2>8, <2>9
    <2>11. mcu = "G0" /\ Past("set_pg")' => fl'.cr.pg
      <3>1. SUFFICES ASSUME mcu = "G0", op.at < Len(Head(op.todo).does), Past("set_pg") \/ d = "set_pg"
                     PROVE  fl'.cr.pg
        BY <2>9
      <3>2. op.kind \in Writing
        <4>1. Past("set_pg") => op.kind \in Writing BY <1>2, <2>1, PastAccess, WhoseAccess
        <4> QED BY <2>2, <3>1, <4>1
      <3>3. d # "clear_pg"
        <4>1. Len(Head(op.todo).does) \in Nat BY <1>2, HeadFacts
        <4> QED BY <2>5, <3>1, <4>1
      <3>4. CASE d = "set_pg"
        <4>1. ~fl.cr.lock BY <2>3, <3>1 DEF Good
        <4>2. fl'.cr = NewCr(d) BY <1>4, <3>4, <4>1 DEF Effects, Setting
        <4> QED BY <2>1, <3>4, <4>2 DEF NewCr, CrType
      <3>5. CASE d # "set_pg"
        <4>1. d \notin Setting \cup {"start", "key1", "key2"} BY <2>2, <3>2, <3>3, <3>5 DEF Setting
        <4>2. fl'.cr = fl.cr BY <1>4, <4>1 DEF Effects
        <4> QED BY <2>3, <3>1, <3>5, <4>2
      <3> QED BY <3>4, <3>5
    <2>12. mcu = "G0" /\ Past("low")' /\ ~Past("high")' => fl'.half
      <3>1. SUFFICES ASSUME mcu = "G0", Past("low") \/ d = "low", ~Past("high"), d # "high"
                     PROVE  fl'.half
        BY <2>9
      <3>2. CASE d = "low"
        <4>1. fl.cr.pg /\ op.kind \in Writing BY <2>2, <2>3, <2>5, <3>1, <3>2
        <4>2. ~fl.cr.ser BY <2>3, <3>1, <4>1 DEF Good
        <4>3. ~fl.cr.mer BY <3>1 DEF Modes
        <4> QED BY <1>4, <3>2, <4>1, <4>2, <4>3 DEF Effects
      <3>3. CASE d # "low"
        <4>1. fl'.half = fl.half BY <1>4, <3>1, <3>3 DEF Effects
        <4> QED BY <2>3, <3>1, <3>3, <4>1
      <3> QED BY <3>2, <3>3
    <2>13. /\ Past("read_cr")' =>
                /\ ~op'.cr.lock \/ (mcu = "F4" /\ op.kind \in Writing)
                /\ op.kind \in Erases => ~op'.cr.pg
                /\ mcu = "G0" /\ op.kind \in Writing => ~op'.cr.ser
           /\ ~fl'.cr.lock \/ (mcu = "F4" /\ op.kind \in Writing)
           /\ op.kind \in Erases => ~fl'.cr.pg
           /\ mcu = "G0" /\ op.kind \in Writing => ~fl'.cr.ser
      BY <2>7, <2>10 DEF Good
    <2> QED BY <1>2, <2>8, <2>11, <2>12, <2>13, Zenon DEF SetUp
  <1> QED BY <1>2, <1>3, <1>4

\* A run that is left has done what it is for.
LEMMA RunDone ==
  ASSUME FlashTypes, Shape, Doing, Sure, op.todo # <<>>, NEW d, At(d), Allowed(d),
         d = "poll" \/ op.at = Len(Head(op.todo).does)
  PROVE  On \subseteq op.done
  <1>1. /\ op.at \in 1 .. Len(Head(op.todo).does) /\ Len(Head(op.todo).does) \in Nat
        /\ Head(op.todo).does \in Seq(Accesses) /\ RunOk(mcu, op.kind, op.asked, Head(op.todo))
    BY HeadFacts
  <1>2. /\ Past("start") \/ Past("high") \/ Past("data") =>
              \/ fl.err # "none" \/ On \subseteq op.done
              \/ fl.job.do # "none" /\ fl.job.own /\ fl.job.on = On
        /\ Past("poll") => On \subseteq op.done
    BY DEF Doing
  <1>3. CASE d = "poll"
    <2>1. Ordered(mcu, Head(op.todo), op.at) /\ d = Head(op.todo).does[op.at] BY AtFacts
    <2>2. Past("start") \/ Past("high") \/ Past("data") BY <1>3, <2>1 DEF Ordered, Past
    <2>3. fl.err = "none" /\ fl.job.do = "none" BY <1>3 DEF Allowed, Busy
    <2> QED BY <1>2, <2>2, <2>3
  <1>4. CASE d # "poll"
    <2>1. CASE On = {} BY <2>1
    <2>2. CASE \E k \in DOMAIN Head(op.todo).does : Head(op.todo).does[k] = "poll"
      <3>1. PICK k \in DOMAIN Head(op.todo).does : Head(op.todo).does[k] = "poll" BY <2>2
      <3>2. k \in 1 .. Len(Head(op.todo).does) BY <1>1, <3>1, LenProperties
      <3>3. d = Head(op.todo).does[op.at] BY AtFacts
      <3>4. k \in 1 .. op.at - 1 BY <1>1, <1>4, <3>1, <3>2, <3>3
      <3>5. Past("poll") BY <3>1, <3>4 DEF Past, Before
      <3> QED BY <1>2, <3>5
    <2> QED BY <1>1, <2>1, <2>2 DEF RunOk, On
  <1> QED BY <1>3, <1>4

\* What an operation that goes on as it should has done, is doing and has left.
LEMMA StepDoing ==
  ASSUME FlashTypes, Shape, Erasing, SetUp, Doing, Step PROVE Doing'
  <1>1. SUFFICES ASSUME Sure' PROVE Doing' BY DEF Doing
  <1>2. /\ op.todo # <<>> /\ mcu' = mcu /\ SameAim /\ Sure
        /\ op.kind \in Erases \cup Writing /\ (Exact \/ op.kind \in Writing)
        /\ \/ op' = op /\ fl' = fl
           \/ \E d : At(d) /\ fl' \in Effect(d) /\ Allowed(d) /\ Goes(NewCr(d)) /\ Effects(d, fl')
    BY <1>1, SureStep
  <1>3. CASE op' = op /\ fl' = fl BY <1>2, <1>3 DEF Doing, Past, On
  <1>4. ASSUME NEW d, At(d), Allowed(d), Goes(NewCr(d)), Effects(d, fl') PROVE Doing'
    <2>1. op'.asked = op.asked /\ op'.done = op.done BY <1>2 DEF SameAim
    <2>2. /\ Past("start") \/ Past("high") \/ Past("data") =>
                \/ fl.err # "none" \/ On \subseteq op.done
                \/ fl.job.do # "none" /\ fl.job.own /\ fl.job.on = On
          /\ Past("poll") => On \subseteq op.done
          /\ \A x \in op.asked : x \in op.done \/ \E i \in DOMAIN op.todo : x \in op.todo[i].on
      BY <1>2 DEF Doing
    <2>3. \/ /\ op.at < Len(Head(op.todo).does) /\ op'.todo = op.todo /\ op'.at = op.at + 1
             /\ \A x : Past(x)' <=> Past(x) \/ d = x
          \/ /\ op.at = Len(Head(op.todo).does) /\ op'.todo = Tail(op.todo) /\ op'.at = 1
             /\ \A x : ~Past(x)'
      BY <1>2, <1>4, GoesPast
    <2>4. CASE op.at = Len(Head(op.todo).does) /\ op'.todo = Tail(op.todo) /\ \A x : ~Past(x)'
      <3>1. On \subseteq op.done BY <1>2, <1>4, <2>4, RunDone
      <3>2. op.todo \in Seq(RunType) BY DEF FlashTypes, OpType
      <3>3. PICK t : t = Tail(op.todo) OBVIOUS
      <3>4. /\ DOMAIN op.todo = 1 .. Len(op.todo) /\ Len(op.todo) \in Nat \ {0}
            /\ DOMAIN t = 1 .. Len(op.todo) - 1 /\ op.todo[1] = Head(op.todo)
            /\ \A i \in 1 .. Len(op.todo) - 1 : t[i] = op.todo[i + 1]
        BY <1>2, <3>2, <3>3
      <3>5. ASSUME NEW x \in op.asked, x \notin op.done PROVE \E i \in DOMAIN t : x \in t[i].on
        <4>1. PICK i \in DOMAIN op.todo : x \in op.todo[i].on BY <2>2, <3>5
        <4>2. i # 1 BY <3>1, <3>4, <3>5, <4>1 DEF On
        <4>3. i - 1 \in DOMAIN t /\ t[i - 1] = op.todo[i] BY <3>4, <4>1, <4>2
        <4> QED BY <4>1, <4>3
      <3>6. op'.todo = t BY <2>4, <3>3
      <3> QED BY <2>1, <2>4, <3>5, <3>6 DEF Doing
    <2>5. CASE /\ op'.todo = op.todo
               /\ \A x : Past(x)' <=> Past(x) \/ d = x
      <3>1. Past("poll")' => On \subseteq op.done BY <1>2, <1>4, <2>2, <2>5, RunDone
      <3>2. Ordered(mcu, Head(op.todo), op.at) /\ d = Head(op.todo).does[op.at] BY <1>2, <1>4, AtFacts
      <3>3. /\ d = "clear_sr" => ~Past("start") /\ ~Past("high") /\ ~Past("data")
            /\ d = "start" => Past("read_cr")
            /\ mcu = "G0" /\ d = "high" => Past("low")
            /\ d = "high" => ~Past("high")
        BY <3>2 DEF Ordered, Past
      <3>4. op.kind \in Kinds /\ mcu \in {"F4", "G0"} /\ d \in AccessesOf(mcu, op.kind)
        BY <1>2, <1>4, AtFacts DEF FlashTypes, OpType
      <3>5. Past("start")' \/ Past("high")' \/ Past("data")' =>
              \/ fl'.err # "none" \/ On \subseteq op.done
              \/ fl'.job.do # "none" /\ fl'.job.own /\ fl'.job.on = On
        <4>1. CASE d = "start"
          <5>1. op.kind \in Erases BY <3>4, <4>1, WhoseAccess
          <5>2. op.kind \notin Writing BY <5>1 DEF Erases, Writing
          <5>3. ~fl.cr.lock /\ ~op.cr.pg BY <1>2, <3>3, <4>1, <5>1, <5>2 DEF SetUp
          <5>4. /\ op.cr.ser \/ op.cr.mer
                /\ op.cr.ser => Named(op.cr.snb) = On
                /\ op.cr.mer => On = Sectors
            BY <1>2, <1>4, <4>1, <5>2, StartTarget
          <5>5. NewCr(d) = op.cr BY <4>1 DEF NewCr
          <5>6. fl'.job.do = "erase" /\ fl'.job.own /\ fl'.job.on = On
            BY <1>4, <4>1, <5>3, <5>4, <5>5 DEF Effects
          <5> QED BY <5>6
        <4>2. CASE d = "high"
          <5>1. mcu = "G0" BY <3>4, <4>2, WhoseAccess
          <5>2. fl.half BY <1>2, <3>3, <4>2, <5>1 DEF SetUp
          <5>3. fl'.job = [do |-> "program", on |-> On, own |-> TRUE] BY <1>4, <4>2, <5>2 DEF Effects
          <5> QED BY <5>3
        <4>3. CASE d = "data"
          <5>1. mcu # "G0" BY <3>4, <4>3, WhoseAccess
          <5>2. fl'.err = "own" \/ fl'.job = [do |-> "program", on |-> On, own |-> TRUE]
            BY <1>4, <4>3, <5>1 DEF Effects
          <5> QED BY <5>2
        <4>4. CASE d \notin {"start", "high", "data"}
          <5>1. SUFFICES ASSUME Past("start") \/ Past("high") \/ Past("data")
                         PROVE  \/ fl'.err # "none" \/ On \subseteq op.done
                                \/ fl'.job.do # "none" /\ fl'.job.own /\ fl'.job.on = On
            BY <2>5, <4>4
          <5>2. fl'.job = fl.job /\ fl'.err \in {fl.err, "own"} BY <1>4, <3>3, <4>4, <5>1 DEF Effects
          <5> QED BY <2>2, <5>1, <5>2
        <4> QED BY <4>1, <4>2, <4>3, <4>4
      <3>6. On' = On BY <2>5 DEF On
      <3> QED BY <2>1, <2>2, <2>5, <3>1, <3>5, <3>6, Zenon DEF Doing
    <2> QED BY <2>3, <2>4, <2>5
  <1> QED BY <1>2, <1>3, <1>4

-----------------------------------------------------------------------------
(* The controller's own steps keep the invariant                           *)

\* All of an operation but what it has done.
SameOp ==
  /\ op'.kind = op.kind /\ op'.asked = op.asked /\ op'.todo = op.todo /\ op'.at = op.at
  /\ op'.res = op.res /\ op'.cr = op.cr /\ op'.own = op.own /\ op'.clean = op.clean
  /\ op'.open = op.open /\ op'.blank = op.blank

Written == IF fl.job.do = "erase" THEN fl.job.on ELSE fl.job.on \ used

FinishForm ==
  /\ mcu' = mcu /\ fl.job.do # "none" /\ SameOp /\ op'.reset = op.reset
  /\ fl'.cr = fl.cr /\ fl'.key = fl.key /\ fl'.half = fl.half /\ fl'.job = NoJob
  /\ \/ /\ fl'.err = fl.err
        /\ used' = IF fl.job.do = "erase" THEN used \ WordsOf(fl.job.on) ELSE used \cup fl.job.on
        /\ op'.done = op.done \cup IF fl.job.own THEN Written ELSE {}
     \/ /\ fl'.err = IF fl.job.own \/ fl.err = "own" THEN "own" ELSE "old"
        /\ used' = used /\ op'.done = op.done

LEMMA FinishForms ==
  ASSUME FlashTypes, Finish
  PROVE  FinishForm /\ fl' \in FlType /\ op' \in OpType
  <1>1. fl \in FlType /\ op \in OpType BY DEF FlashTypes
  <1>2. NoJob \in JobType BY DEF NoJob, JobType
  <1>3. PICK e \in {"none", "old", "own"} : e = IF fl.job.own \/ fl.err = "own" THEN "own" ELSE "old"
    OBVIOUS
  <1>4. PICK j : j = NoJob OBVIOUS
  <1>5. CASE /\ fl' = [fl EXCEPT !.job = NoJob]
             /\ used' = IF fl.job.do = "erase" THEN used \ WordsOf(fl.job.on) ELSE used \cup fl.job.on
             /\ op' = IF ~fl.job.own THEN op ELSE [op EXCEPT !.done = @ \cup Written]
    <2>1. fl' = [fl EXCEPT !.job = j] BY <1>4, <1>5
    <2>2. /\ fl' \in FlType /\ fl'.cr = fl.cr /\ fl'.key = fl.key /\ fl'.half = fl.half
          /\ fl'.job = NoJob /\ fl'.err = fl.err
      BY <1>1, <1>2, <1>4, <2>1 DEF FlType
    <2>3. PICK w : w = Written OBVIOUS
    <2>4. w \in SUBSET Nat BY <1>1, <2>3 DEF Written, FlType, JobType
    <2>5. CASE fl.job.own
      <3>1. op' = [op EXCEPT !.done = op.done \cup w] BY <1>1, <1>5, <2>3, <2>5 DEF OpType
      <3>2. PICK v : v = op.done \cup w OBVIOUS
      <3>3. v \in SUBSET Nat BY <1>1, <2>4, <3>2 DEF OpType
      <3>4. op' = [op EXCEPT !.done = v] BY <3>1, <3>2
      <3>5. op' \in OpType /\ SameOp /\ op'.reset = op.reset /\ op'.done = v
        BY <1>1, <3>3, <3>4 DEF OpType, SameOp
      <3>6. op'.done = op.done \cup IF fl.job.own THEN Written ELSE {} BY <2>3, <2>5, <3>2, <3>5
      <3> QED BY <1>5, <2>2, <3>5, <3>6 DEF FinishForm, Finish
    <2>6. CASE ~fl.job.own
      <3>1. op' = op BY <1>5, <2>6
      <3>2. op'.done = op.done \cup IF fl.job.own THEN Written ELSE {} BY <2>6, <3>1
      <3> QED BY <1>1, <1>5, <2>2, <3>1, <3>2 DEF FinishForm, Finish, SameOp
    <2> QED BY <2>5, <2>6
  <1>6. CASE fl' = [fl EXCEPT !.job = NoJob, !.err = e] /\ UNCHANGED <<used, op>>
    <2>1. fl' = [fl EXCEPT !.job = j, !.err = e] BY <1>4, <1>6
    <2>2. /\ fl' \in FlType /\ fl'.cr = fl.cr /\ fl'.key = fl.key /\ fl'.half = fl.half
          /\ fl'.job = NoJob /\ fl'.err = e
      BY <1>1, <1>2, <1>4, <2>1 DEF FlType
    <2> QED BY <1>1, <1>3, <1>6, <2>2 DEF FinishForm, Finish, SameOp
  <1>7. fl.err \in {"none", "old", "own"} BY <1>1 DEF FlType
  <1> QED BY <1>1, <1>3, <1>5, <1>6, <1>7 DEF Finish, Written, FlType

LEMMA FinishKeeps ==
  ASSUME FlashInv, Finish
  PROVE  /\ FlashTypes' /\ Shape' /\ Idle' /\ Unlocking' /\ Modes' /\ Erasing' /\ Own' /\ Blank'
         /\ SetUp' /\ Doing' /\ ErrorsAreOwn'
  <1>1. FinishForm /\ fl' \in FlType /\ op' \in OpType BY FinishForms DEF FlashInv
  <1>2. /\ mcu' = mcu /\ fl.job.do # "none" /\ SameOp /\ op'.reset = op.reset
        /\ fl'.cr = fl.cr /\ fl'.key = fl.key /\ fl'.half = fl.half /\ fl'.job = NoJob
    BY <1>1 DEF FinishForm
  <1>3. /\ fl'.job.do = "none" /\ fl'.job.own = FALSE /\ fl'.job.on = {} BY <1>2 DEF NoJob
  <1>4. \A x : Past(x)' <=> Past(x) BY <1>2 DEF Past, SameOp
  <1>5. fl \in FlType /\ op \in OpType BY DEF FlashInv, FlashTypes
  <1>6. FlashTypes'
    <2>1. fl.job.on \subseteq Words \/ fl.job.do = "erase" BY DEF FlashInv, FlashTypes, Targets
    <2>2. used' \subseteq Words BY <1>1, <2>1 DEF FinishForm, FlashInv, FlashTypes
    <2>3. fl'.job.on \in Targets(fl'.job.do = "erase") BY <1>3 DEF Targets
    <2> QED BY <1>1, <1>2, <1>3, <2>2, <2>3 DEF FlashInv, FlashTypes, SameOp
  <1>7. Shape' BY <1>2 DEF FlashInv, Shape, SameOp, Single
  <1>8. Idle'
    <2>1. Past("clear_sr") /\ mcu = "G0" /\ op.todo # <<>> => fl'.err # "old"
      BY <1>1, <1>2 DEF FinishForm, FlashInv, Idle
    <2> QED BY <1>2, <1>3, <1>4, <2>1 DEF FlashInv, Idle, SameOp
  <1>9. Unlocking' BY <1>2 DEF FlashInv, Unlocking, SameOp
  <1>10. Modes' BY <1>2 DEF FlashInv, Modes, SameOp
  <1>11. Exact' <=> Exact BY <1>2 DEF Exact, SameOp
  <1>12. Erasing' BY <1>2, <1>4, <1>11 DEF FlashInv, Erasing, SameOp
  <1>13. Own'
    <2>1. Written \subseteq fl.job.on BY DEF Written
    <2>2. Exact \/ op.kind \in Writing => op'.done \subseteq op.asked
      BY <1>1, <2>1 DEF FinishForm, FlashInv, Own
    <2> QED BY <1>2, <1>3, <1>11, <2>2 DEF Own, SameOp
  <1>14. Blank'
    <2>1. SUFFICES ASSUME op.kind \in Writing, op.blank, ~op.reset
                   PROVE  (op.asked \ op'.done) \cap used' = {}
      BY <1>2, <1>3 DEF Blank, SameOp
    <2>2. /\ (op.asked \ op.done) \cap used = {}
          /\ fl.job.do = "program" /\ ~fl.job.own => fl.job.on \cap op.asked = {}
      BY <2>1 DEF FlashInv, Blank
    <2>3. op.kind \notin Erases BY <2>1 DEF Writing, Erases
    <2>4. fl.job.own => fl.job.do = "program" BY <2>3 DEF FlashInv, Own
    <2>5. fl.job.do \in {"erase", "program"} BY <1>2, <1>5 DEF FlType, JobType
    <2>6. CASE used' = used /\ op'.done = op.done BY <2>2, <2>6
    <2>7. CASE /\ used' = IF fl.job.do = "erase" THEN used \ WordsOf(fl.job.on) ELSE used \cup fl.job.on
               /\ op'.done = op.done \cup IF fl.job.own THEN Written ELSE {}
      <3>1. CASE fl.job.own BY <2>2, <2>4, <2>7, <3>1 DEF Written
      <3>2. CASE ~fl.job.own BY <2>2, <2>5, <2>7, <3>2
      <3> QED BY <3>1, <3>2
    <2> QED BY <1>1, <2>6, <2>7 DEF FinishForm
  <1>15. Sure' <=> Sure BY <1>2, <1>11 DEF Sure, SameOp
  <1>16. SetUp' BY <1>2, <1>4, <1>15 DEF FlashInv, SetUp, SameOp
  <1>17. Doing'
    <2>1. SUFFICES ASSUME Sure PROVE Doing' BY <1>15 DEF Doing
    <2>2. op.done \subseteq op'.done BY <1>1 DEF FinishForm
    <2>3. ASSUME op.todo # <<>>, Past("start") \/ Past("high") \/ Past("data")
          PROVE  fl'.err # "none" \/ On \subseteq op'.done
      <3>1. \/ fl.err # "none" \/ On \subseteq op.done
            \/ fl.job.do # "none" /\ fl.job.own /\ fl.job.on = On
        BY <2>1, <2>3 DEF FlashInv, Doing
      <3>2. CASE fl'.err = fl.err /\ op'.done = op.done \cup IF fl.job.own THEN Written ELSE {}
        <4>1. CASE fl.err # "none" \/ On \subseteq op.done BY <2>2, <3>2, <4>1
        <4>2. CASE fl.job.own /\ fl.job.on = On
          <5>1. CASE fl.job.do = "erase" BY <3>2, <4>2, <5>1 DEF Written
          <5>2. CASE fl.job.do # "erase"
            <6>1. op.kind \in Writing /\ op.kind \notin Erases BY <4>2, <5>2 DEF FlashInv, Own
            <6>2. op.blank /\ ~op.reset BY <2>1, <6>1 DEF Sure, Exact
            <6>3. (op.asked \ op.done) \cap used = {} BY <6>1, <6>2 DEF FlashInv, Blank
            <6>4. On \subseteq op.asked
              <7>1. RunOk(mcu, op.kind, op.asked, Head(op.todo)) BY <2>3, HeadFacts DEF FlashInv
              <7> QED BY <7>1 DEF RunOk, On
            <6> QED BY <3>2, <4>2, <5>2, <6>3, <6>4 DEF Written
          <5> QED BY <5>1, <5>2
        <4> QED BY <3>1, <4>1, <4>2
      <3>3. CASE fl'.err = IF fl.job.own \/ fl.err = "own" THEN "own" ELSE "old" BY <3>3
      <3> QED BY <1>1, <3>2, <3>3 DEF FinishForm
    <2>4. op.todo # <<>> /\ Past("poll") => On \subseteq op'.done BY <2>1, <2>2 DEF FlashInv, Doing
    <2>5. \A x \in op.asked : x \in op'.done \/ \E i \in DOMAIN op.todo : x \in op.todo[i].on
      BY <2>1, <2>2 DEF FlashInv, Doing
    <2>6. op'.todo = op.todo /\ op'.asked = op.asked /\ On' = On BY <1>2 DEF SameOp, On
    <2> QED BY <1>4, <2>3, <2>4, <2>5, <2>6, Zenon DEF Doing
  <1>18. ErrorsAreOwn' BY <1>2 DEF FlashInv, ErrorsAreOwn, SameOp
  <1> QED BY <1>6, <1>7, <1>8, <1>9, <1>10, <1>12, <1>13, <1>14, <1>16, <1>17, <1>18

LEMMA ResetKeeps ==
  ASSUME FlashInv, TargetReset
  PROVE  /\ FlashTypes' /\ Shape' /\ Idle' /\ Unlocking' /\ Modes' /\ Erasing' /\ Own' /\ Blank'
         /\ SetUp' /\ Doing' /\ ErrorsAreOwn'
  <1>1. mcu' = mcu /\ fl' = FlashReset BY DEF TargetReset
  <1>2. op \in OpType BY DEF FlashInv, FlashTypes
  <1>3. op' \in OpType /\ SameOp /\ op'.done = op.done /\ op'.reset = TRUE
    BY <1>2 DEF TargetReset, OpType, SameOp
  <1>4. /\ fl'.cr = CrClear /\ fl'.err = "none" /\ fl'.half = FALSE /\ fl'.job = NoJob
        /\ fl'.job.do = "none" /\ fl'.job.own = FALSE /\ fl'.job.on = {}
    BY <1>1 DEF FlashReset, NoJob
  <1>5. /\ CrClear \in CrType /\ ~CrClear.pg /\ ~CrClear.ser /\ ~CrClear.mer /\ CrClear.snb = {}
    BY DEF CrClear, CrType
  <1>6. fl' \in FlType
    <2>1. NoJob \in JobType BY DEF NoJob, JobType
    <2>2. PICK c : c = CrClear OBVIOUS
    <2>3. PICK j : j = NoJob OBVIOUS
    <2>4. fl' = [cr |-> c, key |-> "none", err |-> "none", half |-> FALSE, job |-> j]
      BY <1>1, <2>2, <2>3 DEF FlashReset
    <2> QED BY <1>5, <2>1, <2>2, <2>3, <2>4 DEF FlType
  <1>7. \A x : Past(x)' <=> Past(x) BY <1>3 DEF Past, SameOp
  <1>8. FlashTypes'
    <2>1. fl.job.on \subseteq Words \/ fl.job.do = "erase" BY DEF FlashInv, FlashTypes, Targets
    <2>2. used' \subseteq Words
      <3>1. used \subseteq Words BY DEF FlashInv, FlashTypes
      <3>2. PICK w : w = WordsOf(fl.job.on) OBVIOUS
      <3>3. used' \in {used, used \cup (IF fl.job.do = "erase" THEN w \cap used ELSE fl.job.on)}
                        \cup (IF fl.job.do = "erase" THEN {used \ w} ELSE {})
        BY <3>2 DEF TargetReset
      <3>4. \/ used' = used \/ used' = used \cup (w \cap used) \/ used' = used \ w
            \/ fl.job.do # "erase" /\ used' = used \cup fl.job.on
        BY <3>3
      <3> QED BY <2>1, <3>1, <3>4
    <2>3. fl'.job.on \in Targets(fl'.job.do = "erase") BY <1>4 DEF Targets
    <2> QED BY <1>1, <1>3, <1>4, <1>6, <2>2, <2>3 DEF FlashInv, FlashTypes, SameOp
  <1>9. Shape' BY <1>1, <1>3 DEF FlashInv, Shape, SameOp, Single
  <1>10. Idle' BY <1>4 DEF Idle
  <1>11. Unlocking' BY <1>3 DEF Unlocking
  <1>12. Modes' BY <1>1, <1>3, <1>4, <1>5 DEF FlashInv, Modes, SameOp
  <1>13. Exact' <=> Exact BY <1>1, <1>3 DEF Exact, SameOp
  <1>14. Erasing' BY <1>1, <1>3, <1>4, <1>5, <1>7, <1>13 DEF FlashInv, Erasing, SameOp
  <1>15. Own' BY <1>3, <1>4, <1>13 DEF FlashInv, Own, SameOp
  <1>16. Blank' BY <1>3 DEF Blank
  <1>17. ~Sure' BY <1>3 DEF Sure
  <1>18. SetUp' /\ Doing' BY <1>17 DEF SetUp, Doing
  <1>19. ErrorsAreOwn' BY <1>1, <1>3 DEF FlashInv, ErrorsAreOwn, SameOp
  <1> QED BY <1>8, <1>9, <1>10, <1>11, <1>12, <1>14, <1>15, <1>16, <1>18, <1>19

-----------------------------------------------------------------------------
(* Requests keep the invariant                                             *)

LEMMA NewRequest ==
  ASSUME fl \in FlType, mcu \in Mcus, NEW kind \in Kinds, NEW on \in SUBSET Nat,
         NEW todo, Refusal(kind, on) = "Ok" => todo \in Seq(RunType), Request(kind, on, todo)
  PROVE  /\ op' \in OpType /\ op'.kind = kind /\ op'.asked = on /\ op'.at = 1
         /\ op'.todo = IF Refusal(kind, on) = "Ok" THEN todo ELSE <<>>
         /\ op'.res = Refusal(kind, on) /\ op'.cr = CrClear /\ op'.done = {}
         /\ op'.own = FALSE /\ op'.reset = FALSE
         /\ op'.clean = (\A mode \in Troubles(kind) : ~fl.cr[mode])
         /\ op'.open = (IF kind = "unlock" THEN fl.key = "none" ELSE ~fl.cr.lock)
         /\ op'.blank = (/\ kind \in Writing
                         /\ on \cap (used \cup IF fl.job.do = "program" THEN fl.job.on ELSE {}) = {})
         /\ fl' \in FlType /\ fl'.cr = fl.cr /\ fl'.key = fl.key /\ fl'.half = fl.half
         /\ fl'.job.do = fl.job.do /\ fl'.job.on = fl.job.on /\ fl'.job.own = FALSE
         /\ UNCHANGED <<mcu, used>>
  <1>1. PICK t : t = IF Refusal(kind, on) = "Ok" THEN todo ELSE <<>> OBVIOUS
  <1>2. PICK clean \in BOOLEAN : clean = (\A mode \in Troubles(kind) : ~fl.cr[mode]) OBVIOUS
  <1>3. PICK open : open = IF kind = "unlock" THEN fl.key = "none" ELSE ~fl.cr.lock OBVIOUS
  <1>4. PICK blank \in BOOLEAN :
          blank = (/\ kind \in Writing
                   /\ on \cap (used \cup IF fl.job.do = "program" THEN fl.job.on ELSE {}) = {})
    OBVIOUS
  <1>5. PICK res : res = Refusal(kind, on) OBVIOUS
  <1>6. PICK cr : cr = CrClear OBVIOUS
  <1>7. op' = [kind |-> kind, asked |-> on, todo |-> t, res |-> res, at |-> 1, cr |-> cr, done |-> {},
               own |-> FALSE, reset |-> FALSE, clean |-> clean, open |-> open, blank |-> blank]
    BY <1>1, <1>2, <1>3, <1>4, <1>5, <1>6 DEF Request, Writing
  <1>8. t \in Seq(RunType) BY <1>1, EmptySeq
  <1>9. open \in BOOLEAN BY <1>3 DEF FlType, CrType
  <1>10. cr \in CrType BY <1>6 DEF CrClear, CrType
  <1>11. res \in {"Ok", "Access", "FlashError", "Api", "Unsupported", "NotReady"}
    BY <1>5 DEF Refusal
  <1>12. op' \in OpType BY <1>2, <1>4, <1>7, <1>8, <1>9, <1>10, <1>11 DEF OpType
  <1>13. /\ fl' \in FlType /\ fl'.cr = fl.cr /\ fl'.key = fl.key /\ fl'.half = fl.half
         /\ fl'.job.do = fl.job.do /\ fl'.job.on = fl.job.on /\ fl'.job.own = FALSE
    <2>1. PICK e \in {"none", "old", "own"} : e = IF fl.err = "own" THEN "old" ELSE fl.err
      BY DEF FlType
    <2>2. PICK j : j = [fl.job EXCEPT !.own = FALSE] OBVIOUS
    <2>3. j \in JobType /\ j.do = fl.job.do /\ j.on = fl.job.on /\ j.own = FALSE
      BY <2>2 DEF FlType, JobType
    <2>4. fl' = [fl EXCEPT !.job = j, !.err = e] BY <2>1, <2>2 DEF Request, FlType
    <2> QED BY <2>1, <2>3, <2>4 DEF FlType
  <1> QED BY <1>1, <1>2, <1>3, <1>4, <1>5, <1>6, <1>7, <1>12, <1>13 DEF Request

LEMMA RequestKeeps ==
  ASSUME FlashInv, NEW kind \in Kinds, NEW on \in SUBSET Nat, NEW todo, Request(kind, on, todo),
         mcu \in {"F4", "G0"} => Begins(mcu, kind, on, todo),
         on \in Targets(kind \in Erases), kind = "erase_all" => on \subseteq Sectors, kind # "none"
  PROVE  /\ FlashTypes' /\ Shape' /\ Idle' /\ Unlocking' /\ Modes' /\ Erasing' /\ Own' /\ Blank'
         /\ SetUp' /\ Doing' /\ ErrorsAreOwn'
  <1>1. fl \in FlType /\ mcu \in Mcus /\ mcu \in {"F4", "G0", "other", "none"}
    BY FlashAssumption DEF FlashInv, FlashTypes
  <1>2. /\ Refusal(kind, on) = "Ok" =>
             mcu \in {"F4", "G0"} /\ (mcu = "G0" /\ kind = "erase_sector" => on \subseteq Sectors)
        /\ Refusal(kind, on) # "FlashError"
    BY <1>1 DEF Refusal
  <1>3. Refusal(kind, on) = "Ok" => Begins(mcu, kind, on, todo) BY <1>2
  <1>4. Refusal(kind, on) = "Ok" => todo \in Seq(RunType) BY <1>3 DEF Begins
  <1>5. PICK res : res = Refusal(kind, on) OBVIOUS
  <1>6. /\ op' \in OpType /\ op'.kind = kind /\ op'.asked = on /\ op'.at = 1
        /\ op'.todo = IF res = "Ok" THEN todo ELSE <<>>
        /\ op'.res = res /\ op'.cr = CrClear /\ op'.done = {}
        /\ op'.own = FALSE /\ op'.reset = FALSE
        /\ op'.clean = (\A mode \in Troubles(kind) : ~fl.cr[mode])
        /\ op'.open = (IF kind = "unlock" THEN fl.key = "none" ELSE ~fl.cr.lock)
        /\ op'.blank = (/\ kind \in Writing
                        /\ on \cap (used \cup IF fl.job.do = "program" THEN fl.job.on ELSE {}) = {})
    BY <1>1, <1>4, <1>5, NewRequest, ZenonT(40)
  <1>7. /\ fl' \in FlType /\ fl'.cr = fl.cr /\ fl'.key = fl.key /\ fl'.half = fl.half
        /\ fl'.job.do = fl.job.do /\ fl'.job.on = fl.job.on /\ fl'.job.own = FALSE
        /\ mcu' = mcu /\ used' = used
    BY <1>1, <1>4, NewRequest
  <1>8. \A x : ~Past(x)' BY <1>6, FirstPast
  <1>9. /\ CrClear \in CrType /\ ~CrClear.pg /\ ~CrClear.ser /\ ~CrClear.mer /\ CrClear.snb = {}
    BY DEF CrClear, CrType
  <1>10. kind \in Erases => kind \notin Writing /\ kind # "unlock" BY DEF Erases, Writing
  <1>11. kind \in Writing => kind # "unlock" BY DEF Writing
  <1>12. FlashTypes'
    <2>1. op'.asked \in Targets(op'.kind \in Erases) BY <1>6
    <2>2. fl'.job.on \in Targets(fl'.job.do = "erase") BY <1>7 DEF FlashInv, FlashTypes
    <2> QED BY <1>6, <1>7, <2>1, <2>2 DEF FlashInv, FlashTypes
  <1>13. Shape'
    <2>1. SUFFICES ASSUME res = "Ok" PROVE Shape' BY <1>6 DEF Shape
    <2>2. Begins(mcu, kind, on, todo) /\ mcu \in {"F4", "G0"} /\ op'.todo = todo
      BY <1>2, <1>3, <1>5, <1>6, <2>1
    <2>3. /\ todo \in Seq(RunType) /\ todo # <<>>
          /\ \A i \in DOMAIN todo : RunOk(mcu, kind, on, todo[i])
          /\ kind = "unlock" /\ mcu = "G0" => todo[1].does = UnlockRun
          /\ Single(mcu, kind) => Len(todo) = 1
      BY <2>2 DEF Begins
    <2>4. 1 \in DOMAIN todo /\ Head(todo) = todo[1] /\ todo[1] \in RunType BY <2>3
    <2>5. todo[1].does # <<>> /\ todo[1].does \in Seq(Accesses) BY <2>3, <2>4 DEF RunOk, RunType
    <2>6. 1 \in DOMAIN Head(todo).does BY <2>4, <2>5
    <2>7. kind \in Erases /\ mcu = "G0" => on \subseteq Sectors BY <1>2, <1>5, <2>1 DEF Erases
    <2> QED BY <1>6, <1>7, <2>1, <2>2, <2>3, <2>4, <2>6, <2>7 DEF Shape, Single
  <1>14. Idle' BY <1>8 DEF Idle
  <1>15. Unlocking'
    <2>1. SUFFICES ASSUME kind = "unlock", mcu = "G0", res = "Ok", op'.open PROVE Unlocking'
      BY <1>6, <1>7 DEF Unlocking
    <2>2. fl'.key = "none" BY <1>6, <1>7, <2>1
    <2>3. op'.todo = todo /\ todo # <<>> BY <1>3, <1>5, <1>6, <2>1 DEF Begins
    <2> QED BY <1>6, <2>2, <2>3 DEF Unlocking
  <1>16. Modes' BY <1>6, <1>7, <1>9 DEF FlashInv, Modes
  <1>17. /\ op'.clean /\ mcu = "F4" /\ kind \in Erases => ~fl.cr.pg /\ ~fl.cr.ser /\ ~fl.cr.mer
         /\ op'.clean /\ kind \in Erases => ~fl.cr.pg
         /\ op'.clean /\ mcu = "G0" /\ kind \in Writing => ~fl.cr.ser
    BY <1>6, <1>10 DEF Troubles, Writing
  <1>18. Erasing' BY <1>6, <1>7, <1>8, <1>17 DEF Erasing, Exact
  <1>19. Own' BY <1>6, <1>7 DEF Own
  <1>20. Blank'
    <2>1. op'.blank => /\ on \cap used = {}
                       /\ fl.job.do = "program" => fl.job.on \cap on = {}
      BY <1>6
    <2> QED BY <1>6, <1>7, <2>1 DEF Blank
  <1>21. SetUp'
    <2>1. SUFFICES ASSUME Sure' PROVE SetUp' BY DEF SetUp
    <2>2. op'.clean /\ op'.open /\ kind \in Erases \cup Writing BY <1>6, <2>1 DEF Sure, Exact
    <2>3. ~fl.cr.lock BY <1>6, <1>10, <1>11, <2>2
    <2> QED BY <1>6, <1>7, <1>8, <1>17, <2>2, <2>3 DEF SetUp
  <1>22. Doing'
    <2>1. SUFFICES ASSUME Sure' PROVE Doing' BY DEF Doing
    <2>2. res = "Ok" /\ kind \in Erases \cup Writing BY <1>6, <2>1 DEF Sure, Exact
    <2>3. op'.todo = todo /\ \A x \in on : \E i \in DOMAIN todo : x \in todo[i].on
      BY <1>3, <1>5, <1>6, <2>2 DEF Begins
    <2> QED BY <1>6, <1>8, <2>3 DEF Doing
  <1>23. ErrorsAreOwn' BY <1>2, <1>5, <1>6 DEF ErrorsAreOwn
  <1> QED BY <1>12, <1>13, <1>14, <1>15, <1>16, <1>18, <1>19, <1>20, <1>21, <1>22, <1>23

LEMMA RequestsKeep ==
  ASSUME FlashInv, Requests
  PROVE  /\ FlashTypes' /\ Shape' /\ Idle' /\ Unlocking' /\ Modes' /\ Erasing' /\ Own' /\ Blank'
         /\ SetUp' /\ Doing' /\ ErrorsAreOwn'
  <1>1. /\ {"unlock", "lock", "erase_sector", "erase_all", "write", "write_bulk"} \subseteq Kinds
        /\ {"erase_sector", "erase_all"} = Erases
        /\ {"unlock", "lock", "write", "write_bulk"} \cap Erases = {}
    BY DEF Kinds, Erases, Writing
  <1>2. {} \in SUBSET Nat /\ {} \in Targets("unlock" \in Erases) /\ {} \in Targets("lock" \in Erases)
    BY DEF Targets
  <1>3. CASE UnlockFlash
    <2>1. Request("unlock", {}, Unlock(mcu)) BY <1>3 DEF UnlockFlash
    <2> QED BY <1>1, <1>2, <2>1, UnlockBegins, RequestKeeps
  <1>4. CASE LockFlash
    <2>1. Request("lock", {}, Lock(mcu)) BY <1>4 DEF LockFlash
    <2> QED BY <1>1, <1>2, <2>1, LockBegins, RequestKeeps
  <1>5. CASE EraseFlashSector
    <2>1. PICK n \in AskSectors : Request("erase_sector", {n}, EraseSector(mcu, n))
      BY <1>5 DEF EraseFlashSector
    <2>2. n \in Nat /\ {n} \in SUBSET Nat /\ {n} \in Targets("erase_sector" \in Erases)
      BY <1>1, FlashAssumption DEF Targets
    <2>3. Begins(mcu, "erase_sector", {n}, EraseSector(mcu, n)) BY <2>2, EraseSectorBegins
    <2> QED BY <1>1, <2>1, <2>2, <2>3, RequestKeeps
  <1>6. CASE EraseFlashAll
    <2>1. Request("erase_all", Sectors, EraseAll(mcu)) BY <1>6 DEF EraseFlashAll
    <2>2. Sectors \in SUBSET Nat /\ Sectors \in Targets("erase_all" \in Erases)
      BY <1>1, FlashAssumption DEF Targets, Sectors
    <2> QED BY <1>1, <2>1, <2>2, EraseAllBegins, RequestKeeps
  <1>7. CASE WriteFlashWord
    <2>1. PICK w \in Starts : Request("write", {w}, WriteFlash(mcu, w)) BY <1>7 DEF WriteFlashWord
    <2>2. w \in Nat /\ w \in w .. w + MaxLen - 1 BY FlashAssumption
    <2>3. w \in Words BY <2>2, FlashAssumption
    <2>4. {w} \in SUBSET Nat /\ {w} \in Targets("write" \in Erases) BY <1>1, <2>2, <2>3 DEF Targets
    <2>5. Begins(mcu, "write", {w}, WriteFlash(mcu, w)) BY <2>2, WriteBegins
    <2> QED BY <1>1, <2>1, <2>4, <2>5, RequestKeeps
  <1>8. CASE WriteFlashBlock
    <2>1. PICK a \in Starts, n \in 1 .. MaxLen :
            Request("write_bulk", a .. a + n - 1, WriteFlashBulk(mcu, a, n))
      BY <1>8 DEF WriteFlashBlock
    <2>2. a \in Nat /\ n \in Nat \ {0} /\ MaxLen \in Nat /\ n <= MaxLen
          /\ a .. a + MaxLen - 1 \subseteq Words
      BY FlashAssumption
    <2>3. PICK on : on = a .. a + n - 1 OBVIOUS
    <2>4. on \subseteq a .. a + MaxLen - 1 /\ on \in SUBSET Nat BY <2>2, <2>3
    <2>5. on \in Targets("write_bulk" \in Erases) BY <1>1, <2>2, <2>4 DEF Targets
    <2>6. mcu \in {"F4", "G0"} => Begins(mcu, "write_bulk", on, WriteFlashBulk(mcu, a, n))
      BY <2>2, <2>3, BulkF4Begins, BulkG0Begins DEF WriteFlashBulk
    <2> QED BY <1>1, <2>1, <2>3, <2>4, <2>5, <2>6, RequestKeeps
  <1> QED BY <1>3, <1>4, <1>5, <1>6, <1>7, <1>8 DEF Requests

-----------------------------------------------------------------------------
(* The invariant, and the theorems                                         *)

LEMMA FlashInit == ASSUME Init PROVE FlashInv
  <1>1. /\ fl = FlashReset /\ fl.cr = CrClear /\ fl.err = "none" /\ fl.half = FALSE /\ fl.job = NoJob
        /\ fl.key = "none" /\ fl.job.do = "none" /\ fl.job.own = FALSE /\ fl.job.on = {}
    BY DEF Init, FlashReset, NoJob
  <1>2. /\ CrClear \in CrType /\ ~CrClear.pg /\ ~CrClear.ser /\ ~CrClear.mer /\ CrClear.snb = {}
    BY DEF CrClear, CrType
  <1>3. fl \in FlType
    <2>1. NoJob \in JobType BY DEF NoJob, JobType
    <2>2. PICK c : c = CrClear OBVIOUS
    <2>3. PICK j : j = NoJob OBVIOUS
    <2>4. fl = [cr |-> c, key |-> "none", err |-> "none", half |-> FALSE, job |-> j]
      BY <1>1, <2>2, <2>3 DEF FlashReset
    <2> QED BY <1>2, <2>1, <2>2, <2>3, <2>4 DEF FlType
  <1>4. /\ op \in OpType /\ op.kind = "none" /\ op.asked = {} /\ op.todo = <<>> /\ op.cr = CrClear
        /\ op.done = {} /\ op.res = "Ok"
    <2>1. PICK c : c = CrClear OBVIOUS
    <2>2. PICK t : t = <<>> /\ t \in Seq(RunType) BY EmptySeq
    <2>3. op = [kind |-> "none", asked |-> {}, todo |-> t, at |-> 1, res |-> "Ok", cr |-> c,
                done |-> {}, own |-> FALSE, reset |-> FALSE, clean |-> TRUE, open |-> FALSE,
                blank |-> FALSE]
      BY <2>1, <2>2 DEF Init
    <2> QED BY <1>2, <2>1, <2>2, <2>3 DEF OpType, Kinds
  <1>5. "none" \notin Erases \cup Writing BY DEF Erases, Writing
  <1>6. FlashTypes
    <2>1. op.asked \in Targets(op.kind \in Erases) /\ fl.job.on \in Targets(fl.job.do = "erase")
      BY <1>1, <1>4 DEF Targets
    <2>2. mcu \in Mcus /\ used \subseteq Words BY DEF Init
    <2> QED BY <1>1, <1>3, <1>4, <2>1, <2>2 DEF FlashTypes
  <1>7. Shape /\ Idle /\ Erasing /\ SetUp BY <1>4 DEF Shape, Idle, Erasing, SetUp
  <1>8. Unlocking /\ Blank /\ ErrorsAreOwn BY <1>4, <1>5 DEF Unlocking, Blank, ErrorsAreOwn
  <1>9. Modes BY <1>1, <1>2, <1>4 DEF Modes
  <1>10. Own BY <1>1, <1>4 DEF Own
  <1>11. Doing BY <1>4 DEF Doing
  <1> QED BY <1>6, <1>7, <1>8, <1>9, <1>10, <1>11 DEF FlashInv

LEMMA FlashStep == ASSUME FlashInv, [Next]_vars PROVE FlashInv'
  <1>1. CASE Requests BY <1>1, RequestsKeep DEF FlashInv
  <1>2. CASE Step
    <2>1. /\ FlashTypes /\ Shape /\ Idle /\ Unlocking /\ Modes /\ Erasing /\ Own /\ Blank /\ SetUp
          /\ Doing /\ ErrorsAreOwn
      BY DEF FlashInv
    <2>2. FlashTypes' /\ Shape' /\ Idle' BY <1>2, <2>1, StepTypes, StepShape, StepIdle
    <2>3. Unlocking' /\ Modes' /\ Erasing' BY <1>2, <2>1, StepUnlocking, StepModes, StepErasing
    <2>4. Own' /\ Blank' /\ SetUp' BY <1>2, <2>1, StepOwn, StepBlank, StepSetUp
    <2>5. Doing' /\ ErrorsAreOwn' BY <1>2, <2>1, StepDoing, StepErrors
    <2> QED BY <2>2, <2>3, <2>4, <2>5 DEF FlashInv
  <1>3. CASE Finish BY <1>3, FinishKeeps DEF FlashInv
  <1>4. CASE TargetReset BY <1>4, ResetKeeps DEF FlashInv
  <1>5. CASE UNCHANGED vars
    <2>1. mcu' = mcu /\ fl' = fl /\ used' = used /\ op' = op BY <1>5 DEF vars
    <2> QED BY <2>1 DEF FlashInv, FlashTypes, Shape, Idle, Unlocking, Modes, Erasing, Own, Blank,
               SetUp, Doing, ErrorsAreOwn, Past, Exact, Sure, On, Single
  <1> QED BY <1>1, <1>2, <1>3, <1>4, <1>5 DEF Next

\* All of the invariant's parts, for any sectors, blocks and word addresses.
THEOREM FlashInvHolds == Spec => []FlashInv
  <1>1. Init => FlashInv BY FlashInit
  <1>2. FlashInv /\ [Next]_vars => FlashInv' BY FlashStep
  <1> QED BY <1>1, <1>2, PTL DEF Spec

\* The controller's fields keep their widths, and an operation is at an access it has left.
THEOREM FlashTypeCorrect == Spec => []TypeOK
  <1>1. ASSUME FlashInv PROVE TypeOK
    <2>1. FlashTypes /\ Shape BY <1>1 DEF FlashInv
    <2>2. fl \in FlType /\ op \in OpType BY <2>1 DEF FlashTypes
    <2>3. op.todo \in Seq([does : Seq(Accesses), on : Targets(op.kind \in Erases)])
      <3>1. op.todo \in Seq(RunType) BY <2>2 DEF OpType
      <3>2. \A i \in DOMAIN op.todo : op.todo[i] \in RunType /\ op.todo[i].on \subseteq op.asked
        <4>1. ASSUME NEW i \in DOMAIN op.todo
              PROVE  op.todo[i] \in RunType /\ op.todo[i].on \subseteq op.asked
          <5>1. op.todo # <<>> BY <4>1
          <5>2. RunOk(mcu, op.kind, op.asked, op.todo[i]) BY <2>1, <5>1 DEF Shape
          <5> QED BY <3>1, <5>2 DEF RunOk
        <4> QED BY <4>1
      <3>3. \A on \in SUBSET op.asked : on \in Targets(op.kind \in Erases)
        BY <2>1 DEF FlashTypes, Targets
      <3>4. \A i \in DOMAIN op.todo :
              op.todo[i] \in [does : Seq(Accesses), on : Targets(op.kind \in Erases)]
        BY <3>2, <3>3 DEF RunType
      <3> DEFINE T == [does : Seq(Accesses), on : Targets(op.kind \in Erases)]
      <3>5. \A i \in DOMAIN op.todo : op.todo[i] \in T BY <3>4
      <3> HIDE DEF T
      <3>6. /\ DOMAIN op.todo = 1 .. Len(op.todo) /\ Len(op.todo) \in Nat
            /\ op.todo \in [1 .. Len(op.todo) -> RunType]
        BY <3>1, LenProperties
      <3>7. op.todo \in [1 .. Len(op.todo) -> T] BY <3>5, <3>6
      <3>8. op.todo \in Seq(T) BY <3>6, <3>7, Tabled
      <3> QED BY <3>8 DEF T
    <2>4. op.todo # <<>> => op.at \in DOMAIN Head(op.todo).does BY <2>1 DEF Shape
    <2> QED BY <2>1, <2>2, <2>3, <2>4 DEF TypeOK, FlashTypes, FlType, OpType, JobType
  <1> QED BY <1>1, FlashInvHolds, PTL

\* On an STM32G0 only an error of its own fails an operation.
THEOREM FlashErrorsAreOwn == Spec => []ErrorsAreOwn
  <1>1. FlashInv => ErrorsAreOwn BY DEF FlashInv
  <1> QED BY <1>1, FlashInvHolds, PTL

\* On an STM32G0 unlock_flash leaves the controller unlocked when it reports success.
THEOREM FlashUnlockOpens == Spec => []UnlockOpens
  <1>1. FlashInv => UnlockOpens BY DEF FlashInv, Unlocking, UnlockOpens, Ended
  <1> QED BY <1>1, FlashInvHolds, PTL

\* An erase that reports success has erased what was asked, and none erases more.
THEOREM FlashEraseExact == Spec => []EraseExact
  <1>1. ASSUME FlashInv PROVE EraseExact
    <2>1. SUFFICES ASSUME op.kind \in Erases, op.todo = <<>>, op.asked \subseteq Sectors,
                          mcu = "F4" => op.clean
                   PROVE  /\ op.done \subseteq op.asked
                          /\ op.res = "Ok" /\ op.open /\ op.clean /\ ~op.reset => op.done = op.asked
      BY DEF EraseExact, Ended
    <2>2. Exact BY <2>1 DEF Exact
    <2>3. op.done \subseteq op.asked BY <1>1, <2>2 DEF FlashInv, Own
    <2>4. ASSUME op.res = "Ok", op.open, op.clean, ~op.reset PROVE op.asked \subseteq op.done
      <3>1. Sure BY <2>2, <2>4 DEF Sure
      <3>2. DOMAIN op.todo = {} BY <2>1
      <3> QED BY <1>1, <3>1, <3>2 DEF FlashInv, Doing
    <2> QED BY <2>3, <2>4
  <1> QED BY <1>1, FlashInvHolds, PTL

\* A write of blank words that reports success has written all of them.
THEOREM FlashWriteDone == Spec => []WriteDone
  <1>1. ASSUME FlashInv PROVE WriteDone
    <2>1. SUFFICES ASSUME Ended({"write_bulk"}) \/ (Ended({"write"}) /\ mcu = "G0"),
                          op.res = "Ok", op.clean, op.open, op.blank, ~op.reset
                   PROVE  op.done = op.asked
      BY DEF WriteDone
    <2>2. op.kind \in Writing /\ op.todo = <<>> /\ (mcu = "G0" \/ op.kind = "write_bulk")
      BY <2>1 DEF Ended, Writing
    <2>3. op.done \subseteq op.asked BY <1>1, <2>2 DEF FlashInv, Own
    <2>4. Sure BY <2>1, <2>2 DEF Sure
    <2>5. DOMAIN op.todo = {} BY <2>2
    <2>6. op.asked \subseteq op.done BY <1>1, <2>4, <2>5 DEF FlashInv, Doing
    <2> QED BY <2>3, <2>6
  <1> QED BY <1>1, FlashInvHolds, PTL
=============================================================================
