------------------------ MODULE SwdInterfaceProofs ------------------------
(* Proofs about SwdInterface, for every set of APs, memory size, kind of   *)
(* target and use of the raw operations.                                   *)
EXTENDS SwdInterface, TLAPS

\* The states an operation passes through.
States ==
  [drv : DrvType, dp : DpType, obs : ObsType, writes : SUBSET Readings,
   err : {"Ok"} \cup Errors, val : Readings, stat : CtrlStats, found : Mcus \cup {None}]

Coherent(st) ==
  st.drv.powered_up /\ st.dp.alive /\ ~st.obs.raw /\ ~st.obs.linkErr =>
    /\ st.drv.dp_select = st.dp.select
    /\ st.dp.select.ap = 0
    /\ st.dp.select.dpbank = 0

Facts(st) ==
  st.drv.idcode # None =>
    st.drv.powered_up /\ st.drv.idr /\ st.drv.mcu # None /\ st.drv.reset_version # None

Gate(st) == ~st.obs.raw => st.drv.check_power

\* Only the raw operations select another DP bank than 0.
BankZero(st) == st.dp.alive /\ ~st.obs.raw => st.dp.select.dpbank = 0

Good == {st \in States : Coherent(st) /\ Facts(st) /\ Gate(st) /\ BankZero(st)}

\* No register operation touches what is known about the target.
Keeps(st, t) ==
  /\ t.drv.idcode = st.drv.idcode
  /\ t.drv.mcu = st.drv.mcu
  /\ t.drv.idr = st.drv.idr
  /\ t.drv.powered_up = st.drv.powered_up
  /\ t.drv.check_power = st.drv.check_power
  /\ t.drv.reset_version = st.drv.reset_version
  /\ t.obs.raw = st.obs.raw

Reach(st) == {t \in Good : Keeps(st, t)}

\* A transaction that leaves SELECT alone: it may lose the target or find the
\* wire damaged, but changes nothing the driver caches.
Calm(st) ==
  {t \in States :
     /\ t.drv = st.drv
     /\ t.dp.select = st.dp.select
     /\ t.dp.alive => st.dp.alive
     /\ st.obs.linkErr => t.obs.linkErr
     /\ t.obs.raw = st.obs.raw}

-----------------------------------------------------------------------------
(* Constants *)

LEMMA RegisterFacts ==
  /\ Offset(CSW) = 0 /\ BankOf(CSW) = 0
  /\ Offset(TAR) = 4 /\ BankOf(TAR) = 0
  /\ Offset(DRW) = 12 /\ BankOf(DRW) = 0
  /\ Offset(IDR) = 12 /\ BankOf(IDR) = 15
  BY DEF Offset, BankOf, CSW, TAR, DRW, IDR

LEMMA ValueFacts ==
  /\ NoVal \in Readings
  /\ NoStat \in CtrlStats
  /\ SelectDefault \in Selects
  BY TargetAssumption DEF NoVal, Readings, Hits, IDR, NoStat, CtrlStats, SelectDefault, Selects, Banks

LEMMA DefaultFacts == SelectDefault.ap = 0 /\ SelectDefault.bank = 0 /\ SelectDefault.dpbank = 0
  BY DEF SelectDefault

LEMMA CalmIsReach ==
  ASSUME NEW st \in Good, NEW t \in Calm(st)
  PROVE  t \in Reach(st)
  BY DEF Good, Calm, Reach, Keeps, Coherent, Facts, Gate, BankZero

LEMMA ReachTrans ==
  ASSUME NEW st, NEW t \in Reach(st), NEW u \in Reach(t)
  PROVE  u \in Reach(st)
  BY DEF Reach, Keeps

LEMMA ReachRefl == ASSUME NEW st \in Good PROVE st \in Reach(st)
  BY DEF Reach, Keeps

LEMMA FailCalm ==
  ASSUME NEW st \in States, NEW e \in Errors
  PROVE  Fail(st, e) \in Calm(st)
  BY ValueFacts DEF Fail, Forget, States, Calm, DpType

LEMMA ForgetCalm == ASSUME NEW st \in States PROVE Forget(st) \in Calm(st)
  BY ValueFacts DEF Forget, States, Calm, DpType

LEMMA SilentCalm ==
  ASSUME NEW st \in States, NEW t \in Silent(st)
  PROVE  t \in Calm(st) /\ t.err = "NoAck" /\ t.obs.linkErr
  <1> DEFINE f == Fail(st, "NoAck")
  <1>1. f \in Calm(st) /\ f \in States
    BY FailCalm DEF Errors, Calm
  <1>2. f.err = "NoAck" BY DEF Fail, Forget, States
  <1>3. PICK a \in {st.dp.alive, FALSE} : t = [f EXCEPT !.obs.linkErr = TRUE, !.dp.alive = a]
    BY DEF Silent
  <1>4. a \in BOOLEAN /\ (a => st.dp.alive)
    BY DEF States, DpType
  <1> HIDE DEF f
  <1>5. t \in States
    BY <1>1, <1>3, <1>4, ZenonT(30) DEF States, DpType, ObsType
  <1>6. t.drv = f.drv /\ t.dp.select = f.dp.select /\ t.dp.alive = a /\ t.obs.linkErr
          /\ t.obs.raw = f.obs.raw /\ t.err = f.err
    BY <1>1, <1>3 DEF States, DpType, ObsType
  <1> QED BY <1>1, <1>2, <1>4, <1>5, <1>6 DEF Calm

LEMMA DeliverCalm ==
  ASSUME NEW st \in States, NEW t \in Deliver(st)
  PROVE  t \in Calm(st)
  <1> DEFINE f == Fail(st, "ReadParity")
  <1>1. f \in Calm(st) /\ f \in States
    BY FailCalm DEF Errors, Calm
  <1>2. CASE t = st
    BY <1>2 DEF Calm
  <1>3. CASE t = [f EXCEPT !.obs.linkErr = TRUE]
    <2> HIDE DEF f
    <2> QED BY <1>1, <1>3 DEF Calm, States, ObsType
  <1> QED BY <1>2, <1>3 DEF Deliver

LEMMA CalmTrans ==
  ASSUME NEW st \in States, NEW t \in Calm(st), NEW u \in Calm(t)
  PROVE  u \in Calm(st)
  BY DEF Calm

LEMMA DamagedCalm == ASSUME NEW st \in States PROVE Damaged(st) \in Calm(st)
  BY DEF Damaged, States, Calm, DpType

-----------------------------------------------------------------------------
(* Transactions *)

LEMMA TransactCalm ==
  ASSUME NEW st \in States, NEW S, S \subseteq Calm(st)
  PROVE  Transact(st, S) \subseteq Calm(st)
  BY SilentCalm DEF Transact

LEMMA GuardedCalm ==
  ASSUME NEW st \in States, NEW S, S \subseteq Calm(st)
  PROVE  Guarded(st, S) \subseteq Calm(st)
  <1>1. Fail(st, "FaultAck") \in Calm(st) /\ Fail(st, "WaitAck") \in Calm(st)
    BY FailCalm DEF Errors
  <1> QED BY <1>1 DEF Guarded, Waits

LEMMA IdCodeCalm ==
  ASSUME NEW st \in States PROVE DpReadIdCode(st) \subseteq Calm(st)
  <1>1. Deliver(st) \subseteq Calm(st) BY DeliverCalm
  <1> QED BY <1>1, TransactCalm DEF DpReadIdCode

LEMMA CtrlStatReadCalm ==
  ASSUME NEW st \in States PROVE DpReadCtrlStat(st) \subseteq Calm(st)
  <1> DEFINE stats == {s \in CtrlStats : st.dp.select.dpbank = 0 =>
                         s.error = st.dp.sticky /\ s.power = st.dp.power}
  <1>1. ASSUME NEW s \in stats PROVE Deliver([st EXCEPT !.stat = s]) \subseteq Calm(st)
    <2>1. [st EXCEPT !.stat = s] \in Calm(st)
      BY DEF States, Calm
    <2> QED BY <2>1, DeliverCalm, CalmTrans DEF Calm
  <1>2. UNION {Deliver([st EXCEPT !.stat = s]) : s \in stats} \subseteq Calm(st)
    <2> HIDE DEF stats
    <2> QED BY <1>1
  <1> QED BY <1>2, TransactCalm DEF DpReadCtrlStat

LEMMA RdBuffCalm ==
  ASSUME NEW st \in States PROVE DpReadRdBuff(st) \subseteq Calm(st)
  <1> DEFINE r == [st EXCEPT !.val = st.dp.rdbuff]
  <1>1. r \in Calm(st) BY DEF States, Calm, DpType
  <1>2. Deliver(r) \subseteq Calm(st)
    <2> HIDE DEF r
    <2> QED BY <1>1, DeliverCalm, CalmTrans DEF Calm
  <1> QED BY <1>2, GuardedCalm, TransactCalm DEF DpReadRdBuff

LEMMA AbortCalm ==
  ASSUME NEW st \in States PROVE DpWriteAbort(st) \subseteq Calm(st)
  <1>1. [st EXCEPT !.dp.sticky = FALSE] \in Calm(st)
    BY DEF States, Calm, DpType
  <1>2. {[st EXCEPT !.dp.sticky = FALSE], Damaged(st)} \subseteq Calm(st)
    BY <1>1, DamagedCalm
  <1> QED BY <1>2, TransactCalm DEF DpWriteAbort

LEMMA CtrlStatWriteCalm ==
  ASSUME NEW st \in States PROVE DpWriteCtrlStat(st) \subseteq Calm(st)
  <1> DEFINE ps == IF st.dp.select.dpbank = 0 THEN BOOLEAN ELSE {st.dp.power}
             done == {[st EXCEPT !.dp.power = p] : p \in ps}
  <1>1. ps \subseteq BOOLEAN BY DEF States, DpType
  <1>2. ASSUME NEW p \in BOOLEAN PROVE [st EXCEPT !.dp.power = p] \in Calm(st)
    BY DEF States, Calm, DpType
  <1>3. done \subseteq Calm(st)
    <2> HIDE DEF ps
    <2> QED BY <1>1, <1>2
  <1>4. {Damaged(st)} \cup done \subseteq Calm(st)
    BY <1>3, DamagedCalm
  <1> QED BY <1>4, GuardedCalm, TransactCalm DEF DpWriteCtrlStat

\* The registers the driver accesses.
Regs == {CSW, TAR, DRW, IDR}

LEMMA CswFacts == CSW \in Regs /\ CSW # TAR
  BY DEF Regs, CSW, TAR

LEMMA HitType ==
  ASSUME NEW st \in States, NEW reg \in Regs
  PROVE  Hit(st, reg) \in Hits
  <1>1. Offset(reg) \in {0, 4, 12} BY RegisterFacts DEF Regs
  <1>2. st.dp.select.ap \in APs /\ st.dp.select.bank \in {0, 15}
    BY DEF States, DpType, Selects, Banks
  <1>3. 16 * st.dp.select.bank + Offset(reg) \in 0 .. 255
    BY <1>1, <1>2
  <1> QED BY <1>2, <1>3 DEF Hit, Hits

\* A page lies within memory, so the word after one of memory is in memory.
LEMMA NextInPageType == ASSUME NEW a \in Addrs PROVE NextInPage(a) \in Addrs
  <1>1. a \in Nat /\ a + 1 <= NWords /\ NWords \in Nat \ {0} /\ PageWords \in Nat \ {0}
    BY TargetAssumption DEF Addrs
  <1>2. CASE (a + 1) % PageWords = 0
    <2>1. a + 1 >= PageWords
      <3> SUFFICES ASSUME a + 1 < PageWords PROVE FALSE BY <1>1
      <3> QED BY <1>1, <1>2
    <2>2. a + 1 - PageWords \in 0 .. (NWords - 1) BY <1>1, <2>1
    <2> QED BY <1>2, <2>2 DEF NextInPage, Addrs
  <1>3. CASE (a + 1) % PageWords # 0
    <2>1. a + 1 # NWords BY <1>3, TargetAssumption
    <2>2. a + 1 \in 0 .. (NWords - 1) BY <1>1, <2>1
    <2> QED BY <1>3, <2>2 DEF NextInPage, Addrs
  <1> QED BY <1>2, <1>3

LEMMA NextTarType == ASSUME NEW st \in States PROVE NextTar(st) \in Addrs
  <1>1. st.dp.tar \in Addrs BY DEF States, DpType
  <1> QED BY <1>1, NextInPageType DEF NextTar

LEMMA ContentType ==
  ASSUME NEW st \in States, NEW h
  PROVE  Content(st, h) \in 0 .. NWords
  <1>1. st.dp.tar \in 0 .. NWords /\ 0 \in 0 .. NWords /\ 1 \in 0 .. NWords
    BY TargetAssumption DEF States, DpType, Addrs
  <1> QED BY <1>1 DEF Content

LEMMA BusFaultCalm == ASSUME NEW st \in States PROVE BusFault(st) \subseteq Calm(st)
  <1> DEFINE f == Fail(st, "FaultAck")
  <1>1. f \in Calm(st) BY FailCalm DEF Errors
  <1>2. [st EXCEPT !.dp.sticky = TRUE] \in Calm(st)
    BY DEF States, Calm, DpType
  <1>3. [f EXCEPT !.dp.sticky = TRUE] \in Calm(st)
    <2> HIDE DEF f
    <2> QED BY <1>1 DEF States, Calm, DpType
  <1> QED BY <1>2, <1>3 DEF BusFault

LEMMA ApReadCalm ==
  ASSUME NEW st \in States, NEW reg \in Regs PROVE ApRead(st, reg) \subseteq Calm(st)
  <1> DEFINE h == Hit(st, reg)
             tar == IF MemAp(h, DRW) THEN NextTar(st) ELSE st.dp.tar
             before == [st EXCEPT !.val = st.dp.rdbuff]
             posted == [before EXCEPT !.dp.rdbuff = [hit |-> h, val |-> Content(st, h)],
                                      !.dp.tar = tar]
  <1>1. [hit |-> h, val |-> Content(st, h)] \in Readings
    BY HitType, ContentType DEF Readings
  <1>2. tar \in Addrs
    BY NextTarType DEF States, DpType
  <1>0. before \in Calm(st)
    BY DEF States, Calm, DpType
  <1>3. posted \in Calm(st)
    <2> HIDE DEF h, tar
    <2> QED BY <1>1, <1>2 DEF States, Calm, DpType
  <1>6. BusFault(before) \subseteq Calm(st)
    <2> HIDE DEF before
    <2> QED BY <1>0, BusFaultCalm, CalmTrans DEF Calm
  <1>4. Deliver(posted) \subseteq Calm(st)
    <2> HIDE DEF posted
    <2> QED BY <1>3, DeliverCalm, CalmTrans DEF Calm
  <1>5. BusFault(before) \cup (IF st.dp.power THEN Deliver(posted) ELSE {}) \subseteq Calm(st)
    BY <1>4, <1>6
  <1> QED BY <1>5, GuardedCalm, TransactCalm DEF ApRead

LEMMA ApWriteCalm ==
  ASSUME NEW st \in States, NEW reg \in Regs, NEW v, reg = TAR => v \in Addrs
  PROVE  ApWrite(st, reg, v) \subseteq Calm(st)
  <1> DEFINE h == Hit(st, reg)
             inc == IF MemAp(h, CSW) THEN v = 1 ELSE st.dp.inc
             tar == CASE MemAp(h, TAR) -> v
                      [] MemAp(h, DRW) -> NextTar(st)
                      [] OTHER -> st.dp.tar
             writes == IF Offset(reg) = DRW
                       THEN st.writes \cup {[hit |-> h, val |-> st.dp.tar]}
                       ELSE st.writes
             done == [st EXCEPT !.dp.inc = inc, !.dp.tar = tar, !.writes = writes]
  <1>1. h \in Hits BY HitType
  <1>2. st.dp.tar \in Addrs /\ st.dp.inc \in BOOLEAN /\ st.writes \subseteq Readings
    BY DEF States, DpType
  <1>3. MemAp(h, TAR) => reg = TAR
    <2>1. st.dp.select.bank \in {0, 15} BY DEF States, DpType, Selects, Banks
    <2> QED BY <2>1, RegisterFacts DEF MemAp, Hit, Regs, TAR, CSW, DRW, IDR
  <1>4. tar \in Addrs
    <2> HIDE DEF h
    <2> QED BY <1>2, <1>3, NextTarType
  <1>5. inc \in BOOLEAN BY <1>2
  <1>6. writes \subseteq Readings
    <2>1. st.dp.tar \in 0 .. NWords BY <1>2, TargetAssumption DEF Addrs
    <2> HIDE DEF h
    <2> QED BY <1>1, <1>2, <2>1 DEF Readings
  <1>7. done \in Calm(st)
    <2> HIDE DEF inc, tar, writes
    <2> QED BY <1>4, <1>5, <1>6 DEF States, Calm, DpType
  <1>8. BusFault(st) \cup {Damaged(st)} \cup (IF st.dp.power THEN {done} ELSE {}) \subseteq Calm(st)
    BY <1>7, DamagedCalm, BusFaultCalm
  <1> QED BY <1>8, GuardedCalm, TransactCalm DEF ApWrite

-----------------------------------------------------------------------------
(* Register operations *)

LEMMA ReachIsGood == ASSUME NEW st, NEW t \in Reach(st) PROVE t \in Good /\ t \in States
  BY DEF Reach, Good

LEMMA CheckDpErrorsCalm ==
  ASSUME NEW st \in States, NEW b \in BOOLEAN
  PROVE  CheckDpErrors(st, b) \subseteq Calm(st)
  <1> SUFFICES ASSUME NEW v \in CheckDpErrors(st, b) PROVE v \in Calm(st)
    OBVIOUS
  <1>1. PICK t \in DpReadCtrlStat(st) :
          v \in IF Ok(t) THEN {IF t.stat.error \/ (b /\ ~t.stat.readok) THEN Fail(t, "DpError")
                               ELSE [t EXCEPT !.stat = NoStat]}
                ELSE {t}
    BY DEF CheckDpErrors, Then
  <1>2. t \in Calm(st) /\ t \in States BY CtrlStatReadCalm DEF Calm
  <1>3. Fail(t, "DpError") \in Calm(t) BY <1>2, FailCalm DEF Errors
  <1>4. [t EXCEPT !.stat = NoStat] \in Calm(t) BY <1>2, ValueFacts DEF States, Calm
  <1>5. v \in {t, Fail(t, "DpError"), [t EXCEPT !.stat = NoStat]} BY <1>1
  <1> QED BY <1>2, <1>3, <1>4, <1>5, CalmTrans

\* A CTRL/STAT read either reports the flags or tells that the wire failed.
LEMMA CtrlStatReadCases ==
  ASSUME NEW st \in States, NEW x \in DpReadCtrlStat(st), Ok(st)
  PROVE  \/ ~Ok(x) /\ x.obs.linkErr
         \/ \E s \in CtrlStats : /\ x = [st EXCEPT !.stat = s]
                                 /\ st.dp.select.dpbank = 0 => s.error = st.dp.sticky
  <1>1. CASE x \in Silent(st)
    BY <1>1, SilentCalm DEF Ok
  <1>2. ASSUME NEW s \in CtrlStats, x \in Deliver([st EXCEPT !.stat = s]),
               st.dp.select.dpbank = 0 => s.error = st.dp.sticky
        PROVE  \/ ~Ok(x) /\ x.obs.linkErr
               \/ \E r \in CtrlStats : /\ x = [st EXCEPT !.stat = r]
                                       /\ st.dp.select.dpbank = 0 => r.error = st.dp.sticky
    <2> DEFINE y == [st EXCEPT !.stat = s]
               f == Fail(y, "ReadParity")
    <2>1. y \in States BY DEF States
    <2>2. CASE x = y BY <1>2, <2>2
    <2>3. CASE x = [f EXCEPT !.obs.linkErr = TRUE]
      <3>1. f \in States BY <2>1, FailCalm DEF Errors, Calm
      <3>2. f.err = "ReadParity" BY <2>1 DEF Fail, Forget, States
      <3> HIDE DEF f
      <3> QED BY <2>3, <3>1, <3>2 DEF Ok, States, ObsType
    <2> QED BY <1>2, <2>2, <2>3 DEF Deliver
  <1> QED
    BY <1>1, <1>2 DEF DpReadCtrlStat, Transact

LEMMA CheckDpErrorsFinds ==
  ASSUME NEW st \in States, Ok(st), NEW u \in CheckDpErrors(st, FALSE)
  PROVE  \/ ~Ok(u) /\ u.obs.linkErr
         \/ /\ u \in Calm(st)
            /\ u.dp = [st.dp EXCEPT !.rdbuff = u.dp.rdbuff]
            /\ st.dp.select.dpbank = 0 => (Ok(u) <=> ~st.dp.sticky)
  <1>1. PICK x \in DpReadCtrlStat(st) :
          u \in IF Ok(x) THEN {IF x.stat.error THEN Fail(x, "DpError") ELSE [x EXCEPT !.stat = NoStat]}
                ELSE {x}
    BY DEF CheckDpErrors, Then
  <1>2. u \in Calm(st) BY CheckDpErrorsCalm
  <1>3. CASE ~Ok(x) /\ x.obs.linkErr
    BY <1>1, <1>3
  <1>4. \/ ~Ok(x) /\ x.obs.linkErr
        \/ \E s \in CtrlStats : /\ x = [st EXCEPT !.stat = s]
                                /\ st.dp.select.dpbank = 0 => s.error = st.dp.sticky
    BY <1>1, CtrlStatReadCases
  <1>5. CASE \E s \in CtrlStats : /\ x = [st EXCEPT !.stat = s]
                                  /\ st.dp.select.dpbank = 0 => s.error = st.dp.sticky
    <2>1. PICK s \in CtrlStats : /\ x = [st EXCEPT !.stat = s]
                                 /\ st.dp.select.dpbank = 0 => s.error = st.dp.sticky
      BY <1>5
    <2>2. x = [st EXCEPT !.stat = s] /\ s \in CtrlStats
      BY <2>1
    <2>3. x \in States /\ x.dp = st.dp /\ x.err = st.err /\ x.stat = s
      BY <2>2 DEF States
    <2>4. st.dp.select.dpbank = 0 => (x.stat.error <=> st.dp.sticky)
      BY <2>1, <2>3
    <2>5. CASE x.stat.error
      <3>1. u = Fail(x, "DpError") BY <1>1, <2>3, <2>5 DEF Ok
      <3>2. u.err = "DpError" /\ u.dp = [x.dp EXCEPT !.rdbuff = NoVal]
        BY <2>3, <3>1 DEF Fail, Forget, States
      <3>3. u.dp = [st.dp EXCEPT !.rdbuff = u.dp.rdbuff]
        BY <2>3, <3>2 DEF States, DpType
      <3>4. ~Ok(u) BY <3>2 DEF Ok
      <3> QED BY <1>2, <2>4, <2>5, <3>3, <3>4
    <2>6. CASE ~x.stat.error
      <3>1. u = [x EXCEPT !.stat = NoStat] BY <1>1, <2>3, <2>6 DEF Ok
      <3>2. u.err = x.err /\ u.dp = x.dp BY <2>3, <3>1 DEF States
      <3>3. u.dp = [st.dp EXCEPT !.rdbuff = u.dp.rdbuff]
        BY <2>3, <3>2 DEF States, DpType
      <3>4. Ok(u) BY <2>3, <3>2 DEF Ok
      <3> QED BY <1>2, <2>4, <2>6, <3>3, <3>4
    <2> QED BY <2>5, <2>6
  <1> QED BY <1>3, <1>4, <1>5

\* The step that makes the cached SELECT trustworthy: it changes only when
\* the target has acknowledged the new value and reported no error.
LEMMA UpdateDpSelectReach ==
  ASSUME NEW st \in Good, Ok(st), NEW sel \in Selects,
         st.obs.raw \/ (sel.ap = 0 /\ sel.dpbank = 0)
  PROVE  /\ UpdateDpSelect(st, sel) \subseteq Reach(st)
         /\ \A t \in UpdateDpSelect(st, sel) : Ok(t) => t.drv.dp_select = sel
                /\ (t.dp.alive /\ ~t.obs.raw /\ ~t.obs.linkErr => t.dp.select = sel)
  <1> SUFFICES ASSUME NEW v \in UpdateDpSelect(st, sel)
               PROVE  /\ v \in Reach(st)
                      /\ Ok(v) => v.drv.dp_select = sel
                           /\ (v.dp.alive /\ ~v.obs.raw /\ ~v.obs.linkErr => v.dp.select = sel)
    OBVIOUS
  <1> st \in States BY DEF Good
  <1>1. PICK t \in DpWriteSelect(st, sel) :
          v \in IF Ok(t) THEN Then(CheckDpErrors(t, FALSE), LAMBDA u : {[u EXCEPT !.drv.dp_select = sel]})
                ELSE {t}
    BY DEF UpdateDpSelect, Then
  <1> DEFINE w == [st EXCEPT !.dp.select = sel]
  <1>2. t \in Silent(st) \/ t \in {Fail(st, "FaultAck"), Fail(st, "WaitAck")}
        \/ (~st.dp.sticky /\ t \in {w, Damaged(st)})
    BY <1>1 DEF DpWriteSelect, Transact, Guarded, Waits
  <1>3. CASE ~Ok(t)
    <2>1. v = t BY <1>1, <1>3
    <2>2. Ok(w) /\ Ok(Damaged(st)) BY DEF Ok, Damaged, States
    <2>3. t \in Calm(st)
      <3>1. Fail(st, "FaultAck") \in Calm(st) /\ Fail(st, "WaitAck") \in Calm(st)
        BY FailCalm DEF Errors
      <3> QED BY <1>2, <1>3, <2>2, <3>1, SilentCalm
    <2> QED BY <1>3, <2>1, <2>3, CalmIsReach
  <1>4. CASE Ok(t)
    <2>1. ~st.dp.sticky /\ t \in {w, Damaged(st)}
      <3>1. Fail(st, "FaultAck").err = "FaultAck" /\ Fail(st, "WaitAck").err = "WaitAck"
        BY DEF Fail, Forget, States
      <3> QED BY <1>2, <1>4, <3>1, SilentCalm DEF Ok
    <2>2. t \in States /\ t.drv = st.drv /\ t.obs = st.obs /\ t.dp.alive = st.dp.alive
      <3>1. CASE t = w
        BY <3>1 DEF States, DpType
      <3>2. CASE t = Damaged(st)
        BY <3>2 DEF Damaged, States, DpType
      <3> QED BY <2>1, <3>1, <3>2
    <2>3. \/ t.dp.select = sel /\ ~t.dp.sticky
          \/ t.dp.select = st.dp.select /\ t.dp.sticky
      BY <2>1 DEF Damaged, States, DpType
    <2>4. PICK u \in CheckDpErrors(t, FALSE) :
            v \in IF Ok(u) THEN {[u EXCEPT !.drv.dp_select = sel]} ELSE {u}
      BY <1>1, <1>4 DEF Then
    <2>5. u \in Calm(t) /\ u \in States BY <2>2, CheckDpErrorsCalm DEF Calm
    <2>6. \/ ~Ok(u) /\ u.obs.linkErr
          \/ t.dp.select.dpbank = 0 => (Ok(u) <=> ~t.dp.sticky)
      BY <1>4, <2>2, CheckDpErrorsFinds
    <2>7. t.dp.alive /\ ~t.obs.raw => t.dp.select.dpbank = 0
      BY <2>2, <2>3 DEF Good, BankZero
    <2>8. CASE Ok(u)
      <3>1. v = [u EXCEPT !.drv.dp_select = sel] BY <2>4, <2>8
      <3>2. v \in States /\ v.drv = [u.drv EXCEPT !.dp_select = sel] /\ v.dp = u.dp
            /\ v.obs = u.obs /\ v.err = u.err
        BY <2>5, <3>1 DEF States, DrvType
      <3>3. v.dp.alive /\ ~v.obs.raw => v.dp.select = sel
        BY <2>2, <2>3, <2>5, <2>6, <2>7, <2>8, <3>2 DEF Calm
      <3>4. Keeps(st, v)
        BY <2>2, <2>5, <3>2 DEF Keeps, Calm, States, DrvType
      <3>5. v.drv.dp_select = sel
        BY <2>5, <3>2 DEF States, DrvType
      <3>6. v \in Good
        BY <2>2, <2>5, <3>2, <3>3, <3>4, <3>5 DEF Good, Coherent, Facts, Gate, BankZero, Keeps, Calm
      <3> QED BY <3>3, <3>4, <3>5, <3>6 DEF Reach
    <2>9. CASE ~Ok(u)
      <3>1. v = u BY <2>4, <2>9
      <3>2. Keeps(st, v)
        BY <2>2, <2>5, <3>1 DEF Keeps, Calm
      <3>3. v \in Good
        BY <2>2, <2>3, <2>5, <2>6, <2>7, <2>9, <3>1
        DEF Good, Coherent, Facts, Gate, BankZero, Calm
      <3> QED BY <2>9, <3>1, <3>2, <3>3 DEF Reach
    <2> QED BY <2>8, <2>9
  <1> QED BY <1>3, <1>4

\* A transaction or check that is calm keeps a good state good.
LEMMA CalmReach ==
  ASSUME NEW st \in Good, NEW S, S \subseteq Calm(st)
  PROVE  S \subseteq Reach(st)
  BY CalmIsReach

LEMMA CheckSelectApReach ==
  ASSUME NEW st \in Good, Ok(st), NEW reg \in Regs
  PROVE  CheckSelectAp(st, reg) \subseteq Reach(st)
  <1> DEFINE sel == [SelectDefault EXCEPT !.bank = BankOf(reg)]
  <1>1. sel \in Selects /\ sel.ap = 0 /\ sel.dpbank = 0
    BY RegisterFacts, TargetAssumption DEF SelectDefault, Selects, Banks, Regs
  <1> HIDE DEF sel
  <1>2. UpdateDpSelect(st, sel) \subseteq Reach(st)
    BY <1>1, UpdateDpSelectReach
  <1> QED BY <1>2, ReachRefl DEF CheckSelectAp, sel

LEMMA CheckSelectDpReach ==
  ASSUME NEW st \in Good, Ok(st)
  PROVE  CheckSelectDp(st) \subseteq Reach(st)
  <1>1. SelectDefault.ap = 0 /\ SelectDefault.dpbank = 0 BY DEF SelectDefault
  <1>2. UpdateDpSelect(st, SelectDefault) \subseteq Reach(st)
    BY <1>1, ValueFacts, UpdateDpSelectReach
  <1> QED BY <1>2, ReachRefl DEF CheckSelectDp

LEMMA FailReach ==
  ASSUME NEW st \in Good, NEW e \in Errors PROVE Fail(st, e) \in Reach(st)
  BY FailCalm, CalmIsReach DEF Good

LEMMA PowerGateReach ==
  ASSUME NEW st \in Good PROVE PowerGate(st) \subseteq Reach(st)
  BY FailReach, ReachRefl DEF PowerGate, Errors

LEMMA WriteApReach ==
  ASSUME NEW st \in Good, NEW reg \in Regs, NEW v, reg = TAR => v \in Addrs
  PROVE  WriteApRegister(st, reg, v) \subseteq Reach(st)
  <1> SUFFICES ASSUME NEW x \in WriteApRegister(st, reg, v) PROVE x \in Reach(st)
    OBVIOUS
  <1> DEFINE Write(u) == Then(ApWrite(u, reg, v), LAMBDA w : CheckDpErrors(w, FALSE))
  <1>1. ASSUME NEW u \in Good, NEW y \in Write(u) PROVE y \in Reach(u)
    <2>1. PICK w \in ApWrite(u, reg, v) : y \in IF Ok(w) THEN CheckDpErrors(w, FALSE) ELSE {w}
      BY <1>1 DEF Then
    <2>2. w \in Reach(u) BY <1>1, ApWriteCalm, CalmReach DEF Good
    <2>3. CheckDpErrors(w, FALSE) \subseteq Reach(w)
      BY <2>2, CheckDpErrorsCalm, CalmReach, ReachIsGood DEF Good
    <2> QED BY <2>1, <2>2, <2>3, ReachTrans
  <1>2. PICK t \in PowerGate(st) :
          x \in IF Ok(t) THEN Then(CheckSelectAp(t, reg), Write) ELSE {t}
    BY DEF WriteApRegister, Then
  <1>3. t \in Reach(st) /\ t \in Good BY PowerGateReach, ReachIsGood
  <1>4. CASE Ok(t)
    <2>1. PICK u \in CheckSelectAp(t, reg) : x \in IF Ok(u) THEN Write(u) ELSE {u}
      BY <1>2, <1>4 DEF Then
    <2>2. u \in Reach(t) /\ u \in Good BY <1>3, <1>4, CheckSelectApReach, ReachIsGood
    <2>3. x \in Reach(t) BY <2>1, <2>2, <1>1, ReachTrans
    <2> QED BY <1>3, <2>3, ReachTrans
  <1> QED BY <1>2, <1>3, <1>4

LEMMA ReadApReach ==
  ASSUME NEW st \in Good, NEW reg \in Regs
  PROVE  ReadApRegister(st, reg) \subseteq Reach(st)
  <1> SUFFICES ASSUME NEW v \in ReadApRegister(st, reg) PROVE v \in Reach(st)
    OBVIOUS
  <1> DEFINE Fetch(w) == Then(CheckDpErrors(w, TRUE), LAMBDA x : DpReadRdBuff(x))
             Read(u) == Then(ApRead(u, reg), LAMBDA w : Fetch(w))
  <1>1. ASSUME NEW w \in Good, NEW y \in Fetch(w) PROVE y \in Reach(w)
    <2>1. PICK x \in CheckDpErrors(w, TRUE) : y \in IF Ok(x) THEN DpReadRdBuff(x) ELSE {x}
      BY <1>1 DEF Then
    <2>2. x \in Reach(w) BY CheckDpErrorsCalm, CalmReach DEF Good
    <2>3. DpReadRdBuff(x) \subseteq Reach(x)
      BY <2>2, RdBuffCalm, CalmReach, ReachIsGood DEF Good
    <2> QED BY <2>1, <2>2, <2>3, ReachTrans
  <1>2. ASSUME NEW u \in Good, NEW y \in Read(u) PROVE y \in Reach(u)
    <2>1. PICK w \in ApRead(u, reg) : y \in IF Ok(w) THEN Fetch(w) ELSE {w}
      BY <1>2 DEF Then
    <2>2. w \in Reach(u) /\ w \in Good BY ApReadCalm, CalmReach, ReachIsGood DEF Good
    <2> QED BY <2>1, <2>2, <1>1, ReachTrans
  <1>3. PICK t \in PowerGate(st) :
          v \in IF Ok(t) THEN Then(CheckSelectAp(t, reg), Read) ELSE {t}
    BY DEF ReadApRegister, Then
  <1>4. t \in Reach(st) /\ t \in Good BY PowerGateReach, ReachIsGood
  <1>5. CASE Ok(t)
    <2>1. PICK u \in CheckSelectAp(t, reg) : v \in IF Ok(u) THEN Read(u) ELSE {u}
      BY <1>3, <1>5 DEF Then
    <2>2. u \in Reach(t) /\ u \in Good BY <1>4, <1>5, CheckSelectApReach, ReachIsGood
    <2>3. v \in Reach(t) BY <2>1, <2>2, <1>2, ReachTrans
    <2> QED BY <1>4, <2>3, ReachTrans
  <1> QED BY <1>3, <1>4, <1>5

LEMMA WriteCtrlStatReach ==
  ASSUME NEW st \in Good, Ok(st) PROVE WriteCtrlStat(st) \subseteq Reach(st)
  <1> SUFFICES ASSUME NEW v \in WriteCtrlStat(st) PROVE v \in Reach(st)
    OBVIOUS
  <1> DEFINE Write(t) == Then(DpWriteCtrlStat(t), LAMBDA u : CheckDpErrors(u, FALSE))
  <1>1. PICK t \in CheckSelectDp(st) : v \in IF Ok(t) THEN Write(t) ELSE {t}
    BY DEF WriteCtrlStat, Then
  <1>2. t \in Reach(st) /\ t \in Good BY CheckSelectDpReach, ReachIsGood
  <1>3. ASSUME v \in Write(t) PROVE v \in Reach(t)
    <2>1. PICK u \in DpWriteCtrlStat(t) : v \in IF Ok(u) THEN CheckDpErrors(u, FALSE) ELSE {u}
      BY <1>3 DEF Then
    <2>2. u \in Reach(t) /\ u \in Good
      BY <1>2, CtrlStatWriteCalm, CalmReach, ReachIsGood DEF Good
    <2>3. CheckDpErrors(u, FALSE) \subseteq Reach(u)
      BY <2>2, CheckDpErrorsCalm, CalmReach DEF Good
    <2> QED BY <2>1, <2>2, <2>3, ReachTrans
  <1> QED BY <1>1, <1>2, <1>3, ReachTrans

LEMMA ReadCtrlStatReach ==
  ASSUME NEW st \in Good, Ok(st) PROVE ReadCtrlStat(st) \subseteq Reach(st)
  <1> SUFFICES ASSUME NEW v \in ReadCtrlStat(st) PROVE v \in Reach(st)
    OBVIOUS
  <1>1. PICK t \in CheckSelectDp(st) : v \in IF Ok(t) THEN DpReadCtrlStat(t) ELSE {t}
    BY DEF ReadCtrlStat, Then
  <1>2. t \in Reach(st) /\ t \in Good BY CheckSelectDpReach, ReachIsGood
  <1>3. DpReadCtrlStat(t) \subseteq Reach(t)
    BY <1>2, CtrlStatReadCalm, CalmReach DEF Good
  <1> QED BY <1>1, <1>2, <1>3, ReachTrans

LEMMA ClearErrorsReach ==
  ASSUME NEW st \in Good PROVE ClearErrors(st) \subseteq Reach(st)
  <1> SUFFICES ASSUME NEW v \in ClearErrors(st) PROVE v \in Reach(st)
    OBVIOUS
  <1>1. PICK t \in DpWriteAbort(st) : v \in IF Ok(t) THEN CheckDpErrors(t, FALSE) ELSE {t}
    BY DEF ClearErrors, Then
  <1>2. t \in Reach(st) /\ t \in Good BY AbortCalm, CalmReach, ReachIsGood DEF Good
  <1>3. CheckDpErrors(t, FALSE) \subseteq Reach(t)
    BY <1>2, CheckDpErrorsCalm, CalmReach DEF Good
  <1> QED BY <1>1, <1>2, <1>3, ReachTrans

-----------------------------------------------------------------------------
(* Memory operations *)

LEMMA AddrFacts == IdAddr \in Addrs /\ DetailAddr \in Addrs /\ 1 % NWords \in Addrs
  BY TargetAssumption DEF IdAddr, DetailAddr, Addrs

LEMMA SetTarReach ==
  ASSUME NEW st \in Good, NEW a \in Addrs PROVE SetTar(st, a) \subseteq Reach(st)
  <1> SUFFICES ASSUME NEW v \in SetTar(st, a) PROVE v \in Reach(st)
    OBVIOUS
  <1> DEFINE Check(u) == IF u.val.val # a THEN Fail(u, "OperationFailed") ELSE Forget(u)
  <1>1. PICK t \in WriteApRegister(st, TAR, a) :
          v \in IF Ok(t) THEN Then(ReadApRegister(t, TAR), LAMBDA u : {Check(u)}) ELSE {t}
    BY DEF SetTar, Then
  <1>2. t \in Reach(st) /\ t \in Good BY WriteApReach, ReachIsGood DEF Regs
  <1>3. CASE Ok(t)
    <2>1. PICK u \in ReadApRegister(t, TAR) : v \in IF Ok(u) THEN {Check(u)} ELSE {u}
      BY <1>1, <1>3 DEF Then
    <2>2. u \in Reach(t) /\ u \in Good /\ u \in States
      BY <1>2, ReadApReach, ReachIsGood DEF Regs
    <2>3. Fail(u, "OperationFailed") \in Reach(u) /\ Forget(u) \in Reach(u)
      BY <2>2, FailReach, ForgetCalm, CalmIsReach DEF Errors
    <2> QED BY <1>2, <2>1, <2>2, <2>3, ReachTrans
  <1> QED BY <1>1, <1>2, <1>3

LEMMA ReadMemReach ==
  ASSUME NEW st \in Good, NEW a \in Addrs PROVE ReadMem(st, a) \subseteq Reach(st)
  <1> SUFFICES ASSUME NEW v \in ReadMem(st, a) PROVE v \in Reach(st)
    OBVIOUS
  <1>1. PICK t \in SetTar(st, a) : v \in IF Ok(t) THEN ReadApRegister(t, DRW) ELSE {t}
    BY DEF ReadMem, Then
  <1>2. t \in Reach(st) /\ t \in Good BY SetTarReach, ReachIsGood
  <1>3. ReadApRegister(t, DRW) \subseteq Reach(t) BY <1>2, ReadApReach DEF Regs
  <1> QED BY <1>1, <1>2, <1>3, ReachTrans

LEMMA WriteMemReach ==
  ASSUME NEW st \in Good, NEW a \in Addrs PROVE WriteMem(st, a) \subseteq Reach(st)
  <1> SUFFICES ASSUME NEW v \in WriteMem(st, a) PROVE v \in Reach(st)
    OBVIOUS
  <1>1. PICK t \in SetTar(st, a) : v \in IF Ok(t) THEN WriteApRegister(t, DRW, 0) ELSE {t}
    BY DEF WriteMem, Then
  <1>2. t \in Reach(st) /\ t \in Good BY SetTarReach, ReachIsGood
  <1>3. WriteApRegister(t, DRW, 0) \subseteq Reach(t)
    BY <1>2, WriteApReach DEF Regs, DRW, TAR
  <1> QED BY <1>1, <1>2, <1>3, ReachTrans

LEMMA SetAddrIncReach ==
  ASSUME NEW st \in Good, NEW b \in BOOLEAN PROVE SetAddrInc(st, b) \subseteq Reach(st)
  <1> SUFFICES ASSUME NEW v \in SetAddrInc(st, b) PROVE v \in Reach(st)
    OBVIOUS
  <1> DEFINE Check(w) == IF w.val.val # AsBit(b) THEN Fail(w, "OperationFailed") ELSE w
             Change(t) == Then(WriteApRegister(t, CSW, AsBit(b)), LAMBDA u :
                          Then(ReadApRegister(u, CSW), LAMBDA w : {Check(w)}))
  <1>1. PICK t \in ReadApRegister(st, CSW) :
          v \in IF Ok(t) THEN IF t.val.val = AsBit(b) THEN {t} ELSE Change(t) ELSE {t}
    BY DEF SetAddrInc, Then
  <1>2. t \in Reach(st) /\ t \in Good BY ReadApReach, ReachIsGood DEF Regs
  <1>3. ASSUME v \in Change(t) PROVE v \in Reach(t)
    <2>1. PICK u \in WriteApRegister(t, CSW, AsBit(b)) :
            v \in IF Ok(u) THEN Then(ReadApRegister(u, CSW), LAMBDA w : {Check(w)}) ELSE {u}
      BY <1>3 DEF Then
    <2>2. u \in Reach(t) /\ u \in Good
      BY <1>2, WriteApReach, ReachIsGood DEF Regs, CSW, TAR
    <2>3. CASE Ok(u)
      <3>1. PICK w \in ReadApRegister(u, CSW) : v \in IF Ok(w) THEN {Check(w)} ELSE {w}
        BY <2>1, <2>3 DEF Then
      <3>2. w \in Reach(u) /\ w \in Good BY <2>2, ReadApReach, ReachIsGood DEF Regs
      <3>3. Fail(w, "OperationFailed") \in Reach(w) BY <3>2, FailReach DEF Errors
      <3> QED BY <2>2, <3>1, <3>2, <3>3, ReachTrans
    <2> QED BY <2>1, <2>2, <2>3
  <1> QED BY <1>1, <1>2, <1>3, ReachTrans

-----------------------------------------------------------------------------
(* The parts of enable_target: what is known about the target only grows.  *)

AtLeast(st, t) ==
  /\ t.drv.idcode = st.drv.idcode
  /\ t.drv.mcu = st.drv.mcu
  /\ t.drv.reset_version = st.drv.reset_version
  /\ st.drv.powered_up => t.drv.powered_up
  /\ st.drv.idr => t.drv.idr
  /\ t.obs.raw = st.obs.raw

Better(st) == {t \in Good : AtLeast(st, t)}

LEMMA ReachBetter == ASSUME NEW st, NEW t \in Reach(st) PROVE t \in Better(st)
  BY DEF Reach, Keeps, Better, AtLeast

LEMMA BetterTrans ==
  ASSUME NEW st, NEW t \in Better(st), NEW u \in Better(t) PROVE u \in Better(st)
  BY DEF Better, AtLeast

LEMMA BetterIsGood == ASSUME NEW st, NEW t \in Better(st) PROVE t \in Good /\ t \in States
  BY DEF Better, Good

\* The cache holds the default SELECT, and so does the target unless the wire
\* or the raw operations came in between.
Matched(st) ==
  /\ st.drv.dp_select = SelectDefault
  /\ st.dp.alive /\ ~st.obs.raw /\ ~st.obs.linkErr => st.dp.select = SelectDefault

LEMMA CalmMatched ==
  ASSUME NEW st \in States, Matched(st), NEW t \in Calm(st) PROVE Matched(t) /\ t \in States
  BY DEF Matched, Calm

LEMMA PowerUpTail ==
  ASSUME NEW u \in Good, Ok(u), Matched(u),
         NEW v \in Then(WriteCtrlStat(u), LAMBDA w : Then(ReadCtrlStat(w), LAMBDA x :
                   {IF x.stat.power THEN [x EXCEPT !.drv.powered_up = TRUE]
                    ELSE Fail(x, "OperationFailed")}))
  PROVE  v \in Better(u) /\ (Ok(v) => v.drv.powered_up)
  <1> DEFINE Up(x) == IF x.stat.power THEN [x EXCEPT !.drv.powered_up = TRUE]
                      ELSE Fail(x, "OperationFailed")
  <1>1. PICK w \in WriteCtrlStat(u) :
          v \in IF Ok(w) THEN Then(ReadCtrlStat(w), LAMBDA x : {Up(x)}) ELSE {w}
    BY DEF Then
  <1>2. w \in Reach(u) /\ w \in Good /\ w \in States
    BY WriteCtrlStatReach, ReachIsGood
  <1>3. w \in Calm(u)
    <2>1. CheckSelectDp(u) = {u} BY DefaultFacts DEF CheckSelectDp, Matched
    <2>2. PICK y \in DpWriteCtrlStat(u) : w \in IF Ok(y) THEN CheckDpErrors(y, FALSE) ELSE {y}
      <3>1. w \in Then({u}, LAMBDA t : Then(DpWriteCtrlStat(t), LAMBDA y : CheckDpErrors(y, FALSE)))
        BY <2>1 DEF WriteCtrlStat
      <3>2. w \in Then(DpWriteCtrlStat(u), LAMBDA y : CheckDpErrors(y, FALSE))
        BY <3>1 DEF Then
      <3> QED BY <3>2 DEF Then
    <2>3. y \in Calm(u) /\ y \in States BY CtrlStatWriteCalm DEF Good, Calm
    <2>4. CheckDpErrors(y, FALSE) \subseteq Calm(y) BY <2>3, CheckDpErrorsCalm
    <2> QED BY <2>2, <2>3, <2>4, CalmTrans DEF Good
  <1>4. Matched(w) BY <1>3, CalmMatched DEF Good
  <1>5. CASE ~Ok(w)
    BY <1>1, <1>2, <1>5, ReachBetter
  <1>6. CASE Ok(w)
    <2>1. PICK x \in ReadCtrlStat(w) : v \in IF Ok(x) THEN {Up(x)} ELSE {x}
      BY <1>1, <1>6 DEF Then
    <2>2. x \in Reach(w) /\ x \in Good /\ x \in States
      BY <1>2, <1>6, ReadCtrlStatReach, ReachIsGood
    <2>3. x \in Calm(w)
      <3>1. CheckSelectDp(w) = {w} BY <1>4, DefaultFacts DEF CheckSelectDp, Matched
      <3>2. ReadCtrlStat(w) = DpReadCtrlStat(w) BY <3>1, <1>6 DEF ReadCtrlStat, Then
      <3> QED BY <2>1, <3>2, <1>2, CtrlStatReadCalm
    <2>4. Matched(x) BY <1>2, <1>4, <2>3, CalmMatched
    <2>5. x \in Better(u) BY <1>2, <2>2, ReachTrans, ReachBetter
    <2>6. CASE ~Ok(x)
      BY <2>1, <2>5, <2>6
    <2>7. CASE v = Fail(x, "OperationFailed")
      <3>1. v \in Better(u)
        BY <2>2, <2>5, <2>7, FailReach, ReachBetter, BetterTrans DEF Errors
      <3>2. v.err = "OperationFailed" BY <2>2, <2>7 DEF Fail, Forget, States
      <3> QED BY <3>1, <3>2 DEF Ok
    <2>8. CASE v = [x EXCEPT !.drv.powered_up = TRUE]
      <3>1. v \in States /\ v.drv = [x.drv EXCEPT !.powered_up = TRUE] /\ v.dp = x.dp /\ v.obs = x.obs
        BY <2>2, <2>8 DEF States, DrvType
      <3>2. v.drv.powered_up /\ v.drv.dp_select = x.drv.dp_select /\ v.drv.idcode = x.drv.idcode
            /\ v.drv.mcu = x.drv.mcu /\ v.drv.idr = x.drv.idr
            /\ v.drv.check_power = x.drv.check_power /\ v.drv.reset_version = x.drv.reset_version
        BY <2>2, <3>1 DEF States, DrvType
      <3>3. Coherent(v) BY <2>4, <3>1, <3>2, DefaultFacts, ZenonT(30) DEF Coherent, Matched
      <3>4. v \in Good
        BY <2>2, <3>1, <3>2, <3>3 DEF Good, Facts, Gate, BankZero
      <3> QED BY <2>5, <3>1, <3>2, <3>4 DEF Better, AtLeast
    <2> QED BY <2>1, <2>6, <2>7, <2>8
  <1> QED BY <1>5, <1>6

LEMMA PowerUpBetter ==
  ASSUME NEW st \in Good, Ok(st), NEW v \in PowerUpDebugDomain(st)
  PROVE  v \in Better(st) /\ (Ok(v) => v.drv.powered_up)
  <1> DEFINE Up(x) == IF x.stat.power THEN [x EXCEPT !.drv.powered_up = TRUE]
                      ELSE Fail(x, "OperationFailed")
             Tail(u) == Then(WriteCtrlStat(u), LAMBDA w : Then(ReadCtrlStat(w), LAMBDA x : {Up(x)}))
  <1>1. PICK t \in CheckVersion(st) :
          v \in IF Ok(t) THEN Then(UpdateDpSelect(t, SelectDefault), Tail) ELSE {t}
    BY DEF PowerUpDebugDomain, Then
  <1>2. t = st \/ (t = Fail(st, "NotReady") /\ ~Ok(t))
    BY DEF CheckVersion, Fail, Forget, Ok, Good, States
  <1>3. CASE ~Ok(t)
    BY <1>1, <1>2, <1>3, FailReach, ReachBetter DEF Errors
  <1>4. CASE t = st
    <2>1. PICK u \in UpdateDpSelect(st, SelectDefault) : v \in IF Ok(u) THEN Tail(u) ELSE {u}
      BY <1>1, <1>4 DEF Then
    <2>2. SelectDefault.ap = 0 /\ SelectDefault.dpbank = 0 BY DEF SelectDefault
    <2>3. u \in Reach(st) /\ u \in Good /\ (Ok(u) => Matched(u))
      BY <2>2, UpdateDpSelectReach, ValueFacts, ReachIsGood DEF Matched
    <2>4. CASE ~Ok(u)
      BY <2>1, <2>3, <2>4, ReachBetter
    <2>5. CASE Ok(u)
      BY <2>1, <2>3, <2>5, PowerUpTail, ReachBetter, BetterTrans
    <2> QED BY <2>4, <2>5
  <1> QED BY <1>2, <1>3, <1>4

LEMMA EnablePortBetter ==
  ASSUME NEW st \in Good, NEW v \in EnablePort(st)
  PROVE  v \in Better(st) /\ (Ok(v) => v.drv.powered_up)
  <1> DEFINE Rest(t) == Then(DpReadRdBuff(t), LAMBDA u : PowerUpDebugDomain(u))
  <1>1. PICK t \in ClearErrors(st) : v \in IF Ok(t) THEN Rest(t) ELSE {t}
    BY DEF EnablePort, Then
  <1>2. t \in Reach(st) /\ t \in Good /\ t \in States BY ClearErrorsReach, ReachIsGood
  <1>3. CASE ~Ok(t)
    BY <1>1, <1>2, <1>3, ReachBetter
  <1>4. CASE Ok(t)
    <2>1. PICK u \in DpReadRdBuff(t) : v \in IF Ok(u) THEN PowerUpDebugDomain(u) ELSE {u}
      BY <1>1, <1>4 DEF Then
    <2>2. u \in Reach(t) /\ u \in Good BY <1>2, RdBuffCalm, CalmReach, ReachIsGood
    <2>3. u \in Better(st) BY <1>2, <2>2, ReachTrans, ReachBetter
    <2>4. CASE ~Ok(u) BY <2>1, <2>3, <2>4
    <2>5. CASE Ok(u) BY <2>1, <2>2, <2>3, <2>5, PowerUpBetter, BetterTrans
    <2> QED BY <2>4, <2>5
  <1> QED BY <1>3, <1>4

\* The driver may revise what it does not promise: AddrInc and the MEM-AP's id.
LEMMA SetAddrIncField ==
  ASSUME NEW st \in Good, NEW b \in BOOLEAN
  PROVE  [st EXCEPT !.drv.addr_inc = b] \in Reach(st)
  BY DEF Good, States, DrvType, Reach, Keeps, Coherent, Facts, Gate, BankZero

LEMMA SetIdrField ==
  ASSUME NEW st \in Good
  PROVE  [st EXCEPT !.drv.idr = TRUE] \in Better(st) /\ [st EXCEPT !.drv.idr = TRUE].drv.idr
  <1> DEFINE t == [st EXCEPT !.drv.idr = TRUE]
  <1>1. t \in States /\ t.drv = [st.drv EXCEPT !.idr = TRUE] /\ t.dp = st.dp /\ t.obs = st.obs
    BY DEF Good, States, DrvType
  <1>2. t.drv.idr /\ t.drv.idcode = st.drv.idcode /\ t.drv.mcu = st.drv.mcu
        /\ t.drv.powered_up = st.drv.powered_up /\ t.drv.dp_select = st.drv.dp_select
        /\ t.drv.check_power = st.drv.check_power /\ t.drv.reset_version = st.drv.reset_version
    BY <1>1 DEF Good, States, DrvType
  <1> HIDE DEF t
  <1>3. t \in Good BY <1>1, <1>2 DEF Good, Coherent, Facts, Gate, BankZero
  <1>4. t \in Better(st) BY <1>1, <1>2, <1>3 DEF Better, AtLeast
  <1> QED BY <1>2, <1>4 DEF t

LEMMA ConfigureMemApBetter ==
  ASSUME NEW st \in Good, NEW v \in ConfigureMemAp(st)
  PROVE  v \in Better(st) /\ (Ok(v) => v.drv.idr)
  <1> DEFINE Seen(w) == [w EXCEPT !.drv.addr_inc = (w.val.val # 0)]
             Identify(w) == Then(ReadApRegister(Seen(w), IDR), LAMBDA x : {[x EXCEPT !.drv.idr = TRUE]})
             Back(u) == Then(ReadApRegister(u, CSW), LAMBDA w : Identify(w))
             Set(t) == Then(WriteApRegister(t, CSW, AsBit(t.drv.addr_inc)), LAMBDA u : Back(u))
             Get(r) == Then(ReadApRegister(r, CSW), LAMBDA t : Set(t))
             Goal(x, y) == y \in Better(x) /\ (Ok(y) => y.drv.idr)
  <1>1. ASSUME NEW w \in Good, NEW y \in Identify(w) PROVE Goal(w, y)
    <2> DEFINE z == Seen(w)
    <2>1. z \in Reach(w) /\ z \in Good BY SetAddrIncField, ReachIsGood
    <2>2. PICK x \in ReadApRegister(z, IDR) :
            y \in IF Ok(x) THEN {[x EXCEPT !.drv.idr = TRUE]} ELSE {x}
      BY <1>1 DEF Then
    <2> HIDE DEF z
    <2>3. x \in Better(w) /\ x \in Good
      BY <2>1, <2>2, ReadApReach, ReachTrans, ReachBetter, ReachIsGood DEF Regs
    <2> QED BY <2>2, <2>3, SetIdrField, BetterTrans
  <1>2. ASSUME NEW u \in Good, NEW y \in Back(u) PROVE Goal(u, y)
    <2>1. PICK w \in ReadApRegister(u, CSW) : y \in IF Ok(w) THEN Identify(w) ELSE {w}
      BY <1>2 DEF Then
    <2>2. w \in Better(u) /\ w \in Good BY ReadApReach, ReachBetter, ReachIsGood DEF Regs
    <2> HIDE DEF Identify
    <2> QED BY <2>1, <2>2, <1>1, BetterTrans
  <1>3. ASSUME NEW t \in Good, NEW y \in Set(t) PROVE Goal(t, y)
    <2>1. PICK u \in WriteApRegister(t, CSW, AsBit(t.drv.addr_inc)) :
            y \in IF Ok(u) THEN Back(u) ELSE {u}
      BY <1>3 DEF Then
    <2>2. u \in Reach(t) BY <2>1, CswFacts, WriteApReach
    <2>3. u \in Better(t) /\ u \in Good BY <2>2, ReachBetter, ReachIsGood
    <2> HIDE DEF Back
    <2> QED BY <2>1, <2>3, <1>2, BetterTrans
  <1>4. ASSUME NEW r \in Good, NEW y \in Get(r) PROVE Goal(r, y)
    <2>1. PICK t \in ReadApRegister(r, CSW) : y \in IF Ok(t) THEN Set(t) ELSE {t}
      BY <1>4 DEF Then
    <2>2. t \in Better(r) /\ t \in Good BY ReadApReach, ReachBetter, ReachIsGood DEF Regs
    <2> HIDE DEF Set
    <2> QED BY <2>1, <2>2, <1>3, BetterTrans
  <1>5. PICK r \in PowerGate(st) : v \in IF Ok(r) THEN Get(r) ELSE {r}
    BY DEF ConfigureMemAp, Then
  <1>6. r \in Better(st) /\ r \in Good BY PowerGateReach, ReachBetter, ReachIsGood
  <1> HIDE DEF Get
  <1> QED BY <1>4, <1>5, <1>6, BetterTrans

-----------------------------------------------------------------------------
(* get_mcu *)

\* Good states in which a successful identification has named the MCU.
Identified(st) == {t \in Reach(st) : Ok(t) => t.found \in Mcus}

LEMMA NamedIdentified ==
  ASSUME NEW st \in Good, NEW m \in Mcus PROVE Named(st, m) \in Identified(st)
  BY DEF Named, Good, States, Identified, Reach, Keeps, Coherent, Facts, Gate, BankZero

LEMMA IdentifiedTrans ==
  ASSUME NEW st, NEW t \in Reach(st), NEW u \in Identified(t) PROVE u \in Identified(st)
  BY ReachTrans DEF Identified

LEMMA StmDetailsIdentified ==
  ASSUME NEW st \in Good PROVE StmDetails(st) \subseteq Identified(st)
  <1> SUFFICES ASSUME NEW v \in StmDetails(st) PROVE v \in Identified(st)
    OBVIOUS
  <1> DEFINE Second(t) == Then(ReadMem(t, DetailAddr), LAMBDA u : {Named(u, "Stm32")})
  <1>1. CASE v = Named(st, "Stm32")
    BY <1>1, NamedIdentified DEF Mcus
  <1>2. CASE v \in Then(ReadMem(st, DetailAddr), LAMBDA t : Second(t))
    <2>1. PICK t \in ReadMem(st, DetailAddr) : v \in IF Ok(t) THEN Second(t) ELSE {t}
      BY <1>2 DEF Then
    <2>2. t \in Reach(st) /\ t \in Good BY AddrFacts, ReadMemReach, ReachIsGood
    <2>3. ASSUME v \in Second(t) PROVE v \in Identified(t)
      <3>1. PICK u \in ReadMem(t, DetailAddr) : v \in IF Ok(u) THEN {Named(u, "Stm32")} ELSE {u}
        BY <2>3 DEF Then
      <3>2. u \in Reach(t) /\ u \in Good BY <2>2, AddrFacts, ReadMemReach, ReachIsGood
      <3>3. Named(u, "Stm32") \in Identified(u) BY <3>2, NamedIdentified DEF Mcus
      <3>4. CASE Ok(u) BY <3>1, <3>2, <3>3, <3>4, IdentifiedTrans
      <3>5. CASE ~Ok(u) BY <3>1, <3>2, <3>5 DEF Identified
      <3> QED BY <3>4, <3>5
    <2>4. CASE Ok(t) BY <2>1, <2>2, <2>3, <2>4, IdentifiedTrans
    <2>5. CASE ~Ok(t) BY <2>1, <2>2, <2>5 DEF Identified
    <2> QED BY <2>4, <2>5
  <1> QED BY <1>1, <1>2 DEF StmDetails

LEMMA ProbeRpIdentified ==
  ASSUME NEW st \in Good PROVE ProbeRp(st) \subseteq Identified(st)
  <1> SUFFICES ASSUME NEW v \in ProbeRp(st) PROVE v \in Identified(st)
    OBVIOUS
  <1> DEFINE Names(u) == {Named(u, "Rp"), Named(u, "Unknown")}
             Second(t) == Then(ReadMem(t, DetailAddr), LAMBDA u : Names(u))
  <1>1. PICK t \in ReadMem(st, DetailAddr) : v \in IF Ok(t) THEN Second(t) ELSE {t}
    BY DEF ProbeRp, Then
  <1>2. t \in Reach(st) /\ t \in Good BY AddrFacts, ReadMemReach, ReachIsGood
  <1>3. ASSUME v \in Second(t) PROVE v \in Identified(t)
    <2>1. PICK u \in ReadMem(t, DetailAddr) : v \in IF Ok(u) THEN Names(u) ELSE {u}
      BY <1>3 DEF Then
    <2>2. u \in Reach(t) /\ u \in Good BY <1>2, AddrFacts, ReadMemReach, ReachIsGood
    <2>3. Names(u) \subseteq Identified(u) BY <2>2, NamedIdentified DEF Mcus
    <2>4. CASE Ok(u) BY <2>1, <2>2, <2>3, <2>4, IdentifiedTrans
    <2>5. CASE ~Ok(u) BY <2>1, <2>2, <2>5 DEF Identified
    <2> QED BY <2>4, <2>5
  <1>4. CASE Ok(t) BY <1>1, <1>2, <1>3, <1>4, IdentifiedTrans
  <1>5. CASE ~Ok(t) BY <1>1, <1>2, <1>5 DEF Identified
  <1> QED BY <1>4, <1>5

\* After the first probe, successful or not, the next one starts from a good
\* state.
LEMMA ProbeStart ==
  ASSUME NEW st \in Good, NEW t \in ReadMem(st, IdAddr)
  PROVE  /\ t \in Reach(st) /\ t \in Good
         /\ [t EXCEPT !.err = "Ok"] \in Reach(st)
         /\ [t EXCEPT !.err = "Ok"] \in Good
  <1>1. t \in Reach(st) /\ t \in Good BY AddrFacts, ReadMemReach, ReachIsGood
  <1>2. [t EXCEPT !.err = "Ok"] \in Reach(t)
    BY <1>1 DEF Good, States, Reach, Keeps, Coherent, Facts, Gate, BankZero
  <1> QED BY <1>1, <1>2, ReachTrans, ReachIsGood

LEMMA GetMcuIdentified ==
  ASSUME NEW st \in Good, NEW id PROVE GetMcu(st, id) \subseteq Identified(st)
  <1> SUFFICES ASSUME NEW v \in GetMcu(st, id) PROVE v \in Identified(st)
    OBVIOUS
  <1> DEFINE Unknown(t) == {Named(t, "Unknown")}
  <1>1. ASSUME NEW t \in Good PROVE Unknown(t) \subseteq Identified(t)
    BY <1>1, NamedIdentified DEF Mcus
  <1>2. CASE id = "m4"
    <2>1. v \in Then(ReadMem(st, IdAddr), LAMBDA t : StmDetails(t)) BY <1>2 DEF GetMcu
    <2>2. PICK t \in ReadMem(st, IdAddr) : v \in IF Ok(t) THEN StmDetails(t) ELSE {t}
      BY <2>1 DEF Then
    <2>3. t \in Reach(st) /\ t \in Good BY ProbeStart
    <2>4. CASE Ok(t) BY <2>2, <2>3, <2>4, StmDetailsIdentified, IdentifiedTrans
    <2>5. CASE ~Ok(t) BY <2>2, <2>3, <2>5 DEF Identified
    <2> QED BY <2>4, <2>5
  <1>3. CASE id = "m0"
    <2>1. v \in ProbeG0(st, LAMBDA t : ProbeRp(t)) BY <1>3 DEF GetMcu
    <2>2. PICK t \in ReadMem(st, IdAddr) :
            v \in IF Ok(t) THEN StmDetails(t) \cup ProbeRp(t) ELSE ProbeRp([t EXCEPT !.err = "Ok"])
      BY <2>1 DEF ProbeG0
    <2> QED BY <2>2, ProbeStart, StmDetailsIdentified, ProbeRpIdentified, IdentifiedTrans
  <1>4. CASE id = "m33"
    BY <1>1, <1>4 DEF GetMcu
  <1>5. CASE id \notin {"m4", "m0", "m33"}
    <2>1. v \in ProbeG0(st, LAMBDA t : Unknown(t)) BY <1>5 DEF GetMcu
    <2>2. PICK t \in ReadMem(st, IdAddr) :
            v \in IF Ok(t) THEN StmDetails(t) \cup Unknown(t) ELSE Unknown([t EXCEPT !.err = "Ok"])
      BY <2>1 DEF ProbeG0
    <2> HIDE DEF Unknown
    <2> QED BY <1>1, <2>2, ProbeStart, StmDetailsIdentified, IdentifiedTrans
  <1> QED BY <1>2, <1>3, <1>4, <1>5

-----------------------------------------------------------------------------
(* Resets and the keepalive *)

LEMMA ResetGood ==
  ASSUME NEW st \in States
  PROVE  ResetInternalState(st) \in States /\ ResetInternalState(st).drv = InternalReset
  BY ValueFacts DEF ResetInternalState, InternalReset, States, DrvType, ObsType

\* A line reset always leaves a good state: nothing is known, DP bank 0.
LEMMA LineResetGood ==
  ASSUME NEW st \in States, NEW b \in BOOLEAN, NEW t \in LineReset(ResetInternalState(st), b)
  PROVE  t \in Good /\ t.drv = InternalReset
  <1> DEFINE s == ResetInternalState(st)
  <1>1. s \in States /\ s.drv = InternalReset BY ResetGood
  <1> HIDE DEF s
  <1>2. PICK a \in BOOLEAN : t = [s EXCEPT !.dp.alive = a, !.dp.select.dpbank = 0]
    BY DEF LineReset, s
  <1>3. t \in States /\ t.drv = s.drv /\ t.dp.select.dpbank = 0
    BY <1>1, <1>2 DEF States, DpType, Selects
  <1>4. InternalReset.idcode = None /\ InternalReset.powered_up = FALSE
        /\ InternalReset.check_power = TRUE
    BY DEF InternalReset
  <1> QED BY <1>1, <1>3, <1>4 DEF Good, Coherent, Facts, Gate, BankZero

\* What a reset and the IDCODE read after it leave.
LEMMA ResetReadGood ==
  ASSUME NEW st \in States, NEW b \in BOOLEAN,
         NEW s \in LineReset(ResetInternalState(st), b), NEW t \in DpReadIdCode(s)
  PROVE  t \in Good /\ t.drv = InternalReset
  <1>1. s \in Good /\ s \in States /\ s.drv = InternalReset BY LineResetGood DEF Good
  <1>2. t \in Calm(s) BY <1>1, IdCodeCalm
  <1>3. t \in Good BY <1>1, <1>2, CalmIsReach, ReachIsGood
  <1> QED BY <1>1, <1>2, <1>3 DEF Calm

LEMMA KeepaliveGood ==
  ASSUME NEW st \in Good, NEW t \in Keepalive(st)
  PROVE  t \in Reach(st) \/ (t \in Good /\ t.drv = InternalReset)
  <1>1. PICK u \in DpReadIdCode(st) : t = IF Ok(u) THEN u ELSE [u EXCEPT !.drv = InternalReset]
    BY DEF Keepalive
  <1>2. u \in Reach(st) /\ u \in Good /\ u \in States
    BY IdCodeCalm, CalmReach, ReachIsGood DEF Good
  <1>3. ASSUME t = [u EXCEPT !.drv = InternalReset]
        PROVE  t \in Good /\ t.drv = InternalReset
    <2>1. InternalReset \in DrvType BY ValueFacts DEF InternalReset, DrvType
    <2>2. t \in States /\ t.drv = InternalReset /\ t.dp = u.dp /\ t.obs = u.obs
      BY <1>2, <1>3, <2>1 DEF States
    <2>3. InternalReset.idcode = None /\ InternalReset.powered_up = FALSE
          /\ InternalReset.check_power = TRUE
      BY DEF InternalReset
    <2> QED BY <1>2, <2>2, <2>3 DEF Good, Coherent, Facts, Gate, BankZero
  <1> QED BY <1>1, <1>2, <1>3

-----------------------------------------------------------------------------
(* Raw operations *)

\* With the raw operations in use nothing is promised but types and facts.
LEMMA RawGood ==
  ASSUME NEW st \in States, st.obs.raw, Facts(st) PROVE st \in Good
  BY DEF Good, Coherent, Gate, BankZero

LEMMA TaintGood ==
  ASSUME NEW st \in Good PROVE Taint(st) \in Good /\ Taint(st).obs.raw /\ Taint(st).drv = st.drv
  <1>1. Taint(st) \in States /\ Taint(st).obs.raw /\ Taint(st).drv = st.drv
    BY DEF Good, States, ObsType, Taint
  <1> QED BY <1>1, RawGood DEF Good, Facts

LEMMA CheckPowerGood ==
  ASSUME NEW st \in Good, NEW b \in BOOLEAN, b \/ st.obs.raw
  PROVE  CheckPower(st, b) \in Good /\ CheckPower(st, b).obs = st.obs
  <1> DEFINE t == CheckPower(st, b)
  <1>1. t \in States /\ t.drv = [st.drv EXCEPT !.check_power = b] /\ t.dp = st.dp /\ t.obs = st.obs
    BY DEF Good, States, DrvType, CheckPower
  <1>2. t.drv.check_power = b /\ t.drv.idcode = st.drv.idcode /\ t.drv.mcu = st.drv.mcu
        /\ t.drv.idr = st.drv.idr /\ t.drv.powered_up = st.drv.powered_up
        /\ t.drv.dp_select = st.drv.dp_select /\ t.drv.reset_version = st.drv.reset_version
    BY <1>1 DEF Good, States, DrvType
  <1> HIDE DEF t
  <1>3. t \in Good BY <1>1, <1>2 DEF Good, Coherent, Facts, Gate, BankZero
  <1> QED BY <1>1, <1>3 DEF t

LEMMA RawEpilogueGood ==
  ASSUME NEW S, S \subseteq Good PROVE RawEpilogue(S) \subseteq Good
  BY CheckPowerGood DEF RawEpilogue

LEMMA ReadDpRawGood ==
  ASSUME NEW st \in Good, NEW off PROVE ReadDpRegisterRaw(st, off) \subseteq Good
  <1>1. RawDpTransaction(st, off) \subseteq Calm(st)
    BY IdCodeCalm, CtrlStatReadCalm, RdBuffCalm DEF RawDpTransaction, Good
  <1>2. RawDpTransaction(st, off) \subseteq Good BY <1>1, CalmReach, ReachIsGood
  <1> QED BY <1>2, CheckPowerGood DEF ReadDpRegisterRaw

LEMMA WriteDpRawGood ==
  ASSUME NEW st \in Good, NEW off, NEW sel \in Selects
  PROVE  WriteDpRegisterRaw(st, off, sel) \subseteq Good
  <1> DEFINE r == Taint(st)
             Cache(u) == [u EXCEPT !.drv.dp_select = sel]
             Sel == Then(DpWriteSelect(r, sel), LAMBDA u : {Cache(u)})
  <1>1. r \in Good /\ r \in States /\ r.obs.raw BY TaintGood DEF Good
  <1> HIDE DEF r
  <1>2. DpWriteAbort(r) \subseteq Good /\ DpWriteCtrlStat(r) \subseteq Good
    BY <1>1, AbortCalm, CtrlStatWriteCalm, CalmReach, ReachIsGood
  <1>3. ASSUME NEW u \in DpWriteSelect(r, sel) PROVE u \in Good /\ u.obs.raw
    <2> DEFINE w == [r EXCEPT !.dp.select = sel]
    <2>1. w \in States /\ w.obs = r.obs /\ w.drv = r.drv
      BY <1>1 DEF States, DpType
    <2>2. w \in Good /\ w.obs.raw BY <1>1, <2>1, RawGood DEF Good, Facts
    <2>3. Damaged(r) \in Calm(r) /\ Fail(r, "FaultAck") \in Calm(r) /\ Fail(r, "WaitAck") \in Calm(r)
      BY <1>1, DamagedCalm, FailCalm DEF Errors
    <2>4. u = w \/ u \in Calm(r)
      BY <1>1, <2>3, SilentCalm DEF DpWriteSelect, Transact, Guarded, Waits
    <2>5. ASSUME u \in Calm(r) PROVE u \in Good /\ u.obs.raw
      BY <1>1, <2>5, CalmIsReach, ReachIsGood DEF Calm
    <2> QED BY <2>2, <2>4, <2>5
  <1>4. ASSUME NEW u \in Good, u.obs.raw PROVE Cache(u) \in Good
    <2>1. Cache(u) \in States /\ Cache(u).obs = u.obs
          /\ Cache(u).drv = [u.drv EXCEPT !.dp_select = sel]
      BY <1>4 DEF Good, States, DrvType
    <2>2. Facts(Cache(u)) BY <1>4, <2>1 DEF Good, States, DrvType, Facts
    <2> QED BY <1>4, <2>1, <2>2, RawGood
  <1>5. Sel \subseteq Good
    <2> HIDE DEF Cache
    <2> QED BY <1>3, <1>4 DEF Then
  <1>6. WriteDpRegisterRaw(st, off, sel) \subseteq
          {CheckPower(t, TRUE) : t \in DpWriteAbort(r) \cup DpWriteCtrlStat(r) \cup Sel}
    BY DEF WriteDpRegisterRaw, r
  <1> HIDE DEF Sel
  <1> QED BY <1>2, <1>5, <1>6, CheckPowerGood

LEMMA RawSelectReach ==
  ASSUME NEW st \in Good, Ok(st), st.obs.raw, NEW ap \in APs, NEW reg \in Regs
  PROVE  RawSelect(st, ap, reg) \subseteq Reach(st)
  <1> DEFINE sel == [st.drv.dp_select EXCEPT !.ap = ap, !.bank = BankOf(reg)]
  <1>1. BankOf(reg) \in Banks BY RegisterFacts DEF Regs, Banks
  <1>2. sel \in Selects BY <1>1 DEF Good, States, DrvType, Selects
  <1> HIDE DEF sel
  <1>3. UpdateDpSelect(st, sel) \subseteq Reach(st) BY <1>2, UpdateDpSelectReach
  <1> QED BY <1>3, ReachRefl DEF RawSelect, sel

LEMMA RawStart ==
  ASSUME NEW st \in Good, Ok(st)
  PROVE  /\ CheckPower(Taint(st), FALSE) \in Good
         /\ CheckPower(Taint(st), FALSE).obs.raw
         /\ Ok(CheckPower(Taint(st), FALSE))
  <1>1. Taint(st) \in Good /\ Taint(st).obs.raw BY TaintGood
  <1>2. Taint(st).err = "Ok" BY DEF Taint, Ok, Good, States
  <1>3. CheckPower(Taint(st), FALSE).err = Taint(st).err BY <1>1 DEF CheckPower, Good, States
  <1> QED BY <1>1, <1>2, <1>3, CheckPowerGood DEF Ok

LEMMA ReadApRawGood ==
  ASSUME NEW st \in Good, Ok(st), NEW ap \in APs, NEW reg \in Regs
  PROVE  ReadApRegisterRaw(st, ap, reg) \subseteq Good
  <1> DEFINE r == CheckPower(Taint(st), FALSE)
             Fetch(t) == Then(ApRead(t, reg), LAMBDA u : DpReadRdBuff(u))
             S == Then(RawSelect(r, ap, reg), LAMBDA t : Fetch(t))
  <1>1. r \in Good /\ r.obs.raw /\ Ok(r) BY RawStart
  <1> HIDE DEF r
  <1>2. ASSUME NEW t \in Good PROVE Fetch(t) \subseteq Good
    <2> SUFFICES ASSUME NEW v \in Fetch(t) PROVE v \in Good
      OBVIOUS
    <2>1. PICK u \in ApRead(t, reg) : v \in IF Ok(u) THEN DpReadRdBuff(u) ELSE {u}
      BY DEF Then
    <2>2. u \in Good BY <1>2, ApReadCalm, CalmReach, ReachIsGood DEF Good
    <2> QED BY <2>1, <2>2, RdBuffCalm, CalmReach, ReachIsGood DEF Good
  <1>3. RawSelect(r, ap, reg) \subseteq Good BY <1>1, RawSelectReach, ReachIsGood
  <1>4. S \subseteq Good
    <2> HIDE DEF Fetch
    <2> QED BY <1>2, <1>3 DEF Then
  <1>5. ReadApRegisterRaw(st, ap, reg) = RawEpilogue(S) BY DEF ReadApRegisterRaw, r
  <1> HIDE DEF S
  <1> QED BY <1>4, <1>5, RawEpilogueGood

LEMMA WriteApRawGood ==
  ASSUME NEW st \in Good, Ok(st), NEW ap \in APs, NEW reg \in Regs, NEW v \in Addrs
  PROVE  WriteApRegisterRaw(st, ap, reg, v) \subseteq Good
  <1> DEFINE r == CheckPower(Taint(st), FALSE)
             S == Then(RawSelect(r, ap, reg), LAMBDA t : ApWrite(t, reg, v))
  <1>1. r \in Good /\ r.obs.raw /\ Ok(r) BY RawStart
  <1> HIDE DEF r
  <1>2. ASSUME NEW t \in Good PROVE ApWrite(t, reg, v) \subseteq Good
    BY <1>2, ApWriteCalm, CalmReach, ReachIsGood DEF Good
  <1>3. RawSelect(r, ap, reg) \subseteq Good BY <1>1, RawSelectReach, ReachIsGood
  <1>4. S \subseteq Good BY <1>2, <1>3 DEF Then
  <1>5. WriteApRegisterRaw(st, ap, reg, v) = RawEpilogue(S) BY DEF WriteApRegisterRaw, r
  <1> HIDE DEF S
  <1> QED BY <1>4, <1>5, RawEpilogueGood

LEMMA ReadDrwBulkGood ==
  ASSUME NEW st \in Good, Ok(st) PROVE ReadDrwBulk(st) \subseteq Good
  <1> DEFINE Final(w) == Then(DpReadRdBuff(w), LAMBDA x : CheckDpErrors(x, TRUE))
             Second(u) == Then(ApRead(u, DRW), LAMBDA w : Final(w))
             First(t) == Then(ApRead(t, DRW), LAMBDA u : Second(u))
  <1>0. DRW \in Regs BY DEF Regs
  <1>1. ASSUME NEW w \in Good PROVE Final(w) \subseteq Good
    <2> SUFFICES ASSUME NEW v \in Final(w) PROVE v \in Good
      OBVIOUS
    <2>1. PICK x \in DpReadRdBuff(w) : v \in IF Ok(x) THEN CheckDpErrors(x, TRUE) ELSE {x}
      BY DEF Then
    <2>2. x \in Good BY <1>1, RdBuffCalm, CalmReach, ReachIsGood DEF Good
    <2> QED BY <2>1, <2>2, CheckDpErrorsCalm, CalmReach, ReachIsGood DEF Good
  <1>2. ASSUME NEW u \in Good PROVE ApRead(u, DRW) \subseteq Good
    BY <1>0, <1>2, ApReadCalm, CalmReach, ReachIsGood DEF Good
  <1>3. ASSUME NEW u \in Good PROVE Second(u) \subseteq Good
    <2> HIDE DEF Final
    <2> QED BY <1>1, <1>2, <1>3 DEF Then
  <1>4. ASSUME NEW t \in Good PROVE First(t) \subseteq Good
    <2> HIDE DEF Second
    <2> QED BY <1>2, <1>3, <1>4 DEF Then
  <1>5. CheckSelectAp(st, DRW) \subseteq Good BY <1>0, CheckSelectApReach, ReachIsGood
  <1>6. ReadDrwBulk(st) = Then(CheckSelectAp(st, DRW), LAMBDA t : First(t)) BY DEF ReadDrwBulk
  <1> HIDE DEF First
  <1> QED BY <1>4, <1>5, <1>6 DEF Then

LEMMA WriteDrwWordGood ==
  ASSUME NEW st \in Good PROVE WriteDrwWord(st) \subseteq Good
  <1> SUFFICES ASSUME NEW v \in WriteDrwWord(st) PROVE v \in Good
    OBVIOUS
  <1>1. DRW \in Regs /\ DRW # TAR BY DEF Regs, DRW, TAR
  <1>2. PICK t \in ApWrite(st, DRW, 0) : v \in IF Ok(t) THEN CheckDpErrors(t, FALSE) ELSE {t}
    BY DEF WriteDrwWord, Then
  <1>3. t \in Good BY <1>1, ApWriteCalm, CalmReach, ReachIsGood DEF Good
  <1> QED BY <1>2, <1>3, CheckDpErrorsCalm, CalmReach, ReachIsGood DEF Good

LEMMA WriteDrwBulkGood ==
  ASSUME NEW st \in Good, Ok(st) PROVE WriteDrwBulk(st) \subseteq Good
  <1> DEFINE Second(u) == Then(WriteDrwWord(u), LAMBDA w : CheckDpErrors(w, FALSE))
             First(t) == Then(WriteDrwWord(t), LAMBDA u : Second(u))
  <1>1. ASSUME NEW u \in Good PROVE Second(u) \subseteq Good
    <2> SUFFICES ASSUME NEW v \in Second(u) PROVE v \in Good
      OBVIOUS
    <2>1. PICK w \in WriteDrwWord(u) : v \in IF Ok(w) THEN CheckDpErrors(w, FALSE) ELSE {w}
      BY DEF Then
    <2>2. w \in Good BY <1>1, WriteDrwWordGood
    <2> QED BY <2>1, <2>2, CheckDpErrorsCalm, CalmReach, ReachIsGood DEF Good
  <1>2. ASSUME NEW t \in Good PROVE First(t) \subseteq Good
    <2> HIDE DEF Second
    <2> QED BY <1>1, <1>2, WriteDrwWordGood DEF Then
  <1>3. CheckSelectAp(st, DRW) \subseteq Good BY CheckSelectApReach, ReachIsGood DEF Regs
  <1>4. WriteDrwBulk(st) = Then(CheckSelectAp(st, DRW), LAMBDA t : First(t)) BY DEF WriteDrwBulk
  <1> HIDE DEF First
  <1> QED BY <1>2, <1>3, <1>4 DEF Then

\* Both select as a single raw access does, and then move their words.
LEMMA RawBulkGood ==
  ASSUME NEW st \in Good, Ok(st), NEW ap \in APs, NEW reg \in Regs
  PROVE  /\ ReadApRegisterRawBulk(st, ap, reg) \subseteq Good
         /\ WriteApRegisterRawBulk(st, ap, reg) \subseteq Good
  <1> DEFINE r == CheckPower(Taint(st), FALSE)
             R == Then(RawSelect(r, ap, reg), LAMBDA t : ReadDrwBulk(t))
             W == Then(RawSelect(r, ap, reg), LAMBDA t : WriteDrwBulk(t))
  <1>1. r \in Good /\ r.obs.raw /\ Ok(r) BY RawStart
  <1>2. ReadApRegisterRawBulk(st, ap, reg) = RawEpilogue(R)
        /\ WriteApRegisterRawBulk(st, ap, reg) = RawEpilogue(W)
    BY DEF ReadApRegisterRawBulk, WriteApRegisterRawBulk
  <1> HIDE DEF r
  <1>3. RawSelect(r, ap, reg) \subseteq Good BY <1>1, RawSelectReach, ReachIsGood
  <1>4. R \subseteq Good BY <1>3, ReadDrwBulkGood DEF Then
  <1>5. W \subseteq Good BY <1>3, WriteDrwBulkGood DEF Then
  <1> HIDE DEF R, W
  <1> QED BY <1>2, <1>4, <1>5, RawEpilogueGood

\* Switching the increment off again starts from whatever the words left.
LEMMA ThenIncOffGood == ASSUME NEW S \in SUBSET Good PROVE ThenIncOff(S) \subseteq Good
  <1> SUFFICES ASSUME NEW t \in S PROVE SetAddrInc([t EXCEPT !.err = "Ok"], FALSE) \subseteq Good
    BY DEF ThenIncOff
  <1>1. [t EXCEPT !.err = "Ok"] \in Good
    BY DEF Good, States, Coherent, Undisturbed, Facts, Gate, BankZero
  <1> QED BY <1>1, SetAddrIncReach, ReachIsGood

LEMMA HandlerRawBulkGood ==
  ASSUME NEW st \in Good, NEW ap \in APs, NEW reg \in Regs
  PROVE  /\ RestRawBulkRead(st, ap, reg) \subseteq Good
         /\ RestRawBulkWrite(st, ap, reg) \subseteq Good
         /\ BinRawBulkRead(st, reg) \subseteq Good
         /\ BinRawBulkWrite(st, reg) \subseteq Good
  <1>1. 0 \in APs BY TargetAssumption
  <1>2. SetAddrInc(st, TRUE) \subseteq Good BY SetAddrIncReach, ReachIsGood
  <1>3. ASSUME NEW t \in SetAddrInc(st, TRUE), Ok(t), NEW i \in APs
        PROVE  /\ ReadApRegisterRawBulk(t, i, reg) \subseteq Good
               /\ WriteApRegisterRawBulk(t, i, reg) \subseteq Good
    BY <1>2, <1>3, RawBulkGood
  <1>4. ASSUME NEW t \in SetAddrInc(st, TRUE), Ok(t)
        PROVE  /\ ThenIncOff(ReadApRegisterRawBulk(t, ap, reg)) \subseteq Good
               /\ ThenIncOff(WriteApRegisterRawBulk(t, ap, reg)) \subseteq Good
    BY <1>3, <1>4, ThenIncOffGood
  <1>5. RestRawBulkRead(st, ap, reg) \subseteq Good BY <1>2, <1>4 DEF RestRawBulkRead, Then
  <1>6. RestRawBulkWrite(st, ap, reg) \subseteq Good BY <1>2, <1>4 DEF RestRawBulkWrite, Then
  <1>7. BinRawBulkRead(st, reg) \subseteq Good BY <1>1, <1>2, <1>3 DEF BinRawBulkRead, Then
  <1>8. BinRawBulkWrite(st, reg) \subseteq Good BY <1>1, <1>2, <1>3 DEF BinRawBulkWrite, Then
  <1> QED BY <1>5, <1>6, <1>7, <1>8

-----------------------------------------------------------------------------
(* What reads return and what writes change, over an undisturbed wire.  Of *)
(* a step that fails only its writes matter: Lost; a step that succeeds is *)
(* described field by field.                                               *)

\* Nothing has disturbed the driver, and the steps so far succeeded.
Clear(st) == st \in Good /\ Ok(st) /\ ~st.obs.raw /\ ~st.obs.linkErr

\* The power check has passed and the cached SELECT names the bank of reg.
Aimed(st, reg) ==
  Clear(st) /\ st.drv.powered_up /\ st.drv.dp_select.bank = BankOf(reg)

\* A register of the MEM-AP.
OfMemAp(reg) == [ap |-> 0, reg |-> reg]

\* A step that failed without writing to memory.
Lost(st, t) == t.writes = st.writes /\ ~Ok(t)

\* A step that succeeded, over the same wire, without writing to memory.
Passed(st, t) ==
  t \in States /\ Ok(t) /\ t.writes = st.writes /\ t.drv = st.drv /\ t.obs = st.obs

LEMMA FailLost ==
  ASSUME NEW st \in States, NEW e \in Errors PROVE Lost(st, Fail(st, e)) /\ Fail(st, e) \in States
  <1>1. Fail(st, e).writes = st.writes /\ Fail(st, e).err = e
    BY DEF Fail, Forget, States
  <1>2. e # "Ok" BY DEF Errors
  <1> QED BY <1>1, <1>2, FailCalm DEF Lost, Ok, Calm

LEMMA SilentLost ==
  ASSUME NEW st \in States, NEW t \in Silent(st) PROVE Lost(st, t)
  <1> DEFINE f == Fail(st, "NoAck")
  <1>1. f \in States /\ Lost(st, f) BY FailLost DEF Errors
  <1>2. PICK a \in {st.dp.alive, FALSE} : t = [f EXCEPT !.obs.linkErr = TRUE, !.dp.alive = a]
    BY DEF Silent
  <1> HIDE DEF f
  <1>3. t.writes = f.writes /\ t.err = f.err BY <1>1, <1>2 DEF States
  <1> QED BY <1>1, <1>3 DEF Lost, Ok

LEMMA DeliverCases ==
  ASSUME NEW st \in States, NEW t \in Deliver(st) PROVE t = st \/ Lost(st, t)
  <1> DEFINE f == Fail(st, "ReadParity")
  <1>1. f \in States /\ Lost(st, f) BY FailLost DEF Errors
  <1>2. CASE t = [f EXCEPT !.obs.linkErr = TRUE]
    <2> HIDE DEF f
    <2>1. t.writes = f.writes /\ t.err = f.err BY <1>1, <1>2 DEF States
    <2> QED BY <1>1, <2>1 DEF Lost, Ok
  <1> QED BY <1>2 DEF Deliver

\* A transaction fails, or has one of its outcomes on a target that answers.
LEMMA TransactCases ==
  ASSUME NEW st \in States, NEW S, NEW t \in Transact(st, S)
  PROVE  Lost(st, t) \/ (t \in S /\ st.dp.alive)
  BY SilentLost DEF Transact

LEMMA GuardedCases ==
  ASSUME NEW st \in States, NEW S, NEW t \in Guarded(st, S)
  PROVE  Lost(st, t) \/ (t \in S /\ ~st.dp.sticky)
  <1>1. Lost(st, Fail(st, "FaultAck")) /\ Lost(st, Fail(st, "WaitAck")) BY FailLost DEF Errors
  <1> QED BY <1>1 DEF Guarded, Waits

\* CTRL/STAT in bank 0 tells whether the sticky flag is set.
LEMMA CtrlStatSeen ==
  ASSUME NEW st \in States, Ok(st), NEW t \in DpReadCtrlStat(st)
  PROVE  \/ Lost(st, t)
         \/ /\ Passed(st, t) /\ t.dp = st.dp /\ t.val = st.val /\ st.dp.alive
            /\ st.dp.select.dpbank = 0 => t.stat.error = st.dp.sticky
  <1> DEFINE stats == {s \in CtrlStats : st.dp.select.dpbank = 0 =>
                         s.error = st.dp.sticky /\ s.power = st.dp.power}
             S == UNION {Deliver([st EXCEPT !.stat = s]) : s \in stats}
  <1>1. Lost(st, t) \/ (t \in S /\ st.dp.alive)
    BY TransactCases DEF DpReadCtrlStat
  <1>2. ASSUME t \in S, st.dp.alive, ~Lost(st, t)
        PROVE  /\ Passed(st, t) /\ t.dp = st.dp /\ t.val = st.val
               /\ st.dp.select.dpbank = 0 => t.stat.error = st.dp.sticky
    <2>1. PICK s \in stats : t \in Deliver([st EXCEPT !.stat = s]) BY <1>2
    <2>2. s \in CtrlStats /\ (st.dp.select.dpbank = 0 => s.error = st.dp.sticky) BY <2>1
    <2>3. PICK y : y = [st EXCEPT !.stat = s] OBVIOUS
    <2>4. y \in States /\ y.writes = st.writes /\ y.drv = st.drv /\ y.obs = st.obs /\ y.dp = st.dp
          /\ y.val = st.val /\ y.err = st.err /\ y.stat = s
      BY <2>2, <2>3 DEF States
    <2>5. t \in Deliver(y) BY <2>1, <2>3
    <2>6. t = y \/ Lost(y, t) BY <2>4, <2>5, DeliverCases
    <2>7. t = y BY <1>2, <2>4, <2>6 DEF Lost
    <2> QED BY <2>2, <2>4, <2>7 DEF Passed, Ok
  <1> HIDE DEF S
  <1> QED BY <1>1, <1>2

\* A check that passes has changed nothing, and the target holds no error.
LEMMA CheckSeen ==
  ASSUME NEW st \in States, Ok(st), NEW b \in BOOLEAN, NEW t \in CheckDpErrors(st, b)
  PROVE  \/ Lost(st, t)
         \/ /\ Passed(st, t) /\ t.dp = st.dp /\ t.val = st.val /\ st.dp.alive
            /\ st.dp.select.dpbank = 0 => ~st.dp.sticky
  <1>1. PICK x \in DpReadCtrlStat(st) :
          t \in IF Ok(x) THEN {IF x.stat.error \/ (b /\ ~x.stat.readok) THEN Fail(x, "DpError")
                               ELSE [x EXCEPT !.stat = NoStat]}
                ELSE {x}
    BY DEF CheckDpErrors, Then
  <1>2. CASE Lost(st, x) BY <1>1, <1>2 DEF Lost
  <1>3. CASE ~Lost(st, x)
    <2>1. /\ Passed(st, x) /\ x.dp = st.dp /\ x.val = st.val /\ st.dp.alive
          /\ st.dp.select.dpbank = 0 => x.stat.error = st.dp.sticky
      BY <1>3, CtrlStatSeen
    <2>2. x \in States /\ Ok(x) /\ x.writes = st.writes BY <2>1 DEF Passed
    <2>3. CASE t = Fail(x, "DpError")
      <3>1. Lost(x, t) BY <2>2, <2>3, FailLost DEF Errors
      <3> QED BY <2>2, <3>1 DEF Lost
    <2>4. CASE ~x.stat.error /\ t = [x EXCEPT !.stat = NoStat]
      <3>1. t \in States /\ t.writes = x.writes /\ t.drv = x.drv /\ t.obs = x.obs /\ t.dp = x.dp
            /\ t.val = x.val /\ t.err = x.err
        BY <2>2, <2>4, ValueFacts DEF States
      <3> QED BY <2>1, <2>4, <3>1 DEF Passed, Ok
    <2> QED BY <1>1, <2>2, <2>3, <2>4
  <1> QED BY <1>2, <1>3

\* RDBUFF is the result of the AP access before, of a target without errors.
LEMMA RdBuffSeen ==
  ASSUME NEW st \in States, Ok(st), NEW t \in DpReadRdBuff(st)
  PROVE  \/ Lost(st, t)
         \/ Passed(st, t) /\ t.dp = st.dp /\ t.val = st.dp.rdbuff /\ st.dp.alive /\ ~st.dp.sticky
  <1>1. PICK y : y = [st EXCEPT !.val = st.dp.rdbuff] OBVIOUS
  <1>2. y \in States /\ y.writes = st.writes /\ y.drv = st.drv /\ y.obs = st.obs /\ y.dp = st.dp
        /\ y.val = st.dp.rdbuff /\ y.err = st.err
    BY <1>1 DEF States, DpType
  <1>3. t \in Transact(st, Guarded(st, Deliver(y))) BY <1>1 DEF DpReadRdBuff
  <1>4. Lost(st, t) \/ (t \in Guarded(st, Deliver(y)) /\ st.dp.alive) BY <1>3, TransactCases
  <1>5. Lost(st, t) \/ (t \in Deliver(y) /\ st.dp.alive /\ ~st.dp.sticky)
    BY <1>4, GuardedCases
  <1>6. t \in Deliver(y) => t = y \/ Lost(y, t) BY <1>2, DeliverCases
  <1> QED BY <1>2, <1>5, <1>6 DEF Lost, Passed, Ok

\* Where an access the driver has aimed goes, on a target that answers.
LEMMA AimedHit ==
  ASSUME NEW reg \in Regs, NEW st, Aimed(st, reg), st.dp.alive
  PROVE  Hit(st, reg) = OfMemAp(reg) /\ st.dp.select.dpbank = 0
  <1>1. st.dp.select.ap = 0 /\ st.dp.select.bank = BankOf(reg) /\ st.dp.select.dpbank = 0
    BY DEF Aimed, Clear, Good, Coherent
  <1>2. 16 * BankOf(reg) + Offset(reg) = reg
    BY RegisterFacts DEF Regs, CSW, TAR, DRW, IDR
  <1> QED BY <1>1, <1>2 DEF Hit, OfMemAp

LEMMA RegsDiffer ==
  /\ CSW # TAR /\ CSW # DRW /\ CSW # IDR /\ TAR # DRW /\ TAR # IDR /\ DRW # IDR
  /\ \A r, q : MemAp(OfMemAp(r), q) <=> r = q
  BY DEF CSW, TAR, DRW, IDR, MemAp, OfMemAp

\* TAR, AddrInc and the sticky flag, which a new SELECT does not touch.
LEMMA SelectSeen ==
  ASSUME NEW st \in States, Ok(st), NEW sel \in Selects, NEW t \in UpdateDpSelect(st, sel)
  PROVE  \/ Lost(st, t)
         \/ /\ Ok(t) /\ t.writes = st.writes /\ t.obs = st.obs /\ st.dp.alive
            /\ t.drv = [st.drv EXCEPT !.dp_select = sel]
            /\ t.dp.tar = st.dp.tar /\ t.dp.inc = st.dp.inc
  <1>1. PICK x \in DpWriteSelect(st, sel) :
          t \in IF Ok(x) THEN Then(CheckDpErrors(x, FALSE), LAMBDA u : {[u EXCEPT !.drv.dp_select = sel]})
                ELSE {x}
    BY DEF UpdateDpSelect, Then
  <1>2. PICK y : y = [st EXCEPT !.dp.select = sel] OBVIOUS
  <1>3. PICK z : z = Damaged(st) OBVIOUS
  <1>4. \A d \in {y, z} :
          /\ d \in States /\ d.writes = st.writes /\ d.drv = st.drv /\ d.obs = st.obs /\ d.err = st.err
          /\ d.dp.tar = st.dp.tar /\ d.dp.inc = st.dp.inc
    <2>1. y \in States /\ y.writes = st.writes /\ y.drv = st.drv /\ y.obs = st.obs /\ y.err = st.err
          /\ y.dp.tar = st.dp.tar /\ y.dp.inc = st.dp.inc
      BY <1>2 DEF States, DpType
    <2>2. z \in States /\ z.writes = st.writes /\ z.drv = st.drv /\ z.obs = st.obs /\ z.err = st.err
          /\ z.dp.tar = st.dp.tar /\ z.dp.inc = st.dp.inc
      BY <1>3 DEF States, DpType, Damaged
    <2> QED BY <2>1, <2>2
  <1>5. x \in Transact(st, Guarded(st, {y, z})) BY <1>2, <1>3 DEF DpWriteSelect
  <1>6. Lost(st, x) \/ (x \in Guarded(st, {y, z}) /\ st.dp.alive) BY <1>5, TransactCases
  <1>7. Lost(st, x) \/ (x \in {y, z} /\ st.dp.alive) BY <1>6, GuardedCases
  <1>8. CASE Lost(st, x) BY <1>1, <1>8 DEF Lost
  <1>9. CASE x \in {y, z} /\ st.dp.alive
    <2>1. x \in States /\ x.writes = st.writes /\ x.drv = st.drv /\ x.obs = st.obs /\ Ok(x)
          /\ x.dp.tar = st.dp.tar /\ x.dp.inc = st.dp.inc
      BY <1>4, <1>9 DEF Ok
    <2>2. PICK u \in CheckDpErrors(x, FALSE) :
            t \in IF Ok(u) THEN {[u EXCEPT !.drv.dp_select = sel]} ELSE {u}
      BY <1>1, <2>1 DEF Then
    <2>3. Lost(x, u) \/ (Passed(x, u) /\ u.dp = x.dp) BY <2>1, <2>2, CheckSeen
    <2>4. CASE Lost(x, u) BY <2>1, <2>2, <2>4 DEF Lost
    <2>5. CASE Passed(x, u) /\ u.dp = x.dp
      <3>1. u \in States /\ Ok(u) /\ u.writes = x.writes /\ u.drv = x.drv /\ u.obs = x.obs
        BY <2>5 DEF Passed
      <3>2. t = [u EXCEPT !.drv.dp_select = sel] BY <2>2, <3>1
      <3>3. t.writes = u.writes /\ t.obs = u.obs /\ t.dp = u.dp /\ t.err = u.err
            /\ t.drv = [u.drv EXCEPT !.dp_select = sel]
        BY <3>1, <3>2 DEF States
      <3> QED BY <1>9, <2>1, <2>5, <3>1, <3>3 DEF Ok
    <2> QED BY <2>3, <2>4, <2>5
  <1> QED BY <1>7, <1>8, <1>9

\* check_and_update_dp_select aims the accesses that follow.
LEMMA CheckSelectApSeen ==
  ASSUME NEW st, Clear(st), st.drv.powered_up, NEW reg \in Regs, NEW t \in CheckSelectAp(st, reg)
  PROVE  \/ Lost(st, t)
         \/ /\ Aimed(t, reg) /\ t.writes = st.writes /\ (t.dp.alive => st.dp.alive)
            /\ t.dp.tar = st.dp.tar /\ t.dp.inc = st.dp.inc
  <1>0. st \in Good /\ st \in States /\ Ok(st) BY DEF Clear, Good
  <1>1. CASE st.drv.dp_select.bank = BankOf(reg)
    BY <1>1 DEF CheckSelectAp, Aimed
  <1>2. CASE st.drv.dp_select.bank # BankOf(reg)
    <2>1. PICK sel : sel = [SelectDefault EXCEPT !.bank = BankOf(reg)] OBVIOUS
    <2>2. sel \in Selects /\ sel.bank = BankOf(reg)
      BY <2>1, RegisterFacts, TargetAssumption DEF SelectDefault, Selects, Banks, Regs
    <2>3. t \in UpdateDpSelect(st, sel) BY <1>2, <2>1 DEF CheckSelectAp
    <2>4. t \in Good BY <1>0, CheckSelectApReach, ReachIsGood
    <2>5. CASE Lost(st, t) BY <2>5
    <2>6. CASE /\ Ok(t) /\ t.writes = st.writes /\ t.obs = st.obs /\ st.dp.alive
               /\ t.drv = [st.drv EXCEPT !.dp_select = sel]
               /\ t.dp.tar = st.dp.tar /\ t.dp.inc = st.dp.inc
      <3>1. t.drv.dp_select = sel /\ t.drv.powered_up = st.drv.powered_up
        BY <1>0, <2>6 DEF States, DrvType
      <3> QED BY <2>2, <2>4, <2>6, <3>1 DEF Aimed, Clear
    <2> QED BY <1>0, <2>2, <2>3, <2>5, <2>6, SelectSeen
  <1> QED BY <1>1, <1>2

\* The power check lets an operation pass only when the target is powered up.
LEMMA PowerGateSeen ==
  ASSUME NEW st, Clear(st), NEW t \in PowerGate(st)
  PROVE  Lost(st, t) \/ (t = st /\ st.drv.powered_up)
  <1>1. st \in States /\ st.drv.check_power BY DEF Clear, Good, Gate
  <1> QED BY <1>1, FailLost DEF PowerGate, Errors

\* An aimed AP read hands over what the access before has left in RDBUFF, and
\* leaves its own result there unless the target flags an error.
LEMMA ApReadSeen ==
  ASSUME NEW reg \in Regs, NEW st, Aimed(st, reg), NEW t \in ApRead(st, reg)
  PROVE  \/ Lost(st, t)
         \/ /\ Passed(st, t) /\ st.dp.alive /\ ~st.dp.sticky
            /\ t.dp.select = st.dp.select /\ t.dp.inc = st.dp.inc /\ t.val = st.dp.rdbuff
            /\ \/ t.dp.sticky
               \/ /\ t.dp.rdbuff = [hit |-> OfMemAp(reg), val |-> Content(st, OfMemAp(reg))]
                  /\ t.dp.tar = IF reg = DRW THEN NextTar(st) ELSE st.dp.tar
  <1>0. st \in States /\ st \in Good /\ Ok(st) BY DEF Aimed, Clear, Good
  <1>1. PICK h : h = Hit(st, reg) OBVIOUS
  <1>2. PICK tar : tar = IF MemAp(h, DRW) THEN NextTar(st) ELSE st.dp.tar OBVIOUS
  <1>3. PICK r : r = [hit |-> h, val |-> Content(st, h)] OBVIOUS
  <1>4. PICK before : before = [st EXCEPT !.val = st.dp.rdbuff] OBVIOUS
  <1>5. PICK posted : posted = [before EXCEPT !.dp.rdbuff = r, !.dp.tar = tar] OBVIOUS
  <1>6. t \in Transact(st, Guarded(st, BusFault(before) \cup
                (IF st.dp.power THEN Deliver(posted) ELSE {})))
    BY <1>1, <1>2, <1>3, <1>4, <1>5, <1>0 DEF ApRead, States, DpType
  <1>7. h \in Hits /\ r \in Readings /\ tar \in Addrs
    BY <1>0, <1>1, <1>2, <1>3, HitType, ContentType, NextTarType DEF Readings, States, DpType
  <1>8. before \in States /\ before.writes = st.writes /\ before.drv = st.drv /\ before.obs = st.obs
        /\ before.err = st.err /\ before.dp = st.dp /\ before.val = st.dp.rdbuff
    BY <1>0, <1>4 DEF States, DpType
  <1>9. posted \in States /\ posted.writes = st.writes /\ posted.drv = st.drv /\ posted.obs = st.obs
        /\ posted.err = st.err /\ posted.val = st.dp.rdbuff /\ posted.dp.select = st.dp.select
        /\ posted.dp.inc = st.dp.inc /\ posted.dp.rdbuff = r /\ posted.dp.tar = tar
    BY <1>5, <1>7, <1>8 DEF States, DpType
  <1>10. \/ Lost(st, t)
         \/ /\ t \in BusFault(before) \cup (IF st.dp.power THEN Deliver(posted) ELSE {})
            /\ st.dp.alive /\ ~st.dp.sticky
    BY <1>0, <1>6, TransactCases, GuardedCases
  <1>11. ASSUME t \in BusFault(before)
         PROVE  \/ Lost(st, t)
                \/ Passed(st, t) /\ t.dp.select = st.dp.select /\ t.dp.inc = st.dp.inc
                    /\ t.val = st.dp.rdbuff /\ t.dp.sticky
    <2>1. CASE t = [before EXCEPT !.dp.sticky = TRUE]
      <3>1. t \in States /\ t.writes = before.writes /\ t.drv = before.drv /\ t.obs = before.obs
            /\ t.err = before.err /\ t.val = before.val /\ t.dp.select = before.dp.select
            /\ t.dp.inc = before.dp.inc /\ t.dp.sticky
        BY <1>8, <2>1 DEF States, DpType
      <3> QED BY <1>0, <1>8, <3>1 DEF Passed, Ok
    <2>2. CASE t = [Fail(before, "FaultAck") EXCEPT !.dp.sticky = TRUE]
      <3>1. PICK f : f = Fail(before, "FaultAck") OBVIOUS
      <3>2. Lost(before, f) /\ f \in States BY <1>8, <3>1, FailLost DEF Errors
      <3>3. t = [f EXCEPT !.dp.sticky = TRUE] BY <2>2, <3>1
      <3>4. t.writes = f.writes /\ t.err = f.err BY <3>2, <3>3 DEF States
      <3> QED BY <1>8, <3>2, <3>4 DEF Lost, Ok
    <2> QED BY <1>11, <2>1, <2>2 DEF BusFault
  <1>12. ASSUME t \in Deliver(posted), st.dp.alive
         PROVE  \/ Lost(st, t)
                \/ /\ Passed(st, t) /\ t.dp.select = st.dp.select /\ t.dp.inc = st.dp.inc
                   /\ t.val = st.dp.rdbuff
                   /\ t.dp.rdbuff = [hit |-> OfMemAp(reg), val |-> Content(st, OfMemAp(reg))]
                   /\ t.dp.tar = IF reg = DRW THEN NextTar(st) ELSE st.dp.tar
    <2>1. t = posted \/ Lost(posted, t) BY <1>9, <1>12, DeliverCases
    <2>2. h = OfMemAp(reg) BY <1>1, <1>12, AimedHit
    <2>3. tar = IF reg = DRW THEN NextTar(st) ELSE st.dp.tar BY <1>2, <2>2, RegsDiffer
    <2> QED BY <1>0, <1>3, <1>9, <2>1, <2>2, <2>3 DEF Lost, Passed, Ok
  <1> QED BY <1>10, <1>11, <1>12

\* An aimed AP write to DRW writes the word at TAR, or nothing; it has done
\* what it was asked for unless the target flags an error.
LEMMA ApWriteSeen ==
  ASSUME NEW reg \in Regs, reg # IDR, NEW st, Aimed(st, reg), NEW v, reg = TAR => v \in Addrs,
         NEW t \in ApWrite(st, reg, v)
  PROVE  \/ Lost(st, t)
         \/ /\ t \in States /\ Ok(t) /\ t.drv = st.drv /\ t.obs = st.obs
            /\ st.dp.alive /\ ~st.dp.sticky /\ t.dp.select = st.dp.select
            /\ \/ t.dp.sticky /\ t.writes = st.writes /\ t.dp.inc = st.dp.inc
               \/ /\ t.writes = IF reg = DRW THEN st.writes \cup {Word(st.dp.tar)} ELSE st.writes
                  /\ reg = CSW => (t.dp.inc <=> v = 1)
                  /\ reg # CSW => t.dp.inc = st.dp.inc
                  /\ reg = TAR => t.dp.tar = v
                  /\ reg = DRW => t.dp.tar = NextTar(st)
  <1>0. st \in States /\ st \in Good /\ Ok(st) BY DEF Aimed, Clear, Good
  <1>1. PICK h : h = Hit(st, reg) OBVIOUS
  <1>2. PICK inc : inc = IF MemAp(h, CSW) THEN v = 1 ELSE st.dp.inc OBVIOUS
  <1>3. PICK tar : tar = CASE MemAp(h, TAR) -> v
                           [] MemAp(h, DRW) -> NextTar(st)
                           [] OTHER -> st.dp.tar OBVIOUS
  <1>4. PICK ws : ws = IF Offset(reg) = DRW THEN st.writes \cup {[hit |-> h, val |-> st.dp.tar]}
                       ELSE st.writes OBVIOUS
  <1>5. PICK done : done = [st EXCEPT !.dp.inc = inc, !.dp.tar = tar, !.writes = ws] OBVIOUS
  <1>6. t \in Transact(st, Guarded(st, BusFault(st) \cup {Damaged(st)} \cup
                (IF st.dp.power THEN {done} ELSE {})))
    BY <1>1, <1>2, <1>3, <1>4, <1>5, <1>0 DEF ApWrite, States, DpType
  <1>7. \/ Lost(st, t)
        \/ /\ t \in BusFault(st) \cup {Damaged(st)} \cup (IF st.dp.power THEN {done} ELSE {})
           /\ st.dp.alive /\ ~st.dp.sticky
    BY <1>0, <1>6, TransactCases, GuardedCases
  <1>8. ASSUME t = [st EXCEPT !.dp.sticky = TRUE]
        PROVE  /\ t \in States /\ Ok(t) /\ t.drv = st.drv /\ t.obs = st.obs
               /\ t.dp.select = st.dp.select
               /\ t.dp.sticky /\ t.writes = st.writes /\ t.dp.inc = st.dp.inc
    BY <1>0, <1>8 DEF States, DpType, Ok
  <1>9. ASSUME t = [Fail(st, "FaultAck") EXCEPT !.dp.sticky = TRUE] PROVE Lost(st, t)
    <2>1. PICK f : f = Fail(st, "FaultAck") OBVIOUS
    <2>2. Lost(st, f) /\ f \in States BY <1>0, <2>1, FailLost DEF Errors
    <2>3. t = [f EXCEPT !.dp.sticky = TRUE] BY <1>9, <2>1
    <2>4. t.writes = f.writes /\ t.err = f.err BY <2>2, <2>3 DEF States
    <2> QED BY <2>2, <2>4 DEF Lost, Ok
  <1>10. ASSUME t = done, st.dp.alive
         PROVE  /\ t \in States /\ Ok(t) /\ t.drv = st.drv /\ t.obs = st.obs
                /\ t.dp.select = st.dp.select
                /\ t.writes = IF reg = DRW THEN st.writes \cup {Word(st.dp.tar)} ELSE st.writes
                /\ reg = CSW => (t.dp.inc <=> v = 1)
                /\ reg # CSW => t.dp.inc = st.dp.inc
                /\ reg = TAR => t.dp.tar = v
                /\ reg = DRW => t.dp.tar = NextTar(st)
    <2>1. h = OfMemAp(reg) BY <1>1, <1>10, AimedHit
    <2>2. (reg = CSW => (inc <=> v = 1)) /\ (reg # CSW => inc = st.dp.inc)
      BY <1>2, <2>1, RegsDiffer
    <2>3. (reg = TAR => tar = v) /\ (reg = DRW => tar = NextTar(st))
      BY <1>3, <2>1, RegsDiffer
    <2>4. t.writes = ws /\ t.dp.inc = inc /\ t.dp.tar = tar /\ t.drv = st.drv /\ t.obs = st.obs
          /\ t.err = st.err /\ t.dp.select = st.dp.select
      BY <1>0, <1>5, <1>10 DEF States, DpType
    <2>5. t \in States
      BY <1>0, <1>6, ApWriteCalm DEF Calm
    <2>6. ws = IF reg = DRW THEN st.writes \cup {Word(st.dp.tar)} ELSE st.writes
      <3>1. Offset(reg) = DRW <=> reg = DRW
        BY RegisterFacts DEF Regs, CSW, TAR, DRW, IDR
      <3> QED BY <1>4, <2>1, <3>1 DEF Word, OfMemAp
    <2> QED BY <1>0, <2>2, <2>3, <2>4, <2>5, <2>6 DEF Ok
  <1> QED BY <1>7, <1>8, <1>9, <1>10 DEF BusFault, Damaged
-----------------------------------------------------------------------------
(* Register and memory operations, over an undisturbed wire *)

\* write_ap_register reports success only when the write has taken effect.
LEMMA WriteApSeen ==
  ASSUME NEW reg \in Regs, reg # IDR, NEW st, Clear(st), NEW v, reg = TAR => v \in Addrs,
         NEW t \in WriteApRegister(st, reg, v)
  PROVE  /\ t.writes = st.writes \/ (reg = DRW /\ t.writes = st.writes \cup {Word(st.dp.tar)})
         /\ Ok(t) => /\ Aimed(t, reg) /\ st.dp.alive /\ ~t.dp.sticky
                     /\ t.writes = IF reg = DRW THEN st.writes \cup {Word(st.dp.tar)} ELSE st.writes
                     /\ reg = CSW => (t.dp.inc <=> v = 1)
                     /\ reg # CSW => t.dp.inc = st.dp.inc
                     /\ reg = TAR => t.dp.tar = v
                     /\ reg = DRW => t.dp.tar = NextTar(st)
  <1> DEFINE Write(u) == Then(ApWrite(u, reg, v), LAMBDA w : CheckDpErrors(w, FALSE))
  <1>1. PICK s \in PowerGate(st) : t \in IF Ok(s) THEN Then(CheckSelectAp(s, reg), Write) ELSE {s}
    BY DEF WriteApRegister, Then
  <1>2. Lost(st, s) \/ (s = st /\ st.drv.powered_up) BY PowerGateSeen
  <1>3. CASE Lost(st, s) BY <1>1, <1>3 DEF Lost
  <1>4. CASE s = st /\ st.drv.powered_up
    <2>1. Ok(s) BY <1>4 DEF Clear
    <2>2. PICK u \in CheckSelectAp(st, reg) : t \in IF Ok(u) THEN Write(u) ELSE {u}
      BY <1>1, <1>4, <2>1 DEF Then
    <2>3. \/ Lost(st, u)
          \/ /\ Aimed(u, reg) /\ u.writes = st.writes /\ (u.dp.alive => st.dp.alive)
             /\ u.dp.tar = st.dp.tar /\ u.dp.inc = st.dp.inc
      BY <1>4, <2>2, CheckSelectApSeen
    <2>4. CASE Lost(st, u) BY <2>2, <2>4 DEF Lost
    <2>5. CASE /\ Aimed(u, reg) /\ u.writes = st.writes /\ (u.dp.alive => st.dp.alive)
               /\ u.dp.tar = st.dp.tar /\ u.dp.inc = st.dp.inc
      <3>1. u \in Good /\ u \in States /\ Ok(u) BY <2>5 DEF Aimed, Clear, Good
      <3>2. PICK w \in ApWrite(u, reg, v) : t \in IF Ok(w) THEN CheckDpErrors(w, FALSE) ELSE {w}
        BY <2>2, <3>1 DEF Then
      <3>3. NextTar(u) = NextTar(st) BY <2>5 DEF NextTar
      <3>4. CASE Lost(u, w) BY <2>5, <3>2, <3>4 DEF Lost
      <3>5. CASE ~Lost(u, w)
        <4>1. /\ w \in States /\ Ok(w) /\ w.drv = u.drv /\ w.obs = u.obs
              /\ u.dp.alive /\ ~u.dp.sticky /\ w.dp.select = u.dp.select
              /\ \/ w.dp.sticky /\ w.writes = u.writes /\ w.dp.inc = u.dp.inc
                 \/ /\ w.writes = IF reg = DRW THEN u.writes \cup {Word(u.dp.tar)} ELSE u.writes
                    /\ reg = CSW => (w.dp.inc <=> v = 1)
                    /\ reg # CSW => w.dp.inc = u.dp.inc
                    /\ reg = TAR => w.dp.tar = v
                    /\ reg = DRW => w.dp.tar = NextTar(u)
          BY <2>5, <3>2, <3>5, ApWriteSeen
        <4>2. t \in CheckDpErrors(w, FALSE) BY <3>2, <4>1
        <4>3. \/ Lost(w, t)
              \/ /\ Passed(w, t) /\ t.dp = w.dp /\ w.dp.alive
                 /\ w.dp.select.dpbank = 0 => ~w.dp.sticky
          BY <4>1, <4>2, CheckSeen
        <4>4. w.dp.select.dpbank = 0 BY <2>5, <4>1, AimedHit
        <4>5. w \in Good BY <3>1, <3>2, ApWriteCalm, CalmReach, ReachIsGood
        <4>6. t \in Good BY <4>1, <4>2, <4>5, CheckDpErrorsCalm, CalmReach, ReachIsGood
        <4>7. CASE Lost(w, t) BY <2>5, <4>1, <4>7 DEF Lost
        <4>8. CASE Passed(w, t) /\ t.dp = w.dp /\ w.dp.alive /\ ~w.dp.sticky
          <5>1. Ok(t) /\ t.writes = w.writes /\ t.drv = u.drv /\ t.obs = u.obs
            BY <4>1, <4>8 DEF Passed
          <5>2. Aimed(t, reg) BY <2>5, <4>6, <5>1 DEF Aimed, Clear
          <5> QED BY <2>5, <3>3, <4>1, <4>8, <5>1, <5>2
        <4> QED BY <4>3, <4>4, <4>7, <4>8
      <3> QED BY <3>4, <3>5
    <2> QED BY <2>3, <2>4, <2>5
  <1> QED BY <1>2, <1>3, <1>4

\* read_ap_register returns the register it was asked for.
LEMMA ReadApSeen ==
  ASSUME NEW reg \in Regs, NEW st, Clear(st), NEW t \in ReadApRegister(st, reg)
  PROVE  /\ t.writes = st.writes
         /\ Ok(t) => /\ Aimed(t, reg) /\ st.dp.alive
                     /\ t.val = [hit |-> OfMemAp(reg), val |-> Content(st, OfMemAp(reg))]
                     /\ t.dp.inc = st.dp.inc
                     /\ t.dp.tar = IF reg = DRW THEN NextTar(st) ELSE st.dp.tar
  <1> DEFINE Fetch(w) == Then(CheckDpErrors(w, TRUE), LAMBDA x : DpReadRdBuff(x))
             Read(u) == Then(ApRead(u, reg), LAMBDA w : Fetch(w))
  <1>1. PICK s \in PowerGate(st) : t \in IF Ok(s) THEN Then(CheckSelectAp(s, reg), Read) ELSE {s}
    BY DEF ReadApRegister, Then
  <1>2. Lost(st, s) \/ (s = st /\ st.drv.powered_up) BY PowerGateSeen
  <1>3. CASE Lost(st, s) BY <1>1, <1>3 DEF Lost
  <1>4. CASE s = st /\ st.drv.powered_up
    <2>1. Ok(s) BY <1>4 DEF Clear
    <2>2. PICK u \in CheckSelectAp(st, reg) : t \in IF Ok(u) THEN Read(u) ELSE {u}
      BY <1>1, <1>4, <2>1 DEF Then
    <2>3. \/ Lost(st, u)
          \/ /\ Aimed(u, reg) /\ u.writes = st.writes /\ (u.dp.alive => st.dp.alive)
             /\ u.dp.tar = st.dp.tar /\ u.dp.inc = st.dp.inc
      BY <1>4, <2>2, CheckSelectApSeen
    <2>4. CASE Lost(st, u) BY <2>2, <2>4 DEF Lost
    <2>5. CASE /\ Aimed(u, reg) /\ u.writes = st.writes /\ (u.dp.alive => st.dp.alive)
               /\ u.dp.tar = st.dp.tar /\ u.dp.inc = st.dp.inc
      <3>1. u \in Good /\ u \in States /\ Ok(u) BY <2>5 DEF Aimed, Clear, Good
      <3>2. PICK w \in ApRead(u, reg) : t \in IF Ok(w) THEN Fetch(w) ELSE {w}
        BY <2>2, <3>1 DEF Then
      <3>3. NextTar(u) = NextTar(st) /\ Content(u, OfMemAp(reg)) = Content(st, OfMemAp(reg))
        BY <2>5 DEF NextTar, Content
      <3>4. CASE Lost(u, w) BY <2>5, <3>2, <3>4 DEF Lost
      <3>5. CASE ~Lost(u, w)
        <4>1. /\ Passed(u, w) /\ u.dp.alive /\ ~u.dp.sticky
              /\ w.dp.select = u.dp.select /\ w.dp.inc = u.dp.inc
              /\ \/ w.dp.sticky
                 \/ /\ w.dp.rdbuff = [hit |-> OfMemAp(reg), val |-> Content(u, OfMemAp(reg))]
                    /\ w.dp.tar = IF reg = DRW THEN NextTar(u) ELSE u.dp.tar
          BY <2>5, <3>2, <3>5, ApReadSeen
        <4>2. w \in States /\ Ok(w) /\ w.writes = u.writes /\ w.drv = u.drv /\ w.obs = u.obs
          BY <4>1 DEF Passed
        <4>3. w \in Good BY <3>1, <3>2, ApReadCalm, CalmReach, ReachIsGood
        <4>4. PICK x \in CheckDpErrors(w, TRUE) : t \in IF Ok(x) THEN DpReadRdBuff(x) ELSE {x}
          BY <3>2, <4>2 DEF Then
        <4>5. \/ Lost(w, x)
              \/ /\ Passed(w, x) /\ x.dp = w.dp /\ w.dp.alive
                 /\ w.dp.select.dpbank = 0 => ~w.dp.sticky
          BY <4>2, <4>4, CheckSeen
        <4>6. w.dp.select.dpbank = 0 BY <2>5, <4>1, AimedHit
        <4>7. x \in Good BY <4>2, <4>3, <4>4, CheckDpErrorsCalm, CalmReach, ReachIsGood
        <4>8. CASE Lost(w, x) BY <2>5, <4>2, <4>4, <4>8 DEF Lost
        <4>9. CASE Passed(w, x) /\ x.dp = w.dp /\ ~w.dp.sticky
          <5>1. x \in States /\ Ok(x) /\ x.writes = w.writes /\ x.drv = u.drv /\ x.obs = u.obs
            BY <4>2, <4>9 DEF Passed
          <5>2. t \in DpReadRdBuff(x) BY <4>4, <5>1
          <5>3. Lost(x, t) \/ (Passed(x, t) /\ t.dp = x.dp /\ t.val = x.dp.rdbuff)
            BY <5>1, <5>2, RdBuffSeen
          <5>4. t \in Good BY <4>7, <5>1, <5>2, RdBuffCalm, CalmReach, ReachIsGood
          <5>5. CASE Lost(x, t) BY <2>5, <4>2, <5>1, <5>5 DEF Lost
          <5>6. CASE Passed(x, t) /\ t.dp = x.dp /\ t.val = x.dp.rdbuff
            <6>1. Ok(t) /\ t.writes = x.writes /\ t.drv = u.drv /\ t.obs = u.obs
              BY <5>1, <5>6 DEF Passed
            <6>2. Aimed(t, reg) BY <2>5, <5>4, <6>1 DEF Aimed, Clear
            <6> QED BY <2>5, <3>3, <4>1, <4>2, <4>9, <5>1, <5>6, <6>1, <6>2
          <5> QED BY <5>3, <5>5, <5>6
        <4> QED BY <4>5, <4>6, <4>8, <4>9
      <3> QED BY <3>4, <3>5
    <2> QED BY <2>3, <2>4, <2>5
  <1> QED BY <1>2, <1>3, <1>4

\* The first half of set_tar, with which a chunk of a bulk transfer begins too.
LEMMA WriteTarSeen ==
  ASSUME NEW st, Clear(st), NEW a \in Addrs, NEW t \in WriteApRegister(st, TAR, a)
  PROVE  /\ t.writes = st.writes
         /\ Ok(t) => /\ Aimed(t, TAR) /\ st.dp.alive /\ ~t.dp.sticky
                     /\ t.dp.tar = a /\ t.dp.inc = st.dp.inc
  <1>1. PICK reg : reg = TAR OBVIOUS
  <1>2. reg \in Regs /\ reg # IDR /\ reg # CSW /\ reg # DRW BY <1>1, RegsDiffer DEF Regs
  <1>3. t \in WriteApRegister(st, reg, a) BY <1>1
  <1>4. /\ t.writes = st.writes \/ (reg = DRW /\ t.writes = st.writes \cup {Word(st.dp.tar)})
        /\ Ok(t) => /\ Aimed(t, reg) /\ st.dp.alive /\ ~t.dp.sticky
                    /\ t.writes = IF reg = DRW THEN st.writes \cup {Word(st.dp.tar)} ELSE st.writes
                    /\ reg = CSW => (t.dp.inc <=> a = 1)
                    /\ reg # CSW => t.dp.inc = st.dp.inc
                    /\ reg = TAR => t.dp.tar = a
                    /\ reg = DRW => t.dp.tar = NextTar(st)
    BY <1>2, <1>3, WriteApSeen
  <1> QED BY <1>1, <1>2, <1>4

LEMMA ForgetClear ==
  ASSUME NEW st, Clear(st)
  PROVE  /\ Clear(Forget(st)) /\ Forget(st).writes = st.writes
         /\ Forget(st).dp.tar = st.dp.tar /\ Forget(st).dp.inc = st.dp.inc
  <1>1. st \in Good /\ st \in States BY DEF Clear, Good
  <1>2. Forget(st) \in Good BY <1>1, ForgetCalm, CalmIsReach, ReachIsGood
  <1>3. Forget(st).err = st.err /\ Forget(st).obs = st.obs /\ Forget(st).writes = st.writes
        /\ Forget(st).dp.tar = st.dp.tar /\ Forget(st).dp.inc = st.dp.inc
    BY <1>1 DEF Forget, States, DpType
  <1> QED BY <1>2, <1>3 DEF Clear, Ok

\* set_tar has pointed the target where it was asked to when it succeeds.
LEMMA SetTarSeen ==
  ASSUME NEW st, Clear(st), NEW a \in Addrs, NEW t \in SetTar(st, a)
  PROVE  /\ t.writes = st.writes
         /\ Ok(t) => Clear(t) /\ t.dp.tar = a /\ t.dp.inc = st.dp.inc
  <1> DEFINE Check(u) == IF u.val.val # a THEN Fail(u, "OperationFailed") ELSE Forget(u)
  <1>1. PICK w \in WriteApRegister(st, TAR, a) :
          t \in IF Ok(w) THEN Then(ReadApRegister(w, TAR), LAMBDA u : {Check(u)}) ELSE {w}
    BY DEF SetTar, Then
  <1>2. /\ w.writes = st.writes
        /\ Ok(w) => Clear(w) /\ w.dp.tar = a /\ w.dp.inc = st.dp.inc
    <2>1. /\ w.writes = st.writes
          /\ Ok(w) => /\ Aimed(w, TAR) /\ st.dp.alive /\ ~w.dp.sticky
                      /\ w.dp.tar = a /\ w.dp.inc = st.dp.inc
      BY <1>1, WriteTarSeen
    <2> QED BY <2>1 DEF Aimed
  <1>3. CASE Ok(w)
    <2>1. PICK u \in ReadApRegister(w, TAR) : t \in IF Ok(u) THEN {Check(u)} ELSE {u}
      BY <1>1, <1>3 DEF Then
    <2>2. /\ u.writes = w.writes
          /\ Ok(u) => Clear(u) /\ u.dp.tar = w.dp.tar /\ u.dp.inc = w.dp.inc
      BY <1>2, <1>3, <2>1, ReadApSeen, RegsDiffer DEF Regs, Aimed
    <2>3. CASE Ok(u)
      <3>1. u \in States BY <2>2, <2>3 DEF Clear, Good
      <3>2. Lost(u, Fail(u, "OperationFailed")) BY <3>1, FailLost DEF Errors
      <3>3. t \in {Fail(u, "OperationFailed"), Forget(u)} BY <2>1, <2>3
      <3> QED BY <1>2, <1>3, <2>2, <2>3, <3>2, <3>3, ForgetClear DEF Lost
    <2> QED BY <1>2, <2>1, <2>2, <2>3
  <1> QED BY <1>1, <1>2, <1>3

LEMMA ReadMemSeen ==
  ASSUME NEW st, Clear(st), NEW a \in Addrs, NEW t \in ReadMem(st, a), Ok(t)
  PROVE  t.val = Word(a)
  <1>1. PICK u \in SetTar(st, a) : t \in IF Ok(u) THEN ReadApRegister(u, DRW) ELSE {u}
    BY DEF ReadMem, Then
  <1>2. Ok(u) /\ Clear(u) /\ u.dp.tar = a BY <1>1, SetTarSeen
  <1>3. t.val = [hit |-> OfMemAp(DRW), val |-> Content(u, OfMemAp(DRW))]
    BY <1>1, <1>2, ReadApSeen DEF Regs
  <1>4. Content(u, OfMemAp(DRW)) = a BY <1>2, RegsDiffer DEF Content
  <1> QED BY <1>3, <1>4 DEF Word, OfMemAp

LEMMA WriteMemSeen ==
  ASSUME NEW st, Clear(st), NEW a \in Addrs, NEW t \in WriteMem(st, a)
  PROVE  /\ t.writes \in {st.writes, st.writes \cup {Word(a)}}
         /\ Ok(t) => t.writes = st.writes \cup {Word(a)}
  <1>1. PICK u \in SetTar(st, a) : t \in IF Ok(u) THEN WriteApRegister(u, DRW, 0) ELSE {u}
    BY DEF WriteMem, Then
  <1>2. u.writes = st.writes /\ (Ok(u) => Clear(u) /\ u.dp.tar = a) BY <1>1, SetTarSeen
  <1>3. CASE Ok(u)
    <2>1. t \in WriteApRegister(u, DRW, 0) BY <1>1, <1>3
    <2>2. /\ t.writes = u.writes \/ t.writes = u.writes \cup {Word(u.dp.tar)}
          /\ Ok(t) => t.writes = u.writes \cup {Word(u.dp.tar)}
      BY <1>2, <1>3, <2>1, WriteApSeen, RegsDiffer DEF Regs
    <2> QED BY <1>2, <1>3, <2>2
  <1> QED BY <1>1, <1>2, <1>3

\* set_addr_inc has switched AddrInc as asked when it succeeds.
LEMMA SetAddrIncSeen ==
  ASSUME NEW st, Clear(st), NEW b \in BOOLEAN, NEW t \in SetAddrInc(st, b)
  PROVE  /\ t.writes = st.writes
         /\ Ok(t) => Clear(t) /\ t.drv.powered_up /\ st.dp.alive /\ t.dp.inc = b
  <1> DEFINE Check(w) == IF w.val.val # AsBit(b) THEN Fail(w, "OperationFailed") ELSE w
             Change(r) == Then(WriteApRegister(r, CSW, AsBit(b)), LAMBDA u :
                          Then(ReadApRegister(u, CSW), LAMBDA w : {Check(w)}))
  <1>1. PICK r \in ReadApRegister(st, CSW) :
          t \in IF Ok(r) THEN IF r.val.val = AsBit(b) THEN {r} ELSE Change(r) ELSE {r}
    BY DEF SetAddrInc, Then
  <1>2. /\ r.writes = st.writes
        /\ Ok(r) => /\ Aimed(r, CSW) /\ st.dp.alive /\ r.dp.inc = st.dp.inc
                    /\ r.val.val = Content(st, OfMemAp(CSW))
    <2>1. CSW \in Regs BY DEF Regs
    <2>2. r \in ReadApRegister(st, CSW) BY <1>1
    <2>3. /\ r.writes = st.writes
          /\ Ok(r) => /\ Aimed(r, CSW) /\ st.dp.alive /\ r.dp.inc = st.dp.inc
                      /\ r.val = [hit |-> OfMemAp(CSW), val |-> Content(st, OfMemAp(CSW))]
      BY <2>1, <2>2, ReadApSeen
    <2> QED BY <2>3
  <1>3. Content(st, OfMemAp(CSW)) = AsBit(st.dp.inc) BY RegsDiffer DEF Content, AsBit
  <1>4. st.dp.inc \in BOOLEAN BY DEF Clear, Good, States, DpType
  <1>5. CASE ~Ok(r) BY <1>1, <1>2, <1>5
  <1>6. CASE Ok(r) /\ r.val.val = AsBit(b)
    <2>1. t = r BY <1>1, <1>6
    <2>2. st.dp.inc = b BY <1>2, <1>3, <1>4, <1>6 DEF AsBit
    <2> QED BY <1>2, <1>6, <2>1, <2>2 DEF Aimed
  <1>7. CASE Ok(r) /\ r.val.val # AsBit(b)
    <2>1. PICK u \in WriteApRegister(r, CSW, AsBit(b)) :
            t \in IF Ok(u) THEN Then(ReadApRegister(u, CSW), LAMBDA w : {Check(w)}) ELSE {u}
      BY <1>1, <1>7 DEF Then
    <2>2. Clear(r) BY <1>2, <1>7 DEF Aimed
    <2>3. /\ u.writes = r.writes
          /\ Ok(u) => Aimed(u, CSW) /\ (u.dp.inc <=> AsBit(b) = 1)
      <3>1. PICK reg : reg = CSW OBVIOUS
      <3>2. PICK v : v = AsBit(b) OBVIOUS
      <3>3. reg \in Regs /\ reg # IDR /\ reg # TAR /\ reg # DRW BY <3>1, RegsDiffer DEF Regs
      <3>4. u \in WriteApRegister(r, reg, v) BY <2>1, <3>1, <3>2
      <3>5. /\ u.writes = r.writes \/ (reg = DRW /\ u.writes = r.writes \cup {Word(r.dp.tar)})
            /\ Ok(u) => /\ Aimed(u, reg) /\ r.dp.alive /\ ~u.dp.sticky
                        /\ u.writes = IF reg = DRW THEN r.writes \cup {Word(r.dp.tar)} ELSE r.writes
                        /\ reg = CSW => (u.dp.inc <=> v = 1)
                        /\ reg # CSW => u.dp.inc = r.dp.inc
                        /\ reg = TAR => u.dp.tar = v
                        /\ reg = DRW => u.dp.tar = NextTar(r)
        BY <2>2, <3>3, <3>4, WriteApSeen
      <3> QED BY <3>1, <3>2, <3>3, <3>5
    <2>4. AsBit(b) = 1 <=> b BY DEF AsBit
    <2>5. CASE ~Ok(u) BY <1>2, <2>1, <2>3, <2>5
    <2>6. CASE Ok(u)
      <3>1. PICK w \in ReadApRegister(u, CSW) : t \in IF Ok(w) THEN {Check(w)} ELSE {w}
        BY <2>1, <2>6 DEF Then
      <3>2. Clear(u) BY <2>3, <2>6 DEF Aimed
      <3>6. u.dp.inc = b
        <4>1. u.dp.inc \in BOOLEAN BY <3>2 DEF Clear, Good, States, DpType
        <4> QED BY <2>3, <2>4, <2>6, <4>1
      <3>3. /\ w.writes = u.writes
            /\ Ok(w) => Aimed(w, CSW) /\ w.dp.inc = u.dp.inc
        BY <3>1, <3>2, ReadApSeen, RegsDiffer DEF Regs
      <3>4. CASE ~Ok(w) BY <1>2, <2>3, <3>1, <3>3, <3>4
      <3>5. CASE Ok(w)
        <4>1. w \in States BY <3>3, <3>5 DEF Aimed, Clear, Good
        <4>2. Lost(w, Fail(w, "OperationFailed")) BY <4>1, FailLost DEF Errors
        <4>3. t \in {Fail(w, "OperationFailed"), w} BY <3>1, <3>5
        <4> QED BY <1>2, <1>7, <2>3, <2>6, <3>3, <3>5, <3>6, <4>2, <4>3 DEF Lost, Aimed
      <3> QED BY <3>4, <3>5
    <2> QED BY <2>5, <2>6
  <1> QED BY <1>5, <1>6, <1>7

-----------------------------------------------------------------------------
(* The invariant *)

\* The part of IInv that speaks of what an operation leaves behind.
CoreInv ==
  /\ drv \in DrvType /\ dp \in DpType /\ obs \in ObsType
  /\ SelectCoherent /\ ConnectedFacts /\ PowerCheckOn /\ DpBankZero

LEMMA BeginGood ==
  ASSUME IInv
  PROVE  /\ Begin \in Good /\ Begin \in States /\ Ok(Begin)
         /\ Begin.drv = drv /\ Begin.dp = dp /\ Begin.obs = obs
  <1>1. Begin \in States /\ Ok(Begin) /\ Begin.drv = drv /\ Begin.dp = dp /\ Begin.obs = obs
    BY ValueFacts DEF Begin, IInv, TypeOK, States, Ok
  <1>2. Coherent(Begin) BY <1>1 DEF IInv, SelectCoherent, Undisturbed, Coherent
  <1>3. Facts(Begin) BY <1>1 DEF IInv, ConnectedFacts, Facts
  <1>4. Gate(Begin) /\ BankZero(Begin)
    BY <1>1 DEF IInv, PowerCheckOn, DpBankZero, Gate, BankZero
  <1> QED BY <1>1, <1>2, <1>3, <1>4 DEF Good

LEMMA BecomesCore ==
  ASSUME NEW t \in Good, Becomes(t)
  PROVE  CoreInv'
  <1>1. t \in States BY DEF Good
  <1>2. drv' = t.drv /\ obs' = t.obs /\ dp' = [t.dp EXCEPT !.rdbuff = NoVal]
    BY DEF Becomes
  <1>3. drv' \in DrvType /\ dp' \in DpType /\ obs' \in ObsType
    BY <1>1, <1>2, ValueFacts DEF States, DpType
  <1>4. dp'.alive = t.dp.alive /\ dp'.select = t.dp.select
    BY <1>1, <1>2 DEF States, DpType
  <1>5. SelectCoherent' BY <1>2, <1>4 DEF Good, Coherent, SelectCoherent, Undisturbed
  <1>6. ConnectedFacts' BY <1>2 DEF Good, Facts, ConnectedFacts
  <1>7. PowerCheckOn' /\ DpBankZero'
    BY <1>2, <1>4 DEF Good, Gate, BankZero, PowerCheckOn, DpBankZero
  <1> QED BY <1>3, <1>5, <1>6, <1>7 DEF CoreInv

LEMMA NoOutcomeType == NoOutcome \in LastType
  BY ValueFacts DEF NoOutcome, LastType

LEMMA OutcomeType ==
  ASSUME NEW t \in States, NEW arg \in Readings,
         NEW op \in {"none", "read_mem", "write_mem", "check_mem_ap"}
  PROVE  Outcome(op, arg, t) \in LastType
  <1>1. Ok(t) \in BOOLEAN BY DEF Ok
  <1>2. t.val \in Readings /\ t.writes \in SUBSET Readings BY DEF States
  <1> QED BY <1>1, <1>2, NoOutcomeType DEF Outcome, LastType

LEMMA DoInv ==
  ASSUME IInv, NEW S, S \subseteq Good, Do(S)
  PROVE  IInv'
  <1>1. PICK t \in S : Becomes(t) BY DEF Do
  <1>2. CoreInv' BY <1>1, BecomesCore
  <1>3. boot' = boot /\ boot.at = "idle" /\ last' = NoOutcome BY DEF Do
  <1>4. TypeOK' BY <1>2, <1>3, NoOutcomeType DEF CoreInv, IInv, TypeOK
  <1> QED BY <1>2, <1>3, <1>4 DEF CoreInv, IInv, BootFacts

LEMMA DoSeenInv ==
  ASSUME IInv, NEW S, S \subseteq Good, NEW arg \in Readings,
         NEW op \in {"none", "read_mem", "write_mem", "check_mem_ap"},
         DoSeen(op, arg, S)
  PROVE  IInv'
  <1>1. PICK t \in S : Becomes(t) /\ last' = Outcome(op, arg, t) BY DEF DoSeen
  <1>2. CoreInv' BY <1>1, BecomesCore
  <1>3. boot' = boot /\ boot.at = "idle" BY DEF DoSeen
  <1>4. last' \in LastType BY <1>1, OutcomeType DEF Good
  <1>5. TypeOK' BY <1>2, <1>3, <1>4 DEF CoreInv, IInv, TypeOK
  <1> QED BY <1>2, <1>3, <1>5 DEF CoreInv, IInv, BootFacts

\* What boot value b needs of the driver's fields d.
BootHolds(b, d) ==
  /\ b.at \in {"enable", "mem_ap", "mcu"} =>
       /\ b.idcode # None
       /\ d.reset_version # None
       /\ b.how # "Refresh" => d.idcode = None
  /\ b.at \in {"mem_ap", "mcu"} => d.powered_up
  /\ b.at = "mcu" => d.idr

LEMMA AfterFailureType ==
  ASSUME NEW b \in BootType
  PROVE  AfterFailure(b) \in BootType /\ AfterFailure(b).at \in {"idle", "detect", "retry"}
  <1>1. Idle \in BootType /\ Idle.at = "idle" BY DEF Idle, BootType
  <1>2. [b EXCEPT !.at = "detect"] \in BootType /\ [b EXCEPT !.at = "detect"].at = "detect"
    BY DEF BootType
  <1>3. [b EXCEPT !.at = "retry"] \in BootType /\ [b EXCEPT !.at = "retry"].at = "retry"
    BY DEF BootType
  <1>4. AfterFailure(b) \in {Idle, [b EXCEPT !.at = "detect"], [b EXCEPT !.at = "retry"]}
    BY DEF AfterFailure
  <1> QED BY <1>1, <1>2, <1>3, <1>4

\* Forgetting the version keeps a good state good as long as no IDCODE is known.
LEMMA ForgetVersionGood ==
  ASSUME NEW st \in Good, st.drv.idcode = None
  PROVE  [st EXCEPT !.drv.reset_version = None] \in Good
  <1> DEFINE t == [st EXCEPT !.drv.reset_version = None]
  <1>1. t \in States /\ t.drv = [st.drv EXCEPT !.reset_version = None] /\ t.dp = st.dp /\ t.obs = st.obs
    BY DEF Good, States, DrvType
  <1>2. t.drv.idcode = st.drv.idcode /\ t.drv.powered_up = st.drv.powered_up
        /\ t.drv.dp_select = st.drv.dp_select /\ t.drv.check_power = st.drv.check_power
    BY <1>1 DEF Good, States, DrvType
  <1> HIDE DEF t
  <1>3. t \in Good BY <1>1, <1>2 DEF Good, Coherent, Facts, Gate, BankZero
  <1> QED BY <1>3 DEF t

LEMMA PartInv ==
  ASSUME NEW S, S \subseteq Good, NEW b \in BootType, NEW next \in BootType,
         \A t \in S : Ok(t) => BootHolds(next, t.drv),
         b.how # "Refresh" => \A t \in S : ~Ok(t) => t.drv.idcode = None,
         Part(S, b, next)
  PROVE  IInv'
  <1>1. PICK t \in S :
          /\ Becomes(IF Ok(t) \/ b.how = "Refresh" THEN t ELSE [t EXCEPT !.drv.reset_version = None])
          /\ boot' = IF Ok(t) THEN next ELSE AfterFailure(b)
          /\ last' = NoOutcome
    BY DEF Part
  <1>2. CASE Ok(t)
    <2>1. Becomes(t) /\ boot' = next BY <1>1, <1>2
    <2>2. CoreInv' BY <2>1, BecomesCore
    <2>3. BootHolds(next, drv') BY <1>2, <2>1 DEF Becomes
    <2>4. BootFacts' BY <2>1, <2>3 DEF BootHolds, BootFacts
    <2>5. TypeOK' BY <1>1, <2>1, <2>2, NoOutcomeType DEF CoreInv, TypeOK
    <2> QED BY <2>2, <2>4, <2>5 DEF CoreInv, IInv
  <1>3. CASE ~Ok(t)
    <2>1. boot' = AfterFailure(b) BY <1>1, <1>3
    <2>2. BootFacts' BY <2>1, AfterFailureType DEF BootFacts
    <2>3. CoreInv'
      <3>1. CASE b.how = "Refresh"
        BY <1>1, <3>1, BecomesCore
      <3>2. CASE b.how # "Refresh"
        <4>1. [t EXCEPT !.drv.reset_version = None] \in Good
          BY <1>3, <3>2, ForgetVersionGood
        <4>2. Becomes([t EXCEPT !.drv.reset_version = None]) BY <1>1, <1>3, <3>2
        <4> QED BY <4>1, <4>2, BecomesCore
      <3> QED BY <3>1, <3>2
    <2>4. TypeOK' BY <1>1, <2>1, <2>3, NoOutcomeType, AfterFailureType DEF CoreInv, TypeOK
    <2> QED BY <2>2, <2>3, <2>4 DEF CoreInv, IInv
  <1> QED BY <1>2, <1>3

LEMMA AttemptInv ==
  ASSUME IInv, NEW S, \A t \in S : t \in Good /\ t.drv = InternalReset,
         NEW how \in {"V1", "V2", "Multi"}, NEW version \in Versions, NEW chain \in BOOLEAN,
         Attempt(S, how, version, chain)
  PROVE  IInv'
  <1> DEFINE b == [at |-> "enable", how |-> how, chain |-> chain, idcode |-> IdCodeOf(Begin)]
             V(t) == IF Ok(t) THEN [t EXCEPT !.drv.reset_version = version] ELSE t
             R == {V(t) : t \in S}
  <1>1. dp.kind \in AllKinds BY TargetAssumption DEF IInv, TypeOK, DpType
  <1>2. IdCodeOf(Begin) \in AllKinds BY <1>1, BeginGood DEF IdCodeOf, AllKinds
  <1>3. IdCodeOf(Begin) # None BY <1>2 DEF AllKinds, None
  <1>4. b \in BootType BY <1>2 DEF BootType
  <1>5. ASSUME NEW t \in S
        PROVE  /\ V(t) \in Good
               /\ V(t).drv.idcode = None
               /\ Ok(V(t)) => V(t).drv.reset_version = version
    <2>1. t \in Good /\ t.drv = InternalReset OBVIOUS
    <2> DEFINE u == [t EXCEPT !.drv.reset_version = version]
    <2>2. u \in States /\ u.drv = [InternalReset EXCEPT !.reset_version = version]
          /\ u.dp = t.dp /\ u.obs = t.obs
      BY <2>1 DEF Good, States, DrvType
    <2>3. u.drv.idcode = None /\ u.drv.powered_up = FALSE /\ u.drv.check_power = TRUE
          /\ u.drv.reset_version = version
      BY <2>2 DEF InternalReset
    <2>4. u \in Good BY <2>1, <2>2, <2>3 DEF Good, Coherent, Facts, Gate, BankZero
    <2>5. t.drv.idcode = None BY <2>1 DEF InternalReset
    <2> QED BY <2>1, <2>3, <2>4, <2>5
  <1>6. R \subseteq Good BY <1>5
  <1>7. \A t \in R : Ok(t) => BootHolds(b, t.drv)
    <2>1. version # None BY DEF Versions, None
    <2> QED BY <1>3, <1>5, <2>1 DEF BootHolds
  <1>8. \A t \in R : t.drv.idcode = None BY <1>5
  <1>9. Part(R, b, b) BY DEF Attempt
  <1> HIDE DEF b, R
  <1> QED BY <1>4, <1>6, <1>7, <1>8, <1>9, PartInv

-----------------------------------------------------------------------------
(* One lemma per group of actions *)

LEMMA ResetTargetGood ==
  ASSUME IInv, NEW v, NEW t \in ResetTarget(Begin, v)
  PROVE  t \in Good /\ t.drv = InternalReset
  <1>1. (v = "V2" \/ Begin.dp.kind # "rp") \in BOOLEAN OBVIOUS
  <1> QED BY <1>1, BeginGood, ResetReadGood DEF ResetTarget

LEMMA ConnectInv ==
  ASSUME IInv, ConnectOps PROVE IInv'
  <1>0. Begin \in Good /\ Begin \in States /\ Ok(Begin) /\ Begin.drv = drv
    BY BeginGood
  <1>01. boot \in BootType BY DEF IInv, TypeOK
  <1>1. CASE DoResetTarget
    <2>1. PICK v \in {"V1", "V2"} : Attempt(ResetTarget(Begin, v), v, v, FALSE)
      BY <1>1 DEF DoResetTarget
    <2> QED BY <2>1, ResetTargetGood, AttemptInv DEF Versions
  <1>2. CASE DoResetSwdTarget
    BY <1>2, ResetTargetGood, AttemptInv DEF DoResetSwdTarget, Versions
  <1>3. CASE DoDetect
    <2>1. PICK s \in ResetDetectMultidrop(Begin) :
            /\ Becomes(s)
            /\ boot' \in {[boot EXCEPT !.at = "retry"], [boot EXCEPT !.at = "found"], Idle}
      BY <1>3 DEF DoDetect
    <2>2. s \in Good BY <1>0, <2>1, LineResetGood DEF ResetDetectMultidrop
    <2>3. CoreInv' BY <2>1, <2>2, BecomesCore
    <2>4. boot' \in BootType /\ boot'.at \in {"retry", "found", "idle"}
      <3>1. [boot EXCEPT !.at = "retry"] \in BootType /\ [boot EXCEPT !.at = "retry"].at = "retry"
        BY <1>01 DEF BootType
      <3>2. [boot EXCEPT !.at = "found"] \in BootType /\ [boot EXCEPT !.at = "found"].at = "found"
        BY <1>01 DEF BootType
      <3>3. Idle \in BootType /\ Idle.at = "idle" BY DEF Idle, BootType
      <3> QED BY <2>1, <3>1, <3>2, <3>3
    <2>5. last' = NoOutcome BY <1>3 DEF DoDetect
    <2>6. TypeOK' BY <2>3, <2>4, <2>5, NoOutcomeType DEF CoreInv, TypeOK
    <2>7. BootFacts' BY <2>4 DEF BootFacts
    <2> QED BY <2>3, <2>6, <2>7 DEF CoreInv, IInv
  <1>4. CASE DoResetMultidropTarget
    <2>1. \A t \in ResetMultidropTarget(Begin) : t \in Good /\ t.drv = InternalReset
      BY <1>0, ResetReadGood DEF ResetMultidropTarget
    <2> QED BY <1>4, <2>1, AttemptInv DEF DoResetMultidropTarget, Versions
  <1>5. CASE DoRetry
    BY <1>5, ResetTargetGood, AttemptInv DEF DoRetry, Versions
  <1>6. CASE DoRefreshMcu
    <2>1. /\ drv' = drv /\ dp' = dp /\ obs' = obs /\ last' = NoOutcome
      BY <1>6 DEF DoRefreshMcu
    <2>2. CASE drv.idcode = None
      <3>1. boot' = Idle BY <1>6, <2>2 DEF DoRefreshMcu
      <3>2. TypeOK' BY <2>1, <3>1, NoOutcomeType DEF IInv, TypeOK, Idle, BootType
      <3>3. BootFacts' BY <3>1 DEF BootFacts, Idle
      <3> QED BY <2>1, <3>2, <3>3 DEF IInv, SelectCoherent, Undisturbed, ConnectedFacts,
                PowerCheckOn, DpBankZero
    <2>3. CASE drv.idcode # None
      <3>1. boot' = [at |-> "enable", how |-> "Refresh", chain |-> FALSE, idcode |-> drv.idcode]
        BY <1>6, <2>3 DEF DoRefreshMcu
      <3>2. drv.idcode \in AllKinds /\ drv.reset_version # None
        BY <2>3 DEF IInv, TypeOK, DrvType, ConnectedFacts
      <3>3. TypeOK' BY <2>1, <3>1, <3>2, NoOutcomeType DEF IInv, TypeOK, BootType
      <3>4. BootFacts' BY <2>1, <2>3, <3>1, <3>2 DEF BootFacts
      <3> QED BY <2>1, <3>3, <3>4 DEF IInv, SelectCoherent, Undisturbed, ConnectedFacts,
                PowerCheckOn, DpBankZero
    <2> QED BY <2>2, <2>3
  <1>7. CASE DoEnablePort
    <2> DEFINE next == [boot EXCEPT !.at = "mem_ap"]
    <2>1. boot.at = "enable" /\ Part(EnablePort(Begin), boot, next) BY <1>7 DEF DoEnablePort
    <2>2. next \in BootType /\ next.at = "mem_ap" /\ next.how = boot.how /\ next.idcode = boot.idcode
      BY <1>01 DEF BootType
    <2>3. ASSUME NEW t \in EnablePort(Begin)
          PROVE  /\ t \in Good
                 /\ Ok(t) => BootHolds(next, t.drv)
                 /\ boot.how # "Refresh" => t.drv.idcode = None
      <3>1. t \in Better(Begin) /\ (Ok(t) => t.drv.powered_up) BY <1>0, EnablePortBetter
      <3> HIDE DEF next
      <3> QED BY <1>0, <2>1, <2>2, <3>1 DEF Better, AtLeast, BootHolds, IInv, BootFacts
    <2> HIDE DEF next
    <2> QED BY <1>01, <2>1, <2>2, <2>3, PartInv
  <1>8. CASE DoConfigureMemAp
    <2> DEFINE next == [boot EXCEPT !.at = "mcu"]
    <2>1. boot.at = "mem_ap" /\ Part(ConfigureMemAp(Begin), boot, next)
      BY <1>8 DEF DoConfigureMemAp
    <2>2. next \in BootType /\ next.at = "mcu" /\ next.how = boot.how /\ next.idcode = boot.idcode
      BY <1>01 DEF BootType
    <2>3. ASSUME NEW t \in ConfigureMemAp(Begin)
          PROVE  /\ t \in Good
                 /\ Ok(t) => BootHolds(next, t.drv)
                 /\ boot.how # "Refresh" => t.drv.idcode = None
      <3>1. t \in Better(Begin) /\ (Ok(t) => t.drv.idr) BY <1>0, ConfigureMemApBetter
      <3> HIDE DEF next
      <3> QED BY <1>0, <2>1, <2>2, <3>1 DEF Better, AtLeast, BootHolds, IInv, BootFacts
    <2> HIDE DEF next
    <2> QED BY <1>01, <2>1, <2>2, <2>3, PartInv
  <1>9. CASE DoGetMcu
    <2> DEFINE Store(t) == IF Ok(t) THEN [t EXCEPT !.drv.mcu = t.found, !.drv.idcode = boot.idcode]
                           ELSE t
               S == {Store(t) : t \in GetMcu(Begin, boot.idcode)}
    <2>1. boot.at = "mcu" /\ Part(S, boot, Idle) BY <1>9 DEF DoGetMcu
    <2>2. Idle \in BootType /\ Idle.at = "idle" BY DEF Idle, BootType
    <2>3. boot.idcode \in AllKinds /\ drv.reset_version # None /\ drv.powered_up /\ drv.idr
          /\ (boot.how # "Refresh" => drv.idcode = None)
      BY <1>01, <2>1 DEF IInv, BootFacts, BootType
    <2>4. ASSUME NEW t \in GetMcu(Begin, boot.idcode)
          PROVE  /\ Store(t) \in Good
                 /\ ~Ok(Store(t)) => (boot.how # "Refresh" => Store(t).drv.idcode = None)
      <3>1. t \in Reach(Begin) /\ t \in Good /\ t \in States /\ (Ok(t) => t.found \in Mcus)
        BY <1>0, GetMcuIdentified, ReachIsGood DEF Identified
      <3>2. CASE ~Ok(t)
        BY <1>0, <2>3, <3>1, <3>2 DEF Reach, Keeps
      <3>3. CASE Ok(t)
        <4> DEFINE u == [t EXCEPT !.drv.mcu = t.found, !.drv.idcode = boot.idcode]
        <4>1. u \in States /\ u.drv = [t.drv EXCEPT !.mcu = t.found, !.idcode = boot.idcode]
              /\ u.dp = t.dp /\ u.obs = t.obs /\ u.err = t.err
          BY <2>3, <3>1, <3>3 DEF States, DrvType
        <4>2. u.drv.mcu = t.found /\ u.drv.powered_up = drv.powered_up /\ u.drv.idr = drv.idr
              /\ u.drv.reset_version = drv.reset_version /\ u.drv.dp_select = t.drv.dp_select
              /\ u.drv.check_power = t.drv.check_power /\ t.drv.powered_up = drv.powered_up
          BY <1>0, <3>1, <4>1 DEF Reach, Keeps, States, DrvType
        <4> HIDE DEF u
        <4>3. t.found # None BY <3>1, <3>3 DEF Mcus, None
        <4>4. u \in Good
          BY <2>3, <3>1, <4>1, <4>2, <4>3 DEF Good, Coherent, Facts, Gate, BankZero
        <4>5. Ok(u) BY <3>3, <4>1 DEF Ok
        <4> QED BY <3>3, <4>4, <4>5 DEF u
      <3> QED BY <3>2, <3>3
    <2> HIDE DEF Store
    <2>5. S \subseteq Good BY <2>4
    <2>6. boot.how # "Refresh" => \A t \in S : ~Ok(t) => t.drv.idcode = None BY <2>4
    <2>7. \A t \in S : Ok(t) => BootHolds(Idle, t.drv) BY <2>2 DEF BootHolds
    <2> HIDE DEF S
    <2> QED BY <1>01, <2>1, <2>2, <2>5, <2>6, <2>7, PartInv
  <1> QED
    BY <1>1, <1>2, <1>3, <1>4, <1>5, <1>6, <1>7, <1>8, <1>9 DEF ConnectOps

LEMMA RequestType ==
  /\ \A ap \in APs, reg \in Regs : Reg(ap, reg) \in Readings
  /\ \A a \in Addrs : Word(a) \in Readings
  <1>1. ASSUME NEW ap \in APs, NEW reg \in Regs PROVE Reg(ap, reg) \in Readings
    <2>1. reg \in 0 .. 255 /\ 0 \in 0 .. NWords
      BY TargetAssumption DEF Regs, CSW, TAR, DRW, IDR
    <2> QED BY <2>1 DEF Reg, Readings, Hits
  <1>2. ASSUME NEW a \in Addrs PROVE Word(a) \in Readings
    <2>1. a \in 0 .. NWords /\ DRW \in 0 .. 255 BY TargetAssumption DEF Addrs, DRW
    <2> QED BY <2>1, TargetAssumption DEF Word, Readings, Hits
  <1> QED BY <1>1, <1>2

LEMMA StandardInv ==
  ASSUME IInv, StandardOps PROVE IInv'
  <1>0. Begin \in Good /\ Ok(Begin) BY BeginGood
  <1>1. CASE DoKeepalive
    <2>1. Keepalive(Begin) \subseteq Good BY <1>0, KeepaliveGood, ReachIsGood
    <2> QED BY <1>1, <2>1, DoInv DEF DoKeepalive
  <1>2. CASE DoClearErrors
    <2>1. ClearErrors(Begin) \subseteq Good BY <1>0, ClearErrorsReach, ReachIsGood
    <2> QED BY <1>2, <2>1, DoInv DEF DoClearErrors
  <1>3. CASE DoReadMem
    <2>1. PICK a \in Addrs : DoSeen("read_mem", Word(a), ReadMem(Begin, a)) BY <1>3 DEF DoReadMem
    <2>2. ReadMem(Begin, a) \subseteq Good BY <1>0, ReadMemReach, ReachIsGood
    <2> QED BY <2>1, <2>2, RequestType, DoSeenInv
  <1>4. CASE DoWriteMem
    <2>1. PICK a \in Addrs : DoSeen("write_mem", Word(a), WriteMem(Begin, a)) BY <1>4 DEF DoWriteMem
    <2>2. WriteMem(Begin, a) \subseteq Good BY <1>0, WriteMemReach, ReachIsGood
    <2> QED BY <2>1, <2>2, RequestType, DoSeenInv
  <1>5. CASE DoSetAddrInc
    <2>1. PICK b \in BOOLEAN : Do(SetAddrInc(Begin, b)) BY <1>5 DEF DoSetAddrInc
    <2>2. SetAddrInc(Begin, b) \subseteq Good BY <1>0, SetAddrIncReach, ReachIsGood
    <2> QED BY <2>1, <2>2, DoInv
  <1>6. CASE DoCheckMemAp
    <2>1. ReadApRegister(Begin, IDR) \subseteq Good BY <1>0, ReadApReach, ReachIsGood DEF Regs
    <2>2. Reg(0, IDR) \in Readings BY RequestType, TargetAssumption DEF Regs
    <2> QED BY <1>6, <2>1, <2>2, DoSeenInv DEF DoCheckMemAp
  <1> QED BY <1>1, <1>2, <1>3, <1>4, <1>5, <1>6 DEF StandardOps

LEMMA RawInv ==
  ASSUME IInv, RawOps PROVE IInv'
  <1>0. Begin \in Good /\ Ok(Begin) BY BeginGood
  <1>1. CASE DoRawReadDp
    <2>1. PICK r \in {0, 4, 12} : Do(ReadDpRegisterRaw(Begin, r)) BY <1>1 DEF DoRawReadDp
    <2> QED BY <1>0, <2>1, ReadDpRawGood, DoInv
  <1>2. CASE DoRawWriteDp
    <2>1. CASE \E r \in {0, 4} : Do(WriteDpRegisterRaw(Begin, r, SelectDefault))
      <3>1. PICK r \in {0, 4} : Do(WriteDpRegisterRaw(Begin, r, SelectDefault)) BY <2>1
      <3>2. WriteDpRegisterRaw(Begin, r, SelectDefault) \subseteq Good
        BY <1>0, ValueFacts, WriteDpRawGood
      <3> QED BY <3>1, <3>2, DoInv
    <2>2. CASE \E sel \in Selects : Do(WriteDpRegisterRaw(Begin, 8, sel))
      <3>1. PICK sel \in Selects : Do(WriteDpRegisterRaw(Begin, 8, sel)) BY <2>2
      <3>2. WriteDpRegisterRaw(Begin, 8, sel) \subseteq Good BY <1>0, WriteDpRawGood
      <3> QED BY <3>1, <3>2, DoInv
    <2> QED BY <1>2, <2>1, <2>2 DEF DoRawWriteDp
  <1>3. CASE DoRawReadAp
    <2>1. PICK ap \in APs, r \in Regs : Do(ReadApRegisterRaw(Begin, ap, r))
      BY <1>3 DEF DoRawReadAp, Regs
    <2>2. ReadApRegisterRaw(Begin, ap, r) \subseteq Good BY <1>0, ReadApRawGood
    <2> QED BY <2>1, <2>2, DoInv
  <1>4. CASE DoRawWriteAp
    <2>1. PICK ap \in APs, r \in Regs : Do(WriteApRegisterRaw(Begin, ap, r, 1 % NWords))
      BY <1>4 DEF DoRawWriteAp, Regs
    <2>2. WriteApRegisterRaw(Begin, ap, r, 1 % NWords) \subseteq Good
      BY <1>0, AddrFacts, WriteApRawGood
    <2> QED BY <2>1, <2>2, DoInv
  <1>5. CASE DoRawBulk
    <2>1. PICK r \in {TAR, IDR} :
            \/ Do(BinRawBulkRead(Begin, r)) \/ Do(BinRawBulkWrite(Begin, r))
            \/ \E ap \in APs : Do(RestRawBulkRead(Begin, ap, r)) \/ Do(RestRawBulkWrite(Begin, ap, r))
      BY <1>5 DEF DoRawBulk
    <2>2. r \in Regs /\ 0 \in APs BY TargetAssumption DEF Regs
    <2>3. CASE Do(BinRawBulkRead(Begin, r)) \/ Do(BinRawBulkWrite(Begin, r))
      <3>1. BinRawBulkRead(Begin, r) \subseteq Good /\ BinRawBulkWrite(Begin, r) \subseteq Good
        BY <1>0, <2>2, HandlerRawBulkGood
      <3> QED BY <1>0, <2>3, <3>1, DoInv
    <2>4. CASE \E ap \in APs : Do(RestRawBulkRead(Begin, ap, r)) \/ Do(RestRawBulkWrite(Begin, ap, r))
      <3>1. PICK ap \in APs : Do(RestRawBulkRead(Begin, ap, r)) \/ Do(RestRawBulkWrite(Begin, ap, r))
        BY <2>4
      <3>2. RestRawBulkRead(Begin, ap, r) \subseteq Good /\ RestRawBulkWrite(Begin, ap, r) \subseteq Good
        BY <1>0, <2>2, HandlerRawBulkGood
      <3> QED BY <1>0, <3>1, <3>2, DoInv
    <2> QED BY <2>1, <2>3, <2>4
  <1> QED BY <1>1, <1>2, <1>3, <1>4, <1>5 DEF RawOps

LEMMA AnyTargetType ==
  ASSUME NEW k \in Kinds, NEW sel \in Selects
  PROVE  AnyTarget(k, sel) \in DpType /\ AnyTarget(k, sel).alive = FALSE
  <1>1. 0 \in Addrs BY TargetAssumption DEF Addrs
  <1> QED BY <1>1, ValueFacts DEF AnyTarget, DpType

LEMMA EnvironmentInv ==
  ASSUME IInv, Detach \/ Attach PROVE IInv'
  <1>1. UNCHANGED <<drv, obs, boot, last>> BY DEF Detach, Attach
  <1>2. dp' \in DpType /\ dp'.alive = FALSE
    <2>1. CASE Detach
      <3> DEFINE t == AnyTarget(dp.kind, SelectDefault)
      <3>1. dp.kind \in Kinds BY DEF IInv, TypeOK, DpType
      <3>2. t \in DpType /\ t.alive = FALSE BY <3>1, ValueFacts, AnyTargetType
      <3>3. dp' = [t EXCEPT !.present = FALSE] BY <2>1 DEF Detach
      <3> HIDE DEF t
      <3> QED BY <3>2, <3>3 DEF DpType
    <2>2. CASE Attach
      BY <2>2, AnyTargetType DEF Attach
    <2> QED BY <2>1, <2>2
  <1>3. TypeOK' BY <1>1, <1>2 DEF IInv, TypeOK
  <1>4. SelectCoherent' /\ DpBankZero' BY <1>2 DEF SelectCoherent, DpBankZero
  <1>5. ConnectedFacts' /\ PowerCheckOn' /\ BootFacts'
    BY <1>1 DEF IInv, ConnectedFacts, PowerCheckOn, BootFacts
  <1> QED BY <1>3, <1>4, <1>5 DEF IInv

LEMMA InitInv == ASSUME Init PROVE IInv
  <1>1. InternalReset \in DrvType BY ValueFacts DEF InternalReset, DrvType
  <1>2. drv = InternalReset /\ obs = [linkErr |-> FALSE, raw |-> FALSE] /\ boot = Idle
        /\ last = NoOutcome
    BY DEF Init
  <1>3. dp \in DpType /\ dp.alive = FALSE BY AnyTargetType DEF Init
  <1>4. Idle \in BootType /\ Idle.at = "idle" BY DEF Idle, BootType
  <1>5. TypeOK BY <1>1, <1>2, <1>3, <1>4, NoOutcomeType DEF TypeOK, ObsType
  <1>6. SelectCoherent /\ DpBankZero BY <1>3 DEF SelectCoherent, DpBankZero
  <1>7. ConnectedFacts /\ PowerCheckOn
    BY <1>2 DEF InternalReset, ConnectedFacts, PowerCheckOn
  <1>8. BootFacts BY <1>2, <1>4 DEF BootFacts
  <1> QED BY <1>5, <1>6, <1>7, <1>8 DEF IInv

LEMMA NextInv == ASSUME IInv, [Next]_vars PROVE IInv'
  <1>1. CASE ConnectOps BY <1>1, ConnectInv
  <1>2. CASE StandardOps BY <1>2, StandardInv
  <1>3. CASE RawOps BY <1>3, RawInv
  <1>4. CASE Detach \/ Attach BY <1>4, EnvironmentInv
  <1>5. CASE UNCHANGED vars
    BY <1>5 DEF vars, IInv, TypeOK, SelectCoherent, Undisturbed, ConnectedFacts, PowerCheckOn,
                DpBankZero, BootFacts
  <1> QED BY <1>1, <1>2, <1>3, <1>4, <1>5 DEF Next

-----------------------------------------------------------------------------
(* The answers of the memory operations *)

\* What the two properties say of a recorded outcome l under the history o.
ReadFits(l, o) ==
  l.op \in {"read_mem", "check_mem_ap"} /\ l.ok /\ ~o.raw =>
    l.val.hit = l.arg.hit /\ (l.op = "read_mem" => l.val = l.arg)

WriteFits(l, o) ==
  l.op = "write_mem" /\ ~o.raw =>
    l.writes \subseteq {l.arg} /\ (l.ok => l.writes = {l.arg})

LEMMA FitsIsProperty ==
  /\ ReadReturnsRequested <=> ReadFits(last, obs)
  /\ WritesLandAsAsked <=> WriteFits(last, obs)
  BY DEF ReadReturnsRequested, WritesLandAsAsked, ReadFits, WriteFits

LEMMA NoOutcomeFits == ASSUME NEW o PROVE ReadFits(NoOutcome, o) /\ WriteFits(NoOutcome, o)
  BY DEF ReadFits, WriteFits, NoOutcome

LEMMA BeginClear ==
  ASSUME IInv, Undisturbed PROVE Clear(Begin) /\ Begin.writes = {}
  <1>1. Begin.writes = {} BY DEF Begin
  <1> QED BY <1>1, BeginGood DEF Clear, Undisturbed

LEMMA OutcomeFits ==
  ASSUME IInv, NEW op, NEW arg, NEW t, t.obs.raw = obs.raw,
         Undisturbed => ReadFits([op |-> op, arg |-> arg, ok |-> Ok(t), val |-> t.val,
                                  writes |-> t.writes], t.obs),
         Undisturbed => WriteFits([op |-> op, arg |-> arg, ok |-> Ok(t), val |-> t.val,
                                   writes |-> t.writes], t.obs)
  PROVE  ReadFits(Outcome(op, arg, t), t.obs) /\ WriteFits(Outcome(op, arg, t), t.obs)
  <1>1. CASE obs.linkErr BY <1>1, NoOutcomeFits DEF Outcome
  <1>2. CASE ~obs.linkErr /\ obs.raw
    BY <1>2 DEF ReadFits, WriteFits
  <1>3. CASE ~obs.linkErr /\ ~obs.raw
    BY <1>3 DEF Outcome, Undisturbed
  <1> QED BY <1>1, <1>2, <1>3

LEMMA StandardAnswers ==
  ASSUME IInv, StandardOps PROVE ReadFits(last', obs') /\ WriteFits(last', obs')
  <1>0. Begin \in Good /\ Ok(Begin) /\ Begin.obs = obs BY BeginGood
  <1>1. CASE last' = NoOutcome BY <1>1, NoOutcomeFits
  <1>2. CASE DoReadMem
    <2>1. PICK a \in Addrs : DoSeen("read_mem", Word(a), ReadMem(Begin, a)) BY <1>2 DEF DoReadMem
    <2>2. PICK t \in ReadMem(Begin, a) : Becomes(t) /\ last' = Outcome("read_mem", Word(a), t)
      BY <2>1 DEF DoSeen
    <2>3. obs' = t.obs BY <2>2 DEF Becomes
    <2>4. t.obs.raw = obs.raw BY <1>0, ReadMemReach DEF Reach, Keeps
    <2>5. Undisturbed /\ Ok(t) => t.val = Word(a) BY BeginClear, ReadMemSeen
    <2> QED BY <2>2, <2>3, <2>4, <2>5, OutcomeFits DEF ReadFits, WriteFits
  <1>3. CASE DoWriteMem
    <2>1. PICK a \in Addrs : DoSeen("write_mem", Word(a), WriteMem(Begin, a)) BY <1>3 DEF DoWriteMem
    <2>2. PICK t \in WriteMem(Begin, a) : Becomes(t) /\ last' = Outcome("write_mem", Word(a), t)
      BY <2>1 DEF DoSeen
    <2>3. obs' = t.obs BY <2>2 DEF Becomes
    <2>4. t.obs.raw = obs.raw BY <1>0, WriteMemReach DEF Reach, Keeps
    <2>5. Undisturbed => t.writes \subseteq {Word(a)} /\ (Ok(t) => t.writes = {Word(a)})
      BY BeginClear, WriteMemSeen
    <2> QED BY <2>2, <2>3, <2>4, <2>5, OutcomeFits DEF ReadFits, WriteFits
  <1>4. CASE DoCheckMemAp
    <2>1. PICK t \in ReadApRegister(Begin, IDR) :
            Becomes(t) /\ last' = Outcome("check_mem_ap", Reg(0, IDR), t)
      BY <1>4 DEF DoCheckMemAp, DoSeen
    <2>2. obs' = t.obs BY <2>1 DEF Becomes
    <2>3. IDR \in Regs BY DEF Regs
    <2>4. t.obs.raw = obs.raw BY <1>0, <2>3, ReadApReach DEF Reach, Keeps
    <2>5. Undisturbed /\ Ok(t) => t.val = [hit |-> OfMemAp(IDR), val |-> Content(Begin, OfMemAp(IDR))]
      BY <2>3, BeginClear, ReadApSeen
    <2>6. Undisturbed /\ Ok(t) => t.val.hit = Reg(0, IDR).hit BY <2>5 DEF OfMemAp, Reg
    <2> QED BY <2>1, <2>2, <2>4, <2>6, OutcomeFits DEF ReadFits, WriteFits
  <1>5. CASE DoKeepalive \/ DoClearErrors \/ DoSetAddrInc
    BY <1>1, <1>5 DEF DoKeepalive, DoClearErrors, DoSetAddrInc, Do
  <1> QED BY <1>2, <1>3, <1>4, <1>5 DEF StandardOps

\* Every other step forgets the outcome, or leaves it alone.
LEMMA OthersForget ==
  ASSUME ConnectOps \/ RawOps PROVE last' = NoOutcome
  BY DEF ConnectOps, RawOps, DoResetTarget, DoResetSwdTarget, DoDetect, DoResetMultidropTarget,
         DoRetry, DoRefreshMcu, DoEnablePort, DoConfigureMemAp, DoGetMcu, Attempt, Part, Do,
         DoRawReadDp, DoRawWriteDp, DoRawReadAp, DoRawWriteAp, DoRawBulk

LEMMA NextAnswers ==
  ASSUME IInv, ReadFits(last, obs), WriteFits(last, obs), [Next]_vars
  PROVE  ReadFits(last', obs') /\ WriteFits(last', obs')
  <1>1. CASE StandardOps BY <1>1, StandardAnswers
  <1>2. CASE ConnectOps \/ RawOps BY <1>2, OthersForget, NoOutcomeFits
  <1>3. CASE Detach \/ Attach BY <1>3 DEF Detach, Attach
  <1>4. CASE UNCHANGED vars BY <1>4 DEF vars
  <1> QED BY <1>1, <1>2, <1>3, <1>4 DEF Next

-----------------------------------------------------------------------------
(* Theorems *)

\* The inductive invariant, of which the next four are parts.
THEOREM Invariance == Spec => []IInv
  <1>1. Init => IInv BY InitInv
  <1>2. IInv /\ [Next]_vars => IInv' BY NextInv
  <1> QED BY <1>1, <1>2, PTL DEF Spec

\* Every field of the driver and of the target keeps its type.
THEOREM Typing == Spec => []TypeOK
  <1>1. IInv => TypeOK BY DEF IInv
  <1> QED BY <1>1, Invariance, PTL

\* check_and_update_dp_select compares with what the target's SELECT really
\* holds, whatever operations ran, failed or were retried before.
THEOREM Coherence == Spec => []SelectCoherent
  <1>1. IInv => SelectCoherent BY DEF IInv
  <1> QED BY <1>1, Invariance, PTL

\* is_connected() tells the truth about power, MEM-AP, MCU and version.
THEOREM Connected == Spec => []ConnectedFacts
  <1>1. IInv => ConnectedFacts BY DEF IInv
  <1> QED BY <1>1, Invariance, PTL

\* Only the raw operations switch the power check off, and a reset restores it.
THEOREM Gated == Spec => []PowerCheckOn
  <1>1. IInv => PowerCheckOn BY DEF IInv
  <1> QED BY <1>1, Invariance, PTL

LEMMA Answers == Spec => [](ReadFits(last, obs) /\ WriteFits(last, obs))
  <1>1. Init => ReadFits(last, obs) /\ WriteFits(last, obs) BY NoOutcomeFits DEF Init
  <1>2. IInv /\ (ReadFits(last, obs) /\ WriteFits(last, obs)) /\ [Next]_vars
          => (ReadFits(last, obs) /\ WriteFits(last, obs))'
    BY NextAnswers
  <1> QED BY <1>1, <1>2, Invariance, PTL DEF Spec

\* A read_mem or check_mem_ap that reports success, over a wire that had lost
\* nothing before, has returned the word or register it was asked for.
THEOREM ReadsReturn == Spec => []ReadReturnsRequested
  <1>1. ReadFits(last, obs) /\ WriteFits(last, obs) => ReadReturnsRequested BY FitsIsProperty
  <1> QED BY <1>1, Answers, PTL

\* A write_mem writes the word at its address or nothing, and never reports a
\* success it has not had.
THEOREM WritesLand == Spec => []WritesLandAsAsked
  <1>1. ReadFits(last, obs) /\ WriteFits(last, obs) => WritesLandAsAsked BY FitsIsProperty
  <1> QED BY <1>1, Answers, PTL
=============================================================================
