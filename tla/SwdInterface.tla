---------------------------- MODULE SwdInterface ----------------------------
(***************************************************************************)
(* airfrog-swd/src/interface.rs: the SwdInterface object, which caches     *)
(* parts of the target's debug port (SELECT, power, AddrInc) and builds    *)
(* register and memory operations from SWD transactions, and the recovery  *)
(* sequence of airfrog-swd/src/debug.rs built on it.                       *)
(*                                                                         *)
(* One action per public operation.  The object is owned by one task and   *)
(* its methods never run concurrently, so an operation is one step; what   *)
(* the target does in the middle of it is in the outcomes of its           *)
(* transactions (SwdTarget).                                               *)
(***************************************************************************)
EXTENDS SwdTarget

CONSTANT RawApi   \* whether callers use the raw operations at all

ASSUME RawApiAssumption == RawApi \in BOOLEAN

VARIABLES drv, dp, obs, boot, last

vars == <<drv, dp, obs, boot, last>>

None == "None"

-----------------------------------------------------------------------------
(* Internal state *)

InternalReset ==
  [idcode |-> None, mcu |-> None, idr |-> FALSE, powered_up |-> FALSE,
   dp_select |-> SelectDefault, addr_inc |-> FALSE, check_power |-> TRUE,
   reset_version |-> None]

\* Mutants: a reset that forgets to clear one of the cached facts.
ResetKeepsIdcode(st) ==
  [st EXCEPT !.drv = [InternalReset EXCEPT !.idcode = st.drv.idcode],
             !.obs.linkErr = FALSE, !.obs.raw = FALSE]

ResetKeepsCheckPower(st) ==
  [st EXCEPT !.drv = [InternalReset EXCEPT !.check_power = st.drv.check_power],
             !.obs.linkErr = FALSE, !.obs.raw = FALSE]

\* History: linkErr - since the last reset sequence a transaction got no
\* ACK or bad read parity; raw - since then the raw API was used.
ResetInternalState(st) ==
  [st EXCEPT !.drv = InternalReset, !.obs.linkErr = FALSE, !.obs.raw = FALSE]

-----------------------------------------------------------------------------
(* Register operations *)

CheckDpErrors(st, check_read_ok) ==
  Then(DpReadCtrlStat(st), LAMBDA t :
    {IF t.stat.error \/ (check_read_ok /\ ~t.stat.readok) THEN Fail(t, "DpError")
     ELSE [t EXCEPT !.stat = NoStat]})

\* Mutant: the value is cached before the write is known to have landed.
UpdateDpSelectEarly(st, sel) ==
  Then(DpWriteSelect(st, sel), LAMBDA t : CheckDpErrors([t EXCEPT !.drv.dp_select = sel], FALSE))

UpdateDpSelect(st, sel) ==
  Then(DpWriteSelect(st, sel), LAMBDA t :
  Then(CheckDpErrors(t, FALSE), LAMBDA u :
    {[u EXCEPT !.drv.dp_select = sel]}))

\* check_dp_select compares the bank the operation needs with the cached
\* SELECT; the new value is built from Select::default(), so AP 0.
CheckSelectAp(st, reg) ==
  IF st.drv.dp_select.bank = BankOf(reg) THEN {st}
  ELSE UpdateDpSelect(st, [SelectDefault EXCEPT !.bank = BankOf(reg)])

CheckSelectDp(st) ==
  IF st.drv.dp_select.dpbank = 0 THEN {st} ELSE UpdateDpSelect(st, SelectDefault)

PowerGate(st) ==
  {IF st.drv.check_power /\ ~st.drv.powered_up THEN Fail(st, "NotReady") ELSE st}

\* Mutant: CTRL/STAT is not checked after the write.
WriteApUnchecked(st, reg, v) ==
  Then(PowerGate(st), LAMBDA t :
  Then(CheckSelectAp(t, reg), LAMBDA u : ApWrite(u, reg, v)))

WriteApRegister(st, reg, v) ==
  Then(PowerGate(st), LAMBDA t :
  Then(CheckSelectAp(t, reg), LAMBDA u :
  Then(ApWrite(u, reg, v), LAMBDA w : CheckDpErrors(w, FALSE))))

\* Mutant: the value of the AP transaction itself, RDBUFF not read.
ReadApUnposted(st, reg) ==
  Then(PowerGate(st), LAMBDA t :
  Then(CheckSelectAp(t, reg), LAMBDA u :
  Then(ApRead(u, reg), LAMBDA w : CheckDpErrors(w, TRUE))))

ReadApRegister(st, reg) ==
  Then(PowerGate(st), LAMBDA t :
  Then(CheckSelectAp(t, reg), LAMBDA u :
  Then(ApRead(u, reg), LAMBDA w :
  Then(CheckDpErrors(w, TRUE), LAMBDA x : DpReadRdBuff(x)))))

WriteCtrlStat(st) ==
  Then(CheckSelectDp(st), LAMBDA t :
  Then(DpWriteCtrlStat(t), LAMBDA u : CheckDpErrors(u, FALSE)))

ReadCtrlStat(st) == Then(CheckSelectDp(st), LAMBDA t : DpReadCtrlStat(t))

ClearErrors(st) == Then(DpWriteAbort(st), LAMBDA t : CheckDpErrors(t, FALSE))

-----------------------------------------------------------------------------
(* Memory *)

SetTar(st, addr) ==
  Then(WriteApRegister(st, TAR, addr), LAMBDA t :
  Then(ReadApRegister(t, TAR), LAMBDA u :
    {IF u.val.val # addr THEN Fail(u, "OperationFailed") ELSE Forget(u)}))

ReadMem(st, addr) == Then(SetTar(st, addr), LAMBDA t : ReadApRegister(t, DRW))

WriteMem(st, addr) == Then(SetTar(st, addr), LAMBDA t : WriteApRegister(t, DRW, 0))

AsBit(b) == IF b THEN 1 ELSE 0

SetAddrInc(st, on) ==
  Then(ReadApRegister(st, CSW), LAMBDA t :
    IF t.val.val = AsBit(on) THEN {t}
    ELSE Then(WriteApRegister(t, CSW, AsBit(on)), LAMBDA u :
         Then(ReadApRegister(u, CSW), LAMBDA w :
           {IF w.val.val # AsBit(on) THEN Fail(w, "OperationFailed") ELSE w})))

-----------------------------------------------------------------------------
(* Bringing the target up *)

CheckVersion(st) ==
  {IF st.drv.mcu \in {None, "Unknown"} /\ st.drv.reset_version = None
   THEN Fail(st, "NotReady") ELSE st}

PowerUpDebugDomain(st) ==
  Then(CheckVersion(st), LAMBDA t :
  Then(UpdateDpSelect(t, SelectDefault), LAMBDA u :
  Then(WriteCtrlStat(u), LAMBDA w :
  Then(ReadCtrlStat(w), LAMBDA x :
    {IF x.stat.power THEN [x EXCEPT !.drv.powered_up = TRUE]
     ELSE Fail(x, "OperationFailed")}))))

ConfigureMemAp(st) ==
  Then(PowerGate(st), LAMBDA r :
  Then(ReadApRegister(r, CSW), LAMBDA t :
  Then(WriteApRegister(t, CSW, AsBit(t.drv.addr_inc)), LAMBDA u :
  Then(ReadApRegister(u, CSW), LAMBDA w :
  Then(ReadApRegister([w EXCEPT !.drv.addr_inc = (w.val.val # 0)], IDR), LAMBDA x :
    {[x EXCEPT !.drv.idr = TRUE]})))))

\* Identification reads.  Their data is abstracted: the family read may be
\* one this build knows or not, the RP2040 ids match or not.
IdAddr == 0
DetailAddr == NWords - 1

Named(st, m) == [st EXCEPT !.found = m]

\* Unique id and flash size, for families that have them; the three id words
\* are one read here.
StmDetails(st) ==
  {Named(st, "Stm32")} \cup
  Then(ReadMem(st, DetailAddr), LAMBDA t :
  Then(ReadMem(t, DetailAddr), LAMBDA u : {Named(u, "Stm32")}))

\* `if let Ok(data) = self.read_mem(..)` swallows the error and goes on.
ProbeG0(st, F(_)) ==
  UNION {IF Ok(t) THEN StmDetails(t) \cup F(t) ELSE F([t EXCEPT !.err = "Ok"]) :
           t \in ReadMem(st, IdAddr)}

ProbeRp(st) ==
  Then(ReadMem(st, DetailAddr), LAMBDA t :
  Then(ReadMem(t, DetailAddr), LAMBDA u : {Named(u, "Rp"), Named(u, "Unknown")}))

GetMcu(st, idcode) ==
  CASE idcode = "m4"  -> Then(ReadMem(st, IdAddr), LAMBDA t : StmDetails(t))
    [] idcode = "m0"  -> ProbeG0(st, LAMBDA t : ProbeRp(t))
    [] idcode = "m33" -> {Named(st, "Unknown")}
    [] OTHER          -> ProbeG0(st, LAMBDA t : {Named(t, "Unknown")})

\* The IDCODE a target of this kind reports; the RP2040 is a Cortex-M0+.
IdCodeOf(st) == IF st.dp.kind = "rp" THEN "m0" ELSE st.dp.kind

\* TARGETSEL 0xFFFFFFFF, written after a V1 reset, silences multi-drop targets.
ResetTarget(st, version) ==
  UNION {DpReadIdCode(s) :
           s \in LineReset(ResetInternalState(st), version = "V2" \/ st.dp.kind # "rp")}

\* reset_detect_multidrop selects each known id in turn and reads its IDCODE,
\* ignoring errors; what is found first is chosen in Detect below.
ResetDetectMultidrop(st) == LineReset(ResetInternalState(st), TRUE)

ResetMultidropTarget(st) == UNION {DpReadIdCode(s) : s \in LineReset(ResetInternalState(st), TRUE)}

\* The three parts of enable_target.
EnablePort(st) ==
  Then(ClearErrors(st), LAMBDA t :
  Then(DpReadRdBuff(t), LAMBDA u : PowerUpDebugDomain(u)))

\* On error the internal state is cleared; the wire history is kept.
Keepalive(st) ==
  {IF Ok(t) THEN t ELSE [t EXCEPT !.drv = InternalReset] : t \in DpReadIdCode(st)}

-----------------------------------------------------------------------------
(* Raw register access *)

\* Of an interface used raw nothing is promised that a disturbed wire breaks.
Taint(st) == [st EXCEPT !.obs.raw = TRUE, !.obs.linkErr = TRUE]
CheckPower(st, b) == [st EXCEPT !.drv.check_power = b]

RawDpTransaction(st, off) ==
  CASE off = 0 -> DpReadIdCode(st)
    [] off = 4 -> DpReadCtrlStat(st)
    [] OTHER   -> DpReadRdBuff(st)

ReadDpRegisterRaw(st, off) == {CheckPower(t, TRUE) : t \in RawDpTransaction(st, off)}

\* A SELECT write that was acknowledged is cached, unchecked.
WriteDpRegisterRaw(st, off, sel) ==
  {CheckPower(t, TRUE) : t \in
     CASE off = 0 -> DpWriteAbort(Taint(st))
       [] off = 4 -> DpWriteCtrlStat(Taint(st))
       [] OTHER   -> Then(DpWriteSelect(Taint(st), sel), LAMBDA u :
                          {[u EXCEPT !.drv.dp_select = sel]})}

RawSelect(st, ap, reg) ==
  LET sel == [st.drv.dp_select EXCEPT !.ap = ap, !.bank = BankOf(reg)]
  IN  IF sel = st.drv.dp_select THEN {st} ELSE UpdateDpSelect(st, sel)

\* The power check is switched off first and on again on the error paths
\* only.
RawEpilogue(S) == {IF Ok(t) THEN t ELSE CheckPower(t, TRUE) : t \in S}

ReadApRegisterRaw(st, ap, reg) ==
  RawEpilogue(Then(RawSelect(CheckPower(Taint(st), FALSE), ap, reg), LAMBDA t :
              Then(ApRead(t, reg), LAMBDA u : DpReadRdBuff(u))))

WriteApRegisterRaw(st, ap, reg, v) ==
  RawEpilogue(Then(RawSelect(CheckPower(Taint(st), FALSE), ap, reg), LAMBDA t :
              ApWrite(t, reg, v)))

\* read_drw_bulk and write_drw_bulk, fast, with two words for any number of
\* them: whatever register was asked for, the words are DRW's, and SELECT is put
\* right for its bank.
ReadDrwBulk(st) ==
  Then(CheckSelectAp(st, DRW), LAMBDA t :
  Then(ApRead(t, DRW), LAMBDA u :
  Then(ApRead(u, DRW), LAMBDA w :
  Then(DpReadRdBuff(w), LAMBDA x : CheckDpErrors(x, TRUE)))))

WriteDrwWord(st) == Then(ApWrite(st, DRW, 0), LAMBDA t : CheckDpErrors(t, FALSE))

WriteDrwBulk(st) ==
  Then(CheckSelectAp(st, DRW), LAMBDA t :
  Then(WriteDrwWord(t), LAMBDA u :
  Then(WriteDrwWord(u), LAMBDA w : CheckDpErrors(w, FALSE))))

ReadApRegisterRawBulk(st, ap, reg) ==
  RawEpilogue(Then(RawSelect(CheckPower(Taint(st), FALSE), ap, reg), LAMBDA t : ReadDrwBulk(t)))

WriteApRegisterRawBulk(st, ap, reg) ==
  RawEpilogue(Then(RawSelect(CheckPower(Taint(st), FALSE), ap, reg), LAMBDA t : WriteDrwBulk(t)))

\* Their callers put the address increment on; those of the REST API off again,
\* whatever became of the words.  The result is that of the words: nobody here
\* asks for it.
ThenIncOff(S) == UNION {SetAddrInc([t EXCEPT !.err = "Ok"], FALSE) : t \in S}

RestRawBulkRead(st, ap, reg) ==
  Then(SetAddrInc(st, TRUE), LAMBDA t : ThenIncOff(ReadApRegisterRawBulk(t, ap, reg)))

RestRawBulkWrite(st, ap, reg) ==
  Then(SetAddrInc(st, TRUE), LAMBDA t : ThenIncOff(WriteApRegisterRawBulk(t, ap, reg)))

BinRawBulkRead(st, reg) == Then(SetAddrInc(st, TRUE), LAMBDA t : ReadApRegisterRawBulk(t, 0, reg))
BinRawBulkWrite(st, reg) == Then(SetAddrInc(st, TRUE), LAMBDA t : WriteApRegisterRawBulk(t, 0, reg))

-----------------------------------------------------------------------------
(* The specification *)

\* The state an operation starts from.  What earlier reads left behind is
\* forgotten: no operation uses it.
Begin ==
  [drv |-> drv, dp |-> dp, obs |-> obs, writes |-> {},
   err |-> "Ok", val |-> NoVal, found |-> None, stat |-> NoStat]

Becomes(t) ==
  /\ drv' = t.drv
  /\ dp' = [t.dp EXCEPT !.rdbuff = NoVal]
  /\ obs' = t.obs

\* What an operation asks for: the memory word at a, the register reg of ap.
Reg(ap, reg) == [hit |-> [ap |-> ap, reg |-> reg], val |-> 0]
Word(a) == [hit |-> [ap |-> 0, reg |-> DRW], val |-> a]

\* History: what the last memory operation was asked, returned and
\* made the target write; kept as long as the wire has done no damage.
NoOutcome == [op |-> "none", arg |-> NoVal, ok |-> FALSE, val |-> NoVal, writes |-> {}]

Outcome(op, arg, t) ==
  IF obs.linkErr THEN NoOutcome
  ELSE [op |-> op, arg |-> arg, ok |-> Ok(t), val |-> t.val, writes |-> t.writes]

\* An operation that runs to its end in one step.
Do(S) ==
  /\ boot.at = "idle"
  /\ \E t \in S : Becomes(t)
  /\ last' = NoOutcome
  /\ UNCHANGED boot

\* The same, with its outcome recorded.
DoSeen(op, arg, S) ==
  /\ boot.at = "idle"
  /\ \E t \in S : Becomes(t) /\ last' = Outcome(op, arg, t)
  /\ UNCHANGED boot

-----------------------------------------------------------------------------
(* Connecting takes several steps: boot.at is the part that runs next,     *)
(* boot.how the reset being tried, boot.chain whether reset_swd_target is  *)
(* the caller and tries the others when this one fails.                    *)

Idle == [at |-> "idle", how |-> None, chain |-> FALSE, idcode |-> None]

\* reset_swd_target tries V1, then multi-drop, then V2.
AfterFailure(b) ==
  CASE b.chain /\ b.how = "V1"    -> [b EXCEPT !.at = "detect"]
    [] b.chain /\ b.how = "Multi" -> [b EXCEPT !.at = "retry"]
    [] OTHER                      -> Idle

\* One part of attempt b, followed by next.  A reset that fails forgets the
\* version, a refresh does not.
Part(S, b, next) ==
  \E t \in S :
    /\ Becomes(IF Ok(t) \/ b.how = "Refresh" THEN t ELSE [t EXCEPT !.drv.reset_version = None])
    /\ boot' = IF Ok(t) THEN next ELSE AfterFailure(b)
    /\ last' = NoOutcome

\* The reset sequence and IDCODE read that start an attempt.
Attempt(S, how, version, chain) ==
  LET b == [at |-> "enable", how |-> how, chain |-> chain, idcode |-> IdCodeOf(Begin)]
  IN  Part({IF Ok(t) THEN [t EXCEPT !.drv.reset_version = version] ELSE t : t \in S}, b, b)

DoResetTarget ==
  /\ boot.at = "idle"
  /\ \E v \in {"V1", "V2"} : Attempt(ResetTarget(Begin, v), v, v, FALSE)

DoResetSwdTarget ==
  /\ boot.at = "idle"
  /\ Attempt(ResetTarget(Begin, "V1"), "V1", "V1", TRUE)

\* Nothing answers, or the target, or the RP2040's rescue DP first: then
\* reset_swd_target gives up.
DoDetect ==
  /\ boot.at = "detect"
  /\ \E s \in ResetDetectMultidrop(Begin) :
       /\ Becomes(s)
       /\ \/ boot' = [boot EXCEPT !.at = "retry"]
          \/ s.dp.alive /\ boot' = [boot EXCEPT !.at = "found"]
          \/ s.dp.present /\ s.dp.kind = "rp" /\ boot' = Idle
  /\ last' = NoOutcome

DoResetMultidropTarget ==
  /\ boot.at = "found"
  /\ Attempt(ResetMultidropTarget(Begin), "Multi", "V2", TRUE)

DoRetry ==
  /\ boot.at = "retry"
  /\ Attempt(ResetTarget(Begin, "V2"), "V2", "V2", TRUE)

DoRefreshMcu ==
  /\ boot.at = "idle"
  /\ boot' = IF drv.idcode = None THEN Idle
             ELSE [at |-> "enable", how |-> "Refresh", chain |-> FALSE, idcode |-> drv.idcode]
  /\ last' = NoOutcome
  /\ UNCHANGED <<drv, dp, obs>>

DoEnablePort ==
  /\ boot.at = "enable"
  /\ Part(EnablePort(Begin), boot, [boot EXCEPT !.at = "mem_ap"])

DoConfigureMemAp ==
  /\ boot.at = "mem_ap"
  /\ Part(ConfigureMemAp(Begin), boot, [boot EXCEPT !.at = "mcu"])

DoGetMcu ==
  /\ boot.at = "mcu"
  /\ Part({IF Ok(t) THEN [t EXCEPT !.drv.mcu = t.found, !.drv.idcode = boot.idcode] ELSE t :
             t \in GetMcu(Begin, boot.idcode)}, boot, Idle)

-----------------------------------------------------------------------------
(* The other operations *)

DoKeepalive == Do(Keepalive(Begin))
DoClearErrors == Do(ClearErrors(Begin))
DoSetAddrInc == \E b \in BOOLEAN : Do(SetAddrInc(Begin, b))
DoReadMem == \E a \in Addrs : DoSeen("read_mem", Word(a), ReadMem(Begin, a))
DoWriteMem == \E a \in Addrs : DoSeen("write_mem", Word(a), WriteMem(Begin, a))
DoCheckMemAp == DoSeen("check_mem_ap", Reg(0, IDR), ReadApRegister(Begin, IDR))

DoRawReadDp == \E r \in {0, 4, 12} : Do(ReadDpRegisterRaw(Begin, r))
DoRawWriteDp ==
  \/ \E r \in {0, 4} : Do(WriteDpRegisterRaw(Begin, r, SelectDefault))
  \/ \E sel \in Selects : Do(WriteDpRegisterRaw(Begin, 8, sel))
DoRawReadAp ==
  \E ap \in APs, r \in {CSW, TAR, DRW, IDR} : Do(ReadApRegisterRaw(Begin, ap, r))
DoRawWriteAp ==
  \E ap \in APs, r \in {CSW, TAR, DRW} : Do(WriteApRegisterRaw(Begin, ap, r, 1 % NWords))

DoRawBulk ==
  \E r \in {TAR, IDR} :
    \/ Do(BinRawBulkRead(Begin, r)) \/ Do(BinRawBulkWrite(Begin, r))
    \/ \E ap \in APs : Do(RestRawBulkRead(Begin, ap, r)) \/ Do(RestRawBulkWrite(Begin, ap, r))

\* A target nobody has reset yet; SELECT as whoever debugged it last left it.
AnyTarget(kind, sel) ==
  [present |-> TRUE, kind |-> kind, alive |-> FALSE, select |-> sel, sticky |-> FALSE,
   power |-> FALSE, inc |-> FALSE, tar |-> 0, rdbuff |-> NoVal]

\* The target is unplugged or loses power; it stops answering, and another
\* one is attached later.
Detach ==
  /\ dp.present
  /\ dp' = [AnyTarget(dp.kind, SelectDefault) EXCEPT !.present = FALSE]
  /\ UNCHANGED <<drv, obs, boot, last>>

Attach ==
  /\ ~dp.present
  /\ \E k \in Kinds, sel \in Selects : dp' = AnyTarget(k, sel)
  /\ UNCHANGED <<drv, obs, boot, last>>

Init ==
  /\ drv = InternalReset
  /\ obs = [linkErr |-> FALSE, raw |-> FALSE]
  /\ boot = Idle
  /\ last = NoOutcome
  /\ \E k \in Kinds, sel \in Selects : dp = AnyTarget(k, sel)

ConnectOps ==
  \/ DoResetTarget \/ DoResetSwdTarget \/ DoDetect \/ DoResetMultidropTarget \/ DoRetry
  \/ DoRefreshMcu \/ DoEnablePort \/ DoConfigureMemAp \/ DoGetMcu

StandardOps ==
  \/ DoKeepalive \/ DoClearErrors \/ DoReadMem \/ DoWriteMem \/ DoSetAddrInc \/ DoCheckMemAp

RawOps == RawApi /\ (DoRawReadDp \/ DoRawWriteDp \/ DoRawReadAp \/ DoRawWriteAp \/ DoRawBulk)

Next == ConnectOps \/ StandardOps \/ RawOps \/ Detach \/ Attach

Spec == Init /\ [][Next]_vars
-----------------------------------------------------------------------------
(* Properties *)

Mcus == {"Stm32", "Rp", "Unknown"}
Versions == {"V1", "V2"}
Hits == [ap : APs, reg : 0 .. 255]
Readings == [hit : Hits, val : 0 .. NWords]

DrvType ==
  [idcode : AllKinds \cup {None}, mcu : Mcus \cup {None}, idr : BOOLEAN, powered_up : BOOLEAN,
   dp_select : Selects, addr_inc : BOOLEAN, check_power : BOOLEAN,
   reset_version : Versions \cup {None}]

DpType ==
  [present : BOOLEAN, kind : Kinds, alive : BOOLEAN, select : Selects, sticky : BOOLEAN,
   power : BOOLEAN, inc : BOOLEAN, tar : Addrs, rdbuff : Readings]

ObsType == [linkErr : BOOLEAN, raw : BOOLEAN]

BootType ==
  [at : {"idle", "enable", "mem_ap", "mcu", "detect", "found", "retry"},
   how : {None, "V1", "Multi", "V2", "Refresh"}, chain : BOOLEAN,
   idcode : AllKinds \cup {None}]

LastType ==
  [op : {"none", "read_mem", "write_mem", "check_mem_ap"}, arg : Readings,
   ok : BOOLEAN, val : Readings, writes : SUBSET Readings]

\* Every field holds a value of its type, in every state an operation leaves.
TypeOK ==
  /\ drv \in DrvType
  /\ dp \in DpType
  /\ obs \in ObsType
  /\ boot \in BootType
  /\ last \in LastType

\* Standard operations since the last reset sequence, over a wire that
\* delivered every acknowledgement and every parity.
Undisturbed == ~obs.raw /\ ~obs.linkErr

\* The cached SELECT, by which check_and_update_dp_select decides whether to
\* write the register, is the target's, and names AP 0 and DP bank 0: else
\* every later AP access would reach another register than the one asked for.
SelectCoherent ==
  drv.powered_up /\ dp.alive /\ Undisturbed =>
    /\ drv.dp_select = dp.select
    /\ dp.select.ap = 0
    /\ dp.select.dpbank = 0

\* is_connected() (an IDCODE is known) promises callers that the debug domain
\* was powered up, the MEM-AP identified, the MCU named and the reset version
\* kept, whatever operations failed in between.
ConnectedFacts ==
  drv.idcode # None =>
    /\ drv.powered_up
    /\ drv.idr
    /\ drv.mcu # None
    /\ drv.reset_version # None

\* The check that AP accesses wait for power-up, which the raw operations
\* switch off and may leave off, is on again after any reset sequence.
PowerCheckOn == ~obs.raw => drv.check_power

\* A successful read_mem returns the word at its address, a successful
\* check_mem_ap the IDR of the MEM-AP: never another register of another bank
\* or AP, a stale RDBUFF or a word of another target.
ReadReturnsRequested ==
  last.op \in {"read_mem", "check_mem_ap"} /\ last.ok /\ ~obs.raw => last.val.hit = last.arg.hit
                                         /\ (last.op = "read_mem" => last.val = last.arg)

\* write_mem changes the word at its address or nothing, also when it fails
\* half way, and has changed it when it reports success.
WritesLandAsAsked ==
  last.op = "write_mem" /\ ~obs.raw =>
    /\ last.writes \subseteq {last.arg}
    /\ last.ok => last.writes = {last.arg}

\* Inductive strengthening: only raw operations select another DP bank, and
\* what a connection attempt has established so far is still there.
DpBankZero == dp.alive /\ ~obs.raw => dp.select.dpbank = 0

BootFacts ==
  /\ boot.at \in {"enable", "mem_ap", "mcu"} =>
       /\ boot.idcode # None
       /\ drv.reset_version # None
       /\ boot.how # "Refresh" => drv.idcode = None
  /\ boot.at \in {"mem_ap", "mcu"} => drv.powered_up
  /\ boot.at = "mcu" => drv.idr

IInv ==
  TypeOK /\ SelectCoherent /\ ConnectedFacts /\ PowerCheckOn /\ DpBankZero /\ BootFacts
=============================================================================
