----------------------------- MODULE SwdTarget -----------------------------
(***************************************************************************)
(* The debug port (DP) and access ports (AP) of a target, as airfrog's     *)
(* SwdInterface meets them: what one SWD transaction may do to the target  *)
(* and what it may hand back.  The target is not part of the repository;   *)
(* it is modelled from how airfrog-swd/src/interface.rs drives it and from *)
(* the errors airfrog-swd/src/lib.rs says it can produce.                  *)
(*                                                                         *)
(* An operation is an operator from a state record st to the SET of the    *)
(* states it may end in, so an operation of the driver is a composition of *)
(* transactions, each with every outcome the wire can produce:             *)
(*   st.drv  the driver's own fields (SwdInterface)                        *)
(*   st.dp   the target                                                    *)
(*   st.obs  history the properties speak of, never read by an operation   *)
(*   st.writes the writes to a DRW that the target has carried out          *)
(*   st.err  "Ok" or the SwdError of the last step                         *)
(*   st.val  the AP register value last read, st.stat the CTRL/STAT value, *)
(*   st.found the MCU last identified                                      *)
(***************************************************************************)
EXTENDS Naturals

CONSTANTS
  APs,        \* access ports of the target; AP 0 is the MEM-AP
  NWords,     \* the target's memory has NWords words, addresses 0 .. NWords-1
  PageWords,  \* TAR increments within a page of PageWords words
  Kinds       \* kinds of target that may be attached, a subset of AllKinds

\* The IDCODE classes get_mcu() tells apart, and the multi-drop RP2040.
AllKinds == {"m4", "m0", "m33", "other", "rp"}

ASSUME TargetAssumption ==
  /\ APs \subseteq Nat
  /\ 0 \in APs
  /\ NWords \in Nat \ {0}
  /\ PageWords \in Nat \ {0} /\ NWords % PageWords = 0
  /\ Kinds \subseteq AllKinds

Addrs == 0 .. (NWords - 1)

\* AP registers by address (airfrog-core/src/arm/map.rs, ap.rs): bits 7:4
\* are the bank, held in SELECT; only bits 3:2 travel on the wire.
CSW == 0
TAR == 4
DRW == 12
IDR == 252
BankOf(reg) == reg \div 16
Offset(reg) == reg % 16

Banks == {0, 15}
Selects == [ap : APs, bank : Banks, dpbank : {0, 1}]
SelectDefault == [ap |-> 0, bank |-> 0, dpbank |-> 0]

CtrlStats == [error : BOOLEAN, power : BOOLEAN, readok : BOOLEAN]

Errors == {"WaitAck", "FaultAck", "NoAck", "ReadParity", "DpError",
           "OperationFailed", "NotReady"}

\* A value read is the register it came from and the register's content; the
\* content of DRW is the address it was read at.  NoVal: nothing was read.
NoVal == [hit |-> [ap |-> 0, reg |-> IDR], val |-> 0]
NoStat == [error |-> FALSE, power |-> FALSE, readok |-> FALSE]

\* The values read so far, which the step after next no longer uses.
Forget(st) == [st EXCEPT !.val = NoVal, !.stat = NoStat, !.dp.rdbuff = NoVal]

Ok(st) == st.err = "Ok"

\* The caller of a failed step gets its error and none of the values read.
Fail(st, e) == [Forget(st) EXCEPT !.err = e]

\* F applied to the states in which the steps so far succeeded: Rust's `?`.
Then(S, F(_)) == UNION {IF Ok(t) THEN F(t) ELSE {t} : t \in S}

-----------------------------------------------------------------------------
(* Outcomes of one transaction *)

\* No usable ACK: noise, or the target has gone (it then stays silent until
\* the next reset sequence).
Silent(st) ==
  {[Fail(st, "NoAck") EXCEPT !.obs.linkErr = TRUE, !.dp.alive = a] :
      a \in {st.dp.alive, FALSE}}

\* The data phase of a read: delivered, or damaged on the way to the host.
Deliver(st) == {st, [Fail(st, "ReadParity") EXCEPT !.obs.linkErr = TRUE]}

\* The data phase of a write, damaged on the way to the target: the target
\* drops the word and flags WDATAERR.
Damaged(st) == [st EXCEPT !.dp.sticky = TRUE]

Waits(st) == {Fail(st, "WaitAck")}

\* With a sticky flag set the target answers FAULT to all but IDCODE and
\* CTRL/STAT reads and ABORT writes.
Guarded(st, S) == IF st.dp.sticky THEN {Fail(st, "FaultAck")} ELSE Waits(st) \cup S

Transact(st, S) == Silent(st) \cup (IF st.dp.alive THEN S ELSE {})

-----------------------------------------------------------------------------
(* Debug port transactions *)

DpReadIdCode(st) == Transact(st, Deliver(st))

\* CTRL/STAT is bank 0 of DP address 4; with another DPBANKSEL the read
\* returns a different register, whose bits may look like anything.
DpReadCtrlStat(st) ==
  Transact(st, UNION {Deliver([st EXCEPT !.stat = s]) :
     s \in {s \in CtrlStats : st.dp.select.dpbank = 0 =>
                 s.error = st.dp.sticky /\ s.power = st.dp.power}})

DpReadRdBuff(st) ==
  Transact(st, Guarded(st, Deliver([st EXCEPT !.val = st.dp.rdbuff])))

DpWriteAbort(st) == Transact(st, {[st EXCEPT !.dp.sticky = FALSE], Damaged(st)})

DpWriteSelect(st, sel) ==
  Transact(st, Guarded(st, {[st EXCEPT !.dp.select = sel], Damaged(st)}))

\* Power-up requests are granted or not.
DpWriteCtrlStat(st) ==
  Transact(st, Guarded(st,
    {Damaged(st)} \cup
    {[st EXCEPT !.dp.power = p] :
        p \in IF st.dp.select.dpbank = 0 THEN BOOLEAN ELSE {st.dp.power}}))

-----------------------------------------------------------------------------
(* Access port transactions: the register hit is the one SELECT and the    *)
(* two address bits on the wire name, whatever register was meant.         *)

Hit(st, reg) == [ap |-> st.dp.select.ap, reg |-> 16 * st.dp.select.bank + Offset(reg)]
MemAp(h, reg) == h = [ap |-> 0, reg |-> reg]

\* The word after a, or the first of a's page when a is its last.
NextInPage(a) == IF (a + 1) % PageWords = 0 THEN a + 1 - PageWords ELSE a + 1

\* After a DRW access TAR moves on when CSW.AddrInc says so.
NextTar(st) == IF st.dp.inc THEN NextInPage(st.dp.tar) ELSE st.dp.tar

Content(st, h) ==
  CASE MemAp(h, CSW) -> IF st.dp.inc THEN 1 ELSE 0
    [] MemAp(h, TAR) -> st.dp.tar
    [] MemAp(h, DRW) -> st.dp.tar
    [] OTHER         -> 0

\* An AP access the bus refuses, or one without debug power, is
\* acknowledged or faulted and leaves a sticky error.
BusFault(st) ==
  {[st EXCEPT !.dp.sticky = TRUE], [Fail(st, "FaultAck") EXCEPT !.dp.sticky = TRUE]}

\* The value read is posted to RDBUFF; the transaction itself returns the
\* result of the access before.
ApRead(st, reg) ==
  LET h == Hit(st, reg)
      before == [st EXCEPT !.val = st.dp.rdbuff]
      posted == [before EXCEPT !.dp.rdbuff = [hit |-> h, val |-> Content(st, h)],
                               !.dp.tar = IF MemAp(h, DRW) THEN NextTar(st) ELSE @]
  IN  Transact(st, Guarded(st, BusFault(before) \cup
        (IF st.dp.power THEN Deliver(posted) ELSE {})))

ApWrite(st, reg, v) ==
  LET h == Hit(st, reg)
      done == [st EXCEPT !.dp.inc = IF MemAp(h, CSW) THEN v = 1 ELSE @,
                         !.dp.tar = CASE MemAp(h, TAR) -> v
                                      [] MemAp(h, DRW) -> NextTar(st)
                                      [] OTHER -> @,
                         !.writes = IF Offset(reg) = DRW
                                    THEN @ \cup {[hit |-> h, val |-> st.dp.tar]}
                                    ELSE @]
  IN  Transact(st, Guarded(st, BusFault(st) \cup {Damaged(st)} \cup
        (IF st.dp.power THEN {done} ELSE {})))

-----------------------------------------------------------------------------
(* Line resets *)

\* A line reset and the selection sequences before it: the targets the
\* sequence addresses may start to answer.  A line reset returns DPBANKSEL
\* to 0; APSEL, APBANKSEL, power and CSW stay as they were.
LineReset(st, addressed) ==
  {[st EXCEPT !.dp.alive = a, !.dp.select.dpbank = 0] :
      a \in IF st.dp.present /\ addressed THEN BOOLEAN ELSE {FALSE}}
=============================================================================
