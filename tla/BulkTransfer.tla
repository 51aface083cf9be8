---------------------------- MODULE BulkTransfer ----------------------------
(***************************************************************************)
(* Bulk memory transfers: read_mem_bulk and write_mem_bulk of              *)
(* airfrog-swd/src/interface.rs, with the switching of AddrInc that        *)
(* airfrog-swd/src/debug.rs puts around them, among all other operations   *)
(* of SwdInterface.                                                        *)
(*                                                                         *)
(* A transfer is cut into chunks that end at a page boundary, where the    *)
(* target's auto-increment wraps.  Reads are posted: an AP read returns    *)
(* the word of the read before, the last word comes from RDBUFF.  A step   *)
(* is one word, so that the target may go away between two of them.        *)
(***************************************************************************)
EXTENDS SwdInterface, Sequences, SequencesExt

CONSTANT MaxLen   \* words of the longest transfer

ASSUME MaxLenAssumption == MaxLen \in Nat

VARIABLE xfer     \* the transfer under way, or its result

\* moved is the words stored in the caller's buffer, or a history of those the
\* target has written; clean is a history: nothing had disturbed the driver
\* when the transfer began.
NoXfer ==
  [at |-> "idle", op |-> "none", addr |-> 0, len |-> 0, fast |-> FALSE, todo |-> 0,
   count |-> 0, ok |-> FALSE, moved |-> <<>>, clean |-> FALSE]

Running == xfer.at # "idle"

\* The address of the next word; u32 arithmetic wraps, as does the model's memory.
Next32(x) == (x.addr + x.count) % NWords

\* Mutant: the page boundary is ignored.
WholeTransfer(x) == x.len - x.count

\* Words to the page boundary, or to the end of the transfer.
ChunkSize(x) ==
  LET boundary_offset == PageWords - (Next32(x) % PageWords)
      remaining == x.len - x.count
  IN  IF remaining < boundary_offset THEN remaining ELSE boundary_offset

\* Where a transfer goes on when a chunk is done.
ChunkDone(x) == [x EXCEPT !.at = IF x.count = x.len THEN "inc_off" ELSE "chunk"]

\* Where it goes on when a word is done; a fast transfer checks for errors
\* once more at the end of its chunk.
WordDone(x) ==
  LET y == [x EXCEPT !.count = @ + 1, !.todo = @ - 1]
  IN  IF y.todo > 0 THEN y
      ELSE IF y.fast THEN [y EXCEPT !.at = "check"]
      ELSE ChunkDone(y)

\* x after a step whose transactions ended in t; the words a failed step made
\* the target write are written, but not counted.
Written(x, t) == IF x.op = "write" THEN [x EXCEPT !.moved = @ \o SetToSeq(t.writes)] ELSE x

Failed(x, t) == [Written(x, t) EXCEPT !.ok = FALSE, !.at = "inc_off"]

\* One step of the transfer: the outcomes of its transactions, and how it
\* goes on when they succeed.  RDBUFF is kept for the next word.
XferStep(S, Succeeded(_)) ==
  \E t \in S :
    /\ drv' = t.drv /\ dp' = t.dp /\ obs' = t.obs
    /\ xfer' = IF Ok(t) THEN Succeeded(t) ELSE Failed(xfer, t)
    /\ UNCHANGED <<boot, last>>

-----------------------------------------------------------------------------
(* Steps of a transfer *)

BulkStart ==
  /\ ~Running /\ boot.at = "idle"
  /\ \E op \in {"read", "write"}, addr \in Addrs, len \in 0 .. MaxLen, fast \in BOOLEAN :
       xfer' = [NoXfer EXCEPT !.at = "inc_on", !.op = op, !.addr = addr, !.len = len,
                              !.fast = fast, !.clean = Undisturbed]
  /\ last' = NoOutcome
  /\ UNCHANGED <<drv, dp, obs, boot>>

\* When AddrInc cannot be switched on the caller gets the error at once.
BulkIncOn ==
  /\ xfer.at = "inc_on"
  /\ \E t \in SetAddrInc(Begin, TRUE) :
       /\ Becomes(t)
       /\ xfer' = IF Ok(t) THEN [ChunkDone(xfer) EXCEPT !.ok = TRUE]
                  ELSE [xfer EXCEPT !.at = "done"]
  /\ UNCHANGED <<boot, last>>

\* Set TAR, select DRW, and for a read post the first AP read, whose value is
\* that of an earlier access.
BeginChunk(x) ==
  Then(WriteApRegister(Begin, TAR, Next32(x)), LAMBDA t :
  Then(CheckSelectAp(t, DRW), LAMBDA u :
    IF x.op = "read" THEN ApRead(u, DRW) ELSE {u}))

BulkChunk ==
  /\ xfer.at = "chunk"
  /\ XferStep(BeginChunk(xfer),
              LAMBDA t : [Written(xfer, t) EXCEPT !.at = "word", !.todo = ChunkSize(xfer)])

CheckedUnless(fast, S, check_read_ok) ==
  IF fast THEN S ELSE Then(S, LAMBDA t : CheckDpErrors(t, check_read_ok))

Store(x, t) == WordDone([x EXCEPT !.moved = Append(@, t.val)])

\* All words of a chunk but the last are each fetched by reading the next.
BulkRead ==
  /\ xfer.at = "word" /\ xfer.op = "read" /\ xfer.todo > 1
  /\ XferStep(CheckedUnless(xfer.fast, ApRead(Begin, DRW), TRUE), LAMBDA t : Store(xfer, t))

BulkReadLast ==
  /\ xfer.at = "word" /\ xfer.op = "read" /\ xfer.todo = 1
  /\ XferStep(CheckedUnless(xfer.fast, DpReadRdBuff(Begin), TRUE), LAMBDA t : Store(xfer, t))

\* Mutant: a fast write takes its words on trust.
WriteWordUnchecked(x) == CheckedUnless(x.fast, ApWrite(Begin, DRW, 0), FALSE)

\* Errors are checked for after every word, also in a fast write.
WriteWord(x) ==
  Then(ApWrite(Begin, DRW, 0), LAMBDA t : CheckDpErrors(t, FALSE))

BulkWrite ==
  /\ xfer.at = "word" /\ xfer.op = "write"
  /\ XferStep(WriteWord(xfer), LAMBDA t : WordDone(Written(xfer, t)))

BulkCheck ==
  /\ xfer.at = "check"
  /\ XferStep(CheckDpErrors(Begin, xfer.op = "read"), LAMBDA t : ChunkDone(Written(xfer, t)))

\* Mutant: the transfer's own result decides alone.
ResultOf(x, t) == x.ok

\* AddrInc goes off whether the transfer succeeded or not; when that fails a
\* successful transfer fails too.
Result(x, t) == x.ok /\ Ok(t)

BulkIncOff ==
  /\ xfer.at = "inc_off"
  /\ \E t \in SetAddrInc(Begin, FALSE) :
       /\ Becomes(t)
       /\ xfer' = [xfer EXCEPT !.at = "done", !.ok = Result(xfer, t)]
  /\ UNCHANGED <<boot, last>>

\* The caller has the result.
BulkReturn ==
  /\ xfer.at = "done"
  /\ xfer' = NoXfer
  /\ UNCHANGED vars

-----------------------------------------------------------------------------
(* The specification: transfers among the other operations, which wait for  *)
(* the driver; the target comes and goes at any time.                       *)

BulkInit == Init /\ xfer = NoXfer

BulkOps ==
  \/ BulkStart \/ BulkIncOn \/ BulkChunk \/ BulkRead \/ BulkReadLast
  \/ BulkWrite \/ BulkCheck \/ BulkIncOff \/ BulkReturn

OtherOps ==
  /\ ~Running
  /\ ConnectOps \/ StandardOps \/ RawOps
  /\ UNCHANGED xfer

TargetMoves == (Detach \/ Attach) /\ UNCHANGED xfer

BulkNext == BulkOps \/ OtherOps \/ TargetMoves

BulkSpec == BulkInit /\ [][BulkNext]_<<vars, xfer>>

-----------------------------------------------------------------------------
(* Properties *)

\* The driver's and the transfer's variables hold values of their types, a
\* transfer never counts, or stores, more words than it was asked for, and no
\* chunk is empty, wherever its pages end.
BulkTypeOK ==
  /\ TypeOK
  /\ xfer \in [at : {"idle", "inc_on", "chunk", "word", "check", "inc_off", "done"},
               op : {"none", "read", "write"}, addr : Addrs, len : 0 .. MaxLen,
               fast : BOOLEAN, todo : 0 .. PageWords, count : 0 .. MaxLen, ok : BOOLEAN,
               moved : Seq(Readings), clean : BOOLEAN]
  /\ xfer.count <= xfer.len /\ Len(xfer.moved) <= xfer.len
  /\ xfer.at = "word" => xfer.todo > 0

\* The i-th word moved is the word i - 1 places after the address asked for.
InOrder(x) ==
  \A i \in DOMAIN x.moved : x.moved[i] = Word((x.addr + i - 1) % NWords)

\* read_mem_bulk fills its buffer with the words asked for and write_mem_bulk
\* writes them, each once and in order, across page boundaries.  What the error
\* of a read counts was read and is valid; what that of a write counts was
\* written, and at most one word more.
BulkInOrder ==
  xfer.clean =>
    /\ InOrder(xfer)
    /\ xfer.op = "read" => xfer.count = Len(xfer.moved)
    /\ xfer.op = "write" => Len(xfer.moved) \in {xfer.count, xfer.count + 1}
    /\ xfer.at = "done" /\ xfer.ok => Len(xfer.moved) = xfer.len

\* A transfer that reports success leaves AddrInc off: else polling one
\* register of the target would walk through its memory.
IncOffAfterSuccess ==
  xfer.at = "done" /\ xfer.ok /\ xfer.clean => ~dp.inc

\* Inductive strengthening: how far transfer x has come ...
Moving(x) == x.at \in {"chunk", "word", "check"}

Progress(x) ==
  /\ x.at = "idle" => x = NoXfer
  /\ x.at = "inc_on" => x.count = 0 /\ x.moved = <<>> /\ ~x.ok
  /\ x.at = "chunk" => x.count < x.len
  /\ x.at = "word" =>
       /\ x.todo > 0 /\ x.count + x.todo <= x.len
       /\ (Next32(x) % PageWords) + x.todo <= PageWords
  /\ Moving(x) => Len(x.moved) <= x.count

\* ... and where it has left driver d and target p, the wire having history o,
\* when nothing had disturbed them before: AddrInc is on, SELECT names the bank
\* of DRW, and TAR, and for a read RDBUFF, are at the next word, unless the
\* target flags an error.
Steady(x, o) ==
  x.at = "inc_on" \/ Moving(x) \/ (x.at = "inc_off" /\ x.ok) => ~o.raw /\ ~o.linkErr

Placed(x, d, p) ==
  /\ Moving(x) /\ p.alive => p.inc
  /\ x.at = "word" => d.powered_up /\ d.dp_select.bank = BankOf(DRW)
  /\ x.at = "word" /\ p.alive /\ ~p.sticky =>
       /\ x.op = "write" => p.tar = Next32(x)
       /\ x.op = "read" => p.rdbuff = Word(Next32(x))
       /\ x.op = "read" /\ x.todo > 1 => p.tar = NextInPage(Next32(x))

Accounted(x) ==
  /\ Moving(x) => Len(x.moved) = x.count
  /\ x.at \in {"inc_off", "done"} /\ x.ok => Len(x.moved) = x.len

BulkIInv ==
  /\ IInv /\ BulkTypeOK /\ BulkInOrder /\ IncOffAfterSuccess
  /\ Progress(xfer)
  /\ xfer.clean => Accounted(xfer) /\ Steady(xfer, obs) /\ Placed(xfer, drv, dp)
=============================================================================
