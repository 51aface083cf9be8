----------------------------- MODULE FlashProgram ----------------------------
(***************************************************************************)
(* Erasing and programming of a target's flash (airfrog-swd/src/debug.rs,  *)
(* called by the REST handlers of target/mod.rs), access by access, on an  *)
(* STM32F4 or an STM32G0, with the flash controller as an external part.   *)
(*                                                                         *)
(* An operation is a sequence of runs, op.todo, of accesses its function   *)
(* makes to one sector, word or doubleword.  Each access is a step and may *)
(* fail; the controller finishes erasing and programming, and the target   *)
(* resets, in between.  A word of flash is blank or used; a sector of an   *)
(* STM32G0 is a page.                                                      *)
(***************************************************************************)
EXTENDS Integers, Sequences

CONSTANTS
  Mcus,        \* what the MCU may be: "F4", "G0", "other", "none" when not known
  SnbBits,     \* width of CR's sector number
  NSectors,    \* number of sectors
  AskSectors,  \* sectors erase_sector is asked to erase
  BitsOf,      \* the bits that are set in a sector's number
  SectorOf,    \* the sector each word of flash is in
  Starts,      \* addresses of words where writes start
  MaxLen       \* most words of a bulk write

Bits == 0 .. SnbBits - 1
Sectors == 0 .. NSectors - 1
Words == DOMAIN SectorOf

ASSUME FlashAssumption ==
  /\ Mcus \subseteq {"F4", "G0", "other", "none"}
  /\ {SnbBits, NSectors, MaxLen} \subseteq Nat \ {0}
  /\ AskSectors \subseteq Nat
  /\ BitsOf \in [Sectors \cup AskSectors -> SUBSET Nat]
  /\ \A n \in Sectors : /\ BitsOf[n] \subseteq Bits
                         /\ \A k \in Sectors : BitsOf[k] = BitsOf[n] => k = n
  /\ Words \subseteq Nat /\ SectorOf \in [Words -> Sectors]
  /\ Starts \subseteq Nat /\ \A a \in Starts : a .. a + MaxLen - 1 \subseteq Words

VARIABLES
  mcu,   \* the MCU the driver has identified
  fl,    \* the flash controller: its bits, errors, and the job it works on
  used,  \* words that are not blank
  op     \* the operation under way, or the last one

vars == <<mcu, fl, used, op>>

WordsOf(sectors) == {w \in Words : SectorOf[w] \in sectors}

-----------------------------------------------------------------------------
(* The flash controller.  err: the error bits of SR; "own" when the        *)
(* operation under way has caused them, "old" when an earlier one did.     *)
(* half: it has the first word of a doubleword and waits for the second.   *)

NoJob == [do |-> "none", on |-> {}, own |-> FALSE]
CrClear == [lock |-> TRUE, pg |-> FALSE, ser |-> FALSE, mer |-> FALSE, snb |-> {}]
FlashReset == [cr |-> CrClear, key |-> "none", err |-> "none", half |-> FALSE, job |-> NoJob]

Busy == fl.job.do # "none" \/ fl.half

Raise(f) == [f EXCEPT !.err = "own"]

\* What the controller is not set up for it drops with an error.  Of those of an
\* STM32G0 the driver does not know all (PGSERR).
Dropped(f) == {Raise(f)} \cup (IF mcu = "G0" THEN {f} ELSE {})

\* A key that is not expected locks the controller until it is reset.
Jammed(f) == [f EXCEPT !.cr.lock = TRUE, !.key = "jam"]
Key1(f) ==
  IF ~f.cr.lock THEN {f, Jammed(f)}
  ELSE IF f.key = "none" THEN {[f EXCEPT !.key = "first"]} ELSE {Jammed(f)}
Key2(f) ==
  IF ~f.cr.lock THEN {f, Jammed(f)}
  ELSE IF f.key = "first" THEN {[f EXCEPT !.key = "none", !.cr.lock = FALSE]} ELSE {Jammed(f)}

WriteCr(f, cr) == IF f.cr.lock THEN f ELSE [f EXCEPT !.cr = cr]

Job(f, do, on) == [f EXCEPT !.job = [do |-> do, on |-> on, own |-> TRUE]]

\* Programming and erasing may be set up both, and then either is dropped.
OrDropped(f) == IF f.cr.pg /\ (f.cr.ser \/ f.cr.mer) THEN Dropped(f) ELSE {}

\* CR written with STRT: the sector it names is erased, or with MER all are.
StartErase(f, cr) ==
  LET g == WriteCr(f, cr)
  IN  IF f.cr.lock \/ ~(cr.ser \/ cr.mer) THEN {g}
      ELSE OrDropped(g) \cup
           (IF cr.ser THEN {Job(g, "erase", {n \in Sectors : BitsOf[n] = cr.snb})} ELSE {}) \cup
           (IF cr.mer THEN {Job(g, "erase", Sectors)} ELSE {})

\* A word written to flash; on an STM32G0 the first of two.
WriteWord(f, on) == IF f.cr.pg THEN {Job(f, "program", on)} \cup OrDropped(f) ELSE Dropped(f)
WriteLow(f) == IF f.cr.pg THEN {[f EXCEPT !.half = TRUE]} \cup OrDropped(f) ELSE Dropped(f)
WriteHigh(f, on) ==
  IF f.half THEN {Job([f EXCEPT !.half = FALSE], "program", on)} ELSE Dropped(f)

\* The controller ends its job, done or with an error.  What was not blank is
\* not programmed with what was asked.
Finish ==
  /\ fl.job.do # "none"
  /\ \/ /\ fl' = [fl EXCEPT !.job = NoJob]
        /\ used' = IF fl.job.do = "erase" THEN used \ WordsOf(fl.job.on) ELSE used \cup fl.job.on
        /\ op' = IF ~fl.job.own THEN op
                 ELSE [op EXCEPT !.done = @ \cup
                         (IF fl.job.do = "erase" THEN fl.job.on ELSE fl.job.on \ used)]
     \/ /\ fl' = [fl EXCEPT !.job = NoJob, !.err = IF fl.job.own \/ @ = "own" THEN "own" ELSE "old"]
        /\ UNCHANGED <<used, op>>
  /\ UNCHANGED mcu

\* The target is reset; a job is cut off somewhere.
TargetReset ==
  /\ fl' = FlashReset
  /\ used' \in {used, used \cup (IF fl.job.do = "erase" THEN WordsOf(fl.job.on) \cap used
                                 ELSE fl.job.on)}
                 \cup (IF fl.job.do = "erase" THEN {used \ WordsOf(fl.job.on)} ELSE {})
  /\ op' = [op EXCEPT !.reset = TRUE]
  /\ UNCHANGED mcu

-----------------------------------------------------------------------------
(* The operations, as the accesses they make                               *)

\* Reads and writes of CR, SR and KEYR by what they are for, and of the flash.
Accesses ==
  {"check_lock", "key1", "key2", "read_cr", "set_page", "set_sector", "set_mass", "set_pg",
   "set_lock", "clear_pg", "clear_per", "start", "wait", "read_sr", "clear_sr", "poll",
   "read_flash", "data", "low", "high", "inc_on", "inc_off"}

\* A run of accesses for the sector or the words on.
Run(does, on) == [does |-> does, on |-> on]

\* Mutant: keys are written to a controller that is unlocked.
UnlockAlways(m) == <<Run(<<"key1", "key2">>, {})>>

Unlock(m) == IF m = "G0" THEN <<Run(<<"check_lock", "key1", "key2">>, {})>>
             ELSE <<Run(<<"key1", "key2">>, {})>>
Lock(m) == <<Run(<<"read_cr", "set_lock">>, {})>>

\* Mutant: errors are cleared before the controller is known to be idle.
ReadyUnordered == <<"read_sr", "clear_sr", "wait">>

\* stm32g0_wait_not_busy and stm32g0_clear_status.
Ready == <<"wait", "read_sr", "clear_sr">>

ExecuteErasePage == Ready \o <<"start", "poll">>

ErasePage(n) ==
  Run(<<"read_cr", "set_page">> \o ExecuteErasePage \o <<"read_cr", "clear_per">>, {n})

EraseSector(m, n) ==
  IF m = "G0" THEN <<ErasePage(n)>>
  ELSE <<Run(<<"read_cr", "set_sector", "start", "poll">>, {n})>>

EraseAll(m) ==
  IF m = "G0" THEN [i \in 1 .. NSectors |-> ErasePage(i - 1)]
  ELSE <<Run(<<"read_cr", "set_mass", "start", "poll">>, Sectors)>>

\* Mutant: the controller is asked for its state between the two halves.
ProgramDoublewordPolled ==
  Ready \o <<"read_cr", "set_pg", "low", "poll", "high", "poll", "read_cr", "clear_pg">>

ProgramDoubleword ==
  Ready \o <<"read_cr", "set_pg", "low", "high", "poll", "read_cr", "clear_pg">>

\* stm32g0_write_rmw reads both halves and writes both.
WriteRmw == <<"read_flash", "read_flash">> \o ProgramDoubleword

ExecuteProgram == <<"set_pg", "poll">>

\* On an STM32F4 the word is written before PG is set.
WriteFlash(m, w) ==
  IF m = "G0" THEN <<Run(WriteRmw, {w})>>
  ELSE <<Run(<<"read_cr", "data">> \o ExecuteProgram, {w})>>

\* The doublewords of a block; one that is not wholly in it is read first.
BulkG0(a, n) ==
  LET block == a .. a + n - 1
      first == a \div 2
  IN  [i \in 1 .. (a + n - 1) \div 2 - first + 1 |->
        LET pair == {2 * (first + i - 1), 2 * (first + i - 1) + 1}
        IN  Run(IF pair \subseteq block THEN ProgramDoubleword ELSE WriteRmw, pair \cap block)]

\* Mutant: the state asked for is the one before the word.
ProgramWordPolledFirst == <<"poll", "data">>

ProgramWord == <<"data", "poll">>

BulkF4(a, n) ==
  <<Run(<<"inc_on", "read_cr", "set_pg">>, {})>> \o
  [i \in 1 .. n |-> Run(ProgramWord, {a + i - 1})] \o <<Run(<<"inc_off">>, {})>>

WriteFlashBulk(m, a, n) == IF m = "G0" THEN BulkG0(a, n) ELSE BulkF4(a, n)

-----------------------------------------------------------------------------
(* Steps of an operation.  res is what its caller will get.                *)

At(do) == op.todo # <<>> /\ Head(op.todo).does[op.at] = do
On == Head(op.todo).on

Advance == IF op.at < Len(Head(op.todo).does) THEN [op EXCEPT !.at = @ + 1]
           ELSE [op EXCEPT !.todo = Tail(@), !.at = 1]
Goto(todo) == [op EXCEPT !.todo = todo, !.at = 1]

\* An access that fails ends the operation; those that clean up after an
\* error of the flash are let go.
Cleaning == op.res = "FlashError" /\ (At("clear_pg") \/ At("inc_off"))
Failed == IF Cleaning THEN Advance ELSE [Goto(<<>>) EXCEPT !.res = "Access"]

\* A read that succeeds leaves the operation at next.
Reads(next) == op' \in {next, Failed} /\ UNCHANGED <<mcu, fl, used>>

\* A write leaves the controller in one of fls; one that fails may have, too.
Writes(fls, next) ==
  /\ \/ fl' \in fls /\ op' = next
     \/ fl' \in fls \cup {fl} /\ op' = Failed
  /\ UNCHANGED <<mcu, used>>

\* CR and the flash itself cannot be accessed while the controller works.
Stalled == fl.job.do # "none"

SetCr(do, cr) ==
  At(do) /\ ~Stalled /\ Writes({WriteCr(fl, cr)}, [Advance EXCEPT !.cr = cr])

BitsOn(on) == UNION {BitsOf[n] : n \in on}

ReadCr == At("read_cr") /\ Reads([Advance EXCEPT !.cr = fl.cr])

\* Mutant: what page and bank were named before stays.
SetPageOver == SetCr("set_page", [op.cr EXCEPT !.ser = TRUE, !.snb = @ \cup BitsOn(On)])

SetPage == SetCr("set_page", [op.cr EXCEPT !.ser = TRUE, !.snb = BitsOn(On)])

\* Mutant: the number is not cut to the width of the field.
SetSectorWide == SetCr("set_sector", [op.cr EXCEPT !.ser = TRUE, !.snb = @ \cup BitsOn(On)])

\* Of the number what fits the field; its bits are set on top of those CR had.
Field(on) == BitsOn(on) \cap Bits
SetSector == SetCr("set_sector", [op.cr EXCEPT !.ser = TRUE, !.snb = @ \cup Field(On)])
SetMass == SetCr("set_mass", [op.cr EXCEPT !.mer = TRUE])
SetPg == SetCr("set_pg", [op.cr EXCEPT !.pg = TRUE])
ClearPg == SetCr("clear_pg", [op.cr EXCEPT !.pg = FALSE])
ClearPer == SetCr("clear_per", [op.cr EXCEPT !.ser = FALSE])
SetLock == SetCr("set_lock", [op.cr EXCEPT !.lock = TRUE])

StartBit == At("start") /\ ~Stalled /\ Writes(StartErase(fl, op.cr), Advance)

WriteKeys ==
  \/ At("key1") /\ Writes(Key1(fl), Advance)
  \/ At("key2") /\ Writes(Key2(fl), Advance)

CheckLock ==
  At("check_lock") /\ Reads(IF fl.cr.lock THEN Advance ELSE Goto(<<>>))

WaitNotBusy == At("wait") /\ Reads(IF Busy THEN op ELSE Advance)

ReadSr == At("read_sr") /\ Reads(Advance)
ClearSr == At("clear_sr") /\ Writes({[fl EXCEPT !.err = "none"]}, Advance)

\* After an error of the flash a bulk write on an STM32F4 switches the address
\* increment off, programming on an STM32G0 clears PG.
CleanUp ==
  CASE op.kind = "write_bulk" /\ mcu = "F4" -> <<Run(<<"inc_off">>, {})>>
    [] op.kind \in {"write", "write_bulk"} /\ mcu = "G0" -> <<Run(<<"read_cr", "clear_pg">>, {})>>
    [] OTHER -> <<>>

Poll ==
  At("poll") /\ Reads(CASE fl.err # "none" -> [Goto(CleanUp) EXCEPT !.res = "FlashError",
                                                               !.own = (fl.err = "own")]
                        [] fl.err = "none" /\ Busy -> op
                        [] OTHER -> Advance)

ReadFlash == At("read_flash") /\ ~Stalled /\ Reads(Advance)
WriteData ==
  /\ ~Stalled
  /\ \/ At("data") /\ Writes(WriteWord(fl, On), Advance)
     \/ At("low") /\ Writes(WriteLow(fl), Advance)
     \/ At("high") /\ Writes(WriteHigh(fl, On), Advance)

\* set_addr_inc, which is in BulkTransfer.
SetAddrInc == (At("inc_on") \/ At("inc_off")) /\ Reads(Advance)

Step ==
  \/ ReadCr \/ SetPage \/ SetSector \/ SetMass \/ SetPg \/ ClearPg \/ ClearPer \/ SetLock
  \/ StartBit \/ WriteKeys \/ CheckLock \/ WaitNotBusy \/ ReadSr \/ ClearSr \/ Poll
  \/ ReadFlash \/ WriteData \/ SetAddrInc

-----------------------------------------------------------------------------
(* Requests *)

Erases == {"erase_sector", "erase_all"}

\* What the MCU cannot do, or the operation refuses, ends at once.
Refusal(kind, on) ==
  CASE mcu = "none"  -> "NotReady"
    [] mcu = "other" -> "Unsupported"
    [] mcu = "G0" /\ kind = "erase_sector" /\ ~(on \subseteq Sectors) -> "Api"
    [] OTHER -> "Ok"

\* The modes of CR that change what an operation does, if an earlier one left
\* them set.
Troubles(kind) ==
  CASE kind \in Erases -> IF mcu = "F4" THEN {"pg", "ser", "mer"} ELSE {"pg"}
    [] kind \in {"write", "write_bulk"} /\ mcu = "G0" -> {"ser"}
    [] OTHER -> {}

\* What the operation finds: clean, none of these modes; open, a controller
\* that takes what it writes, the first key or a new CR; blank, words to write
\* that are and will be blank, no write having been given up.
Request(kind, on, todo) ==
  /\ op.todo = <<>>
  /\ LET res == Refusal(kind, on)
     IN  op' = [kind |-> kind, asked |-> on, todo |-> IF res = "Ok" THEN todo ELSE <<>>, res |-> res,
                at |-> 1, cr |-> CrClear, done |-> {}, own |-> FALSE, reset |-> FALSE,
                clean |-> \A mode \in Troubles(kind) : ~fl.cr[mode],
                open |-> IF kind = "unlock" THEN fl.key = "none" ELSE ~fl.cr.lock,
                blank |-> /\ kind \in {"write", "write_bulk"}
                          /\ on \cap (used \cup IF fl.job.do = "program" THEN fl.job.on ELSE {}) = {}]
  /\ fl' = [fl EXCEPT !.job.own = FALSE, !.err = IF @ = "own" THEN "old" ELSE @]
  /\ UNCHANGED <<mcu, used>>

UnlockFlash == Request("unlock", {}, Unlock(mcu))
LockFlash == Request("lock", {}, Lock(mcu))
EraseFlashSector == \E n \in AskSectors : Request("erase_sector", {n}, EraseSector(mcu, n))
EraseFlashAll == Request("erase_all", Sectors, EraseAll(mcu))
WriteFlashWord == \E w \in Starts : Request("write", {w}, WriteFlash(mcu, w))
WriteFlashBlock ==
  \E a \in Starts, n \in 1 .. MaxLen : Request("write_bulk", a .. a + n - 1, WriteFlashBulk(mcu, a, n))

Requests ==
  \/ UnlockFlash \/ LockFlash \/ EraseFlashSector \/ EraseFlashAll
  \/ WriteFlashWord \/ WriteFlashBlock

-----------------------------------------------------------------------------
(* The specification *)

Init ==
  /\ mcu \in Mcus
  /\ fl = FlashReset
  /\ used \in {{}, Words}
  /\ op = [kind |-> "none", asked |-> {}, todo |-> <<>>, at |-> 1, res |-> "Ok", cr |-> CrClear,
           done |-> {}, own |-> FALSE, reset |-> FALSE, clean |-> TRUE, open |-> FALSE,
           blank |-> FALSE]

Next == Requests \/ Step \/ Finish \/ TargetReset

Spec == Init /\ [][Next]_vars

\* The Target task runs on, and the controller ends its jobs.  No access has to
\* fail: a loop that polls a controller that stays busy goes on.
Works == Step /\ (Cleaning \/ op' # Failed)
FairSpec == Spec /\ WF_vars(Works) /\ WF_vars(Finish)

-----------------------------------------------------------------------------
(* Properties *)

CrType == [lock : BOOLEAN, pg : BOOLEAN, ser : BOOLEAN, mer : BOOLEAN, snb : SUBSET Bits]

\* What an operation, or a job, is for: sectors, or words.
Targets(erases) == IF erases THEN SUBSET (AskSectors \cup Sectors) ELSE SUBSET Words

\* The controller's fields keep their widths; an operation has its accesses
\* left.
TypeOK ==
  /\ mcu \in Mcus
  /\ fl.cr \in CrType /\ fl.key \in {"none", "first", "jam"}
  /\ fl.err \in {"none", "old", "own"} /\ fl.half \in BOOLEAN
  /\ fl.job.do \in {"none", "erase", "program"} /\ fl.job.own \in BOOLEAN
  /\ fl.job.on \in Targets(fl.job.do = "erase")
  /\ used \subseteq Words
  /\ op.todo \in Seq([does : Seq(Accesses), on : Targets(op.kind \in Erases)])
  /\ op.todo # <<>> => op.at \in DOMAIN Head(op.todo).does
  /\ op.cr \in CrType
  /\ op.res \in {"Ok", "Access", "FlashError", "Api", "Unsupported", "NotReady"}

Ended(kinds) == op.kind \in kinds /\ op.todo = <<>>

\* An erase touches the sectors asked for and no other, and when it reports
\* success has erased them: on an STM32F4 the first one since the target's reset
\* only, since the bits of one operation stay for the next; on an STM32G0
\* whatever failed before, but for a write that has left PG set.  Flash that was
\* locked, or a target that is reset under way, is not noticed.
EraseExact ==
  /\ Ended(Erases) /\ op.asked \subseteq Sectors
  /\ mcu = "F4" => op.clean
  => /\ op.done \subseteq op.asked
     /\ op.res = "Ok" /\ op.open /\ op.clean /\ ~op.reset => op.done = op.asked

\* A write of blank words to unlocked flash that reports success has written
\* all of them, whatever was interrupted before: on an STM32F4 a bulk write,
\* since a single one writes the word before the controller is set up; on an
\* STM32G0 unless an erase that failed has left PER set.
WriteDone ==
  /\ Ended({"write_bulk"}) \/ (Ended({"write"}) /\ mcu = "G0")
  /\ op.res = "Ok" /\ op.clean /\ op.open /\ op.blank /\ ~op.reset
  => op.done = op.asked

\* On an STM32G0 an operation is failed only by an error of its own, never by
\* one an earlier operation left in SR or left the controller to run into.
ErrorsAreOwn == mcu = "G0" /\ op.res = "FlashError" => op.own

\* unlock_flash on an STM32G0 may be repeated: when it reports success the
\* controller is unlocked.  (Keys are never written twice in a row, as on an
\* STM32F4.)
UnlockOpens ==
  Ended({"unlock"}) /\ mcu = "G0" /\ op.res = "Ok" /\ op.open /\ ~op.reset => ~fl.cr.lock

\* Every operation ends, its polling loops having no bound, unless the second
\* half of a doubleword was lost: the controller is then busy until the target
\* is reset.
Stuck == fl.half /\ At("wait")
OperationsEnd == op.todo # <<>> ~> (op.todo = <<>> \/ Stuck)
=============================================================================
