------------------------------ MODULE RttStream -----------------------------
(***************************************************************************)
(* The bytes that RTT moves (firmware/rtt.rs): from the ring the target's  *)
(* firmware writes, read over SWD one access at a time while the target    *)
(* runs, into the local buffer, and from there to clients.  What the RTT   *)
(* task waits for is in AirfrogTasks; here each access to the target is a  *)
(* step, which may fail.                                                   *)
(*                                                                         *)
(* A byte is the number of its write, from 1.                              *)
(***************************************************************************)
EXTENDS Naturals, Sequences

CONSTANTS
  RingSize,             \* size of the up buffer on the target
  BUFFER_SIZE,          \* size of the local buffer
  MAX_BYTES_PER_READ,   \* most bytes one poll, or one client, takes
  MaxBytes,             \* bound: bytes the target ever writes
  MaxBoots,             \* bound: resets of the target
  Controls,             \* what the Firmware task may ask: "start", "stop"
  Failing               \* the accesses that may fail: "read", "write"

ASSUME RttStreamAssumption ==
  /\ {RingSize, BUFFER_SIZE, MAX_BYTES_PER_READ} \subseteq Nat \ {0}
  /\ {MaxBytes, MaxBoots} \subseteq Nat
  /\ Controls \subseteq {"start", "stop"}
  /\ Failing \subseteq {"read", "write"}

VARIABLES
  up,      \* the target's up buffer: its bytes, positions, and whether it is set up
  sent,    \* bytes the target has written
  boots,   \* resets of the target so far
  rtt,     \* RTT task
  local,   \* its local buffer
  got,     \* history: the last byte a client got
  out,     \* history: what the last read of a client returned
  faith    \* history: "exact", "again" once a write failed, "broken" by a reset,
           \* "torn" by one between the accesses of one start or one poll

targetVars == <<up, sent, boots>>
clientVars == <<got, out>>
vars == <<targetVars, rtt, local, clientVars, faith>>

Least(a, b) == IF a < b THEN a ELSE b

-----------------------------------------------------------------------------
(* The target *)

\* The up buffer is full when one place is left.
Put ==
  /\ up.ready
  /\ sent < MaxBytes
  /\ (up.wr + 1) % RingSize # up.rd
  /\ sent' = sent + 1
  /\ up' = [up EXCEPT !.data[up.wr] = sent + 1, !.wr = (@ + 1) % RingSize]
  /\ UNCHANGED <<boots, rtt, local, clientVars, faith>>

\* A reset clears the control block; the bytes stay in memory.
Reset ==
  /\ boots < MaxBoots
  /\ boots' = boots + 1
  /\ up' = [up EXCEPT !.wr = 0, !.rd = 0, !.ready = FALSE]
  /\ faith' = IF rtt.at \in {"buf", "wr", "data", "ack"} \/ faith = "torn" THEN "torn" ELSE "broken"
  /\ UNCHANGED <<sent, rtt, local, clientVars>>

SetUp ==
  /\ ~up.ready
  /\ up' = [up EXCEPT !.wr = 0, !.rd = 0, !.ready = TRUE]
  /\ UNCHANGED <<sent, boots, rtt, local, clientVars, faith>>

-----------------------------------------------------------------------------
(* LocalBuf *)

AvailableSpace(b) ==
  IF b.rd > b.wr THEN b.rd - b.wr - 1 ELSE BUFFER_SIZE - (b.wr - b.rd) - 1

AvailableLocal(b) ==
  IF b.wr >= b.rd THEN b.wr - b.rd ELSE BUFFER_SIZE - b.rd + b.wr

WriteData(b, bytes) ==
  [b EXCEPT
    !.data = [i \in DOMAIN @ |->
                LET k == 1 + ((i + BUFFER_SIZE - b.wr) % BUFFER_SIZE)
                IN  IF k \in DOMAIN bytes THEN bytes[k] ELSE @[i]],
    !.wr = (@ + Len(bytes)) % BUFFER_SIZE]

\* Mutant: the read position never wraps.
DropUnwrapped(b, n) == [b EXCEPT !.rd = @ + n]

\* The next n bytes, in one piece or in two; and the buffer without them.
Bytes(b, n) == [i \in 1 .. n |-> b.data[(b.rd + i - 1) % BUFFER_SIZE]]
Drop(b, n) == [b EXCEPT !.rd = (@ + n) % BUFFER_SIZE]

-----------------------------------------------------------------------------
(* RttBuf *)

\* Mutant: what the target wrote after it wrapped is not seen.
AvailableUnwrapped(r, wr) == IF wr > r.rd THEN wr - r.rd ELSE r.size - r.rd - 1

Available(r, wr) == IF wr > r.rd THEN wr - r.rd ELSE (r.size - r.rd) + wr

Piece(at, len) == [at |-> at, len |-> len]

\* The reads that fetch n bytes, given the target's write position.
Pieces(r, wr, n) ==
  LET first == r.size - r.rd
  IN  IF wr > r.rd \/ n <= first
      THEN <<Piece(r.rd, n)>>
      ELSE <<Piece(r.rd, first), Piece(0, n - first)>>

-----------------------------------------------------------------------------
(* The RTT task.  at is the access it waits for: "cb" and "buf" when       *)
(* start() reads the control block and the up buffer, "rd" and "wr" when a *)
(* poll reads the positions, "data", and "ack" when it writes the read     *)
(* position; "select" between polls.                                       *)

At(r, at) == [r EXCEPT !.at = at, !.todo = <<>>, !.chunk = <<>>]

\* Back to the loop: a poll, unless RTT is stopped or the local buffer full.
Loop(r, b) ==
  At(r, IF r.state = "Started" /\ AvailableSpace(b) > 0 THEN "rd" ELSE "select")

\* A read the task waits for fails; that leaves it at r.
FailedRead(at, r) ==
  /\ rtt.at = at
  /\ "read" \in Failing
  /\ rtt' = r
  /\ UNCHANGED <<targetVars, local, clientVars, faith>>

\* handle_command Read.
Read(n) ==
  /\ rtt.at = "select" /\ rtt.state = "Started"
  /\ LET k == Least(n, AvailableLocal(local))
     IN  /\ out' = Bytes(local, k)
         /\ got' = IF k = 0 THEN got ELSE Bytes(local, k)[k]
         /\ local' = Drop(local, k)
  /\ rtt' = Loop(rtt, local')
  /\ UNCHANGED <<targetVars, faith>>

Timer ==
  /\ rtt.at = "select"
  /\ rtt' = Loop(rtt, local)
  /\ rtt' # rtt
  /\ UNCHANGED <<targetVars, local, clientVars, faith>>

Start ==
  /\ "start" \in Controls
  /\ rtt.at = "select"
  /\ rtt' = [At(rtt, "cb") EXCEPT !.restart = FALSE]
  /\ UNCHANGED <<targetVars, local, clientVars, faith>>

Stop ==
  /\ "stop" \in Controls
  /\ rtt.at = "select"
  /\ rtt' = [rtt EXCEPT !.state = "Stopped"]
  /\ UNCHANGED <<targetVars, local, clientVars, faith>>

\* A poll that fails, or a restart within it, ends before the wait; a start
\* that fails leaves what was stored before.
StartFailed == IF rtt.restart THEN At(rtt, "select") ELSE Loop(rtt, local)

ReadCb ==
  \/ /\ rtt.at = "cb"
     /\ rtt' = IF up.ready THEN At(rtt, "buf") ELSE StartFailed
     /\ UNCHANGED <<targetVars, local, clientVars, faith>>
  \/ FailedRead("cb", StartFailed)

ReadBuf ==
  \/ /\ rtt.at = "buf"
     /\ LET r == [rtt EXCEPT !.state = "Started", !.rd = up.rd,
                             !.size = IF up.ready THEN RingSize ELSE 0]
        IN  rtt' = IF r.restart THEN At(r, "wr") ELSE Loop(r, local)
     /\ UNCHANGED <<targetVars, local, clientVars, faith>>
  \/ FailedRead("buf", StartFailed)

\* Mutant: the target is taken to be where it was left.
ReadRdTrusting ==
  \/ /\ rtt.at = "rd"
     /\ rtt' = At(rtt, "wr")
     /\ UNCHANGED <<targetVars, local, clientVars, faith>>
  \/ FailedRead("rd", At(rtt, "select"))

\* A read position that is not the one written last: the target was reset.
ReadRd ==
  \/ /\ rtt.at = "rd"
     /\ rtt' = IF up.rd = rtt.rd
               THEN At(rtt, "wr")
               ELSE [At(rtt, "cb") EXCEPT !.state = "Stopped", !.restart = TRUE]
     /\ UNCHANGED <<targetVars, local, clientVars, faith>>
  \/ FailedRead("rd", At(rtt, "select"))

ReadWr ==
  \/ /\ rtt.at = "wr"
     /\ LET n == Least(Least(Available(rtt, up.wr), AvailableSpace(local)), MAX_BYTES_PER_READ)
        IN  rtt' = IF up.wr = rtt.rd
                   THEN At(rtt, "select")
                   ELSE [At(rtt, "data") EXCEPT !.todo = Pieces(rtt, up.wr, n)]
     /\ UNCHANGED <<targetVars, local, clientVars, faith>>
  \/ FailedRead("wr", At(rtt, "select"))

\* What is at a place that is not in the up buffer is no byte of the stream.
Fetch(piece) ==
  [i \in 1 .. piece.len |->
     LET p == piece.at + i - 1
     IN  IF rtt.size = RingSize /\ p \in DOMAIN up.data THEN up.data[p] ELSE 0]

\* Mutant: a part read is put in the local buffer at once.
KeepAtOnce(chunk) ==
  /\ local' = WriteData(local, SubSeq(chunk, Len(rtt.chunk) + 1, Len(chunk)))
  /\ rtt' = [rtt EXCEPT !.at = IF Len(rtt.todo) > 1 THEN "data"
                               ELSE IF rtt.size = 0 THEN "panic" ELSE "ack",
                        !.todo = Tail(@), !.chunk = chunk]

\* The bytes go to the local buffer when all are there.  With a size of zero
\* the remainder that gives the new read position panics.
Keep(chunk) ==
  IF Len(rtt.todo) > 1
  THEN /\ rtt' = [rtt EXCEPT !.todo = Tail(@), !.chunk = chunk]
       /\ UNCHANGED local
  ELSE /\ local' = WriteData(local, chunk)
       /\ rtt' = [rtt EXCEPT !.at = IF rtt.size = 0 THEN "panic" ELSE "ack",
                             !.todo = <<>>, !.chunk = chunk]

ReadPiece ==
  \/ /\ rtt.at = "data"
     /\ Keep(rtt.chunk \o Fetch(Head(rtt.todo)))
     /\ UNCHANGED <<targetVars, clientVars, faith>>
  \/ FailedRead("data", At(rtt, "select"))

NewRd == (rtt.rd + Len(rtt.chunk)) % rtt.size

\* Mutant: everything the target had written counts as read.
AckAll ==
  /\ rtt.at = "ack"
  /\ up' = [up EXCEPT !.rd = up.wr]
  /\ rtt' = [At(rtt, "select") EXCEPT !.rd = up.wr]
  /\ UNCHANGED <<sent, boots, local, clientVars, faith>>

\* A write that is reported to fail may have reached the target.
Ack ==
  \/ /\ rtt.at = "ack"
     /\ up' = [up EXCEPT !.rd = NewRd]
     /\ rtt' = [At(rtt, "select") EXCEPT !.rd = NewRd]
     /\ UNCHANGED <<sent, boots, local, clientVars, faith>>
  \/ /\ rtt.at = "ack" /\ "write" \in Failing
     /\ \E rd \in {up.rd, NewRd} : up' = [up EXCEPT !.rd = rd]
     /\ rtt' = At(rtt, "select")
     /\ faith' = IF faith = "exact" THEN "again" ELSE faith
     /\ UNCHANGED <<sent, boots, local, clientVars>>

-----------------------------------------------------------------------------
(* The specification *)

Init ==
  /\ up = [data |-> [i \in 0 .. RingSize - 1 |-> 0], wr |-> 0, rd |-> 0, ready |-> TRUE]
  /\ sent = 0
  /\ boots = 0
  /\ rtt = [at |-> "select", state |-> "Stopped", restart |-> FALSE, size |-> 0, rd |-> 0,
            todo |-> <<>>, chunk |-> <<>>]
  /\ local = [data |-> [i \in 0 .. BUFFER_SIZE - 1 |-> 0], wr |-> 0, rd |-> 0]
  /\ got = 0
  /\ out = <<>>
  /\ faith = "exact"

Poll == Timer \/ ReadCb \/ ReadBuf \/ ReadRd \/ ReadWr \/ ReadPiece \/ Ack

Next ==
  \/ Put \/ Reset \/ SetUp
  \/ \E n \in 1 .. MAX_BYTES_PER_READ : Read(n)
  \/ Start \/ Stop
  \/ Poll

Spec == Init /\ [][Next]_vars

\* The Target task answers, timers expire, a reset target sets its buffer up
\* again and clients keep reading; nobody need start RTT again.
FairSpec ==
  /\ Spec
  /\ WF_vars(Poll)
  /\ WF_vars(SetUp)
  /\ SF_vars(Read(MAX_BYTES_PER_READ))

-----------------------------------------------------------------------------
(* Properties *)

PieceType == [at : 0 .. RingSize - 1, len : 1 .. MAX_BYTES_PER_READ]

\* Positions stay within their buffers; the RTT task is between two accesses.
TypeOK ==
  /\ up \in [data : [0 .. RingSize - 1 -> 0 .. MaxBytes], wr : 0 .. RingSize - 1,
             rd : 0 .. RingSize - 1, ready : BOOLEAN]
  /\ sent \in 0 .. MaxBytes
  /\ boots \in 0 .. MaxBoots
  /\ rtt \in [at : {"select", "cb", "buf", "rd", "wr", "data", "ack", "panic"},
              state : {"Started", "Stopped"}, restart : BOOLEAN, size : {0, RingSize},
              rd : 0 .. RingSize - 1, todo : Seq(PieceType), chunk : Seq(0 .. MaxBytes)]
  /\ Len(rtt.chunk) <= MAX_BYTES_PER_READ
  /\ local \in [data : [0 .. BUFFER_SIZE - 1 -> 0 .. MaxBytes],
                wr : 0 .. BUFFER_SIZE - 1, rd : 0 .. BUFFER_SIZE - 1]
  /\ got \in 0 .. MaxBytes
  /\ out \in Seq(0 .. MaxBytes)
  /\ faith \in {"exact", "again", "broken", "torn"}

\* The last byte a client got and those it has yet to get.
Pipeline == <<got>> \o Bytes(local, AvailableLocal(local))
NextUnread == IF up.rd = up.wr THEN sent + 1 ELSE up.data[up.rd]

\* While the target is not reset no byte is skipped on its way through both
\* rings, whatever access fails and whenever RTT is stopped and started: a
\* byte may only come again.
NothingLost ==
  LET held == Pipeline \o <<NextUnread>>
  IN  faith \in {"exact", "again"} => \A i \in 1 .. Len(held) - 1 : held[i + 1] <= held[i] + 1

\* A target that is reset is noticed by its read position before anything is
\* read from its ring: only a reset between two accesses of one start or poll
\* can hand clients what the target never wrote, or end in the division by a
\* buffer size of zero.
ResetNoticed ==
  faith # "torn" =>
    /\ rtt.at # "panic"
    /\ \A i \in 1 .. AvailableLocal(local) : Bytes(local, i)[i] # 0

\* Clients get the stream: every byte in order, and exactly once as long as no
\* write to the target fails, however the rings wrap and reads fail.
Stream == INSTANCE ByteStream
  WITH sent <- sent, got <- got, out <- out,
       faith <- IF faith = "torn" THEN "broken" ELSE faith
ImplementsStream == Stream!Spec

\* With nothing failing whatever the target writes reaches a client.
Drains == \A n \in 1 .. MaxBytes : (sent = n /\ rtt.state = "Started") ~> (got >= n)

=============================================================================
