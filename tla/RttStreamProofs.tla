--------------------------- MODULE RttStreamProofs ---------------------------
(***************************************************************************)
(* Proofs about RttStream, for rings of every size.  A ring is read        *)
(* through the items it holds, counted from its read position: writing     *)
(* appends items and dropping takes the first ones away, whether or not a  *)
(* position wraps.  The invariant says what is in both rings, and between  *)
(* them in the task while it polls.                                        *)
(***************************************************************************)
EXTENDS RttStream, SequenceTheorems, TLAPS

-----------------------------------------------------------------------------
(* Rings *)

\* How many items a ring holds, and the i-th of them.
Count(rd, wr, size) == IF wr >= rd THEN wr - rd ELSE size - rd + wr
Nth(data, rd, size, i) == data[(rd + i - 1) % size]

\* The remainder, where a position wraps at most once.
LEMMA Modulo ==
  ASSUME NEW size \in Nat \ {0}, NEW a \in Nat
  PROVE  /\ a % size \in 0 .. size - 1
         /\ a < size => a % size = a
         /\ a >= size /\ a < 2 * size => a % size = a - size
  <1>1. a % size \in 0 .. size - 1 OBVIOUS
  <1>2. a < size => a % size = a OBVIOUS
  <1>3. a >= size /\ a < 2 * size => a % size = a - size OBVIOUS
  <1> QED BY <1>1, <1>2, <1>3

\* A ring holds less than its size.
LEMMA Holds ==
  ASSUME NEW size \in Nat \ {0}, NEW rd \in 0 .. size - 1, NEW wr \in 0 .. size - 1
  PROVE  /\ Count(rd, wr, size) \in 0 .. size - 1
         /\ Count(rd, wr, size) = 0 <=> rd = wr
  BY DEF Count

\* Where the i-th item is.
LEMMA Place ==
  ASSUME NEW size \in Nat \ {0}, NEW rd \in 0 .. size - 1, NEW i \in 1 .. size
  PROVE  /\ (rd + i - 1) % size \in 0 .. size - 1
         /\ (rd + i - 1) % size = IF rd + i <= size THEN rd + i - 1 ELSE rd + i - 1 - size
  <1>1. PICK a \in Nat : a = rd + i - 1 OBVIOUS
  <1>2. a < 2 * size BY <1>1
  <1>3. /\ a % size \in 0 .. size - 1
        /\ a < size => a % size = a
        /\ a >= size /\ a < 2 * size => a % size = a - size
    BY Modulo
  <1> QED BY <1>1, <1>2, <1>3

\* From position to on there is what there is from rd on, without the first n of c items.
Shifted(rd, to, size, n, c) ==
  \A i \in 1 .. c - n, j \in 1 .. c : j = n + i => (to + i - 1) % size = (rd + j - 1) % size

\* Taking the first n items away leaves the others in place.
LEMMA Dropped ==
  ASSUME NEW size \in Nat \ {0}, NEW rd \in 0 .. size - 1, NEW wr \in 0 .. size - 1,
         NEW n \in 0 .. Count(rd, wr, size), NEW to, to = (rd + n) % size
  PROVE  /\ to \in 0 .. size - 1
         /\ Count(to, wr, size) = Count(rd, wr, size) - n
         /\ Shifted(rd, to, size, n, Count(rd, wr, size))
  <1>1. PICK c \in 0 .. size - 1 : c = Count(rd, wr, size) BY Holds
  <1>2. n \in 0 .. c BY <1>1
  <1>3. PICK a \in Nat : a = rd + n BY <1>2
  <1>4. PICK p \in 0 .. size - 1 : p = (rd + n) % size
    <2>1. a % size \in 0 .. size - 1 BY Modulo
    <2> QED BY <1>3, <2>1
  <1>5. p = IF rd + n < size THEN rd + n ELSE rd + n - size
    <2>1. a < 2 * size BY <1>2, <1>3
    <2>2. /\ a < size => a % size = a
          /\ a >= size /\ a < 2 * size => a % size = a - size
      BY Modulo
    <2> QED BY <1>3, <1>4, <2>1, <2>2
  <1>6. Count(p, wr, size) = c - n BY <1>1, <1>2, <1>5 DEF Count
  <1>7. ASSUME NEW i \in 1 .. c - n, NEW j \in 1 .. c, j = n + i
        PROVE  (p + i - 1) % size = (rd + j - 1) % size
    <2>1. i \in 1 .. size /\ j \in 1 .. size BY <1>2
    <2>2. (p + i - 1) % size = IF p + i <= size THEN p + i - 1 ELSE p + i - 1 - size
      BY <2>1, Place
    <2>3. (rd + j - 1) % size = IF rd + j <= size THEN rd + j - 1 ELSE rd + j - 1 - size
      BY <2>1, Place
    <2> QED BY <1>2, <1>5, <1>7, <2>1, <2>2, <2>3
  <1>8. Shifted(rd, p, size, n, c) BY <1>7 DEF Shifted
  <1> QED BY <1>1, <1>4, <1>6, <1>8

\* One more item at the write position, when there is room.
LEMMA Added ==
  ASSUME NEW size \in Nat \ {0}, NEW rd \in 0 .. size - 1, NEW wr \in 0 .. size - 1,
         NEW data, NEW new, \A p \in 0 .. size - 1 : p # wr => new[p] = data[p],
         (wr + 1) % size # rd
  PROVE  /\ (wr + 1) % size \in 0 .. size - 1
         /\ Count(rd, (wr + 1) % size, size) = Count(rd, wr, size) + 1
         /\ \A i \in 1 .. Count(rd, wr, size) :
              Nth(new, rd, size, i) = Nth(data, rd, size, i)
         /\ \A i : i = Count(rd, wr, size) + 1 => Nth(new, rd, size, i) = new[wr]
  <1>1. PICK c \in 0 .. size - 1 : c = Count(rd, wr, size) BY Holds
  <1>2. PICK a \in Nat : a = wr + 1 OBVIOUS
  <1>3. PICK p \in 0 .. size - 1 : p = (wr + 1) % size /\ p = IF wr + 1 < size THEN wr + 1 ELSE 0
    <2>1. /\ a % size \in 0 .. size - 1
          /\ a < size => a % size = a
          /\ a >= size /\ a < 2 * size => a % size = a - size
      BY Modulo
    <2>2. a <= size /\ a < 2 * size BY <1>2
    <2>3. a % size \in 0 .. size - 1 /\ a % size = IF a < size THEN a ELSE 0 BY <2>1, <2>2
    <2> QED BY <1>2, <2>3
  <1>4. Count(rd, p, size) = c + 1 /\ c + 1 \in 1 .. size BY <1>1, <1>3 DEF Count
  <1>5. (rd + (c + 1) - 1) % size = wr
    <2>1. (rd + (c + 1) - 1) % size
            = IF rd + (c + 1) <= size THEN rd + (c + 1) - 1 ELSE rd + (c + 1) - 1 - size
      BY <1>4, Place
    <2> QED BY <1>1, <2>1 DEF Count
  <1>6. ASSUME NEW i \in 1 .. c
        PROVE  /\ (rd + i - 1) % size \in 0 .. size - 1
               /\ (rd + i - 1) % size # wr
    <2>1. i \in 1 .. size OBVIOUS
    <2>2. /\ (rd + i - 1) % size \in 0 .. size - 1
          /\ (rd + i - 1) % size = IF rd + i <= size THEN rd + i - 1 ELSE rd + i - 1 - size
      BY <2>1, Place
    <2> QED BY <1>1, <2>1, <2>2 DEF Count
  <1>7. \A i \in 1 .. c : Nth(new, rd, size, i) = Nth(data, rd, size, i)
    BY <1>6 DEF Nth
  <1>8. Nth(new, rd, size, c + 1) = new[wr] BY <1>5 DEF Nth
  <1> QED BY <1>1, <1>3, <1>4, <1>7, <1>8

-----------------------------------------------------------------------------
(* The local buffer *)

\* Room is what is not held, less the one place that stays free.
LEMMA Room ==
  ASSUME NEW b, b.rd \in 0 .. BUFFER_SIZE - 1, b.wr \in 0 .. BUFFER_SIZE - 1
  PROVE  /\ AvailableLocal(b) = Count(b.rd, b.wr, BUFFER_SIZE)
         /\ AvailableSpace(b) = BUFFER_SIZE - 1 - AvailableLocal(b)
         /\ AvailableLocal(b) \in 0 .. BUFFER_SIZE - 1
         /\ AvailableSpace(b) \in 0 .. BUFFER_SIZE - 1
  <1>1. BUFFER_SIZE \in Nat \ {0} BY RttStreamAssumption
  <1> QED BY <1>1 DEF AvailableLocal, AvailableSpace, Count

\* Bytes written are the items that follow those held.
LEMMA Written ==
  ASSUME NEW V, NEW b \in [data : [0 .. BUFFER_SIZE - 1 -> V],
                           wr : 0 .. BUFFER_SIZE - 1, rd : 0 .. BUFFER_SIZE - 1],
         NEW bytes \in Seq(V), AvailableLocal(b) + Len(bytes) <= BUFFER_SIZE - 1
  PROVE  /\ WriteData(b, bytes) \in [data : [0 .. BUFFER_SIZE - 1 -> V],
                                     wr : 0 .. BUFFER_SIZE - 1, rd : 0 .. BUFFER_SIZE - 1]
         /\ WriteData(b, bytes).rd = b.rd
         /\ AvailableLocal(WriteData(b, bytes)) = AvailableLocal(b) + Len(bytes)
         /\ \A i \in 1 .. AvailableLocal(b) :
              Nth(WriteData(b, bytes).data, b.rd, BUFFER_SIZE, i) = Nth(b.data, b.rd, BUFFER_SIZE, i)
         /\ \A i \in 1 .. Len(bytes) :
              Nth(WriteData(b, bytes).data, b.rd, BUFFER_SIZE, AvailableLocal(b) + i) = bytes[i]
  <1>1. PICK size \in Nat \ {0} : size = BUFFER_SIZE BY RttStreamAssumption
  <1>2. PICK data \in [0 .. size - 1 -> V], wr \in 0 .. size - 1, rd \in 0 .. size - 1 :
          b = [data |-> data, wr |-> wr, rd |-> rd]
    BY <1>1
  <1>3. PICK m \in Nat : m = Len(bytes) BY LenProperties
  <1>4. PICK c \in 0 .. size - 1 : c = AvailableLocal(b) /\ c = Count(rd, wr, size) BY <1>1, <1>2, Room
  <1>5. c + m <= size - 1 BY <1>1, <1>3, <1>4
  <1>6. DOMAIN bytes = 1 .. m /\ \A k \in 1 .. m : bytes[k] \in V BY <1>3
  <1> DEFINE turn(p) == 1 + ((p + size - wr) % size)
             new == [p \in 0 .. size - 1 |-> IF turn(p) \in 1 .. m THEN bytes[turn(p)] ELSE data[p]]
  <1>7. WriteData(b, bytes) = [data |-> new, wr |-> (wr + m) % size, rd |-> rd]
    <2>1. b.data = data /\ b.wr = wr /\ DOMAIN b.data = 0 .. size - 1 BY <1>2
    <2>2. new = [p \in DOMAIN b.data |->
                   LET k == 1 + ((p + size - b.wr) % size)
                   IN  IF k \in DOMAIN bytes THEN bytes[k] ELSE b.data[p]]
      BY <1>6, <2>1
    <2>3. WriteData(b, bytes) = [b EXCEPT !.data = new, !.wr = (b.wr + m) % size]
      BY <1>1, <1>3, <2>2 DEF WriteData
    <2> HIDE DEF new
    <2> QED BY <1>2, <2>1, <2>3
  <1>8. PICK a \in Nat : a = wr + m OBVIOUS
  <1>9. PICK w \in 0 .. size - 1 :
          w = (wr + m) % size /\ w = IF wr + m < size THEN wr + m ELSE wr + m - size
    <2>1. /\ a % size \in 0 .. size - 1
          /\ a < size => a % size = a
          /\ a >= size /\ a < 2 * size => a % size = a - size
      BY Modulo
    <2>2. a < 2 * size BY <1>5, <1>8
    <2>3. a % size = IF a < size THEN a ELSE a - size BY <2>1, <2>2
    <2>4. (wr + m) % size = a % size BY <1>8
    <2> QED BY <1>8, <2>1, <2>3, <2>4, SMTT(30)
  <1>10. new \in [0 .. size - 1 -> V] BY <1>6
  <1>11. Count(rd, w, size) = c + m
    <2>1. c = IF wr >= rd THEN wr - rd ELSE size - rd + wr BY <1>4 DEF Count
    <2>2. w = IF wr + m < size THEN wr + m ELSE wr + m - size BY <1>9
    <2>3. (IF w >= rd THEN w - rd ELSE size - rd + w) = c + m
      <3>1. CASE wr >= rd BY <1>5, <2>1, <2>2, <3>1
      <3>2. CASE ~(wr >= rd) BY <1>5, <2>1, <2>2, <3>2
      <3> QED BY <3>1, <3>2
    <2> QED BY <2>3 DEF Count
  <1>12. ASSUME NEW p \in 0 .. size - 1
         PROVE  turn(p) = IF p >= wr THEN 1 + p - wr ELSE 1 + p + size - wr
    <2>1. PICK d \in Nat : d = p + size - wr OBVIOUS
    <2>2. d < 2 * size BY <2>1
    <2>3. /\ d < size => d % size = d
          /\ d >= size /\ d < 2 * size => d % size = d - size
      BY Modulo
    <2>4. turn(p) = 1 + (d % size) BY <2>1
    <2> HIDE DEF turn
    <2>5. CASE p >= wr BY <2>1, <2>2, <2>3, <2>4, <2>5
    <2>6. CASE ~(p >= wr) BY <2>1, <2>2, <2>3, <2>4, <2>6
    <2> QED BY <2>5, <2>6
  <1>13. ASSUME NEW i \in 1 .. c
         PROVE  Nth(new, rd, size, i) = Nth(data, rd, size, i)
    <2>1. PICK p \in 0 .. size - 1 :
            p = (rd + i - 1) % size /\ p = IF rd + i <= size THEN rd + i - 1 ELSE rd + i - 1 - size
      <3>1. i \in 1 .. size OBVIOUS
      <3> QED BY <3>1, Place
    <2>2. turn(p) = size - c + i
      <3>1. turn(p) = IF p >= wr THEN 1 + p - wr ELSE 1 + p + size - wr BY <1>12
      <3>2. c = IF wr >= rd THEN wr - rd ELSE size - rd + wr BY <1>4 DEF Count
      <3> HIDE DEF turn
      <3>3. CASE wr >= rd
        <4>1. p = rd + i - 1 /\ ~(p >= wr) BY <2>1, <3>2, <3>3, SMTT(30)
        <4> QED BY <3>1, <3>2, <3>3, <4>1
      <3>4. CASE ~(wr >= rd)
        <4>1. CASE rd + i <= size
          <5>1. p = rd + i - 1 /\ p >= wr BY <2>1, <3>4, <4>1
          <5> QED BY <3>1, <3>2, <3>4, <5>1
        <4>2. CASE ~(rd + i <= size)
          <5>1. p = rd + i - 1 - size BY <2>1, <4>2
          <5>2. i <= size - rd + wr BY <3>2, <3>4
          <5>3. ~(p >= wr) BY <5>1, <5>2
          <5> QED BY <3>1, <3>2, <3>4, <5>1, <5>3
        <4> QED BY <4>1, <4>2
      <3> QED BY <3>3, <3>4
    <2>3. new[p] = data[p] BY <1>5, <2>2
    <2> QED BY <2>1, <2>3 DEF Nth
  <1>14. ASSUME NEW i \in 1 .. m
         PROVE  Nth(new, rd, size, c + i) = bytes[i]
    <2>1. c + i \in 1 .. size BY <1>5
    <2>2. PICK p \in 0 .. size - 1 :
            /\ p = (rd + (c + i) - 1) % size
            /\ p = IF rd + (c + i) <= size THEN rd + (c + i) - 1 ELSE rd + (c + i) - 1 - size
      BY <2>1, Place
    <2>3. turn(p) = i
      <3>1. turn(p) = IF p >= wr THEN 1 + p - wr ELSE 1 + p + size - wr BY <1>12
      <3> QED BY <1>4, <1>5, <2>2, <3>1, SMTT(30) DEF Count
    <2>4. new[p] = bytes[i] BY <2>3
    <2> QED BY <2>2, <2>4 DEF Nth
  <1> HIDE DEF new
  <1>15. WriteData(b, bytes) = [data |-> new, wr |-> w, rd |-> rd] BY <1>7, <1>9
  <1>16. AvailableLocal(WriteData(b, bytes)) = c + m
    <2>1. AvailableLocal(WriteData(b, bytes)) = Count(rd, w, size) BY <1>1, <1>15, Room
    <2> QED BY <1>11, <2>1
  <1>17. /\ WriteData(b, bytes) \in [data : [0 .. size - 1 -> V], wr : 0 .. size - 1, rd : 0 .. size - 1]
         /\ WriteData(b, bytes).rd = rd /\ WriteData(b, bytes).data = new
         /\ b.rd = rd /\ b.data = data
    BY <1>2, <1>10, <1>15
  <1> QED BY <1>1, <1>3, <1>4, <1>13, <1>14, <1>16, <1>17

-----------------------------------------------------------------------------
(* The invariant *)

Unread == Count(up.rd, up.wr, RingSize)
Kept == AvailableLocal(local)
UpItem(i) == Nth(up.data, up.rd, RingSize, i)
LocalItem(i) == Nth(local.data, local.rd, BUFFER_SIZE, i)
Given(i) == IF i = 0 THEN got ELSE LocalItem(i)

Ups(n) ==
  [data : [0 .. RingSize - 1 -> 0 .. n], wr : 0 .. RingSize - 1, rd : 0 .. RingSize - 1,
   ready : BOOLEAN]
Rtts(n) ==
  [at : {"select", "cb", "buf", "rd", "wr", "data", "ack", "panic"},
   state : {"Started", "Stopped"}, restart : BOOLEAN, size : {0, RingSize},
   rd : 0 .. RingSize - 1, todo : Seq(PieceType), chunk : Seq(0 .. n)]
Locals(n) ==
  [data : [0 .. BUFFER_SIZE - 1 -> 0 .. n], wr : 0 .. BUFFER_SIZE - 1, rd : 0 .. BUFFER_SIZE - 1]

\* Every byte anywhere is one the target has written, or what memory held before.
StreamType ==
  /\ sent \in 0 .. MaxBytes
  /\ boots \in 0 .. MaxBoots
  /\ faith \in {"exact", "again", "broken", "torn"}
  /\ up \in Ups(sent)
  /\ rtt \in Rtts(sent) /\ Len(rtt.chunk) <= MAX_BYTES_PER_READ
  /\ local \in Locals(sent)
  /\ got \in 0 .. sent
  /\ out \in Seq(0 .. sent)

\* What is left to read of n bytes: all of it in one piece or in two, or the second.
Goal(r, n) ==
  \/ /\ r.chunk = <<>> /\ r.todo = <<Piece(r.rd, n)>>
     /\ r.size = RingSize => r.rd + n <= RingSize
  \/ /\ r.chunk = <<>> /\ r.size = RingSize /\ n > RingSize - r.rd
     /\ r.todo = <<Piece(r.rd, RingSize - r.rd), Piece(0, n - (RingSize - r.rd))>>
  \/ /\ Len(r.chunk) = RingSize - r.rd /\ r.size = RingSize /\ n > RingSize - r.rd
     /\ r.todo = <<Piece(0, n - (RingSize - r.rd))>>

\* The local buffer has room for what a poll asks the target for.
Polling ==
  /\ rtt.at = "buf" /\ ~up.ready => up.rd = 0
  /\ rtt.at = "select" => rtt.chunk = <<>>
  /\ rtt.size = 0 => rtt.rd = 0
  /\ rtt.at = "ack" => rtt.size = RingSize
  /\ rtt.at \in {"rd", "wr"} \/ (rtt.at \in {"cb", "buf"} /\ rtt.restart) => AvailableSpace(local) > 0
  /\ rtt.at = "data" =>
       \E n \in 1 .. MAX_BYTES_PER_READ :
         /\ n <= AvailableSpace(local)
         /\ faith # "torn" => n <= Unread
         /\ Goal(rtt, n)

\* Past the read position no poll goes by what the target was before a reset.
Synced ==
  faith # "torn" =>
    /\ rtt.at # "panic"
    /\ ~up.ready => up.wr = 0 /\ up.rd = 0
    /\ rtt.at = "buf" => up.ready
    /\ rtt.state = "Started" \/ rtt.at \in {"rd", "wr", "data", "ack"} => rtt.size = RingSize
    /\ rtt.at \in {"wr", "data", "ack"} => up.rd = rtt.rd

\* What the rings hold the target wrote; a poll has the first of the unread.
Meant ==
  faith # "torn" =>
    /\ \A i \in 1 .. Unread : UpItem(i) # 0
    /\ \A i \in 1 .. Kept : LocalItem(i) # 0
    /\ rtt.at \in {"data", "ack"} =>
         /\ Len(rtt.chunk) <= Unread
         /\ \A i \in 1 .. Len(rtt.chunk) : rtt.chunk[i] = UpItem(i)

\* While the target is not reset the bytes run on from one ring to the other.
\* Between the bytes' way into the local buffer and the new read position on
\* the target the two rings share a chunk.
Flowing ==
  faith \in {"exact", "again"} =>
    /\ \A i \in 1 .. Unread : UpItem(i) = sent - Unread + i
    /\ \A i \in 1 .. Kept : Given(i) <= Given(i - 1) + 1
    /\ faith = "exact" => \A i \in 1 .. Kept : Given(i) = Given(i - 1) + 1
    /\ sent - Unread <= Given(Kept)
    /\ faith = "exact" /\ rtt.at # "ack" => sent - Unread = Given(Kept)
    /\ rtt.at = "ack" => sent - Unread + Len(rtt.chunk) = Given(Kept)

StreamInv == StreamType /\ Polling /\ Synced /\ Meant /\ Flowing

LEMMA Sizes ==
  /\ RingSize \in Nat \ {0} /\ BUFFER_SIZE \in Nat \ {0} /\ MAX_BYTES_PER_READ \in Nat \ {0}
  /\ MaxBytes \in Nat /\ MaxBoots \in Nat
  BY RttStreamAssumption

\* The types in their parts.
LEMMA Parts ==
  ASSUME StreamType
  PROVE  /\ sent \in Nat /\ sent <= MaxBytes
         /\ up.data \in [0 .. RingSize - 1 -> 0 .. sent]
         /\ up.wr \in 0 .. RingSize - 1 /\ up.rd \in 0 .. RingSize - 1 /\ up.ready \in BOOLEAN
         /\ rtt.at \in {"select", "cb", "buf", "rd", "wr", "data", "ack", "panic"}
         /\ rtt.state \in {"Started", "Stopped"} /\ rtt.restart \in BOOLEAN
         /\ rtt.size \in {0, RingSize} /\ rtt.rd \in 0 .. RingSize - 1
         /\ rtt.todo \in Seq(PieceType) /\ rtt.chunk \in Seq(0 .. sent)
         /\ Len(rtt.chunk) \in Nat /\ Len(rtt.chunk) <= MAX_BYTES_PER_READ
         /\ local.data \in [0 .. BUFFER_SIZE - 1 -> 0 .. sent]
         /\ local.wr \in 0 .. BUFFER_SIZE - 1 /\ local.rd \in 0 .. BUFFER_SIZE - 1
         /\ got \in 0 .. sent
  <1>1. sent \in Nat /\ sent <= MaxBytes BY Sizes DEF StreamType
  <1>2. rtt.chunk \in Seq(0 .. sent) BY DEF StreamType, Rtts
  <1>3. Len(rtt.chunk) \in Nat BY <1>2, LenProperties
  <1> QED BY <1>1, <1>2, <1>3 DEF StreamType, Ups, Rtts, Locals

LEMMA Counts ==
  ASSUME StreamType
  PROVE  /\ Unread \in 0 .. RingSize - 1
         /\ Unread = 0 <=> up.rd = up.wr
         /\ Kept \in 0 .. BUFFER_SIZE - 1
         /\ Kept = Count(local.rd, local.wr, BUFFER_SIZE)
         /\ AvailableSpace(local) = BUFFER_SIZE - 1 - Kept
         /\ AvailableSpace(local) \in 0 .. BUFFER_SIZE - 1
         /\ \A i \in 1 .. Unread : UpItem(i) \in 0 .. sent
         /\ \A i \in 1 .. Kept : LocalItem(i) \in 0 .. sent
         /\ \A i \in 0 .. Kept : Given(i) \in 0 .. sent
  <1>1. /\ up.data \in [0 .. RingSize - 1 -> 0 .. sent]
        /\ up.wr \in 0 .. RingSize - 1 /\ up.rd \in 0 .. RingSize - 1
        /\ local.data \in [0 .. BUFFER_SIZE - 1 -> 0 .. sent]
        /\ local.wr \in 0 .. BUFFER_SIZE - 1 /\ local.rd \in 0 .. BUFFER_SIZE - 1
        /\ got \in 0 .. sent
    BY Parts
  <1>2. Unread \in 0 .. RingSize - 1 /\ (Unread = 0 <=> up.rd = up.wr)
    <2>1. up.wr \in 0 .. RingSize - 1 /\ up.rd \in 0 .. RingSize - 1 /\ RingSize \in Nat \ {0}
      BY <1>1, Sizes
    <2>2. /\ Count(up.rd, up.wr, RingSize) \in 0 .. RingSize - 1
          /\ Count(up.rd, up.wr, RingSize) = 0 <=> up.rd = up.wr
      BY <2>1, Holds, ZenonT(30)
    <2> QED BY <2>2 DEF Unread
  <1>3. /\ Kept \in 0 .. BUFFER_SIZE - 1
        /\ Kept = Count(local.rd, local.wr, BUFFER_SIZE)
        /\ AvailableSpace(local) = BUFFER_SIZE - 1 - Kept
        /\ AvailableSpace(local) \in 0 .. BUFFER_SIZE - 1
    BY <1>1, Room DEF Kept
  <1>4. ASSUME NEW i \in 1 .. Unread PROVE UpItem(i) \in 0 .. sent
    <2>1. i \in 1 .. RingSize BY <1>2, Sizes
    <2>2. (up.rd + i - 1) % RingSize \in 0 .. RingSize - 1 BY <1>1, <2>1, Sizes, Place
    <2> QED BY <1>1, <2>2 DEF UpItem, Nth
  <1>5. ASSUME NEW i \in 1 .. Kept PROVE LocalItem(i) \in 0 .. sent
    <2>1. i \in 1 .. BUFFER_SIZE BY <1>3, Sizes
    <2>2. (local.rd + i - 1) % BUFFER_SIZE \in 0 .. BUFFER_SIZE - 1 BY <1>1, <2>1, Sizes, Place
    <2> QED BY <1>1, <2>2 DEF LocalItem, Nth
  <1>6. \A i \in 0 .. Kept : i = 0 \/ i \in 1 .. Kept BY <1>3
  <1> QED BY <1>1, <1>2, <1>3, <1>4, <1>5, <1>6 DEF Given

-----------------------------------------------------------------------------
(* The task's own steps *)

\* What moving on to an access leaves of the task.
LEMMA AtIs ==
  ASSUME NEW n \in Nat, NEW r \in Rtts(n),
         NEW at \in {"select", "cb", "buf", "rd", "wr", "data", "ack", "panic"}
  PROVE  /\ At(r, at) \in Rtts(n)
         /\ At(r, at).at = at /\ At(r, at).state = r.state /\ At(r, at).restart = r.restart
         /\ At(r, at).size = r.size /\ At(r, at).rd = r.rd
         /\ At(r, at).todo = <<>> /\ At(r, at).chunk = <<>>
  <1>1. <<>> \in Seq(PieceType) /\ <<>> \in Seq(0 .. n) OBVIOUS
  <1>2. At(r, at) \in Rtts(n) BY <1>1 DEF At, Rtts
  <1>3. At(r, at).at = at /\ At(r, at).state = r.state /\ At(r, at).restart = r.restart
    BY DEF At, Rtts
  <1>4. At(r, at).size = r.size /\ At(r, at).rd = r.rd BY DEF At, Rtts
  <1>5. At(r, at).todo = <<>> /\ At(r, at).chunk = <<>> BY DEF At, Rtts
  <1> QED BY <1>2, <1>3, <1>4, <1>5

LEMMA LoopIs ==
  ASSUME NEW n \in Nat, NEW r \in Rtts(n), NEW b
  PROVE  /\ Loop(r, b) \in Rtts(n)
         /\ \/ Loop(r, b).at = "select"
            \/ Loop(r, b).at = "rd" /\ r.state = "Started" /\ AvailableSpace(b) > 0
         /\ Loop(r, b).state = r.state /\ Loop(r, b).restart = r.restart
         /\ Loop(r, b).size = r.size /\ Loop(r, b).rd = r.rd
         /\ Loop(r, b).todo = <<>> /\ Loop(r, b).chunk = <<>>
  <1>1. CASE r.state = "Started" /\ AvailableSpace(b) > 0
    <2>1. Loop(r, b) = At(r, "rd") BY <1>1 DEF Loop
    <2> QED BY <1>1, <2>1, AtIs
  <1>2. CASE ~(r.state = "Started" /\ AvailableSpace(b) > 0)
    <2>1. Loop(r, b) = At(r, "select") BY <1>2 DEF Loop
    <2>2. /\ At(r, "select") \in Rtts(n)
          /\ At(r, "select").at = "select" /\ At(r, "select").state = r.state
          /\ At(r, "select").restart = r.restart
          /\ At(r, "select").size = r.size /\ At(r, "select").rd = r.rd
          /\ At(r, "select").todo = <<>> /\ At(r, "select").chunk = <<>>
      BY AtIs
    <2> QED BY <2>1, <2>2
  <1> QED BY <1>1, <1>2

-----------------------------------------------------------------------------
\* A step that moves only the task, to where it has no chunk.
Moved ==
  /\ UNCHANGED <<targetVars, local, clientVars, faith>>
  /\ rtt' \in Rtts(sent)
  /\ rtt'.chunk = <<>>
  /\ rtt.at # "ack" /\ rtt'.at \notin {"ack", "panic"}
  /\ rtt'.at = "buf" => up.ready
  /\ rtt'.size = 0 => rtt'.rd = 0
  /\ rtt'.at \in {"rd", "wr"} \/ (rtt'.at \in {"cb", "buf"} /\ rtt'.restart)
       => AvailableSpace(local) > 0
  /\ faith # "torn" =>
       /\ rtt'.state = "Started" \/ rtt'.at \in {"rd", "wr", "data"} => rtt'.size = RingSize
       /\ rtt'.at \in {"wr", "data"} => up.rd = rtt'.rd
  /\ rtt'.at = "data" =>
       \E n \in 1 .. MAX_BYTES_PER_READ :
         /\ n <= AvailableSpace(local)
         /\ faith # "torn" => n <= Unread
         /\ Goal(rtt', n)

LEMMA MovedKeeps ==
  ASSUME StreamInv, Moved
  PROVE  StreamInv'
  <1> USE DEF Moved, targetVars, clientVars
  <1>1. StreamType'
    <2>1. Len(rtt'.chunk) <= MAX_BYTES_PER_READ
      <3>1. Len(<<>>) = 0 BY EmptySeq
      <3> QED BY <3>1, Sizes
    <2> QED BY <2>1 DEF StreamInv, StreamType, Ups, Rtts, Locals
  <1>2. /\ Unread' = Unread /\ Kept' = Kept
        /\ AvailableSpace(local') = AvailableSpace(local)
        /\ \A i : UpItem(i)' = UpItem(i) /\ LocalItem(i)' = LocalItem(i) /\ Given(i)' = Given(i)
    BY DEF Unread, Kept, UpItem, LocalItem, Given
  <1>3. Polling'
    BY <1>2 DEF StreamInv, Polling
  <1>4. Synced' BY DEF StreamInv, Synced
  <1>5. Meant'
    <2>1. Len(rtt'.chunk) = 0 BY EmptySeq
    <2>2. StreamType BY DEF StreamInv
    <2>3. Unread \in Nat BY <2>2, Counts
    <2> QED BY <1>2, <2>1, <2>3 DEF StreamInv, Meant
  <1>6. Flowing' BY <1>2 DEF StreamInv, Flowing
  <1> QED BY <1>1, <1>3, <1>4, <1>5, <1>6 DEF StreamInv

\* Back in the loop, or waiting in it.
LEMMA LoopMoves ==
  ASSUME StreamInv, UNCHANGED <<targetVars, local, clientVars, faith>>, rtt.at # "ack",
         NEW r \in Rtts(sent), r.size = 0 => r.rd = 0,
         faith # "torn" /\ r.state = "Started" => r.size = RingSize,
         rtt' = Loop(r, local) \/ rtt' = At(r, "select")
  PROVE  Moved
  <1>1. sent \in Nat BY Parts DEF StreamInv
  <1>2. /\ rtt' \in Rtts(sent) /\ rtt'.chunk = <<>>
        /\ \/ rtt'.at = "select"
           \/ rtt'.at = "rd" /\ r.state = "Started" /\ AvailableSpace(local) > 0
        /\ rtt'.state = r.state /\ rtt'.size = r.size /\ rtt'.rd = r.rd
    <2>1. CASE rtt' = Loop(r, local) BY <1>1, <2>1, LoopIs
    <2>2. CASE rtt' = At(r, "select") BY <1>1, <2>2, AtIs
    <2> QED BY <2>1, <2>2
  <1> QED BY <1>2 DEF Moved

LEMMA FailedReadMoves ==
  ASSUME StreamInv, NEW at, at # "ack", FailedRead(at, At(rtt, "select"))
  PROVE  Moved
  <1>1. rtt \in Rtts(sent) /\ (rtt.size = 0 => rtt.rd = 0)
        /\ (faith # "torn" /\ rtt.state = "Started" => rtt.size = RingSize)
    BY DEF StreamInv, StreamType, Polling, Synced
  <1> QED BY <1>1, LoopMoves DEF FailedRead

LEMMA StartFailedMoves ==
  ASSUME StreamInv, UNCHANGED <<targetVars, local, clientVars, faith>>, rtt.at # "ack",
         rtt' = StartFailed
  PROVE  Moved
  <1>1. rtt \in Rtts(sent) /\ (rtt.size = 0 => rtt.rd = 0)
        /\ (faith # "torn" /\ rtt.state = "Started" => rtt.size = RingSize)
    BY DEF StreamInv, StreamType, Polling, Synced
  <1>2. rtt' = Loop(rtt, local) \/ rtt' = At(rtt, "select") BY DEF StartFailed
  <1> QED BY <1>1, <1>2, LoopMoves

LEMMA TimerMoves ==
  ASSUME StreamInv, Timer
  PROVE  Moved
  <1>1. rtt \in Rtts(sent) /\ (rtt.size = 0 => rtt.rd = 0)
        /\ (faith # "torn" /\ rtt.state = "Started" => rtt.size = RingSize)
    BY DEF StreamInv, StreamType, Polling, Synced
  <1> QED BY <1>1, LoopMoves DEF Timer

LEMMA StartMoves ==
  ASSUME StreamInv, Start
  PROVE  Moved
  <1>1. sent \in Nat /\ rtt \in Rtts(sent) BY Parts DEF StreamInv, StreamType
  <1>2. PICK r : r = At(rtt, "cb") OBVIOUS
  <1>3. /\ r \in Rtts(sent) /\ r.at = "cb" /\ r.state = rtt.state /\ r.size = rtt.size
        /\ r.rd = rtt.rd /\ r.chunk = <<>>
    BY <1>1, <1>2, AtIs
  <1>4. rtt' = [r EXCEPT !.restart = FALSE] BY <1>2 DEF Start
  <1>5. /\ rtt' \in Rtts(sent) /\ rtt'.at = "cb" /\ rtt'.state = rtt.state /\ rtt'.size = rtt.size
        /\ rtt'.rd = rtt.rd /\ rtt'.chunk = <<>> /\ rtt'.restart = FALSE
    BY <1>3, <1>4 DEF Rtts
  <1> QED BY <1>5 DEF Start, Moved, StreamInv, Polling, Synced

LEMMA StopMoves ==
  ASSUME StreamInv, Stop
  PROVE  Moved
  <1>1. sent \in Nat /\ rtt \in Rtts(sent) BY Parts DEF StreamInv, StreamType
  <1>2. rtt' = [rtt EXCEPT !.state = "Stopped"] /\ rtt.at = "select" BY DEF Stop
  <1>3. /\ rtt' \in Rtts(sent) /\ rtt'.at = "select" /\ rtt'.state = "Stopped"
        /\ rtt'.size = rtt.size /\ rtt'.rd = rtt.rd /\ rtt'.chunk = rtt.chunk
    BY <1>1, <1>2 DEF Rtts
  <1> QED BY <1>2, <1>3 DEF Stop, Moved, StreamInv, Polling

LEMMA ReadCbMoves ==
  ASSUME StreamInv, ReadCb
  PROVE  Moved
  <1>1. sent \in Nat /\ rtt \in Rtts(sent) BY Parts DEF StreamInv, StreamType
  <1>2. CASE UNCHANGED <<targetVars, local, clientVars, faith>> /\ rtt.at = "cb" /\ up.ready
             /\ rtt' = At(rtt, "buf")
    <2>1. /\ rtt' \in Rtts(sent) /\ rtt'.at = "buf" /\ rtt'.state = rtt.state
          /\ rtt'.size = rtt.size /\ rtt'.rd = rtt.rd /\ rtt'.chunk = <<>>
          /\ rtt'.restart = rtt.restart
      BY <1>1, <1>2, AtIs
    <2> QED BY <1>2, <2>1 DEF Moved, StreamInv, Polling, Synced
  <1>3. CASE UNCHANGED <<targetVars, local, clientVars, faith>> /\ rtt.at = "cb"
             /\ rtt' = StartFailed
    BY <1>3, StartFailedMoves
  <1> QED BY <1>2, <1>3 DEF ReadCb, FailedRead

LEMMA ReadBufMoves ==
  ASSUME StreamInv, ReadBuf
  PROVE  Moved
  <1>1. sent \in Nat /\ rtt \in Rtts(sent) BY Parts DEF StreamInv, StreamType
  <1>2. CASE UNCHANGED <<targetVars, local, clientVars, faith>> /\ rtt.at = "buf"
             /\ rtt' = StartFailed
    BY <1>2, StartFailedMoves
  <1>3. ASSUME UNCHANGED <<targetVars, local, clientVars, faith>>, rtt.at = "buf",
               NEW r, r = [rtt EXCEPT !.state = "Started", !.rd = up.rd,
                                      !.size = IF up.ready THEN RingSize ELSE 0],
               rtt' = IF r.restart THEN At(r, "wr") ELSE Loop(r, local)
        PROVE  Moved
    <2>1. PICK size \in {0, RingSize} : size = IF up.ready THEN RingSize ELSE 0 OBVIOUS
    <2>2. up.rd \in 0 .. RingSize - 1 /\ up.wr \in 0 .. RingSize - 1 BY Parts DEF StreamInv
    <2>3. r = [rtt EXCEPT !.state = "Started", !.rd = up.rd, !.size = size] BY <1>3, <2>1
    <2>4. /\ r \in Rtts(sent) /\ r.at = "buf" /\ r.state = "Started" /\ r.restart = rtt.restart
          /\ r.size = size /\ r.rd = up.rd
      BY <1>1, <1>3, <2>2, <2>3 DEF Rtts
    <2>5. size = 0 => up.rd = 0
      BY <1>3, <2>1, Sizes DEF StreamInv, Polling
    <2>6. faith # "torn" => size = RingSize BY <1>3, <2>1 DEF StreamInv, Synced
    <2>7. CASE r.restart
      <3>0. rtt' = At(r, "wr") BY <1>3, <2>7
      <3>1. /\ rtt' \in Rtts(sent) /\ rtt'.at = "wr" /\ rtt'.state = "Started"
            /\ rtt'.size = size /\ rtt'.rd = up.rd /\ rtt'.chunk = <<>>
            /\ rtt'.restart = rtt.restart
        BY <1>1, <2>4, <3>0, AtIs
      <3> QED BY <1>3, <2>4, <2>5, <2>6, <2>7, <3>1 DEF Moved, StreamInv, Polling
    <2>8. CASE ~r.restart
      <3>1. rtt' = Loop(r, local) BY <1>3, <2>8
      <3> QED BY <1>3, <2>4, <2>5, <2>6, <3>1, LoopMoves
    <2> QED BY <2>7, <2>8
  <1> QED BY <1>2, <1>3 DEF ReadBuf, FailedRead

LEMMA ReadRdMoves ==
  ASSUME StreamInv, ReadRd
  PROVE  Moved
  <1>1. sent \in Nat /\ rtt \in Rtts(sent) BY Parts DEF StreamInv, StreamType
  <1>2. CASE FailedRead("rd", At(rtt, "select")) BY <1>2, FailedReadMoves
  <1>3. CASE UNCHANGED <<targetVars, local, clientVars, faith>> /\ rtt.at = "rd"
             /\ up.rd = rtt.rd /\ rtt' = At(rtt, "wr")
    <2>1. /\ rtt' \in Rtts(sent) /\ rtt'.at = "wr" /\ rtt'.state = rtt.state
          /\ rtt'.size = rtt.size /\ rtt'.rd = rtt.rd /\ rtt'.chunk = <<>>
      BY <1>1, <1>3, AtIs
    <2> QED BY <1>3, <2>1 DEF Moved, StreamInv, Polling, Synced
  <1>4. CASE UNCHANGED <<targetVars, local, clientVars, faith>> /\ rtt.at = "rd"
             /\ rtt' = [At(rtt, "cb") EXCEPT !.state = "Stopped", !.restart = TRUE]
    <2>1. PICK r : r = At(rtt, "cb") OBVIOUS
    <2>2. /\ r \in Rtts(sent) /\ r.at = "cb" /\ r.size = rtt.size /\ r.rd = rtt.rd /\ r.chunk = <<>>
      BY <1>1, <2>1, AtIs
    <2>3. /\ rtt' \in Rtts(sent) /\ rtt'.at = "cb" /\ rtt'.state = "Stopped"
          /\ rtt'.size = rtt.size /\ rtt'.rd = rtt.rd /\ rtt'.chunk = <<>>
      BY <1>4, <2>1, <2>2 DEF Rtts
    <2> QED BY <1>4, <2>3 DEF Moved, StreamInv, Polling
  <1> QED BY <1>2, <1>3, <1>4 DEF ReadRd

\* The reads of one poll are of bytes that are there, and there is room for them.
LEMMA PiecesGoal ==
  ASSUME StreamInv, rtt.at = "wr", up.wr # rtt.rd, NEW n,
         n = Least(Least(Available(rtt, up.wr), AvailableSpace(local)), MAX_BYTES_PER_READ)
  PROVE  /\ n \in 1 .. MAX_BYTES_PER_READ /\ n <= AvailableSpace(local)
         /\ faith # "torn" => n <= Unread
         /\ Pieces(rtt, up.wr, n) \in Seq(PieceType)
         /\ \/ /\ Pieces(rtt, up.wr, n) = <<Piece(rtt.rd, n)>>
               /\ rtt.size = RingSize => rtt.rd + n <= RingSize
            \/ /\ rtt.size = RingSize /\ n > RingSize - rtt.rd
               /\ Pieces(rtt, up.wr, n)
                    = <<Piece(rtt.rd, RingSize - rtt.rd), Piece(0, n - (RingSize - rtt.rd))>>
  <1>1. PICK size \in Nat \ {0}, max \in Nat \ {0}, space \in Nat :
          size = RingSize /\ max = MAX_BYTES_PER_READ /\ space = AvailableSpace(local)
    BY Sizes, Counts DEF StreamInv
  <1>2. PICK rd \in 0 .. size - 1, wr \in 0 .. size - 1 : rd = rtt.rd /\ wr = up.wr
    BY <1>1, Parts DEF StreamInv
  <1>3. rtt.size \in {0, size} /\ (rtt.size = 0 => rd = 0) /\ space > 0
    BY <1>1, <1>2, Parts DEF StreamInv, Polling
  <1>4. PICK a : a = Available(rtt, up.wr) OBVIOUS
  <1>5. a = IF wr > rd THEN wr - rd ELSE (rtt.size - rd) + wr BY <1>2, <1>4 DEF Available
  <1>6. a \in Nat \ {0} /\ (wr > rd => a = wr - rd) /\ (~(wr > rd) => rtt.size = size /\ a = size - rd + wr)
    <2>1. CASE rtt.size = 0 BY <1>2, <1>3, <1>5, <2>1
    <2>2. CASE rtt.size = size BY <1>2, <1>3, <1>5, <2>2
    <2> QED BY <1>3, <2>1, <2>2
  <1>7. n \in 1 .. max /\ n <= a /\ n <= space
    <2>1. n = Least(Least(a, space), max) BY <1>1, <1>4
    <2> QED BY <1>3, <1>6, <2>1 DEF Least
  <1>8. faith # "torn" => n <= Unread
    <2>1. faith # "torn" => Unread = Count(rd, wr, size)
      BY <1>1, <1>2 DEF StreamInv, Synced, Unread
    <2>2. Count(rd, wr, size) = a BY <1>2, <1>6 DEF Count
    <2> QED BY <1>7, <2>1, <2>2
  <1>9. CASE wr > rd \/ n <= rtt.size - rd
    <2>1. Pieces(rtt, up.wr, n) = <<Piece(rd, n)>> BY <1>2, <1>9 DEF Pieces
    <2>2. Piece(rd, n) \in PieceType BY <1>1, <1>7 DEF Piece, PieceType
    <2>3. <<Piece(rd, n)>> \in Seq(PieceType) BY <2>2
    <2>4. rtt.size = size => rd + n <= size
      <3>1. CASE wr > rd BY <1>6, <1>7, <3>1
      <3>2. CASE n <= rtt.size - rd BY <1>7, <3>2
      <3> QED BY <1>9, <3>1, <3>2
    <2> QED BY <1>1, <1>2, <1>7, <1>8, <2>1, <2>3, <2>4
  <1>10. CASE ~(wr > rd \/ n <= rtt.size - rd)
    <2>1. rtt.size = size /\ n > size - rd BY <1>3, <1>6, <1>7, <1>10
    <2>2. Pieces(rtt, up.wr, n) = <<Piece(rd, size - rd), Piece(0, n - (size - rd))>>
      BY <1>2, <1>10, <2>1 DEF Pieces
    <2>3. size - rd \in 1 .. max /\ n - (size - rd) \in 1 .. max BY <1>7, <2>1
    <2>4. Piece(rd, size - rd) \in PieceType /\ Piece(0, n - (size - rd)) \in PieceType
      BY <1>1, <2>3 DEF Piece, PieceType
    <2>5. <<Piece(rd, size - rd), Piece(0, n - (size - rd))>> \in Seq(PieceType) BY <2>4
    <2> QED BY <1>1, <1>2, <1>7, <1>8, <2>1, <2>2, <2>5
  <1> QED BY <1>9, <1>10

LEMMA ReadWrMoves ==
  ASSUME StreamInv, ReadWr
  PROVE  Moved
  <1>1. sent \in Nat /\ rtt \in Rtts(sent) BY Parts DEF StreamInv, StreamType
  <1>2. CASE FailedRead("wr", At(rtt, "select")) BY <1>2, FailedReadMoves
  <1>3. CASE UNCHANGED <<targetVars, local, clientVars, faith>> /\ rtt.at = "wr"
             /\ rtt' = At(rtt, "select")
    <2>1. /\ rtt.size = 0 => rtt.rd = 0
          /\ faith # "torn" /\ rtt.state = "Started" => rtt.size = RingSize
      BY DEF StreamInv, Polling, Synced
    <2> QED BY <1>1, <1>3, <2>1, LoopMoves
  <1>4. ASSUME UNCHANGED <<targetVars, local, clientVars, faith>>, rtt.at = "wr", up.wr # rtt.rd,
               NEW n, n = Least(Least(Available(rtt, up.wr), AvailableSpace(local)), MAX_BYTES_PER_READ),
               rtt' = [At(rtt, "data") EXCEPT !.todo = Pieces(rtt, up.wr, n)]
        PROVE  Moved
    <2>1. PICK todo : todo = Pieces(rtt, up.wr, n) OBVIOUS
    <2>2. /\ n \in 1 .. MAX_BYTES_PER_READ /\ n <= AvailableSpace(local)
          /\ faith # "torn" => n <= Unread
          /\ todo \in Seq(PieceType)
          /\ \/ /\ todo = <<Piece(rtt.rd, n)>>
                /\ rtt.size = RingSize => rtt.rd + n <= RingSize
             \/ /\ rtt.size = RingSize /\ n > RingSize - rtt.rd
                /\ todo = <<Piece(rtt.rd, RingSize - rtt.rd), Piece(0, n - (RingSize - rtt.rd))>>
      BY <1>4, <2>1, PiecesGoal
    <2>3. PICK r : r = At(rtt, "data") OBVIOUS
    <2>4. /\ r \in Rtts(sent) /\ r.at = "data" /\ r.state = rtt.state
          /\ r.size = rtt.size /\ r.rd = rtt.rd /\ r.chunk = <<>>
      BY <1>1, <2>3, AtIs
    <2>5. rtt' = [r EXCEPT !.todo = todo] BY <1>4, <2>1, <2>3
    <2>6. /\ rtt' \in Rtts(sent) /\ rtt'.at = "data" /\ rtt'.state = rtt.state
          /\ rtt'.size = rtt.size /\ rtt'.rd = rtt.rd /\ rtt'.chunk = <<>> /\ rtt'.todo = todo
      BY <2>2, <2>4, <2>5 DEF Rtts
    <2>7. Goal(rtt', n) BY <2>2, <2>6 DEF Goal
    <2> QED BY <1>4, <2>2, <2>6, <2>7 DEF Moved, StreamInv, Polling, Synced
  <1> QED BY <1>2, <1>3, <1>4 DEF ReadWr

-----------------------------------------------------------------------------
(* The bytes of a poll *)

\* Where a poll is, with what it asked for.
Fetching(n) ==
  /\ n \in 1 .. MAX_BYTES_PER_READ /\ n <= AvailableSpace(local)
  /\ faith # "torn" => n <= Unread
  /\ Goal(rtt, n)

\* What the poll has once the next piece is there.
NextChunk == rtt.chunk \o Fetch(Head(rtt.todo))

\* What a read fetches are the next of the unread bytes.
LEMMA Fetched ==
  ASSUME StreamInv, rtt.at = "data", NEW n, Fetching(n),
         NEW chunk, chunk = NextChunk
  PROVE  /\ chunk \in Seq(0 .. sent)
         /\ Len(rtt.todo) \in {1, 2}
         /\ Len(rtt.todo) = 1 => Len(chunk) = n
         /\ Len(rtt.todo) = 2 =>
              /\ Tail(rtt.todo) \in Seq(PieceType)
              /\ Len(chunk) < n
              /\ Len(chunk) = RingSize - rtt.rd /\ rtt.size = RingSize /\ n > RingSize - rtt.rd
              /\ Tail(rtt.todo) = <<Piece(0, n - (RingSize - rtt.rd))>>
         /\ faith # "torn" => \A i \in 1 .. Len(chunk) : chunk[i] = UpItem(i)
  <1>1. PICK size \in Nat \ {0}, max \in Nat \ {0} : size = RingSize /\ max = MAX_BYTES_PER_READ
    BY Sizes
  <1>2. PICK rd \in 0 .. size - 1 : rd = rtt.rd BY <1>1, Parts DEF StreamInv
  <1>3. n \in 1 .. max BY <1>1 DEF Fetching
  <1>4. PICK old \in Seq(0 .. sent), k \in Nat : old = rtt.chunk /\ k = Len(old)
    BY Parts DEF StreamInv
  <1>5. PICK at \in Nat, len \in Nat :
          /\ Head(rtt.todo) = Piece(at, len)
          /\ \/ /\ Len(rtt.todo) = 1 /\ k + len = n
                /\ rtt.size = size =>
                     \/ k = 0 /\ at = rd /\ rd + n <= size
                     \/ k = size - rd /\ at = 0 /\ n > size - rd
             \/ /\ Len(rtt.todo) = 2 /\ k = 0 /\ at = rd /\ len = size - rd /\ rtt.size = size
                /\ n > size - rd /\ Tail(rtt.todo) = <<Piece(0, n - (size - rd))>>
    <2>1. CASE /\ rtt.chunk = <<>> /\ rtt.todo = <<Piece(rd, n)>>
               /\ rtt.size = size => rd + n <= size
      <3>1. Len(rtt.todo) = 1 /\ Head(rtt.todo) = Piece(rd, n) BY <2>1
      <3>2. k = 0 BY <1>4, <2>1, EmptySeq
      <3> QED BY <1>3, <2>1, <3>1, <3>2
    <2>2. CASE /\ rtt.chunk = <<>> /\ rtt.size = size /\ n > size - rd
               /\ rtt.todo = <<Piece(rd, size - rd), Piece(0, n - (size - rd))>>
      <3>1. /\ Len(rtt.todo) = 2 /\ Head(rtt.todo) = Piece(rd, size - rd)
            /\ Tail(rtt.todo) = <<Piece(0, n - (size - rd))>>
        BY <2>2
      <3>2. k = 0 /\ size - rd \in Nat BY <1>4, <2>2, EmptySeq
      <3> QED BY <2>2, <3>1, <3>2
    <2>3. CASE /\ Len(rtt.chunk) = size - rd /\ rtt.size = size /\ n > size - rd
               /\ rtt.todo = <<Piece(0, n - (size - rd))>>
      <3>1. Len(rtt.todo) = 1 /\ Head(rtt.todo) = Piece(0, n - (size - rd)) BY <2>3
      <3>2. k = size - rd /\ n - (size - rd) \in Nat /\ k + (n - (size - rd)) = n
        BY <1>3, <1>4, <2>3
      <3> QED BY <2>3, <3>1, <3>2
    <2> QED BY <1>1, <1>2, <2>1, <2>2, <2>3 DEF Fetching, Goal
  <1> DEFINE new == Fetch(Piece(at, len))
  <1>6. new = [i \in 1 .. len |->
                 IF rtt.size = size /\ at + i - 1 \in 0 .. size - 1 THEN up.data[at + i - 1] ELSE 0]
    <2>1. DOMAIN up.data = 0 .. size - 1 BY <1>1, Parts DEF StreamInv
    <2>2. Piece(at, len).at = at /\ Piece(at, len).len = len BY DEF Piece
    <2> QED BY <1>1, <2>1, <2>2 DEF Fetch
  <1>7. new \in Seq(0 .. sent) /\ Len(new) = len
    <2>1. \A p \in 0 .. size - 1 : up.data[p] \in 0 .. sent BY <1>1, Parts DEF StreamInv
    <2>2. 0 \in 0 .. sent BY Parts DEF StreamInv
    <2>3. new \in [1 .. len -> 0 .. sent] BY <1>6, <2>1, <2>2
    <2> HIDE DEF new
    <2>4. PICK f : f = new OBVIOUS
    <2>5. PICK V : V = 0 .. sent OBVIOUS
    <2>6. f \in [1 .. len -> V] BY <2>3, <2>4, <2>5
    <2>7. f \in Seq(V) /\ Len(f) = len BY <2>6
    <2> QED BY <2>4, <2>5, <2>7
  <1>8. chunk = old \o new BY <1>4, <1>5 DEF NextChunk
  <1> HIDE DEF new
  <1>9. /\ chunk \in Seq(0 .. sent) /\ Len(chunk) = k + len
        /\ \A i \in 1 .. k + len : chunk[i] = IF i <= k THEN old[i] ELSE new[i - k]
    <2>1. PICK f : f = new OBVIOUS
    <2>2. old \in Seq(0 .. sent) /\ f \in Seq(0 .. sent) /\ Len(f) = len BY <1>7, <2>1
    <2>3. /\ old \o f \in Seq(0 .. sent) /\ Len(old \o f) = Len(old) + Len(f)
          /\ \A i \in 1 .. Len(old) + Len(f) :
               (old \o f)[i] = IF i <= Len(old) THEN old[i] ELSE f[i - Len(old)]
      BY <2>2, ConcatProperties
    <2> QED BY <1>4, <1>8, <2>1, <2>2, <2>3
  <1>10. ASSUME faith # "torn", NEW i \in 1 .. k + len
         PROVE  chunk[i] = UpItem(i)
    <2>1. /\ rtt.size = size /\ up.rd = rd
          /\ \A j \in 1 .. k : old[j] = UpItem(j)
      BY <1>1, <1>2, <1>4, <1>10 DEF StreamInv, Synced, Meant
    <2>2. CASE i <= k
      <3>1. i \in 1 .. k BY <2>2
      <3>2. chunk[i] = old[i] BY <1>9, <2>2
      <3> QED BY <2>1, <3>1, <3>2
    <2>3. CASE ~(i <= k)
      <3>1. i - k \in 1 .. len BY <2>3
      <3>2. /\ at + (i - k) - 1 \in 0 .. size - 1
            /\ i \in 1 .. size
            /\ at + (i - k) - 1 = IF rd + i <= size THEN rd + i - 1 ELSE rd + i - 1 - size
        <4>1. CASE k = 0 /\ at = rd /\ rd + len <= size BY <3>1, <4>1
        <4>2. CASE k = size - rd /\ at = 0 /\ n > size - rd /\ k + len = n
          <5>1. n <= Unread /\ Unread \in 0 .. size - 1
            BY <1>1, <1>10, Counts DEF Fetching, StreamInv
          <5>2. PICK u \in 0 .. size - 1 : u = Unread BY <5>1
          <5>3. n <= u BY <5>1, <5>2
          <5>4. i <= u BY <1>3, <4>2, <5>3
          <5> QED BY <2>3, <3>1, <4>2, <5>4
        <4> QED BY <1>5, <2>1, <4>1, <4>2
      <3>3. chunk[i] = up.data[at + (i - k) - 1] BY <1>6, <1>9, <2>1, <2>3, <3>1, <3>2
      <3>4. (rd + i - 1) % size = IF rd + i <= size THEN rd + i - 1 ELSE rd + i - 1 - size
        BY <3>2, Place
      <3>5. UpItem(i) = up.data[(rd + i - 1) % size] BY <1>1, <2>1 DEF UpItem, Nth
      <3> QED BY <3>2, <3>3, <3>4, <3>5
    <2> QED BY <2>2, <2>3
  <1>11. Tail(rtt.todo) = <<Piece(0, n - (size - rd))>> /\ n > size - rd => Tail(rtt.todo) \in Seq(PieceType)
    <2>1. ASSUME n > size - rd PROVE <<Piece(0, n - (size - rd))>> \in Seq(PieceType)
      <3>1. n - (size - rd) \in 1 .. max BY <1>3, <2>1
      <3>2. Piece(0, n - (size - rd)) \in PieceType BY <1>1, <3>1 DEF Piece, PieceType
      <3> QED BY <3>2
    <2> QED BY <2>1
  <1>12. \/ Len(rtt.todo) = 1 /\ Len(chunk) = n
         \/ /\ Len(rtt.todo) = 2
            /\ Len(chunk) = size - rd /\ rtt.size = size /\ n > size - rd
            /\ Tail(rtt.todo) = <<Piece(0, n - (size - rd))>>
    <2>1. CASE Len(rtt.todo) = 1 /\ k + len = n BY <1>9, <2>1
    <2>2. CASE /\ Len(rtt.todo) = 2 /\ k = 0 /\ len = size - rd /\ rtt.size = size
               /\ n > size - rd /\ Tail(rtt.todo) = <<Piece(0, n - (size - rd))>>
      <3>1. k + len = size - rd BY <2>2
      <3> QED BY <1>9, <2>2, <3>1
    <2> QED BY <1>5, <2>1, <2>2
  <1>13. \/ Len(rtt.todo) = 1 /\ Len(chunk) = n
         \/ /\ Len(rtt.todo) = 2 /\ Tail(rtt.todo) \in Seq(PieceType)
            /\ Len(chunk) < n
            /\ Len(chunk) = RingSize - rtt.rd /\ rtt.size = RingSize /\ n > RingSize - rtt.rd
            /\ Tail(rtt.todo) = <<Piece(0, n - (RingSize - rtt.rd))>>
    BY <1>1, <1>2, <1>3, <1>11, <1>12
  <1>14. /\ Len(rtt.todo) \in {1, 2}
         /\ Len(rtt.todo) = 1 => Len(chunk) = n
         /\ Len(rtt.todo) = 2 =>
              /\ Tail(rtt.todo) \in Seq(PieceType)
              /\ Len(chunk) < n
              /\ Len(chunk) = RingSize - rtt.rd /\ rtt.size = RingSize /\ n > RingSize - rtt.rd
              /\ Tail(rtt.todo) = <<Piece(0, n - (RingSize - rtt.rd))>>
    <2>1. PICK l : l = Len(rtt.todo) OBVIOUS
    <2>2. 1 # 2 OBVIOUS
    <2>3. l \in {1, 2} BY <1>13, <2>1, Zenon
    <2>4. l = 1 => Len(chunk) = n BY <1>13, <2>1, <2>2, Zenon
    <2>5. l = 2 =>
            /\ Tail(rtt.todo) \in Seq(PieceType)
            /\ Len(chunk) < n
            /\ Len(chunk) = RingSize - rtt.rd /\ rtt.size = RingSize /\ n > RingSize - rtt.rd
            /\ Tail(rtt.todo) = <<Piece(0, n - (RingSize - rtt.rd))>>
      BY <1>13, <2>1, <2>2, Zenon
    <2> QED BY <2>1, <2>3, <2>4, <2>5, Zenon
  <1> QED BY <1>9, <1>10, <1>14

\* The first of two pieces is kept aside.
LEMMA FirstPieceKeeps ==
  ASSUME StreamInv, rtt.at = "data", NEW n, Fetching(n), Len(rtt.todo) = 2,
         NEW chunk, chunk = NextChunk,
         rtt' = [rtt EXCEPT !.todo = Tail(@), !.chunk = chunk],
         UNCHANGED <<targetVars, local, clientVars, faith>>
  PROVE  StreamInv'
  <1> USE DEF targetVars, clientVars
  <1>1. /\ chunk \in Seq(0 .. sent)
        /\ Tail(rtt.todo) \in Seq(PieceType) /\ Len(chunk) < n
        /\ Len(chunk) = RingSize - rtt.rd /\ rtt.size = RingSize /\ n > RingSize - rtt.rd
        /\ Tail(rtt.todo) = <<Piece(0, n - (RingSize - rtt.rd))>>
        /\ faith # "torn" => \A i \in 1 .. Len(chunk) : chunk[i] = UpItem(i)
    <2>1. /\ chunk \in Seq(0 .. sent)
          /\ Len(rtt.todo) = 1 => Len(chunk) = n
          /\ Len(rtt.todo) = 2 =>
               /\ Tail(rtt.todo) \in Seq(PieceType)
               /\ Len(chunk) < n
               /\ Len(chunk) = RingSize - rtt.rd /\ rtt.size = RingSize /\ n > RingSize - rtt.rd
               /\ Tail(rtt.todo) = <<Piece(0, n - (RingSize - rtt.rd))>>
          /\ faith # "torn" => \A i \in 1 .. Len(chunk) : chunk[i] = UpItem(i)
      BY Fetched
    <2> QED BY <2>1
  <1>2. PICK k \in Nat : k = Len(chunk) BY <1>1, LenProperties
  <1>3. PICK todo \in Seq(PieceType) : todo = Tail(rtt.todo) BY <1>1
  <1>4. rtt \in Rtts(sent) BY DEF StreamInv, StreamType
  <1>5. rtt' = [rtt EXCEPT !.todo = todo, !.chunk = chunk] BY <1>3, <1>4 DEF Rtts
  <1>6. /\ rtt' \in Rtts(sent) /\ rtt'.at = "data" /\ rtt'.state = rtt.state
        /\ rtt'.restart = rtt.restart
        /\ rtt'.size = rtt.size /\ rtt'.rd = rtt.rd /\ rtt'.chunk = chunk /\ rtt'.todo = todo
    BY <1>1, <1>4, <1>5 DEF Rtts
  <1>7. n \in 1 .. MAX_BYTES_PER_READ /\ k < n /\ k <= MAX_BYTES_PER_READ
    <2>1. n \in 1 .. MAX_BYTES_PER_READ BY DEF Fetching
    <2> QED BY <1>1, <1>2, <2>1, Sizes
  <1>8. StreamType' BY <1>2, <1>6, <1>7 DEF StreamInv, StreamType, Ups, Locals
  <1>9. /\ Unread' = Unread /\ Kept' = Kept
        /\ AvailableSpace(local') = AvailableSpace(local)
        /\ \A i : UpItem(i)' = UpItem(i) /\ LocalItem(i)' = LocalItem(i) /\ Given(i)' = Given(i)
    BY DEF Unread, Kept, UpItem, LocalItem, Given
  <1>10. Polling'
    <2>1. Goal(rtt', n)
      <3>1. /\ Len(rtt'.chunk) = RingSize - rtt'.rd /\ rtt'.size = RingSize /\ n > RingSize - rtt'.rd
            /\ rtt'.todo = <<Piece(0, n - (RingSize - rtt'.rd))>>
        BY <1>1, <1>3, <1>6
      <3> QED BY <3>1 DEF Goal
    <2> QED BY <1>6, <1>7, <1>9, <2>1 DEF StreamInv, Polling, Fetching
  <1>11. Synced' BY <1>6 DEF StreamInv, Synced
  <1>12. Meant'
    <2>1. faith # "torn" => k <= Unread
      <3>1. PICK u \in Nat : u = Unread BY Counts DEF StreamInv
      <3>2. faith # "torn" => n <= u BY <3>1 DEF Fetching
      <3> QED BY <1>7, <3>1, <3>2
    <2> QED BY <1>1, <1>2, <1>6, <1>9, <2>1 DEF StreamInv, Meant
  <1>13. Flowing' BY <1>6, <1>9 DEF StreamInv, Flowing
  <1> QED BY <1>8, <1>10, <1>11, <1>12, <1>13 DEF StreamInv

\* The task when the last piece is there.
Complete(chunk) ==
  [rtt EXCEPT !.at = IF rtt.size = 0 THEN "panic" ELSE "ack", !.todo = <<>>, !.chunk = chunk]

\* What the last piece completes goes to the local buffer, where there is room.
LEMMA LastPieceKeeps ==
  ASSUME StreamInv, rtt.at = "data", NEW n, Fetching(n), Len(rtt.todo) = 1,
         NEW chunk, chunk = NextChunk,
         local' = WriteData(local, chunk),
         rtt' = Complete(chunk), UNCHANGED <<targetVars, clientVars, faith>>
  PROVE  StreamInv'
  <1> USE DEF targetVars, clientVars
  <1>1. /\ chunk \in Seq(0 .. sent) /\ Len(chunk) = n
        /\ faith # "torn" => \A i \in 1 .. Len(chunk) : chunk[i] = UpItem(i)
    <2>1. /\ chunk \in Seq(0 .. sent)
          /\ Len(rtt.todo) = 1 => Len(chunk) = n
          /\ Len(rtt.todo) = 2 =>
               /\ Tail(rtt.todo) \in Seq(PieceType)
               /\ Len(chunk) < n
               /\ Len(chunk) = RingSize - rtt.rd /\ rtt.size = RingSize /\ n > RingSize - rtt.rd
               /\ Tail(rtt.todo) = <<Piece(0, n - (RingSize - rtt.rd))>>
          /\ faith # "torn" => \A i \in 1 .. Len(chunk) : chunk[i] = UpItem(i)
      BY Fetched
    <2> QED BY <2>1
  <1>2. PICK max \in Nat, size \in Nat \ {0}, c \in Nat :
          /\ max = MAX_BYTES_PER_READ /\ size = BUFFER_SIZE /\ c = Kept
          /\ AvailableSpace(local) = size - 1 - c
    BY Sizes, Counts DEF StreamInv
  <1>3. n \in 1 .. max /\ c + n <= size - 1
    <2>1. n \in 1 .. max /\ n <= size - 1 - c BY <1>2 DEF Fetching
    <2> QED BY <2>1
  <1>4. PICK at \in {"panic", "ack"} : at = IF rtt.size = 0 THEN "panic" ELSE "ack" OBVIOUS
  <1>5. rtt \in Rtts(sent) /\ <<>> \in Seq(PieceType) BY DEF StreamInv, StreamType
  <1>6. Complete(chunk) = [rtt EXCEPT !.at = at, !.todo = <<>>, !.chunk = chunk]
    BY <1>4 DEF Complete
  <1>7. /\ rtt' \in Rtts(sent) /\ rtt'.at = at /\ rtt'.state = rtt.state
        /\ rtt'.size = rtt.size /\ rtt'.rd = rtt.rd /\ rtt'.chunk = chunk
    BY <1>1, <1>5, <1>6 DEF Rtts
  <1>8. local \in [data : [0 .. BUFFER_SIZE - 1 -> 0 .. sent],
                   wr : 0 .. BUFFER_SIZE - 1, rd : 0 .. BUFFER_SIZE - 1]
    BY DEF StreamInv, StreamType, Locals
  <1>9. AvailableLocal(local) + Len(chunk) <= BUFFER_SIZE - 1 BY <1>1, <1>2, <1>3 DEF Kept
  <1>10. PICK b : b = WriteData(local, chunk) OBVIOUS
  <1>11. /\ b \in Locals(sent) /\ b.rd = local.rd
         /\ AvailableLocal(b) = AvailableLocal(local) + Len(chunk)
         /\ \A i \in 1 .. AvailableLocal(local) :
              Nth(b.data, local.rd, BUFFER_SIZE, i) = Nth(local.data, local.rd, BUFFER_SIZE, i)
         /\ \A i \in 1 .. Len(chunk) :
              Nth(b.data, local.rd, BUFFER_SIZE, AvailableLocal(local) + i) = chunk[i]
    <2>1. PICK V : V = 0 .. sent OBVIOUS
    <2>2. /\ local \in [data : [0 .. BUFFER_SIZE - 1 -> V],
                       wr : 0 .. BUFFER_SIZE - 1, rd : 0 .. BUFFER_SIZE - 1]
          /\ chunk \in Seq(V)
      BY <1>1, <1>8, <2>1
    <2>3. /\ b \in [data : [0 .. BUFFER_SIZE - 1 -> V],
                   wr : 0 .. BUFFER_SIZE - 1, rd : 0 .. BUFFER_SIZE - 1]
          /\ b.rd = local.rd
          /\ AvailableLocal(b) = AvailableLocal(local) + Len(chunk)
          /\ \A i \in 1 .. AvailableLocal(local) :
               Nth(b.data, local.rd, BUFFER_SIZE, i) = Nth(local.data, local.rd, BUFFER_SIZE, i)
          /\ \A i \in 1 .. Len(chunk) :
               Nth(b.data, local.rd, BUFFER_SIZE, AvailableLocal(local) + i) = chunk[i]
      BY <1>9, <1>10, <2>2, Written
    <2> QED BY <2>1, <2>3 DEF Locals
  <1>12. /\ local' \in Locals(sent) /\ Kept' = c + n
         /\ \A i \in 1 .. c : LocalItem(i)' = LocalItem(i)
         /\ \A i \in 1 .. n : LocalItem(c + i)' = chunk[i]
    BY <1>1, <1>2, <1>10, <1>11 DEF Kept, LocalItem
  <1>13. Unread' = Unread /\ \A i : UpItem(i)' = UpItem(i) BY DEF Unread, UpItem
  <1>14. StreamType'
    <2>1. Len(rtt'.chunk) <= MAX_BYTES_PER_READ
      <3>1. Len(chunk) <= max BY <1>1, <1>3
      <3> QED BY <1>2, <1>7, <3>1
    <2> QED BY <1>7, <1>12, <2>1 DEF StreamInv, StreamType, Ups
  <1>15. rtt.size \in {0, RingSize} BY <1>5 DEF Rtts
  <1>16. Polling' BY <1>4, <1>7, <1>15 DEF StreamInv, Polling
  <1>17. Synced' BY <1>4, <1>7, Sizes DEF StreamInv, Synced
  <1>18. ASSUME faith # "torn"
         PROVE  /\ n <= Unread
                /\ \A i \in 1 .. n : chunk[i] = UpItem(i) /\ i \in 1 .. Unread
    <2>1. PICK u \in Nat : u = Unread BY Counts DEF StreamInv
    <2>2. n <= u BY <1>18, <2>1 DEF Fetching
    <2>3. \A i \in 1 .. n : i \in 1 .. u BY <1>3, <2>2
    <2> QED BY <1>1, <1>18, <2>1, <2>2, <2>3
  <1>19. \A i \in 1 .. c + n : i \in 1 .. c \/ \E j \in 1 .. n : i = c + j
    <2>1. SUFFICES ASSUME NEW i \in 1 .. c + n, i \notin 1 .. c PROVE \E j \in 1 .. n : i = c + j
      OBVIOUS
    <2>2. i - c \in 1 .. n /\ i = c + (i - c) BY <1>3, <2>1
    <2> QED BY <2>2
  <1>20. Meant'
    <2>1. SUFFICES ASSUME faith # "torn"
                   PROVE  /\ \A i \in 1 .. Unread : UpItem(i) # 0
                          /\ \A i \in 1 .. c + n : LocalItem(i)' # 0
                          /\ n <= Unread
                          /\ \A i \in 1 .. n : chunk[i] = UpItem(i)
      BY <1>1, <1>7, <1>12, <1>13 DEF Meant
    <2>2. /\ \A i \in 1 .. Unread : UpItem(i) # 0
          /\ \A i \in 1 .. c : LocalItem(i) # 0
      BY <1>2, <2>1 DEF StreamInv, Meant
    <2>3. \A i \in 1 .. n : chunk[i] # 0 BY <1>18, <2>1, <2>2
    <2> QED BY <1>12, <1>18, <1>19, <2>1, <2>2, <2>3
  <1>21. Flowing'
    <2>1. SUFFICES ASSUME faith \in {"exact", "again"} PROVE Flowing'
      BY DEF Flowing
    <2>2. rtt'.at = "ack"
      <3>1. rtt.size = RingSize BY <2>1 DEF StreamInv, Synced
      <3> QED BY <1>4, <1>7, <3>1, Sizes
    <2>3. PICK u \in Nat, g \in Nat, s \in Nat : u = Unread /\ g = Given(c) /\ s = sent
      <3>1. c \in 0 .. Kept BY <1>2
      <3>2. Given(c) \in 0 .. sent /\ Unread \in Nat /\ sent \in Nat BY <3>1, Counts, Parts DEF StreamInv
      <3> QED BY <3>2
    <2>4. /\ \A i \in 1 .. u : UpItem(i) = s - u + i
          /\ \A i \in 1 .. c : Given(i) <= Given(i - 1) + 1
          /\ faith = "exact" => \A i \in 1 .. c : Given(i) = Given(i - 1) + 1
          /\ s - u <= g
          /\ faith = "exact" => s - u = g
      BY <1>2, <2>1, <2>3 DEF StreamInv, Flowing
    <2>5. /\ \A i \in 0 .. c : Given(i)' = Given(i)
          /\ \A i \in 1 .. n : Given(c + i)' = s - u + i
      <3>1. \A i \in 1 .. n : chunk[i] = s - u + i BY <1>18, <2>1, <2>3, <2>4
      <3>2. \A i \in 0 .. c : i = 0 \/ i \in 1 .. c OBVIOUS
      <3>3. \A i \in 1 .. n : c + i # 0 OBVIOUS
      <3> QED BY <1>12, <3>1, <3>2, <3>3 DEF Given
    <2>6. ASSUME NEW i \in 1 .. c + n
          PROVE  /\ Given(i)' <= Given(i - 1)' + 1
                 /\ faith = "exact" => Given(i)' = Given(i - 1)' + 1
      <3>1. CASE i \in 1 .. c
        <4>1. i - 1 \in 0 .. c /\ i \in 0 .. c BY <3>1
        <4> QED BY <2>4, <2>5, <3>1, <4>1
      <3>2. CASE i = c + 1
        <4>1. Given(i)' = s - u + 1 /\ Given(i - 1)' = g
          <5>1. 1 \in 1 .. n /\ c \in 0 .. c /\ i - 1 = c BY <1>3, <3>2
          <5> QED BY <2>3, <2>5, <3>2, <5>1
        <4> QED BY <2>3, <2>4, <4>1
      <3>3. CASE \E j \in 2 .. n : i = c + j
        <4>1. PICK j \in 2 .. n : i = c + j BY <3>3
        <4>2. j \in 1 .. n /\ j - 1 \in 1 .. n /\ i - 1 = c + (j - 1)
          <5>1. n \in Nat BY <1>3
          <5> QED BY <4>1, <5>1
        <4>3. Given(i)' = s - u + j /\ Given(i - 1)' = s - u + (j - 1) BY <2>5, <4>1, <4>2
        <4> QED BY <2>3, <4>1, <4>3
      <3>4. i \in 1 .. c \/ i = c + 1 \/ \E j \in 2 .. n : i = c + j
        <4>1. CASE i \in 1 .. c BY <4>1
        <4>2. CASE i \notin 1 .. c
          <5>1. PICK j \in 1 .. n : i = c + j BY <1>19, <4>2
          <5>2. j = 1 \/ j \in 2 .. n BY <1>3
          <5> QED BY <5>1, <5>2
        <4> QED BY <4>1, <4>2
      <3> QED BY <3>1, <3>2, <3>3, <3>4
    <2>7. Given(c + n)' = s - u + n BY <1>3, <2>5
    <2>8. s - u <= s - u + n BY <1>3, <2>3
    <2> QED BY <1>1, <1>7, <1>12, <1>13, <2>2, <2>3, <2>4, <2>6, <2>7, <2>8 DEF Flowing
  <1> QED BY <1>14, <1>16, <1>17, <1>20, <1>21 DEF StreamInv

\* A read of a piece.
LEMMA ReadPieceKeeps ==
  ASSUME StreamInv, ReadPiece
  PROVE  StreamInv'
  <1>1. CASE FailedRead("data", At(rtt, "select"))
    BY <1>1, FailedReadMoves, MovedKeeps
  <1>2. CASE /\ rtt.at = "data"
             /\ Keep(rtt.chunk \o Fetch(Head(rtt.todo)))
             /\ UNCHANGED <<targetVars, clientVars, faith>>
    <2>1. PICK n : Fetching(n) BY <1>2 DEF StreamInv, Polling, Fetching
    <2>2. PICK chunk : chunk = NextChunk OBVIOUS
    <2>3. Keep(chunk) BY <1>2, <2>2 DEF NextChunk
    <2>4. Len(rtt.todo) \in {1, 2} BY <1>2, <2>1, <2>2, Fetched
    <2>5. CASE Len(rtt.todo) = 2
      <3>1. rtt' = [rtt EXCEPT !.todo = Tail(@), !.chunk = chunk] /\ UNCHANGED local
        BY <2>3, <2>5 DEF Keep
      <3> QED BY <1>2, <2>1, <2>2, <2>5, <3>1, FirstPieceKeeps
    <2>6. CASE Len(rtt.todo) = 1
      <3>1. rtt' = Complete(chunk) /\ local' = WriteData(local, chunk)
        BY <2>3, <2>6 DEF Keep, Complete
      <3> QED BY <1>2, <2>1, <2>2, <2>6, <3>1, LastPieceKeeps
    <2> QED BY <2>4, <2>5, <2>6
  <1> QED BY <1>1, <1>2 DEF ReadPiece

-----------------------------------------------------------------------------
(* The target's steps *)

LEMMA PutKeeps ==
  ASSUME StreamInv, Put
  PROVE  StreamInv'
  <1> USE DEF targetVars, clientVars
  <1>1. PICK size \in Nat \ {0}, s \in Nat : size = RingSize /\ s = sent
    BY Sizes, Parts DEF StreamInv
  <1>2. PICK u \in 0 .. size - 1 : u = Unread BY <1>1, Counts DEF StreamInv
  <1>3. /\ up.data \in [0 .. size - 1 -> 0 .. s + 1]
        /\ up.wr \in 0 .. size - 1 /\ up.rd \in 0 .. size - 1
        /\ up.ready /\ (up.wr + 1) % size # up.rd
        /\ sent' = s + 1 /\ s < MaxBytes
    <2>1. up.ready /\ (up.wr + 1) % size # up.rd /\ sent' = s + 1 /\ s < MaxBytes
      BY <1>1 DEF Put
    <2>2. /\ up.data \in [0 .. size - 1 -> 0 .. s]
          /\ up.wr \in 0 .. size - 1 /\ up.rd \in 0 .. size - 1
      BY <1>1, Parts DEF StreamInv
    <2>3. 0 .. s \subseteq 0 .. s + 1 BY <1>1
    <2> QED BY <2>1, <2>2, <2>3
  <1>4. PICK data : data = [up.data EXCEPT ![up.wr] = s + 1] OBVIOUS
  <1>5. data \in [0 .. size - 1 -> 0 .. s + 1]
    <2>1. s + 1 \in 0 .. s + 1 BY <1>1
    <2> QED BY <1>3, <1>4, <2>1
  <1>6. PICK wr : wr = (up.wr + 1) % size OBVIOUS
  <1>7. /\ wr \in 0 .. size - 1
        /\ Count(up.rd, wr, size) = u + 1
        /\ \A i \in 1 .. u : Nth(data, up.rd, size, i) = Nth(up.data, up.rd, size, i)
        /\ Nth(data, up.rd, size, u + 1) = s + 1
    <2>1. u = Count(up.rd, up.wr, size) BY <1>1, <1>2 DEF Unread
    <2>2. /\ data[up.wr] = s + 1
          /\ \A p \in 0 .. size - 1 : p # up.wr => data[p] = up.data[p]
      BY <1>3, <1>4
    <2>3. PICK w \in 0 .. size - 1, r \in 0 .. size - 1 : w = up.wr /\ r = up.rd
      BY <1>3
    <2>4. PICK d : d = up.data OBVIOUS
    <2>5. PICK e : e = data OBVIOUS
    <2>6. /\ \A p \in 0 .. size - 1 : p # w => e[p] = d[p]
          /\ (w + 1) % size # r
      BY <1>3, <2>2, <2>3, <2>4, <2>5
    <2>7. data[w] = s + 1
      BY <1>3, <2>2, <2>3, <2>4
    <2>8. /\ (w + 1) % size \in 0 .. size - 1
          /\ Count(r, (w + 1) % size, size) = Count(r, w, size) + 1
          /\ \A i \in 1 .. Count(r, w, size) : Nth(e, r, size, i) = Nth(d, r, size, i)
          /\ \A i : i = Count(r, w, size) + 1 => Nth(e, r, size, i) = e[w]
      <3>1. (w + 1) % size \in 0 .. size - 1 BY <2>6, Added
      <3>2. Count(r, (w + 1) % size, size) = Count(r, w, size) + 1 BY <2>6, Added
      <3>3. \A i \in 1 .. Count(r, w, size) : Nth(e, r, size, i) = Nth(d, r, size, i) BY <2>6, Added
      <3>4. \A i : i = Count(r, w, size) + 1 => Nth(e, r, size, i) = e[w] BY <2>6, Added
      <3> QED BY <3>1, <3>2, <3>3, <3>4
    <2> QED BY <1>6, <2>1, <2>3, <2>4, <2>5, <2>7, <2>8
  <1>8. /\ up'.data = data /\ up'.wr = wr /\ up'.rd = up.rd /\ up'.ready = TRUE
        /\ up' \in Ups(s + 1)
    <2>1. up \in Ups(s) BY <1>1 DEF StreamInv, StreamType
    <2>2. up' = [up EXCEPT !.data = data, !.wr = wr]
      BY <1>1, <1>4, <1>6, <2>1 DEF Put, Ups
    <2> QED BY <1>1, <1>3, <1>5, <1>7, <2>1, <2>2 DEF Ups
  <1>9. /\ Unread' = u + 1
        /\ \A i \in 1 .. u : UpItem(i)' = UpItem(i)
        /\ UpItem(u + 1)' = s + 1
    BY <1>1, <1>7, <1>8 DEF Unread, UpItem
  <1>10. rtt' = rtt /\ local' = local /\ got' = got /\ out' = out /\ faith' = faith /\ boots' = boots
    BY DEF Put
  <1>11. /\ Kept' = Kept /\ AvailableSpace(local') = AvailableSpace(local)
         /\ \A i : LocalItem(i)' = LocalItem(i) /\ Given(i)' = Given(i)
    BY <1>10 DEF Kept, LocalItem, Given
  <1>12. StreamType'
    <2>1. sent' \in 0 .. MaxBytes BY <1>1, <1>3, Sizes
    <2>2. 0 .. s \subseteq 0 .. s + 1 BY <1>1
    <2>3. /\ rtt.chunk \in Seq(0 .. s) /\ out \in Seq(0 .. s) /\ got \in 0 .. s
          /\ rtt \in Rtts(s) /\ local \in Locals(s)
      BY <1>1, Parts DEF StreamInv, StreamType
    <2>4. rtt.chunk \in Seq(0 .. s + 1) /\ out \in Seq(0 .. s + 1) /\ got \in 0 .. s + 1
      BY <2>2, <2>3, SeqMonotonic
    <2>5. rtt \in Rtts(s + 1) BY <2>3, <2>4 DEF Rtts
    <2>6. local \in Locals(s + 1) BY <2>2, <2>3 DEF Locals
    <2> QED BY <1>3, <1>8, <1>10, <2>1, <2>4, <2>5, <2>6 DEF StreamInv, StreamType
  <1>13. Polling'
    <2>1. \A n \in 1 .. MAX_BYTES_PER_READ : n <= Unread => n <= u + 1
      BY <1>2, Sizes
    <2> QED BY <1>8, <1>9, <1>10, <1>11, <2>1 DEF StreamInv, Polling
  <1>14. Synced' BY <1>8, <1>10 DEF StreamInv, Synced
  <1>15. \A i \in 1 .. u + 1 : i \in 1 .. u \/ i = u + 1 BY <1>2
  <1>16. Meant'
    <2>1. PICK k \in Nat : k = Len(rtt.chunk) BY Parts DEF StreamInv
    <2>2. faith # "torn" =>
            /\ \A i \in 1 .. u : UpItem(i) # 0
            /\ \A i \in 1 .. Kept : LocalItem(i) # 0
            /\ rtt.at \in {"data", "ack"} => k <= u /\ \A i \in 1 .. k : rtt.chunk[i] = UpItem(i)
      BY <1>2, <2>1 DEF StreamInv, Meant
    <2>3. k <= u => k <= u + 1 /\ \A i \in 1 .. k : i \in 1 .. u BY <1>2, <2>1
    <2>4. s + 1 # 0 BY <1>1
    <2> QED BY <1>9, <1>10, <1>11, <1>15, <2>1, <2>2, <2>3, <2>4 DEF Meant
  <1>17. Flowing'
    <2>1. (s + 1) - (u + 1) = s - u BY <1>1, <1>2
    <2>2. s - u + (u + 1) = s + 1 BY <1>1, <1>2
    <2>3. faith \in {"exact", "again"} => \A i \in 1 .. u : UpItem(i) = s - u + i
      BY <1>1, <1>2 DEF StreamInv, Flowing
    <2>4. faith \in {"exact", "again"} =>
            \A i \in 1 .. u + 1 : UpItem(i)' = (s + 1) - (u + 1) + i
      BY <1>9, <1>15, <2>1, <2>2, <2>3
    <2>5. sent' - Unread' = sent - Unread BY <1>1, <1>2, <1>3, <1>9, <2>1
    <2> QED BY <1>3, <1>9, <1>10, <1>11, <2>4, <2>5 DEF StreamInv, Flowing
  <1> QED BY <1>12, <1>13, <1>14, <1>16, <1>17 DEF StreamInv

LEMMA ResetKeeps ==
  ASSUME StreamInv, Reset
  PROVE  StreamInv'
  <1> USE DEF targetVars, clientVars
  <1>1. /\ rtt' = rtt /\ local' = local /\ got' = got /\ out' = out /\ sent' = sent
        /\ boots' = boots + 1 /\ boots < MaxBoots
        /\ faith' = IF rtt.at \in {"buf", "wr", "data", "ack"} \/ faith = "torn" THEN "torn" ELSE "broken"
    BY DEF Reset
  <1>2. 0 \in 0 .. RingSize - 1 BY Sizes
  <1>3. /\ up' \in Ups(sent) /\ up'.wr = 0 /\ up'.rd = 0 /\ up'.ready = FALSE
    BY <1>2 DEF Reset, StreamInv, StreamType, Ups
  <1>4. Unread' = 0 BY <1>3 DEF Unread, Count
  <1>5. /\ Kept' = Kept /\ AvailableSpace(local') = AvailableSpace(local)
        /\ \A i : LocalItem(i)' = LocalItem(i)
    BY <1>1 DEF Kept, LocalItem
  <1>6. StreamType'
    <2>1. boots' \in 0 .. MaxBoots BY <1>1, Sizes DEF StreamInv, StreamType
    <2> QED BY <1>1, <1>3, <2>1 DEF StreamInv, StreamType
  <1>7. Polling' BY <1>1, <1>3, <1>5 DEF StreamInv, Polling
  <1>8. Synced' BY <1>1, <1>3 DEF StreamInv, Synced
  <1>9. Meant' BY <1>1, <1>4, <1>5 DEF StreamInv, Meant
  <1>10. Flowing' BY <1>1 DEF Flowing
  <1> QED BY <1>6, <1>7, <1>8, <1>9, <1>10 DEF StreamInv

LEMMA SetUpKeeps ==
  ASSUME StreamInv, SetUp
  PROVE  StreamInv'
  <1> USE DEF targetVars, clientVars
  <1>1. /\ rtt' = rtt /\ local' = local /\ got' = got /\ out' = out /\ sent' = sent
        /\ boots' = boots /\ faith' = faith
    BY DEF SetUp
  <1>2. 0 \in 0 .. RingSize - 1 BY Sizes
  <1>3. /\ up' \in Ups(sent) /\ up'.wr = 0 /\ up'.rd = 0 /\ up'.ready = TRUE
        /\ up'.data = up.data
    BY <1>2 DEF SetUp, StreamInv, StreamType, Ups
  <1>4. faith # "torn" => up'.wr = up.wr /\ up'.rd = up.rd
    BY <1>3 DEF SetUp, StreamInv, Synced
  <1>5. /\ Kept' = Kept /\ AvailableSpace(local') = AvailableSpace(local)
        /\ \A i : LocalItem(i)' = LocalItem(i) /\ Given(i)' = Given(i)
    BY <1>1 DEF Kept, LocalItem, Given
  <1>6. faith # "torn" => Unread' = Unread /\ \A i : UpItem(i)' = UpItem(i)
    BY <1>3, <1>4 DEF Unread, UpItem
  <1>7. StreamType' BY <1>1, <1>3 DEF StreamInv, StreamType
  <1>8. Polling' BY <1>1, <1>3, <1>5, <1>6 DEF StreamInv, Polling
  <1>9. Synced' BY <1>1, <1>3, <1>4 DEF StreamInv, Synced
  <1>10. Meant' BY <1>1, <1>5, <1>6 DEF StreamInv, Meant
  <1>11. Flowing' BY <1>1, <1>5, <1>6 DEF StreamInv, Flowing
  <1> QED BY <1>7, <1>8, <1>9, <1>10, <1>11 DEF StreamInv

-----------------------------------------------------------------------------
(* Reads of clients *)

\* A client gets the first items of the local buffer, in order.
LEMMA ReadTakes ==
  ASSUME StreamInv, NEW n \in Nat, Read(n)
  PROVE  \E k \in 0 .. Kept :
           /\ out' = [i \in 1 .. k |-> LocalItem(i)]
           /\ got' = Given(k)
           /\ local' \in Locals(sent)
           /\ Kept' = Kept - k
           /\ \A i \in 1 .. Kept - k : LocalItem(i)' = LocalItem(k + i)
           /\ \A i \in 0 .. Kept - k : Given(i)' = Given(k + i)
           /\ rtt.at = "select" /\ rtt' = Loop(rtt, local')
  <1>1. PICK size \in Nat \ {0}, c \in Nat :
          size = BUFFER_SIZE /\ c = Kept /\ c = Count(local.rd, local.wr, size)
    BY Sizes, Counts DEF StreamInv
  <1>2. PICK k : k = Least(n, AvailableLocal(local)) OBVIOUS
  <1>3. k \in 0 .. c
    <2>1. k = Least(n, c) BY <1>1, <1>2 DEF Kept
    <2> QED BY <2>1 DEF Least
  <1>4. PICK bytes : bytes = Bytes(local, k) OBVIOUS
  <1>5. bytes = [i \in 1 .. k |-> LocalItem(i)] BY <1>4 DEF Bytes, LocalItem, Nth
  <1>6. /\ out' = bytes /\ local' = Drop(local, k)
        /\ got' = IF k = 0 THEN got ELSE bytes[k]
        /\ rtt.at = "select" /\ rtt' = Loop(rtt, local')
    BY <1>2, <1>4 DEF Read
  <1>7. got' = Given(k)
    <2>1. k # 0 => k \in 1 .. k BY <1>3
    <2> QED BY <1>5, <1>6, <2>1 DEF Given
  <1>8. /\ local.data \in [0 .. size - 1 -> 0 .. sent]
        /\ local.wr \in 0 .. size - 1 /\ local.rd \in 0 .. size - 1
        /\ local \in Locals(sent)
    BY <1>1, Parts DEF StreamInv, StreamType
  <1>9. PICK rd : rd = (local.rd + k) % size OBVIOUS
  <1>10. /\ rd \in 0 .. size - 1
         /\ Count(rd, local.wr, size) = c - k
         /\ \A i \in 1 .. c - k : Nth(local.data, rd, size, i) = Nth(local.data, local.rd, size, k + i)
    <2>1. PICK w \in 0 .. size - 1, r \in 0 .. size - 1 : w = local.wr /\ r = local.rd BY <1>8
    <2>2. PICK d : d = local.data OBVIOUS
    <2>3. k \in 0 .. Count(r, w, size) BY <1>1, <1>3, <2>1
    <2>4. rd = (r + k) % size BY <1>9, <2>1
    <2>5. rd \in 0 .. size - 1 /\ Count(rd, w, size) = Count(r, w, size) - k BY <2>3, <2>4, Dropped
    <2>6. Shifted(r, rd, size, k, Count(r, w, size)) BY <2>3, <2>4, Dropped
    <2>7. Shifted(r, rd, size, k, c) BY <1>1, <2>1, <2>6
    <2>8. ASSUME NEW i \in 1 .. c - k
          PROVE  Nth(d, rd, size, i) = Nth(d, r, size, k + i)
      <3>1. PICK j \in 1 .. c : j = k + i BY <1>3
      <3>2. (rd + i - 1) % size = (r + j - 1) % size BY <2>7, <3>1 DEF Shifted
      <3>3. Nth(d, rd, size, i) = Nth(d, r, size, j) BY <3>2 DEF Nth
      <3> QED BY <3>1, <3>3
    <2> QED BY <1>1, <2>1, <2>2, <2>5, <2>8
  <1>11. local' = [local EXCEPT !.rd = rd] BY <1>1, <1>6, <1>8, <1>9 DEF Drop, Locals
  <1>12. /\ local' \in Locals(sent) /\ local'.rd = rd /\ local'.wr = local.wr
         /\ local'.data = local.data
    BY <1>1, <1>8, <1>10, <1>11 DEF Locals
  <1>13. Kept' = c - k
    <2>1. PICK b : b = local' OBVIOUS
    <2>2. AvailableLocal(b) = Count(b.rd, b.wr, BUFFER_SIZE)
      <3>1. b.rd \in 0 .. BUFFER_SIZE - 1 /\ b.wr \in 0 .. BUFFER_SIZE - 1
        BY <1>1, <1>8, <1>10, <1>12, <2>1
      <3> QED BY <3>1, Room
    <2> QED BY <1>1, <1>10, <1>12, <2>1, <2>2 DEF Kept
  <1>14. \A i \in 1 .. c - k : LocalItem(i)' = LocalItem(k + i)
    BY <1>1, <1>10, <1>12 DEF LocalItem
  <1>15. \A i \in 0 .. c - k : Given(i)' = Given(k + i)
    <2>1. ASSUME NEW i \in 0 .. c - k PROVE Given(i)' = Given(k + i)
      <3>1. CASE i = 0
        <4>1. k + i = k BY <1>3, <3>1
        <4> QED BY <1>7, <3>1, <4>1 DEF Given
      <3>2. CASE i # 0
        <4>1. i \in 1 .. c - k /\ k + i # 0 BY <1>3, <3>2
        <4> QED BY <1>14, <3>2, <4>1 DEF Given
      <3> QED BY <3>1, <3>2
    <2> QED BY <2>1
  <1> QED BY <1>1, <1>3, <1>5, <1>6, <1>7, <1>12, <1>13, <1>14, <1>15

LEMMA ReadKeeps ==
  ASSUME StreamInv, NEW n \in Nat, Read(n)
  PROVE  StreamInv'
  <1> USE DEF targetVars, clientVars
  <1>1. PICK k \in 0 .. Kept :
          /\ out' = [i \in 1 .. k |-> LocalItem(i)]
          /\ got' = Given(k)
          /\ local' \in Locals(sent)
          /\ Kept' = Kept - k
          /\ \A i \in 1 .. Kept - k : LocalItem(i)' = LocalItem(k + i)
          /\ \A i \in 0 .. Kept - k : Given(i)' = Given(k + i)
          /\ rtt.at = "select" /\ rtt' = Loop(rtt, local')
    BY ReadTakes
  <1>2. PICK c \in Nat, s \in Nat, u \in Nat : c = Kept /\ s = sent /\ u = Unread
    BY Counts, Parts DEF StreamInv
  <1>3. k \in 0 .. c BY <1>2
  <1>4. up' = up /\ sent' = sent /\ boots' = boots /\ faith' = faith BY DEF Read
  <1>5. rtt \in Rtts(s) BY <1>2 DEF StreamInv, StreamType
  <1>6. /\ rtt' \in Rtts(s)
        /\ \/ rtt'.at = "select"
           \/ rtt'.at = "rd" /\ rtt.state = "Started" /\ AvailableSpace(local') > 0
        /\ rtt'.state = rtt.state /\ rtt'.restart = rtt.restart
        /\ rtt'.size = rtt.size /\ rtt'.rd = rtt.rd
        /\ rtt'.todo = <<>> /\ rtt'.chunk = <<>>
    BY <1>1, <1>5, LoopIs
  <1>7. StreamType'
    <2>1. out' \in Seq(0 .. s)
      <3>1. \A i \in 1 .. k : LocalItem(i) \in 0 .. s
        <4>1. \A i \in 1 .. c : LocalItem(i) \in 0 .. s BY <1>2, Counts DEF StreamInv
        <4> QED BY <1>3, <4>1
      <3>2. PICK V, o : V = 0 .. s /\ o = out' OBVIOUS
      <3>3. k \in Nat /\ o \in [1 .. k -> V] BY <1>1, <1>3, <3>1, <3>2
      <3>4. o \in Seq(V) BY <3>3
      <3> QED BY <3>2, <3>4
    <2>2. got' \in 0 .. s
      <3>1. \A i \in 0 .. c : Given(i) \in 0 .. s BY <1>2, Counts DEF StreamInv
      <3> QED BY <1>1, <1>3, <3>1
    <2>3. Len(rtt'.chunk) <= MAX_BYTES_PER_READ
      <3>1. Len(<<>>) = 0 BY EmptySeq
      <3> QED BY <1>6, <3>1, Sizes
    <2> QED BY <1>1, <1>2, <1>4, <1>6, <2>1, <2>2, <2>3 DEF StreamInv, StreamType
  <1>8. Polling' BY <1>1, <1>4, <1>6 DEF StreamInv, Polling
  <1>9. Synced' BY <1>1, <1>4, <1>6 DEF StreamInv, Synced
  <1>10. Unread' = Unread /\ \A i : UpItem(i)' = UpItem(i) BY <1>4 DEF Unread, UpItem
  <1>11. Kept' = c - k /\ c - k \in Nat BY <1>1, <1>2, <1>3
  <1>12. Meant'
    <2>1. \A i \in 1 .. c - k : k + i \in 1 .. c BY <1>3
    <2>2. faith # "torn" => /\ \A i \in 1 .. Unread : UpItem(i) # 0
                           /\ \A i \in 1 .. c : LocalItem(i) # 0
      BY <1>2 DEF StreamInv, Meant
    <2> QED BY <1>1, <1>2, <1>4, <1>6, <1>10, <1>11, <2>1, <2>2 DEF Meant
  <1>13. Flowing'
    <2>1. SUFFICES ASSUME faith \in {"exact", "again"} PROVE Flowing' BY <1>4 DEF Flowing
    <2>2. /\ \A i \in 1 .. u : UpItem(i) = s - u + i
          /\ \A i \in 1 .. c : Given(i) <= Given(i - 1) + 1
          /\ faith = "exact" => \A i \in 1 .. c : Given(i) = Given(i - 1) + 1
          /\ s - u <= Given(c)
          /\ faith = "exact" => s - u = Given(c)
      BY <1>1, <1>2, <2>1 DEF StreamInv, Flowing
    <2>3. ASSUME NEW i \in 1 .. c - k
          PROVE  /\ k + i \in 1 .. c
                 /\ Given(i)' = Given(k + i) /\ Given(i - 1)' = Given(k + i - 1)
      <3>1. k + i \in 1 .. c /\ i \in 0 .. c - k /\ i - 1 \in 0 .. c - k /\ k + (i - 1) = k + i - 1
        BY <1>3
      <3> QED BY <1>1, <1>2, <3>1
    <2>4. \A i \in 1 .. c - k : Given(i)' <= Given(i - 1)' + 1 BY <2>2, <2>3
    <2>5. faith = "exact" => \A i \in 1 .. c - k : Given(i)' = Given(i - 1)' + 1 BY <2>2, <2>3
    <2>6. Given(c - k)' = Given(c)
      <3>1. c - k \in 0 .. c - k /\ k + (c - k) = c BY <1>3, <1>11
      <3> QED BY <1>1, <1>2, <3>1
    <2> QED BY <1>2, <1>4, <1>6, <1>10, <1>11, <2>1, <2>2, <2>4, <2>5, <2>6 DEF Flowing
  <1> QED BY <1>7, <1>8, <1>9, <1>12, <1>13 DEF StreamInv

-----------------------------------------------------------------------------
(* The write of the read position *)

\* Where the new read position is, and what is unread from there.
LEMMA NewRdIs ==
  ASSUME StreamInv, rtt.at = "ack", NEW rd, rd = NewRd
  PROVE  /\ rd \in 0 .. RingSize - 1
         /\ faith # "torn" =>
              /\ Count(rd, up.wr, RingSize) = Unread - Len(rtt.chunk)
              /\ Shifted(up.rd, rd, RingSize, Len(rtt.chunk), Unread)
  <1>1. PICK size \in Nat \ {0}, k \in Nat : size = RingSize /\ k = Len(rtt.chunk)
    BY Sizes, Parts DEF StreamInv
  <1>2. rtt.size = size BY <1>1 DEF StreamInv, Polling
  <1>3. PICK from \in 0 .. size - 1, wr \in 0 .. size - 1 : from = rtt.rd /\ wr = up.wr
    BY <1>1, Parts DEF StreamInv
  <1>4. rd = (from + k) % size BY <1>1, <1>2, <1>3 DEF NewRd
  <1>5. rd \in 0 .. size - 1
    <2>1. PICK a \in Nat : a = from + k OBVIOUS
    <2>2. a % size \in 0 .. size - 1 BY Modulo
    <2> QED BY <1>4, <2>1, <2>2
  <1>6. ASSUME faith # "torn"
        PROVE  /\ Count(rd, wr, size) = Unread - k
               /\ Shifted(from, rd, size, k, Unread) /\ up.rd = from
    <2>1. up.rd = from BY <1>3, <1>6 DEF StreamInv, Synced
    <2>2. PICK u \in Nat : u = Unread /\ u = Count(from, wr, size)
      BY <1>1, <1>3, <2>1, Counts DEF StreamInv, Unread
    <2>3. k <= u BY <1>1, <1>6, <2>2 DEF StreamInv, Meant
    <2>4. k \in 0 .. Count(from, wr, size) BY <2>2, <2>3
    <2>5. Count(rd, wr, size) = Count(from, wr, size) - k BY <1>4, <2>4, Dropped
    <2>6. Shifted(from, rd, size, k, Count(from, wr, size)) BY <1>4, <2>4, Dropped
    <2> QED BY <2>1, <2>2, <2>5, <2>6
  <1> QED BY <1>1, <1>3, <1>5, <1>6

\* The target has the new read position or not; the task is back in its loop.
LEMMA GaveBack ==
  ASSUME StreamInv, rtt.at = "ack", NEW rd, rd \in {up.rd, NewRd},
         up' = [up EXCEPT !.rd = rd], UNCHANGED <<sent, boots, local, clientVars>>,
         rtt' \in Rtts(sent), rtt'.at = "select", rtt'.chunk = <<>>,
         rtt'.size = rtt.size, rtt'.state = rtt.state,
         faith' \in {"exact", "again", "broken", "torn"}, faith' # "torn" => faith # "torn",
         faith' \in {"exact", "again"} => faith \in {"exact", "again"},
         faith' = "exact" => faith = "exact" /\ rd = NewRd
  PROVE  StreamInv'
  <1> USE DEF clientVars
  <1>1. PICK size \in Nat \ {0}, k \in Nat, s \in Nat, u \in Nat :
          size = RingSize /\ k = Len(rtt.chunk) /\ s = sent /\ u = Unread
    <2>1. RingSize \in Nat \ {0} BY Sizes
    <2>2. Len(rtt.chunk) \in Nat /\ sent \in Nat BY Parts DEF StreamInv
    <2>3. Unread \in Nat BY <2>1, Counts DEF StreamInv
    <2> QED BY <2>1, <2>2, <2>3
  <1>2. rd \in 0 .. size - 1 BY <1>1, NewRdIs, Parts DEF StreamInv
  <1>3. up \in Ups(s) BY <1>1 DEF StreamInv, StreamType
  <1>4. /\ up' \in Ups(s) /\ up'.rd = rd /\ up'.wr = up.wr /\ up'.data = up.data
        /\ up'.ready = up.ready
    BY <1>1, <1>2, <1>3 DEF Ups
  <1>5. /\ Kept' = Kept /\ AvailableSpace(local') = AvailableSpace(local)
        /\ \A i : LocalItem(i)' = LocalItem(i) /\ Given(i)' = Given(i)
    BY DEF Kept, LocalItem, Given
  <1>6. StreamType'
    <2>1. Len(rtt'.chunk) <= MAX_BYTES_PER_READ
      <3>1. Len(<<>>) = 0 BY EmptySeq
      <3> QED BY <3>1, Sizes
    <2> QED BY <1>1, <1>4, <2>1 DEF StreamInv, StreamType
  <1>7. rtt.size = RingSize /\ RingSize # 0 BY Sizes DEF StreamInv, Polling
  <1>8. Polling' BY <1>7 DEF StreamInv, Polling
  <1>9. ASSUME faith # "torn"
        PROVE  \E d \in {0, k} :
                 /\ d = 0 => rd = up.rd
                 /\ rd = NewRd => d = k
                 /\ d <= u /\ Unread' = u - d
                 /\ \A i \in 1 .. u - d : UpItem(i)' = UpItem(d + i)
    <2>1. k <= u BY <1>1, <1>9 DEF StreamInv, Meant
    <2>2. CASE rd = NewRd
      <3>1. Count(rd, up.wr, size) = u - k /\ Shifted(up.rd, rd, size, k, u)
        BY <1>1, <1>9, <2>2, NewRdIs
      <3>2. Unread' = u - k BY <1>1, <1>4, <3>1 DEF Unread
      <3>3. ASSUME NEW i \in 1 .. u - k PROVE UpItem(i)' = UpItem(k + i)
        <4>1. PICK j \in 1 .. u : j = k + i BY <2>1
        <4>2. (rd + i - 1) % size = (up.rd + j - 1) % size BY <3>1, <4>1 DEF Shifted
        <4>3. UpItem(i)' = UpItem(j) BY <1>1, <1>4, <4>2 DEF UpItem, Nth
        <4> QED BY <4>1, <4>3
      <3>4. k = 0 => rd = up.rd
        <4>1. ASSUME k = 0 PROVE rd = up.rd
          <5>1. PICK from \in 0 .. size - 1 : from = rtt.rd BY <1>1, Parts DEF StreamInv
          <5>2. NewRd = (from + 0) % size BY <1>1, <1>7, <4>1, <5>1 DEF NewRd
          <5>3. from % size = from BY Modulo
          <5>4. from + 0 = from OBVIOUS
          <5>5. up.rd = from BY <1>9, <5>1 DEF StreamInv, Synced
          <5> QED BY <2>2, <5>2, <5>3, <5>4, <5>5
        <4> QED BY <4>1
      <3> QED BY <2>1, <3>2, <3>3, <3>4
    <2>3. CASE rd = up.rd /\ rd # NewRd
      <3>1. Unread' = u - 0 /\ u - 0 = u /\ 0 <= u BY <1>1, <1>4, <2>3 DEF Unread
      <3>2. \A i : UpItem(i)' = UpItem(i) BY <1>4, <2>3 DEF UpItem
      <3>3. \A i \in 1 .. u - 0 : 0 + i = i OBVIOUS
      <3> QED BY <2>3, <3>1, <3>2, <3>3
    <2> QED BY <2>2, <2>3
  <1>10. Synced'
    <2>1. SUFFICES ASSUME faith' # "torn" PROVE Synced' BY DEF Synced
    <2>2. /\ ~up.ready => up.wr = 0 /\ up.rd = 0
          /\ rtt.state = "Started" => rtt.size = RingSize
      BY <2>1 DEF StreamInv, Synced
    <2>3. ASSUME ~up.ready PROVE rd = 0
      <3>1. u = 0 /\ up.rd = 0 BY <1>1, <2>2, <2>3, Counts DEF StreamInv
      <3>2. PICK d \in {0, k} : (d = 0 => rd = up.rd) /\ d <= u BY <1>9, <2>1
      <3> QED BY <1>1, <3>1, <3>2
    <2> QED BY <1>4, <2>2, <2>3 DEF Synced
  <1>11. Meant'
    <2>1. SUFFICES ASSUME faith' # "torn" PROVE Meant' BY DEF Meant
    <2>2. PICK d \in {0, k} :
            /\ d <= u /\ Unread' = u - d
            /\ \A i \in 1 .. u - d : UpItem(i)' = UpItem(d + i)
      BY <1>9, <2>1
    <2>3. \A i \in 1 .. u - d : d + i \in 1 .. u BY <1>1, <2>2
    <2>4. /\ \A i \in 1 .. u : UpItem(i) # 0
          /\ \A i \in 1 .. Kept : LocalItem(i) # 0
      BY <1>1, <2>1 DEF StreamInv, Meant
    <2> QED BY <1>5, <2>2, <2>3, <2>4 DEF Meant
  <1>12. Flowing'
    <2>1. SUFFICES ASSUME faith' \in {"exact", "again"} PROVE Flowing' BY DEF Flowing
    <2>2. faith \in {"exact", "again"} /\ faith # "torn" BY <2>1
    <2>3. PICK d \in {0, k} :
            /\ rd = NewRd => d = k
            /\ d <= u /\ Unread' = u - d
            /\ \A i \in 1 .. u - d : UpItem(i)' = UpItem(d + i)
      BY <1>9, <2>2
    <2>4. /\ \A i \in 1 .. u : UpItem(i) = s - u + i
          /\ \A i \in 1 .. Kept : Given(i) <= Given(i - 1) + 1
          /\ faith = "exact" => \A i \in 1 .. Kept : Given(i) = Given(i - 1) + 1
          /\ s - u + k = Given(Kept)
      BY <1>1, <2>2 DEF StreamInv, Flowing
    <2>5. s - (u - d) = s - u + d BY <1>1, <2>3
    <2>6. ASSUME NEW i \in 1 .. u - d PROVE UpItem(i)' = s - (u - d) + i
      <3>1. d + i \in 1 .. u /\ s - u + (d + i) = s - (u - d) + i BY <1>1, <2>3
      <3> QED BY <2>3, <2>4, <3>1
    <2>7. s - (u - d) <= s - u + k BY <1>1, <2>3
    <2>8. faith' = "exact" => s - (u - d) = s - u + k BY <2>3, <2>5
    <2> QED BY <1>1, <1>5, <2>3, <2>4, <2>6, <2>7, <2>8 DEF Flowing
  <1> QED BY <1>6, <1>8, <1>10, <1>11, <1>12 DEF StreamInv

LEMMA AckKeeps ==
  ASSUME StreamInv, Ack
  PROVE  StreamInv'
  <1>1. sent \in Nat /\ rtt \in Rtts(sent) BY Parts DEF StreamInv, StreamType
  <1>2. PICK r : r = At(rtt, "select") OBVIOUS
  <1>3. /\ r \in Rtts(sent) /\ r.at = "select" /\ r.state = rtt.state
        /\ r.size = rtt.size /\ r.chunk = <<>>
    BY <1>1, <1>2, AtIs
  <1>4. faith \in {"exact", "again", "broken", "torn"} BY DEF StreamInv, StreamType
  <1>5. CASE /\ rtt.at = "ack"
             /\ up' = [up EXCEPT !.rd = NewRd]
             /\ rtt' = [At(rtt, "select") EXCEPT !.rd = NewRd]
             /\ UNCHANGED <<sent, boots, local, clientVars, faith>>
    <2>1. PICK rd \in 0 .. RingSize - 1 : rd = NewRd BY <1>5, NewRdIs
    <2>2. rtt' = [r EXCEPT !.rd = rd] BY <1>2, <1>5, <2>1
    <2>3. /\ rtt' \in Rtts(sent) /\ rtt'.at = "select" /\ rtt'.state = rtt.state
          /\ rtt'.size = rtt.size /\ rtt'.chunk = <<>>
      BY <1>3, <2>2 DEF Rtts
    <2> QED BY <1>4, <1>5, <2>1, <2>3, GaveBack
  <1>6. CASE /\ rtt.at = "ack"
             /\ \E rd \in {up.rd, NewRd} : up' = [up EXCEPT !.rd = rd]
             /\ rtt' = At(rtt, "select")
             /\ faith' = IF faith = "exact" THEN "again" ELSE faith
             /\ UNCHANGED <<sent, boots, local, clientVars>>
    <2>1. PICK rd \in {up.rd, NewRd} : up' = [up EXCEPT !.rd = rd] BY <1>6
    <2>2. /\ faith' \in {"again", "broken", "torn"}
          /\ faith' # "torn" => faith # "torn"
          /\ faith' = "again" => faith \in {"exact", "again"}
      BY <1>4, <1>6
    <2> QED BY <1>2, <1>3, <1>6, <2>1, <2>2, GaveBack
  <1> QED BY <1>5, <1>6 DEF Ack

-----------------------------------------------------------------------------
(* The theorems *)

LEMMA InitHolds ==
  ASSUME Init
  PROVE  StreamInv
  <1> USE DEF Init
  <1>1. 0 \in 0 .. RingSize - 1 /\ 0 \in 0 .. BUFFER_SIZE - 1 /\ 0 \in 0 .. MaxBytes
        /\ 0 \in 0 .. MaxBoots /\ 0 \in 0 .. 0
    BY Sizes
  <1>2. Len(<<>>) = 0 /\ <<>> \in Seq(PieceType) /\ <<>> \in Seq(0 .. 0) BY EmptySeq
  <1>3. up \in Ups(0) /\ local \in Locals(0) BY <1>1 DEF Ups, Locals
  <1>4. rtt \in Rtts(0) BY <1>1, <1>2 DEF Rtts
  <1>5. Len(rtt.chunk) <= MAX_BYTES_PER_READ BY <1>2, Sizes
  <1>6. StreamType BY <1>1, <1>2, <1>3, <1>4, <1>5 DEF StreamType
  <1>7. Unread = 0 /\ Kept = 0 BY DEF Unread, Kept, Count, AvailableLocal
  <1>8. Polling BY DEF Polling
  <1>9. Synced BY DEF Synced
  <1>10. Meant BY <1>7 DEF Meant
  <1>11. Flowing BY <1>7 DEF Flowing, Given
  <1> QED BY <1>6, <1>8, <1>9, <1>10, <1>11 DEF StreamInv

LEMMA NextKeeps ==
  ASSUME StreamInv, [Next]_vars
  PROVE  StreamInv'
  <1>1. CASE Put BY <1>1, PutKeeps
  <1>2. CASE Reset BY <1>2, ResetKeeps
  <1>3. CASE SetUp BY <1>3, SetUpKeeps
  <1>4. ASSUME NEW n \in 1 .. MAX_BYTES_PER_READ, Read(n) PROVE StreamInv'
    <2>1. n \in Nat BY <1>4, Sizes
    <2> QED BY <1>4, <2>1, ReadKeeps
  <1>5. CASE Start BY <1>5, StartMoves, MovedKeeps
  <1>6. CASE Stop BY <1>6, StopMoves, MovedKeeps
  <1>7. CASE Timer BY <1>7, TimerMoves, MovedKeeps
  <1>8. CASE ReadCb BY <1>8, ReadCbMoves, MovedKeeps
  <1>9. CASE ReadBuf BY <1>9, ReadBufMoves, MovedKeeps
  <1>10. CASE ReadRd BY <1>10, ReadRdMoves, MovedKeeps
  <1>11. CASE ReadWr BY <1>11, ReadWrMoves, MovedKeeps
  <1>12. CASE ReadPiece BY <1>12, ReadPieceKeeps
  <1>13. CASE Ack BY <1>13, AckKeeps
  <1>14. CASE UNCHANGED vars
    <2>1. /\ up' = up /\ sent' = sent /\ boots' = boots /\ rtt' = rtt /\ local' = local
          /\ got' = got /\ out' = out /\ faith' = faith
      BY <1>14 DEF vars, targetVars, clientVars
    <2>2. /\ Unread' = Unread /\ Kept' = Kept
          /\ \A i : UpItem(i)' = UpItem(i) /\ LocalItem(i)' = LocalItem(i) /\ Given(i)' = Given(i)
      BY <2>1 DEF Unread, Kept, UpItem, LocalItem, Given
    <2>3. StreamType' BY <2>1 DEF StreamInv, StreamType
    <2>4. Polling' BY <2>1, <2>2 DEF StreamInv, Polling
    <2>5. Synced' BY <2>1 DEF StreamInv, Synced
    <2>6. Meant' BY <2>1, <2>2 DEF StreamInv, Meant
    <2>7. Flowing' BY <2>1, <2>2 DEF StreamInv, Flowing
    <2> QED BY <2>3, <2>4, <2>5, <2>6, <2>7 DEF StreamInv
  <1> QED
    BY <1>1, <1>2, <1>3, <1>4, <1>5, <1>6, <1>7, <1>8, <1>9, <1>10, <1>11, <1>12, <1>13, <1>14
    DEF Next, Poll

LEMMA StreamInvariant == Spec => []StreamInv
  <1>1. Init => StreamInv BY InitHolds
  <1>2. StreamInv /\ [Next]_vars => StreamInv' BY NextKeeps
  <1> QED BY <1>1, <1>2, PTL DEF Spec

LEMMA TypeFollows ==
  ASSUME StreamInv
  PROVE  TypeOK
  <1>1. PICK s \in Nat : s = sent /\ s <= MaxBytes BY Parts DEF StreamInv
  <1>2. 0 .. s \subseteq 0 .. MaxBytes BY <1>1, Sizes
  <1>3. up \in Ups(s) /\ rtt \in Rtts(s) /\ local \in Locals(s) /\ got \in 0 .. s /\ out \in Seq(0 .. s)
    BY <1>1 DEF StreamInv, StreamType
  <1>4. Seq(0 .. s) \subseteq Seq(0 .. MaxBytes) BY <1>2, SeqMonotonic
  <1>5. up \in [data : [0 .. RingSize - 1 -> 0 .. MaxBytes], wr : 0 .. RingSize - 1,
                rd : 0 .. RingSize - 1, ready : BOOLEAN]
    BY <1>2, <1>3 DEF Ups
  <1>6. rtt \in [at : {"select", "cb", "buf", "rd", "wr", "data", "ack", "panic"},
                 state : {"Started", "Stopped"}, restart : BOOLEAN, size : {0, RingSize},
                 rd : 0 .. RingSize - 1, todo : Seq(PieceType), chunk : Seq(0 .. MaxBytes)]
    BY <1>3, <1>4 DEF Rtts
  <1>7. local \in [data : [0 .. BUFFER_SIZE - 1 -> 0 .. MaxBytes],
                   wr : 0 .. BUFFER_SIZE - 1, rd : 0 .. BUFFER_SIZE - 1]
    BY <1>2, <1>3 DEF Locals
  <1> QED BY <1>2, <1>3, <1>4, <1>5, <1>6, <1>7 DEF TypeOK, StreamInv, StreamType

\* For rings and reads of every size: positions stay in their buffers, the
\* pieces of a poll within the ring, and no poll takes more than it may.
THEOREM StreamTypeCorrect == Spec => []TypeOK
  <1>1. StreamInv => TypeOK BY TypeFollows
  <1> QED BY <1>1, StreamInvariant, PTL

LEMMA ResetFollows ==
  ASSUME StreamInv
  PROVE  ResetNoticed
  <1>1. SUFFICES ASSUME faith # "torn" PROVE ResetNoticed BY DEF ResetNoticed
  <1>2. PICK c \in Nat : c = AvailableLocal(local) /\ c = Kept BY Counts DEF StreamInv, Kept
  <1>3. rtt.at # "panic" /\ \A i \in 1 .. c : LocalItem(i) # 0
    BY <1>1, <1>2 DEF StreamInv, Synced, Meant
  <1>4. ASSUME NEW i \in 1 .. c PROVE Bytes(local, i)[i] = LocalItem(i)
    <2>1. i \in 1 .. i OBVIOUS
    <2> QED BY <2>1 DEF Bytes, LocalItem, Nth
  <1> QED BY <1>2, <1>3, <1>4 DEF ResetNoticed

\* A reset between polls, of a target with rings of any size, is noticed
\* before anything is read from its ring.
THEOREM ResetsAreNoticed == Spec => []ResetNoticed
  <1>1. StreamInv => ResetNoticed BY ResetFollows
  <1> QED BY <1>1, StreamInvariant, PTL

\* The first unread byte follows those that have been read.
LEMMA NextUnreadIs ==
  ASSUME StreamInv, faith \in {"exact", "again"}
  PROVE  NextUnread = sent - Unread + 1
  <1>1. PICK u \in Nat, s \in Nat, size \in Nat \ {0} : u = Unread /\ s = sent /\ size = RingSize
    <2>1. RingSize \in Nat \ {0} /\ sent \in Nat BY Sizes, Parts DEF StreamInv
    <2>2. Unread \in Nat BY <2>1, Counts DEF StreamInv
    <2> QED BY <2>1, <2>2
  <1>2. u = 0 <=> up.rd = up.wr BY <1>1, Counts DEF StreamInv
  <1>3. CASE u = 0 BY <1>1, <1>2, <1>3 DEF NextUnread
  <1>4. CASE u # 0
    <2>1. 1 \in 1 .. u BY <1>4
    <2>2. UpItem(1) = s - u + 1 BY <1>1, <2>1 DEF StreamInv, Flowing
    <2>3. PICK rd \in 0 .. size - 1 : rd = up.rd BY <1>1, Parts DEF StreamInv
    <2>4. (rd + 1 - 1) % size = rd
      <3>1. rd + 1 - 1 = rd OBVIOUS
      <3>2. rd % size = rd BY Modulo
      <3> QED BY <3>1, <3>2
    <2>5. UpItem(1) = up.data[up.rd] BY <1>1, <2>3, <2>4 DEF UpItem, Nth
    <2> QED BY <1>1, <1>2, <1>4, <2>2, <2>5 DEF NextUnread
  <1> QED BY <1>3, <1>4

\* What a client got before, then items it gets now or has yet to get.
LEMMA Follow ==
  ASSUME NEW g \in Nat, NEW c \in Nat, NEW items \in Seq(Nat), Len(items) = c
  PROVE  /\ <<g>> \o items \in Seq(Nat) /\ Len(<<g>> \o items) = c + 1
         /\ (<<g>> \o items)[1] = g
         /\ \A i \in 1 .. c : (<<g>> \o items)[i + 1] = items[i]
  <1>1. <<g>> \in Seq(Nat) /\ Len(<<g>>) = 1 /\ <<g>>[1] = g OBVIOUS
  <1>2. PICK first \in Seq(Nat) : first = <<g>> /\ Len(first) = 1 /\ first[1] = g BY <1>1
  <1>3. /\ first \o items \in Seq(Nat) /\ Len(first \o items) = Len(first) + Len(items)
        /\ \A i \in 1 .. Len(first) + Len(items) :
             (first \o items)[i] = IF i <= Len(first) THEN first[i] ELSE items[i - Len(first)]
    BY <1>2, ConcatProperties
  <1>4. \A i \in 1 .. 1 + c : (first \o items)[i] = IF i <= 1 THEN first[i] ELSE items[i - 1]
    BY <1>2, <1>3
  <1>5. (first \o items)[1] = g BY <1>2, <1>4
  <1>6. ASSUME NEW i \in 1 .. c PROVE (first \o items)[i + 1] = items[i]
    <2>1. i + 1 \in 1 .. 1 + c /\ ~(i + 1 <= 1) /\ (i + 1) - 1 = i OBVIOUS
    <2> QED BY <1>4, <2>1
  <1>7. Len(first \o items) = c + 1 BY <1>2, <1>3
  <1> QED BY <1>2, <1>3, <1>5, <1>6, <1>7

LEMMA NothingFollows ==
  ASSUME StreamInv
  PROVE  NothingLost
  <1>1. SUFFICES ASSUME faith \in {"exact", "again"} PROVE NothingLost BY DEF NothingLost
  <1>2. PICK c \in Nat, u \in Nat, s \in Nat : c = Kept /\ u = Unread /\ s = sent
    BY Counts, Parts DEF StreamInv
  <1>3. PICK next : next = NextUnread OBVIOUS
  <1>4. PICK kept : kept = Bytes(local, AvailableLocal(local)) OBVIOUS
  <1>5. kept = [i \in 1 .. c |-> LocalItem(i)] BY <1>2, <1>4 DEF Bytes, Kept, LocalItem, Nth
  <1>6. kept \in Seq(Nat) /\ Len(kept) = c /\ \A i \in 1 .. c : kept[i] = LocalItem(i)
    <2>1. \A i \in 1 .. c : LocalItem(i) \in Nat
      <3>1. \A i \in 1 .. c : LocalItem(i) \in 0 .. s BY <1>2, Counts DEF StreamInv
      <3> QED BY <3>1
    <2> QED BY <1>5, <2>1
  <1>7. PICK g \in Nat : g = got /\ g = Given(0) BY Parts DEF StreamInv, Given
  <1>8. \A i \in 0 .. c : Given(i) \in Nat
    <2>1. \A i \in 0 .. c : Given(i) \in 0 .. s BY <1>2, Counts DEF StreamInv
    <2> QED BY <2>1
  <1>9. /\ \A i \in 1 .. c : Given(i) <= Given(i - 1) + 1
        /\ s - u <= Given(c)
    BY <1>1, <1>2 DEF StreamInv, Flowing
  <1>10. next \in Nat /\ next <= Given(c) + 1
    <2>1. next = s - u + 1 BY <1>1, <1>2, <1>3, NextUnreadIs
    <2>2. s - u + 1 \in Nat
      <3>1. CASE u = 0 BY <3>1
      <3>2. CASE u # 0
        <4>1. 1 \in 1 .. u BY <3>2
        <4>2. UpItem(1) \in 0 .. s BY <1>2, <4>1, Counts DEF StreamInv
        <4>3. UpItem(1) = s - u + 1 BY <1>1, <1>2, <4>1 DEF StreamInv, Flowing
        <4> QED BY <4>2, <4>3
      <3> QED BY <3>1, <3>2
    <2>3. Given(c) \in Nat BY <1>8
    <2> QED BY <1>9, <2>1, <2>2, <2>3
  <1>11. PICK line : line = <<g>> \o kept OBVIOUS
  <1>12. /\ line \in Seq(Nat) /\ Len(line) = c + 1
         /\ \A i \in 0 .. c : line[i + 1] = Given(i)
    <2>1. /\ line \in Seq(Nat) /\ Len(line) = c + 1 /\ line[1] = g
          /\ \A i \in 1 .. c : line[i + 1] = kept[i]
      BY <1>6, <1>11, Follow
    <2>2. \A i \in 0 .. c : i = 0 \/ i \in 1 .. c OBVIOUS
    <2> QED BY <1>6, <1>7, <2>1, <2>2 DEF Given
  <1>13. PICK held : held = line \o <<next>> OBVIOUS
  <1>14. /\ Len(held) = c + 2
         /\ \A i \in 0 .. c : held[i + 1] = Given(i)
         /\ held[c + 2] = next
    <2>1. <<next>> \in Seq(Nat) /\ Len(<<next>>) = 1 /\ <<next>>[1] = next BY <1>10
    <2>2. PICK last \in Seq(Nat) : last = <<next>> /\ Len(last) = 1 /\ last[1] = next BY <2>1
    <2>3. /\ Len(line \o last) = Len(line) + Len(last)
          /\ \A i \in 1 .. Len(line) + Len(last) :
               (line \o last)[i] = IF i <= Len(line) THEN line[i] ELSE last[i - Len(line)]
      BY <1>12, <2>2, ConcatProperties
    <2>4. /\ Len(held) = (c + 1) + 1
          /\ \A i \in 1 .. (c + 1) + 1 : held[i] = IF i <= c + 1 THEN line[i] ELSE last[i - (c + 1)]
      BY <1>12, <1>13, <2>2, <2>3
    <2>5. (c + 1) + 1 = c + 2 /\ (c + 2) - (c + 1) = 1 /\ ~(c + 2 <= c + 1) OBVIOUS
    <2>6. ASSUME NEW i \in 0 .. c PROVE held[i + 1] = Given(i)
      <3>1. i + 1 \in 1 .. (c + 1) + 1 /\ i + 1 <= c + 1 OBVIOUS
      <3> QED BY <1>12, <2>4, <3>1
    <2>7. held[c + 2] = next
      <3>1. c + 2 \in 1 .. (c + 1) + 1 OBVIOUS
      <3> QED BY <2>2, <2>4, <2>5, <3>1
    <2> QED BY <2>4, <2>5, <2>6, <2>7
  <1>15. ASSUME NEW i \in 1 .. Len(held) - 1 PROVE held[i + 1] <= held[i] + 1
    <2>1. i \in 1 .. c + 1 BY <1>14
    <2>2. CASE i \in 1 .. c
      <3>1. i \in 0 .. c /\ i - 1 \in 0 .. c /\ (i - 1) + 1 = i BY <2>2
      <3>2. held[i + 1] = Given(i) BY <1>14, <3>1
      <3>3. held[i] = Given(i - 1) BY <1>14, <3>1
      <3> QED BY <1>9, <2>2, <3>2, <3>3
    <2>3. CASE i = c + 1
      <3>1. i + 1 = c + 2 /\ c \in 0 .. c BY <2>3
      <3>2. held[i + 1] = next /\ held[i] = Given(c) BY <1>14, <2>3, <3>1
      <3> QED BY <1>10, <3>2
    <2> QED BY <2>1, <2>2, <2>3
  <1>16. held = Pipeline \o <<NextUnread>> BY <1>3, <1>4, <1>7, <1>11, <1>13 DEF Pipeline
  <1> QED BY <1>15, <1>16 DEF NothingLost

\* Whatever the sizes of both rings, whichever accesses fail and however often
\* RTT is stopped and started: while the target is not reset no byte is skipped.
THEOREM NothingIsLost == Spec => []NothingLost
  <1>1. StreamInv => NothingLost BY NothingFollows
  <1> QED BY <1>1, StreamInvariant, PTL

-----------------------------------------------------------------------------
(* The refinement *)

\* A client's read is a Get of the abstract stream.
LEMMA ReadGets ==
  ASSUME StreamInv, NEW n \in Nat, Read(n)
  PROVE  Stream!Get
  <1> DEFINE abs == IF faith = "torn" THEN "broken" ELSE faith
  <1>1. PICK k \in 0 .. Kept : out' = [i \in 1 .. k |-> LocalItem(i)] /\ got' = Given(k)
    BY ReadTakes
  <1>2. PICK c \in Nat, s \in Nat : c = Kept /\ s = sent BY Counts, Parts DEF StreamInv
  <1>3. k \in Nat /\ k <= c BY <1>1, <1>2
  <1>4. rtt.at = "select" /\ sent' = sent /\ faith' = faith BY DEF Read, targetVars
  <1>5. /\ \A i \in 1 .. k : LocalItem(i) \in 0 .. s
        /\ \A i \in 0 .. k : Given(i) \in 0 .. s
    <2>1. /\ \A i \in 1 .. c : LocalItem(i) \in 0 .. s
          /\ \A i \in 0 .. c : Given(i) \in 0 .. s
      BY <1>2, Counts DEF StreamInv
    <2> QED BY <1>3, <2>1
  <1>6. PICK new : new = out' OBVIOUS
  <1>7. /\ new \in Seq(0 .. s) /\ new \in Seq(Nat) /\ Len(new) = k /\ DOMAIN new = 1 .. k
        /\ \A i \in 1 .. k : new[i] = LocalItem(i)
    <2>1. PICK V : V = 0 .. s OBVIOUS
    <2>2. new \in [1 .. k -> V] /\ \A i \in 1 .. k : new[i] = LocalItem(i)
      BY <1>1, <1>5, <1>6, <2>1
    <2>3. new \in Seq(V) /\ Len(new) = k /\ DOMAIN new = 1 .. k BY <1>3, <2>2
    <2>4. V \subseteq Nat BY <2>1
    <2>5. new \in Seq(Nat) BY <2>3, <2>4, SeqMonotonic
    <2> QED BY <2>1, <2>2, <2>3, <2>5
  <1>8. PICK g \in Nat : g = got /\ g = Given(0) BY Parts DEF StreamInv, Given
  <1>9. PICK read : read = <<g>> \o new OBVIOUS
  <1>10. /\ Len(read) = k + 1
         /\ \A i \in 0 .. k : read[i + 1] = Given(i)
    <2>1. /\ Len(read) = k + 1 /\ read[1] = g
          /\ \A i \in 1 .. k : read[i + 1] = new[i]
      BY <1>3, <1>7, <1>9, Follow
    <2>2. \A i \in 0 .. k : i = 0 \/ i \in 1 .. k BY <1>3
    <2> QED BY <1>3, <1>7, <1>8, <2>1, <2>2 DEF Given
  <1>11. got' = read[Len(read)]
    <2>1. k \in 0 .. k BY <1>3
    <2> QED BY <1>1, <1>10, <2>1
  <1>12. ASSUME NEW i \in 1 .. k
         PROVE  /\ abs = "exact" => read[i + 1] = read[i] + 1
                /\ abs = "again" => read[i + 1] \in 1 .. read[i] + 1
    <2>1. i \in 1 .. c /\ i \in 0 .. k /\ i - 1 \in 0 .. k /\ (i - 1) + 1 = i BY <1>3
    <2>2. read[i + 1] = Given(i) /\ read[i] = Given(i - 1) BY <1>10, <2>1
    <2>3. CASE abs = "exact"
      <3>1. Given(i) = Given(i - 1) + 1 BY <1>2, <2>1, <2>3 DEF StreamInv, Flowing
      <3> QED BY <2>2, <2>3, <3>1
    <2>4. CASE abs = "again"
      <3>1. Given(i) <= Given(i - 1) + 1 /\ LocalItem(i) # 0
        BY <1>2, <2>1, <2>4 DEF StreamInv, Flowing, Meant
      <3>2. Given(i) = LocalItem(i) /\ Given(i) \in 0 .. s /\ Given(i - 1) \in 0 .. s
        BY <1>5, <2>1 DEF Given
      <3> QED BY <1>2, <2>2, <2>4, <3>1, <3>2
    <2> QED BY <2>3, <2>4
  <1>13. \A i \in DOMAIN out' : Stream!Successor(read[i], read[i + 1])
    BY <1>6, <1>7, <1>12 DEF Stream!Successor
  <1> QED BY <1>2, <1>4, <1>6, <1>7, <1>8, <1>9, <1>11, <1>13 DEF Stream!Get

LEMMA StreamStep ==
  ASSUME StreamInv, [Next]_vars
  PROVE  [Stream!Next]_(Stream!vars)
  <1> USE DEF targetVars, clientVars
  <1>1. CASE Put BY <1>1 DEF Put, Stream!Next, Stream!Put
  <1>2. CASE Reset BY <1>2 DEF Reset, Stream!Next, Stream!TargetReset
  <1>3. ASSUME NEW n \in 1 .. MAX_BYTES_PER_READ, Read(n) PROVE Stream!Next
    <2>1. n \in Nat BY <1>3, Sizes
    <2> QED BY <1>3, <2>1, ReadGets DEF Stream!Next
  <1>4. CASE Ack
    <2>1. CASE UNCHANGED <<sent, got, out, faith>> BY <2>1 DEF Stream!vars
    <2>2. CASE /\ faith' = IF faith = "exact" THEN "again" ELSE faith
               /\ UNCHANGED <<sent, got, out>>
      <3>1. CASE faith = "exact" BY <2>2, <3>1 DEF Stream!Next, Stream!WriteFailed
      <3>2. CASE faith # "exact" BY <2>2, <3>2 DEF Stream!vars
      <3> QED BY <3>1, <3>2
    <2> QED BY <1>4, <2>1, <2>2 DEF Ack
  <1>5. CASE \/ SetUp \/ Start \/ Stop \/ Timer \/ ReadCb \/ ReadBuf \/ ReadRd \/ ReadWr
             \/ ReadPiece \/ UNCHANGED vars
    <2>1. UNCHANGED <<sent, got, out, faith>>
      BY <1>5
      DEF SetUp, Start, Stop, Timer, ReadCb, ReadBuf, ReadRd, ReadWr, ReadPiece, FailedRead, vars
    <2> QED BY <2>1 DEF Stream!vars
  <1> QED BY <1>1, <1>2, <1>3, <1>4, <1>5 DEF Next, Poll

\* Clients get the stream, for rings and reads of every size: every read of a
\* client is a Get of ByteStream, every byte the target writes a Put, and all
\* the accesses in between are steps nobody sees.
THEOREM RttImplementsStream == Spec => ImplementsStream
  <1>1. Init => Stream!Init BY DEF Init, Stream!Init
  <1>2. StreamInv /\ [Next]_vars => [Stream!Next]_(Stream!vars) BY StreamStep
  <1> QED BY <1>1, <1>2, StreamInvariant, PTL DEF Spec, ImplementsStream, Stream!Spec
=============================================================================
