------------------------ MODULE BulkTransferProofs ------------------------
(* Proofs about BulkTransfer, for every size of memory and of its pages,   *)
(* every length of transfer, set of APs, kind of target and use of the raw *)
(* operations.                                                             *)
EXTENDS BulkTransfer, SwdInterfaceProofs, FiniteSetTheorems, SequenceTheorems

-----------------------------------------------------------------------------
(* Addresses *)

LEMMA Times == ASSUME NEW n \in Nat, NEW k \in Nat \ {0} PROVE n * k >= n
  OBVIOUS

LEMMA Division ==
  ASSUME NEW n \in Nat \ {0}, NEW a \in Nat
  PROVE  a = n * (a \div n) + (a % n) /\ a \div n \in Nat /\ a % n \in 0 .. n - 1
  <1>1. a = n * (a \div n) + (a % n) OBVIOUS
  <1>2. a % n \in 0 .. n - 1 OBVIOUS
  <1>3. a \div n \in Nat OBVIOUS
  <1> QED BY <1>1, <1>2, <1>3

LEMMA Remainder ==
  ASSUME NEW n \in Nat \ {0}, NEW q \in Nat, NEW s \in 0 .. n - 1, NEW a \in Nat, a = n * q + s
  PROVE  a % n = s
  <1>1. PICK u \in Nat, r \in 0 .. n - 1 : a = n * u + r /\ r = a % n
    BY Division
  <1>2. ASSUME u > q PROVE FALSE
    <2>1. PICK k \in Nat \ {0} : u = q + k
      <3>1. u - q \in Nat \ {0} /\ u = q + (u - q) BY <1>2
      <3> QED BY <3>1
    <2>2. n * u = n * q + n * k BY <2>1
    <2>3. n * k >= n BY Times
    <2>4. n * q \in Nat /\ n * k \in Nat OBVIOUS
    <2> QED BY <1>1, <2>2, <2>3, <2>4
  <1>3. ASSUME u < q PROVE FALSE
    <2>1. PICK k \in Nat \ {0} : q = u + k
      <3>1. q - u \in Nat \ {0} /\ q = u + (q - u) BY <1>3
      <3> QED BY <3>1
    <2>2. n * q = n * u + n * k BY <2>1
    <2>3. n * k >= n BY Times
    <2>4. n * u \in Nat /\ n * k \in Nat OBVIOUS
    <2> QED BY <1>1, <2>2, <2>3, <2>4
  <1>4. u = q BY <1>2, <1>3
  <1>5. PICK m \in Nat : m = n * q
    <2>1. n * q \in Nat OBVIOUS
    <2> QED BY <2>1
  <1>6. a = m + r /\ a = m + s BY <1>1, <1>4, <1>5
  <1>7. r = s
    <2> r \in Nat /\ s \in Nat BY <1>1
    <2> QED BY <1>5, <1>6
  <1> QED BY <1>1, <1>7

\* The next number's remainder, where the division does not wrap.
LEMMA NextRemainder ==
  ASSUME NEW n \in Nat \ {0}, NEW a \in Nat, (a % n) + 1 < n
  PROVE  (a + 1) % n = (a % n) + 1
  <1>1. PICK q \in Nat, r \in 0 .. n - 1 : a = n * q + r /\ r = a % n
    BY Division
  <1>2. PICK s \in 0 .. n - 1 : s = r + 1
    <2>1. r + 1 \in 0 .. n - 1 BY <1>1
    <2> QED BY <2>1
  <1>3. PICK c \in Nat : c = a + 1
    <2>1. a + 1 \in Nat OBVIOUS
    <2> QED BY <2>1
  <1>4. c = n * q + s
    <2>1. PICK m \in Nat : m = n * q
      <3>1. n * q \in Nat OBVIOUS
      <3> QED BY <3>1
    <2>2. c = m + s
      <3>1. a = m + r BY <1>1, <2>1
      <3> QED BY <1>2, <1>3, <3>1
    <2> QED BY <2>1, <2>2
  <1>5. c % n = s BY <1>4, Remainder
  <1> QED BY <1>1, <1>2, <1>3, <1>5

\* Within a page the auto-increment and the driver's u32 arithmetic agree.
LEMMA NextWord ==
  ASSUME NEW a \in Nat, NEW b, b = a % NWords, (b % PageWords) + 1 < PageWords
  PROVE  /\ (a + 1) % NWords = NextInPage(b)
         /\ ((a + 1) % NWords) % PageWords = (b % PageWords) + 1
  <1>0. NWords \in Nat \ {0} /\ PageWords \in Nat \ {0} /\ NWords % PageWords = 0
    BY TargetAssumption
  <1>1. b \in 0 .. NWords - 1 BY <1>0, Division
  <1>2. (b + 1) % PageWords = (b % PageWords) + 1 BY <1>0, <1>1, NextRemainder
  <1>3. b % PageWords \in 0 .. PageWords - 1
    <2>1. b \in Nat BY <1>0, <1>1
    <2> QED BY <1>0, <2>1, Division
  <1>4. b + 1 # NWords BY <1>0, <1>2, <1>3
  <1>5. (a + 1) % NWords = b + 1
    <2>1. (a % NWords) + 1 < NWords BY <1>0, <1>1, <1>4
    <2>2. (a + 1) % NWords = (a % NWords) + 1 BY <1>0, <2>1, NextRemainder
    <2> QED BY <2>2
  <1>6. NextInPage(b) = b + 1 BY <1>2, <1>3 DEF NextInPage
  <1> QED BY <1>2, <1>5, <1>6

-----------------------------------------------------------------------------
(* The words a step stores *)

LEMMA NoWords == SetToSeq({}) = <<>>
  <1>1. Cardinality({}) = 0 BY FS_EmptySet
  <1>2. 1 .. 0 = {} OBVIOUS
  <1>3. \A f \in [{} -> {}] : f = <<>> OBVIOUS
  <1>4. <<>> \in [1 .. Cardinality({}) -> {}] BY <1>1, <1>2
  <1>5. IsInjective(<<>>) BY DEF IsInjective
  <1> QED BY <1>1, <1>2, <1>3, <1>4, <1>5 DEF SetToSeq

LEMMA OneWord == ASSUME NEW e PROVE SetToSeq({e}) = <<e>>
  <1>1. Cardinality({e}) = 1 BY FS_Singleton
  <1>2. 1 .. 1 = {1} OBVIOUS
  <1>3. <<e>> \in [1 .. Cardinality({e}) -> {e}] BY <1>1, <1>2
  <1>4. IsInjective(<<e>>) BY DEF IsInjective
  <1>5. PICK f : f = SetToSeq({e}) OBVIOUS
  <1>6. f \in [1 .. Cardinality({e}) -> {e}] BY <1>3, <1>4, <1>5 DEF SetToSeq
  <1>7. f = <<e>>
    <2>1. f \in [{1} -> {e}] BY <1>1, <1>2, <1>6
    <2> QED BY <2>1
  <1> QED BY <1>5, <1>7

XferType ==
  [at : {"idle", "inc_on", "chunk", "word", "check", "inc_off", "done"},
   op : {"none", "read", "write"}, addr : Addrs, len : 0 .. MaxLen,
   fast : BOOLEAN, todo : 0 .. PageWords, count : 0 .. MaxLen, ok : BOOLEAN,
   moved : Seq(Readings), clean : BOOLEAN]

\* m is s with word e stored behind it.
Longer(m, s, e) ==
  /\ m \in Seq(Readings) /\ Len(m) = Len(s) + 1 /\ m[Len(s) + 1] = e
  /\ \A i \in 1 .. Len(s) : m[i] = s[i]

LEMMA AppendLonger ==
  ASSUME NEW s \in Seq(Readings), NEW e \in Readings PROVE Longer(Append(s, e), s, e)
  <1>1. /\ Append(s, e) \in Seq(Readings) /\ Len(Append(s, e)) = Len(s) + 1
        /\ \A i \in 1 .. Len(s) : Append(s, e)[i] = s[i]
        /\ Append(s, e)[Len(s) + 1] = e
    BY AppendProperties
  <1> QED BY <1>1 DEF Longer

\* What a step whose transactions wrote nothing, or the one word e, stores.
LEMMA WrittenCases ==
  ASSUME NEW x \in XferType, NEW t, NEW e \in Readings, t.writes = {} \/ t.writes = {e}
  PROVE  \E m \in Seq(Readings) :
           /\ Written(x, t) = [x EXCEPT !.moved = m]
           /\ IF x.op = "write" /\ t.writes # {} THEN Longer(m, x.moved, e) ELSE m = x.moved
  <1>0. PICK s : s = x.moved OBVIOUS
  <1>1. s \in Seq(Readings) BY <1>0 DEF XferType
  <1>2. x = [x EXCEPT !.moved = s] BY <1>0 DEF XferType
  <1>3. CASE x.op # "write"
    BY <1>0, <1>1, <1>2, <1>3 DEF Written
  <1>4. CASE x.op = "write" /\ t.writes = {}
    <2>1. PICK m : m = s \o SetToSeq(t.writes) OBVIOUS
    <2>2. m = s
      <3>1. m = s \o <<>> BY <1>4, <2>1, NoWords
      <3> QED BY <1>1, <3>1, ConcatEmptySeq
    <2>3. Written(x, t) = [x EXCEPT !.moved = m] BY <1>0, <1>4, <2>1 DEF Written, XferType
    <2> QED BY <1>0, <1>1, <1>4, <2>2, <2>3
  <1>5. CASE x.op = "write" /\ t.writes = {e}
    <2>1. PICK m : m = s \o SetToSeq(t.writes) OBVIOUS
    <2>2. m = s \o <<e>> BY <1>5, <2>1, OneWord
    <2>3. m = Append(s, e) BY <1>1, <2>2, AppendIsConcat
    <2>4. Longer(m, s, e) BY <1>1, <2>3, AppendLonger
    <2>5. Written(x, t) = [x EXCEPT !.moved = m] BY <1>0, <1>5, <2>1 DEF Written, XferType
    <2> QED BY <1>0, <1>5, <2>4, <2>5 DEF Longer
  <1> QED BY <1>3, <1>4, <1>5

-----------------------------------------------------------------------------
(* What holds of a transfer, of the driver and of the target meanwhile *)

Sized(x) == x \in XferType /\ x.count <= x.len /\ Len(x.moved) <= x.len

Ordered(x) ==
  /\ InOrder(x)
  /\ x.op = "read" => x.count = Len(x.moved)
  /\ x.op = "write" => Len(x.moved) \in {x.count, x.count + 1}

Holds(x, d, p, o) ==
  /\ Sized(x) /\ Progress(x)
  /\ x.clean => Ordered(x) /\ Accounted(x) /\ Steady(x, o) /\ Placed(x, d, p)
  /\ x.at = "done" /\ x.ok /\ x.clean => ~p.inc

LEMMA XferFields ==
  ASSUME NEW x \in XferType
  PROVE  /\ x.addr \in Nat /\ x.len \in Nat /\ x.count \in Nat /\ x.todo \in Nat
         /\ x.moved \in Seq(Readings) /\ Len(x.moved) \in Nat
         /\ Next32(x) \in Addrs
  <1>1. NWords \in Nat \ {0} /\ PageWords \in Nat \ {0} /\ MaxLen \in Nat
    BY TargetAssumption, MaxLenAssumption
  <1>2. x.addr \in Nat /\ x.len \in Nat /\ x.count \in Nat /\ x.todo \in Nat
    BY <1>1 DEF XferType, Addrs
  <1>3. x.moved \in Seq(Readings) BY DEF XferType
  <1>4. Len(x.moved) \in Nat BY <1>3
  <1>5. Next32(x) \in Addrs
    <2>1. PICK s \in Nat : s = x.addr + x.count BY <1>2
    <2>2. s % NWords \in 0 .. NWords - 1 BY <1>1
    <2> QED BY <2>1, <2>2 DEF Next32, Addrs
  <1> QED BY <1>2, <1>3, <1>4, <1>5

\* A word that is stored in its turn keeps the words in order.
LEMMA StoredInOrder ==
  ASSUME NEW x \in XferType, InOrder(x), Len(x.moved) = x.count,
         NEW m, Longer(m, x.moved, Word(Next32(x))),
         NEW y, y.addr = x.addr, y.moved = m
  PROVE  InOrder(y)
  <1> DEFINE w(i) == Word((x.addr + i - 1) % NWords)
  <1>1. \A i \in DOMAIN x.moved : x.moved[i] = w(i) BY DEF InOrder
  <1>2. w(x.count + 1) = Word(Next32(x))
    <2>1. x.addr + (x.count + 1) - 1 = x.addr + x.count BY XferFields
    <2> QED BY <2>1 DEF Next32
  <1>3. SUFFICES \A i \in DOMAIN m : m[i] = w(i) BY DEF InOrder
  <1> HIDE DEF w
  <1>4. TAKE i \in DOMAIN m
  <1>5. x.count \in Nat /\ DOMAIN x.moved = 1 .. x.count BY XferFields
  <1>6. DOMAIN m = 1 .. x.count + 1 BY XferFields DEF Longer
  <1>7. CASE i \in 1 .. x.count BY <1>1, <1>5, <1>7 DEF Longer
  <1>8. CASE i = x.count + 1 BY <1>2, <1>8 DEF Longer
  <1> QED BY <1>5, <1>6, <1>7, <1>8

LEMMA StoredFits ==
  ASSUME NEW x, Sized(x), Progress(x), x.at = "word", x.clean => Ordered(x) /\ Accounted(x),
         NEW m, NEW e, Longer(m, x.moved, e), x.clean => e = Word(Next32(x)),
         NEW y, y.addr = x.addr, y.moved = m
  PROVE  /\ Len(m) <= x.count + 1 /\ x.count + 1 <= x.len
         /\ x.clean => InOrder(y) /\ Len(m) = x.count + 1
  <1>1. x \in XferType BY DEF Sized
  <1>2. Moving(x) BY DEF Moving
  <1>3. Len(x.moved) <= x.count /\ x.todo > 0 /\ x.count + x.todo <= x.len
    BY <1>2 DEF Progress
  <1>4. Len(m) = Len(x.moved) + 1 BY DEF Longer
  <1>5. Len(m) <= x.count + 1 /\ x.count + 1 <= x.len BY <1>1, <1>3, <1>4, XferFields
  <1>6. ASSUME x.clean PROVE InOrder(y) /\ Len(m) = x.count + 1
    <2>1. Len(x.moved) = x.count BY <1>2, <1>6 DEF Accounted
    <2>2. InOrder(x) BY <1>6 DEF Ordered
    <2>3. Longer(m, x.moved, Word(Next32(x))) BY <1>6
    <2>4. InOrder(y) BY <1>1, <2>1, <2>2, <2>3, StoredInOrder
    <2> QED BY <1>4, <2>1, <2>4
  <1> QED BY <1>5, <1>6

\* A step that fails: the words are in order still, and AddrInc goes off next.
LEMMA FailedHolds ==
  ASSUME NEW x, Sized(x), Progress(x), Moving(x), x.clean => Ordered(x) /\ Accounted(x),
         NEW m \in Seq(Readings), NEW e,
         \/ m = x.moved
         \/ /\ x.at = "word" /\ x.op = "write" /\ Longer(m, x.moved, e)
            /\ x.clean => e = Word(Next32(x)),
         NEW y, y = [x EXCEPT !.moved = m, !.ok = FALSE, !.at = "inc_off"], NEW d, NEW p, NEW o
  PROVE  Holds(y, d, p, o)
  <1>1. x \in XferType BY DEF Sized
  <1>2. /\ y \in XferType /\ y.at = "inc_off" /\ ~y.ok /\ y.moved = m /\ y.clean = x.clean
        /\ y.op = x.op /\ y.addr = x.addr /\ y.len = x.len /\ y.count = x.count
    BY <1>1 DEF XferType
  <1>3. Len(m) <= x.len /\ (x.clean => Ordered(y))
    <2>1. CASE m = x.moved
      <3>1. Len(m) <= x.len BY <2>1 DEF Sized
      <3>2. ASSUME x.clean PROVE InOrder(y)
        <4>1. InOrder(x) BY <3>2 DEF Ordered
        <4> QED BY <1>2, <2>1, <4>1 DEF InOrder
      <3> QED BY <1>2, <2>1, <3>1, <3>2 DEF Ordered
    <2>2. CASE /\ x.at = "word" /\ x.op = "write" /\ Longer(m, x.moved, e)
               /\ x.clean => e = Word(Next32(x))
      <3>1. /\ Len(m) <= x.count + 1 /\ x.count + 1 <= x.len
            /\ x.clean => InOrder(y) /\ Len(m) = x.count + 1
        BY <1>2, <2>2, StoredFits
      <3>2. Len(m) <= x.len
        <4>1. Len(m) \in Nat OBVIOUS
        <4> QED BY <1>1, <3>1, <4>1, XferFields
      <3> QED BY <1>2, <2>2, <3>1, <3>2 DEF Ordered
    <2> QED BY <2>1, <2>2
  <1>4. Sized(y) BY <1>2, <1>3 DEF Sized
  <1>5. Progress(y) /\ Accounted(y) /\ Steady(y, o) /\ Placed(y, d, p)
    BY <1>2 DEF Progress, Accounted, Steady, Placed, Moving
  <1> QED BY <1>2, <1>3, <1>4, <1>5 DEF Holds

\* The word after the one in hand is the one TAR moves on to, while the chunk
\* has more of them.
LEMMA NextInChunk ==
  ASSUME NEW x, Sized(x), Progress(x), x.at = "word", x.todo > 1,
         NEW y, y.addr = x.addr, y.count = x.count + 1
  PROVE  /\ Next32(y) = NextInPage(Next32(x))
         /\ (Next32(y) % PageWords) = (Next32(x) % PageWords) + 1
  <1>1. x \in XferType BY DEF Sized
  <1>2. PICK a \in Nat : a = x.addr + x.count
    <2>1. x.addr + x.count \in Nat BY <1>1, XferFields
    <2> QED BY <2>1
  <1>3. PICK b : b = a % NWords OBVIOUS
  <1>4. Next32(x) = b BY <1>2, <1>3 DEF Next32
  <1>5. (b % PageWords) + 1 < PageWords
    <2>1. (b % PageWords) + x.todo <= PageWords BY <1>4 DEF Progress
    <2>2. PageWords \in Nat \ {0} BY TargetAssumption
    <2>3. b \in Nat BY <1>1, <1>4, XferFields DEF Addrs
    <2>4. PICK r \in Nat : r = b % PageWords
      <3>1. b % PageWords \in Nat BY <2>2, <2>3
      <3> QED BY <3>1
    <2> QED BY <1>1, <2>1, <2>2, <2>4, XferFields
  <1>6. /\ (a + 1) % NWords = NextInPage(b)
        /\ ((a + 1) % NWords) % PageWords = (b % PageWords) + 1
    BY <1>3, <1>5, NextWord
  <1>7. Next32(y) = (a + 1) % NWords
    <2>1. y.addr + y.count = a + 1 BY <1>1, <1>2, XferFields
    <2> QED BY <2>1 DEF Next32
  <1> QED BY <1>4, <1>6, <1>7

\* The words of a chunk fill at most the page, and there is at least one.
LEMMA ChunkSizeFits ==
  ASSUME NEW x, Sized(x), x.count < x.len
  PROVE  /\ ChunkSize(x) \in 1 .. PageWords /\ x.count + ChunkSize(x) <= x.len
         /\ (Next32(x) % PageWords) + ChunkSize(x) <= PageWords
  <1>1. x \in XferType BY DEF Sized
  <1>2. x.len \in Nat /\ x.count \in Nat BY <1>1, XferFields
  <1>3. PageWords \in Nat \ {0} BY TargetAssumption
  <1>4. PICK r \in 0 .. PageWords - 1 : r = Next32(x) % PageWords
    <2>1. Next32(x) \in Nat BY <1>1, XferFields DEF Addrs
    <2> QED BY <1>3, <2>1
  <1>5. PICK q \in Nat : q = x.len - x.count
    <2>1. x.len - x.count \in Nat BY <1>2
    <2> QED BY <2>1
  <1>6. q > 0 BY <1>2, <1>5
  <1>7. ChunkSize(x) = IF q < PageWords - r THEN q ELSE PageWords - r
    BY <1>4, <1>5 DEF ChunkSize
  <1>8. PICK c : c = ChunkSize(x) OBVIOUS
  <1>9. c \in 1 .. PageWords /\ c <= q /\ r + c <= PageWords BY <1>3, <1>4, <1>6, <1>7, <1>8
  <1>10. x.count + c <= x.len BY <1>2, <1>5, <1>9
  <1> QED BY <1>4, <1>8, <1>9, <1>10

\* The history, the target and the driver that a step of x leaves.
OnCourse(x, d, p, o) ==
  /\ ~o.raw /\ ~o.linkErr /\ (p.alive => p.inc)

\* A chunk that has begun.
LEMMA ChunkHolds ==
  ASSUME NEW x, Sized(x), Progress(x), x.at = "chunk", x.clean => Ordered(x) /\ Accounted(x),
         NEW d, NEW p, NEW o,
         x.clean =>
           /\ OnCourse(x, d, p, o) /\ d.powered_up /\ d.dp_select.bank = BankOf(DRW)
           /\ p.alive /\ ~p.sticky =>
                /\ x.op = "write" => p.tar = Next32(x)
                /\ x.op = "read" => /\ p.rdbuff = Word(Next32(x))
                                    /\ p.tar = NextInPage(Next32(x)),
         NEW y, y = [x EXCEPT !.moved = x.moved, !.at = "word", !.todo = ChunkSize(x)]
  PROVE  Holds(y, d, p, o)
  <1>1. x \in XferType BY DEF Sized
  <1>2. x.count < x.len BY DEF Progress
  <1>3. PICK c : c = ChunkSize(x) OBVIOUS
  <1>4. /\ c \in 1 .. PageWords /\ x.count + c <= x.len
        /\ (Next32(x) % PageWords) + c <= PageWords
    BY <1>2, <1>3, ChunkSizeFits
  <1>5. c \in 0 .. PageWords /\ c > 0 BY <1>4
  <1>6. /\ y \in XferType /\ y.at = "word" /\ y.todo = c /\ y.moved = x.moved /\ y.op = x.op
        /\ y.addr = x.addr /\ y.len = x.len /\ y.count = x.count /\ y.clean = x.clean
    BY <1>1, <1>3, <1>5 DEF XferType
  <1>7. Next32(y) = Next32(x) BY <1>6 DEF Next32
  <1>8. Moving(x) /\ Moving(y) BY <1>6 DEF Moving
  <1>9. Sized(y) BY <1>6 DEF Sized
  <1>10. Progress(y) BY <1>4, <1>5, <1>6, <1>7, <1>8 DEF Progress
  <1>11. ASSUME x.clean PROVE Ordered(y) /\ Accounted(y) /\ Steady(y, o) /\ Placed(y, d, p)
    <2>1. Ordered(y) BY <1>6, <1>11 DEF Ordered, InOrder
    <2>2. Accounted(y) BY <1>6, <1>8, <1>11 DEF Accounted
    <2>3. Steady(y, o) BY <1>11 DEF Steady, OnCourse
    <2>4. Placed(y, d, p) BY <1>6, <1>7, <1>8, <1>11 DEF Placed, OnCourse
    <2> QED BY <2>1, <2>2, <2>3, <2>4
  <1> QED BY <1>6, <1>9, <1>10, <1>11 DEF Holds

\* A chunk that is done: the next one follows, or AddrInc goes off.
LEMMA DoneHolds ==
  ASSUME NEW x, Sized(x), Len(x.moved) <= x.count, x.clean => InOrder(x) /\ Len(x.moved) = x.count,
         NEW b \in BOOLEAN, NEW d, NEW p, NEW o, x.clean => OnCourse(x, d, p, o),
         NEW y, y = [x EXCEPT !.at = IF x.count = x.len THEN "inc_off" ELSE "chunk", !.ok = b]
  PROVE  Holds(y, d, p, o)
  <1>1. x \in XferType BY DEF Sized
  <1>2. /\ y \in XferType /\ y.at = (IF x.count = x.len THEN "inc_off" ELSE "chunk")
        /\ y.moved = x.moved /\ y.op = x.op
        /\ y.addr = x.addr /\ y.len = x.len /\ y.count = x.count /\ y.clean = x.clean
    BY <1>1 DEF XferType
  <1>3. Sized(y) BY <1>2 DEF Sized
  <1>4. x.count \in Nat /\ x.len \in Nat /\ x.count <= x.len BY <1>1, XferFields DEF Sized
  <1>5. Progress(y) BY <1>2, <1>4 DEF Progress
  <1>6. ASSUME x.clean PROVE Ordered(y) /\ Accounted(y) /\ Steady(y, o) /\ Placed(y, d, p)
    <2>1. Ordered(y) BY <1>2, <1>6 DEF Ordered, InOrder
    <2>2. Accounted(y) BY <1>2, <1>6 DEF Accounted
    <2>3. Steady(y, o) BY <1>6 DEF Steady, OnCourse
    <2>4. Placed(y, d, p) BY <1>2, <1>6 DEF Placed, OnCourse
    <2> QED BY <2>1, <2>2, <2>3, <2>4
  <1> QED BY <1>2, <1>3, <1>5, <1>6 DEF Holds

\* A word that is done; only a disturbed write may have moved none.
LEMMA WordHolds ==
  ASSUME NEW x, Sized(x), Progress(x), x.at = "word", x.clean => Ordered(x) /\ Accounted(x),
         NEW m \in Seq(Readings), NEW e, m = x.moved \/ Longer(m, x.moved, e),
         x.clean => Longer(m, x.moved, e) /\ e = Word(Next32(x)),
         NEW d, NEW p, NEW o,
         x.clean =>
           /\ OnCourse(x, d, p, o) /\ d.powered_up /\ d.dp_select.bank = BankOf(DRW)
           /\ x.todo > 1 /\ p.alive /\ ~p.sticky =>
                /\ x.op = "write" => p.tar = NextInPage(Next32(x))
                /\ x.op = "read" => /\ p.rdbuff = Word(NextInPage(Next32(x)))
                                    /\ p.tar = NextInPage(NextInPage(Next32(x))),
         NEW y, y = WordDone([x EXCEPT !.moved = m])
  PROVE  Holds(y, d, p, o)
  <1>1. x \in XferType BY DEF Sized
  <1>2. x.count \in Nat /\ x.len \in Nat /\ x.todo \in Nat BY <1>1, XferFields
  <1>3. /\ x.todo > 0 /\ x.count + x.todo <= x.len /\ Len(x.moved) <= x.count
        /\ (Next32(x) % PageWords) + x.todo <= PageWords
    BY DEF Progress, Moving
  <1>4. PICK c \in Nat : c = x.count + 1 BY <1>2
  <1>5. PICK k \in Nat : k = x.todo - 1
    <2>1. x.todo - 1 \in Nat BY <1>2, <1>3
    <2> QED BY <2>1
  <1>6. c + k <= x.len /\ c <= x.len BY <1>2, <1>3, <1>4, <1>5
  <1>7. c \in 0 .. MaxLen /\ k \in 0 .. PageWords
    <2>1. x.len <= MaxLen /\ x.todo <= PageWords BY <1>1 DEF XferType
    <2>2. MaxLen \in Nat /\ PageWords \in Nat BY MaxLenAssumption, TargetAssumption
    <2> QED BY <1>2, <1>5, <1>6, <2>1, <2>2
  <1>8. PICK w : w = [x EXCEPT !.moved = m, !.count = c, !.todo = k] OBVIOUS
  <1>9. /\ w \in XferType /\ w.at = "word" /\ w.todo = k /\ w.moved = m /\ w.op = x.op
        /\ w.addr = x.addr /\ w.len = x.len /\ w.count = c /\ w.clean = x.clean /\ w.ok = x.ok
    BY <1>1, <1>7, <1>8 DEF XferType
  <1>10. /\ Len(m) <= c
         /\ x.clean => InOrder(w) /\ Len(m) = c
    <2>1. CASE Longer(m, x.moved, e)
      <3>1. /\ Len(m) <= x.count + 1 /\ x.count + 1 <= x.len
            /\ x.clean => InOrder(w) /\ Len(m) = x.count + 1
        BY <1>9, <2>1, StoredFits
      <3> QED BY <1>4, <3>1
    <2>2. CASE m = x.moved /\ ~Longer(m, x.moved, e)
      <3>1. Len(m) \in Nat OBVIOUS
      <3> QED BY <1>2, <1>3, <1>4, <2>2, <3>1
    <2> QED BY <2>1, <2>2
  <1>11. Sized(w)
    <2>1. Len(m) \in Nat OBVIOUS
    <2>2. Len(m) <= x.len BY <1>2, <1>6, <1>10, <2>1
    <2> QED BY <1>6, <1>9, <2>2 DEF Sized
  <1>12. y = IF k > 0 THEN w
             ELSE IF w.fast THEN [w EXCEPT !.at = "check"] ELSE ChunkDone(w)
    <2>1. w = [[x EXCEPT !.moved = m] EXCEPT !.count = @ + 1, !.todo = @ - 1]
      BY <1>1, <1>4, <1>5, <1>8 DEF XferType
    <2> QED BY <1>9, <2>1 DEF WordDone
  <1>13. CASE k > 0
    <2>0. y = w BY <1>12, <1>13
    <2>1. x.todo > 1 BY <1>2, <1>5, <1>13
    <2>2. /\ Next32(w) = NextInPage(Next32(x))
          /\ (Next32(w) % PageWords) = (Next32(x) % PageWords) + 1
      BY <1>4, <1>9, <2>1, NextInChunk
    <2>3. (Next32(w) % PageWords) + k <= PageWords
      <3>1. PICK r \in Nat : r = Next32(x) % PageWords
        <4>1. PageWords \in Nat \ {0} BY TargetAssumption
        <4>2. Next32(x) \in Nat BY <1>1, XferFields DEF Addrs
        <4>3. Next32(x) % PageWords \in Nat BY <4>1, <4>2
        <4> QED BY <4>3
      <3>2. PageWords \in Nat BY TargetAssumption
      <3> QED BY <1>2, <1>3, <1>5, <2>2, <3>1, <3>2
    <2>4. Moving(w) BY <1>9 DEF Moving
    <2>5. Progress(w) BY <1>6, <1>9, <1>10, <1>13, <2>3, <2>4 DEF Progress
    <2>6. ASSUME x.clean PROVE Ordered(w) /\ Accounted(w) /\ Steady(w, o) /\ Placed(w, d, p)
      <3>1. Ordered(w) BY <1>9, <1>10, <2>6 DEF Ordered
      <3>2. Accounted(w) BY <1>9, <1>10, <2>4, <2>6 DEF Accounted
      <3>3. Steady(w, o) BY <2>6 DEF Steady, OnCourse
      <3>4. Placed(w, d, p) BY <1>9, <2>1, <2>2, <2>6 DEF Placed, OnCourse
      <3> QED BY <3>1, <3>2, <3>3, <3>4
    <2> QED BY <1>9, <1>11, <2>0, <2>5, <2>6 DEF Holds
  <1>14. CASE ~(k > 0) /\ w.fast
    <2>1. y = [w EXCEPT !.at = "check"] BY <1>12, <1>14
    <2>2. /\ y \in XferType /\ y.at = "check" /\ y.moved = m /\ y.op = x.op
          /\ y.addr = x.addr /\ y.len = x.len /\ y.count = c /\ y.clean = x.clean
      BY <1>9, <2>1 DEF XferType
    <2>3. Sized(y) BY <1>9, <1>11, <2>2 DEF Sized
    <2>4. Progress(y) BY <1>10, <2>2 DEF Progress
    <2>5. ASSUME x.clean PROVE Ordered(y) /\ Accounted(y) /\ Steady(y, o) /\ Placed(y, d, p)
      <3>1. Ordered(y) BY <1>9, <1>10, <2>2, <2>5 DEF Ordered, InOrder
      <3>2. Accounted(y) BY <1>10, <2>2, <2>5 DEF Accounted
      <3>3. Steady(y, o) BY <2>5 DEF Steady, OnCourse
      <3>4. Placed(y, d, p) BY <2>2, <2>5 DEF Placed, OnCourse
      <3> QED BY <3>1, <3>2, <3>3, <3>4
    <2> QED BY <2>2, <2>3, <2>4, <2>5 DEF Holds
  <1>15. CASE ~(k > 0) /\ ~w.fast
    <2>1. y = ChunkDone(w) BY <1>12, <1>15
    <2>2. y = [w EXCEPT !.at = IF w.count = w.len THEN "inc_off" ELSE "chunk", !.ok = w.ok]
      BY <1>9, <2>1 DEF ChunkDone, XferType
    <2>3. w.ok \in BOOLEAN BY <1>9 DEF XferType
    <2>4. x.clean => OnCourse(w, d, p, o) BY DEF OnCourse
    <2>5. /\ w \in XferType /\ w.moved = m /\ w.count = c /\ w.clean = x.clean /\ Sized(w)
          /\ Len(w.moved) <= w.count
          /\ w.clean => InOrder(w) /\ Len(w.moved) = w.count
          /\ w.clean => OnCourse(w, d, p, o)
      BY <1>9, <1>10, <1>11, <2>4 DEF OnCourse
    <2>6. PICK b \in BOOLEAN : b = w.ok BY <2>3
    <2>7. y = [w EXCEPT !.at = IF w.count = w.len THEN "inc_off" ELSE "chunk", !.ok = b]
      BY <2>2, <2>6
    <2> QED BY <2>5, <2>7, DoneHolds, ZenonT(40)
  <1> QED BY <1>13, <1>14, <1>15

-----------------------------------------------------------------------------
(* The transactions of a step, whatever has become of the wire *)

\* An AP write to TAR writes no word, one to DRW at most the one at TAR, in
\* whatever register SELECT names.
LEMMA ApWriteWrites ==
  ASSUME NEW st \in States, NEW reg \in {TAR, DRW}, NEW v, NEW t \in ApWrite(st, reg, v)
  PROVE  \/ t.writes = st.writes
         \/ reg = DRW /\ t.writes = st.writes \cup {[hit |-> Hit(st, DRW), val |-> st.dp.tar]}
  <1>1. PICK h : h = Hit(st, reg) OBVIOUS
  <1>2. PICK inc : inc = IF MemAp(h, CSW) THEN v = 1 ELSE st.dp.inc OBVIOUS
  <1>3. PICK tar : tar = CASE MemAp(h, TAR) -> v
                           [] MemAp(h, DRW) -> NextTar(st)
                           [] OTHER -> st.dp.tar OBVIOUS
  <1>4. PICK ws : ws = IF Offset(reg) = DRW THEN st.writes \cup {[hit |-> h, val |-> st.dp.tar]}
                       ELSE st.writes OBVIOUS
  <1>5. PICK done : done = [st EXCEPT !.dp.inc = inc, !.dp.tar = tar, !.writes = ws] OBVIOUS
  <1>6. t \in Transact(st, Guarded(st, BusFault(st) \cup {Damaged(st)} \cup
                (IF st.dp.power THEN {done} ELSE {})))
    BY <1>1, <1>2, <1>3, <1>4, <1>5 DEF ApWrite, States, DpType
  <1>7. \/ Lost(st, t)
        \/ t \in BusFault(st) \cup {Damaged(st)} \cup (IF st.dp.power THEN {done} ELSE {})
    BY <1>6, TransactCases, GuardedCases
  <1>8. ASSUME t = [st EXCEPT !.dp.sticky = TRUE] PROVE t.writes = st.writes
    BY <1>8 DEF States
  <1>9. ASSUME t = [Fail(st, "FaultAck") EXCEPT !.dp.sticky = TRUE] PROVE t.writes = st.writes
    <2>1. PICK f : f = Fail(st, "FaultAck") OBVIOUS
    <2>2. Lost(st, f) /\ f \in States BY <2>1, FailLost DEF Errors
    <2>3. t = [f EXCEPT !.dp.sticky = TRUE] BY <1>9, <2>1
    <2> QED BY <2>2, <2>3 DEF Lost, States
  <1>10. ASSUME t = done
         PROVE  \/ t.writes = st.writes
                \/ reg = DRW /\ t.writes = st.writes \cup {[hit |-> h, val |-> st.dp.tar]}
    <2>1. t.writes = ws BY <1>5, <1>10 DEF States
    <2>2. Offset(reg) = DRW <=> reg = DRW BY RegisterFacts DEF TAR, DRW
    <2> QED BY <1>4, <2>1, <2>2
  <1> QED BY <1>1, <1>7, <1>8, <1>9, <1>10 DEF BusFault, Damaged, Lost

\* Putting SELECT right writes no word either.
LEMMA CheckSelectWrites ==
  ASSUME NEW st \in States, Ok(st), NEW reg \in Regs, NEW t \in CheckSelectAp(st, reg)
  PROVE  t.writes = st.writes
  <1>1. CASE st.drv.dp_select.bank = BankOf(reg) BY <1>1 DEF CheckSelectAp
  <1>2. CASE st.drv.dp_select.bank # BankOf(reg)
    <2>1. PICK sel : sel = [SelectDefault EXCEPT !.bank = BankOf(reg)] OBVIOUS
    <2>2. sel \in Selects
      BY <2>1, RegisterFacts, TargetAssumption DEF SelectDefault, Selects, Banks, Regs
    <2>3. t \in UpdateDpSelect(st, sel) BY <1>2, <2>1 DEF CheckSelectAp
    <2> QED BY <2>2, <2>3, SelectSeen DEF Lost
  <1> QED BY <1>1, <1>2

LEMMA CheckWrites ==
  ASSUME NEW st \in States, Ok(st), NEW b \in BOOLEAN, NEW t \in CheckDpErrors(st, b)
  PROVE  t.writes = st.writes
  BY CheckSeen DEF Lost, Passed

\* The first half of set_tar, with which a chunk begins.
LEMMA WriteTarWrites ==
  ASSUME NEW st \in Good, Ok(st), NEW a \in Addrs, NEW t \in WriteApRegister(st, TAR, a)
  PROVE  t.writes = st.writes
  <1> DEFINE Write(u) == Then(ApWrite(u, TAR, a), LAMBDA w : CheckDpErrors(w, FALSE))
  <1>0. st \in States /\ TAR \in Regs BY DEF Good, Regs
  <1>1. PICK s \in PowerGate(st) : t \in IF Ok(s) THEN Then(CheckSelectAp(s, TAR), Write) ELSE {s}
    BY DEF WriteApRegister, Then
  <1>2. s.writes = st.writes BY <1>0, FailLost DEF PowerGate, Errors, Lost
  <1>3. CASE ~Ok(s) BY <1>1, <1>2, <1>3
  <1>4. CASE Ok(s)
    <2>0. s \in Good /\ s \in States BY PowerGateReach, ReachIsGood
    <2>1. PICK u \in CheckSelectAp(s, TAR) : t \in IF Ok(u) THEN Write(u) ELSE {u}
      BY <1>1, <1>4 DEF Then
    <2>2. u.writes = st.writes BY <1>0, <1>2, <1>4, <2>0, <2>1, CheckSelectWrites
    <2>3. u \in Good /\ u \in States BY <1>0, <1>4, <2>0, <2>1, CheckSelectApReach, ReachIsGood
    <2>4. CASE ~Ok(u) BY <2>1, <2>2, <2>4
    <2>5. CASE Ok(u)
      <3>1. PICK w \in ApWrite(u, TAR, a) : t \in IF Ok(w) THEN CheckDpErrors(w, FALSE) ELSE {w}
        BY <2>1, <2>5 DEF Then
      <3>2. w.writes = st.writes
        <4>1. TAR # DRW BY RegsDiffer
        <4>2. PICK reg \in {TAR, DRW} : reg = TAR OBVIOUS
        <4>3. w \in ApWrite(u, reg, a) BY <3>1, <4>2
        <4>4. \/ w.writes = u.writes
              \/ reg = DRW /\ w.writes = u.writes \cup {[hit |-> Hit(u, DRW), val |-> u.dp.tar]}
          BY <2>3, <4>3, ApWriteWrites
        <4> QED BY <2>2, <4>1, <4>2, <4>4
      <3>3. w \in States BY <1>0, <2>3, <3>1, ApWriteCalm DEF Calm
      <3>4. CASE ~Ok(w) BY <3>1, <3>2, <3>4
      <3>5. CASE Ok(w) BY <3>1, <3>2, <3>3, <3>5, CheckWrites
      <3> QED BY <3>4, <3>5
    <2> QED BY <2>4, <2>5
  <1> QED BY <1>3, <1>4

LEMMA WriteWordWrites ==
  ASSUME NEW st \in Good, Ok(st), st.writes = {}, NEW t \in WriteDrwWord(st),
         NEW e, e = [hit |-> Hit(st, DRW), val |-> st.dp.tar]
  PROVE  /\ t \in Reach(st) /\ e \in Readings
         /\ t.writes = {} \/ t.writes = {e}
  <1>0. st \in States /\ DRW \in Regs /\ DRW # TAR BY RegsDiffer DEF Good, Regs
  <1>1. PICK w \in ApWrite(st, DRW, 0) : t \in IF Ok(w) THEN CheckDpErrors(w, FALSE) ELSE {w}
    BY DEF WriteDrwWord, Then
  <1>2. w.writes = {} \/ w.writes = {e} BY <1>0, <1>1, ApWriteWrites
  <1>3. w \in Reach(st) /\ w \in States /\ w \in Good
    BY <1>0, <1>1, ApWriteCalm, CalmReach, ReachIsGood
  <1>4. e \in Readings
    <2>1. Hit(st, DRW) \in Hits BY <1>0, HitType
    <2>2. st.dp.tar \in 0 .. NWords BY <1>0, TargetAssumption DEF States, DpType, Addrs
    <2> QED BY <2>1, <2>2 DEF Readings
  <1>5. CASE ~Ok(w) BY <1>1, <1>2, <1>3, <1>4, <1>5
  <1>6. CASE Ok(w)
    <2>1. t \in CheckDpErrors(w, FALSE) BY <1>1, <1>6
    <2>2. t.writes = w.writes BY <1>3, <1>6, <2>1, CheckWrites
    <2>3. t \in Reach(w) BY <1>3, <2>1, CheckDpErrorsCalm, CalmReach
    <2> QED BY <1>2, <1>3, <1>4, <2>2, <2>3, ReachTrans
  <1> QED BY <1>5, <1>6

-----------------------------------------------------------------------------
(* The transactions of a step, over an undisturbed wire *)

\* What the next word of a chunk needs: the word written at TAR ...
LEMMA WriteWordSeen ==
  ASSUME NEW st, Aimed(st, DRW), st.writes = {}, NEW t \in WriteDrwWord(st)
  PROVE  /\ t.writes = {} \/ (t.writes = {Word(st.dp.tar)} /\ st.dp.alive /\ ~st.dp.sticky)
         /\ Ok(t) => /\ st.dp.alive /\ ~st.dp.sticky /\ t.writes = {Word(st.dp.tar)}
                     /\ t.drv = st.drv /\ t.obs = st.obs
                     /\ t.dp.inc = st.dp.inc /\ t.dp.tar = NextTar(st)
  <1>0. st \in States /\ Ok(st) BY DEF Aimed, Clear, Good
  <1>v. PICK v : v = 0 OBVIOUS
  <1>1. PICK w \in ApWrite(st, DRW, v) : t \in IF Ok(w) THEN CheckDpErrors(w, FALSE) ELSE {w}
    BY <1>v, <1>0 DEF WriteDrwWord, Then
  <1>2. CASE Lost(st, w) BY <1>1, <1>2 DEF Lost
  <1>3. CASE ~Lost(st, w)
    <2>1. PICK reg \in Regs : reg = DRW BY DEF Regs
    <2>2. reg # IDR /\ (reg = TAR => v \in Addrs) BY <2>1, RegsDiffer
    <2>3. Aimed(st, reg) /\ w \in ApWrite(st, reg, v) BY <1>1, <2>1
    <2>4. reg # TAR /\ reg # CSW BY <2>1, RegsDiffer
    <2>5. \/ Lost(st, w)
          \/ /\ w \in States /\ Ok(w) /\ w.drv = st.drv /\ w.obs = st.obs
             /\ st.dp.alive /\ ~st.dp.sticky /\ w.dp.select = st.dp.select
             /\ \/ w.dp.sticky /\ w.writes = st.writes /\ w.dp.inc = st.dp.inc
                \/ /\ w.writes = IF reg = DRW THEN st.writes \cup {Word(st.dp.tar)} ELSE st.writes
                   /\ reg = CSW => (w.dp.inc <=> v = 1)
                   /\ reg # CSW => w.dp.inc = st.dp.inc
                   /\ reg = TAR => w.dp.tar = v
                   /\ reg = DRW => w.dp.tar = NextTar(st)
      BY <2>2, <2>3, ApWriteSeen
    <2>6. /\ w \in States /\ Ok(w) /\ w.drv = st.drv /\ w.obs = st.obs
          /\ st.dp.alive /\ ~st.dp.sticky /\ w.dp.select = st.dp.select
          /\ w.dp.inc = st.dp.inc
          /\ \/ w.dp.sticky /\ w.writes = {}
             \/ w.writes = {Word(st.dp.tar)} /\ w.dp.tar = NextTar(st)
      BY <1>3, <2>1, <2>4, <2>5
    <2>7. t \in CheckDpErrors(w, FALSE) BY <1>1, <2>6
    <2>8. \/ Lost(w, t)
          \/ /\ Passed(w, t) /\ t.dp = w.dp /\ w.dp.alive
             /\ w.dp.select.dpbank = 0 => ~w.dp.sticky
      BY <2>6, <2>7, CheckSeen
    <2>9. w.dp.select.dpbank = 0 BY <2>1, <2>3, <2>6, AimedHit
    <2>10. CASE Lost(w, t) BY <2>6, <2>10 DEF Lost
    <2>11. CASE Passed(w, t) /\ t.dp = w.dp /\ ~w.dp.sticky
      <3>1. Ok(t) /\ t.writes = w.writes /\ t.drv = w.drv /\ t.obs = w.obs
        BY <2>11 DEF Passed
      <3> QED BY <2>6, <2>11, <3>1
    <2> QED BY <2>8, <2>9, <2>10, <2>11
  <1> QED BY <1>2, <1>3

\* ... or the word read before delivered, and the one at TAR in RDBUFF.
LEMMA FetchSeen ==
  ASSUME NEW st, Aimed(st, DRW), NEW t \in ApRead(st, DRW), Ok(t)
  PROVE  /\ t \in States /\ st.dp.alive /\ ~st.dp.sticky
         /\ t.val = st.dp.rdbuff /\ t.drv = st.drv /\ t.obs = st.obs
         /\ t.dp.inc = st.dp.inc
         /\ ~t.dp.sticky => t.dp.rdbuff = Word(st.dp.tar) /\ t.dp.tar = NextTar(st)
  <1>1. PICK reg \in Regs : reg = DRW BY DEF Regs
  <1>2. Aimed(st, reg) /\ t \in ApRead(st, reg) BY <1>1
  <1>3. \/ Lost(st, t)
        \/ /\ Passed(st, t) /\ st.dp.alive /\ ~st.dp.sticky
           /\ t.dp.select = st.dp.select /\ t.dp.inc = st.dp.inc /\ t.val = st.dp.rdbuff
           /\ \/ t.dp.sticky
              \/ /\ t.dp.rdbuff = [hit |-> OfMemAp(reg), val |-> Content(st, OfMemAp(reg))]
                 /\ t.dp.tar = IF reg = DRW THEN NextTar(st) ELSE st.dp.tar
    BY <1>2, ApReadSeen
  <1>4. Content(st, OfMemAp(DRW)) = st.dp.tar BY RegsDiffer DEF Content
  <1>5. [hit |-> OfMemAp(reg), val |-> Content(st, OfMemAp(reg))] = Word(st.dp.tar)
    BY <1>1, <1>4 DEF Word, OfMemAp
  <1> QED BY <1>1, <1>3, <1>5 DEF Lost, Passed

\* The check between two words adds nothing to that.
LEMMA CheckedSeen ==
  ASSUME NEW S, NEW fast, NEW b \in BOOLEAN, NEW t \in CheckedUnless(fast, S, b), Ok(t),
         \A s \in S : Ok(s) => s \in States
  PROVE  \E s \in S : /\ Ok(s) /\ t.drv = s.drv /\ t.obs = s.obs /\ t.dp = s.dp /\ t.val = s.val
  <1>1. CASE fast BY <1>1 DEF CheckedUnless
  <1>2. CASE ~fast
    <2>1. PICK s \in S : t \in IF Ok(s) THEN CheckDpErrors(s, b) ELSE {s}
      BY <1>2 DEF CheckedUnless, Then
    <2>2. Ok(s) /\ t \in CheckDpErrors(s, b) BY <2>1
    <2>3. Passed(s, t) /\ t.dp = s.dp /\ t.val = s.val BY <2>2, CheckSeen DEF Lost
    <2> QED BY <2>2, <2>3 DEF Passed
  <1> QED BY <1>1, <1>2

LEMMA CheckedReach ==
  ASSUME NEW st, NEW S, S \subseteq Reach(st), NEW fast, NEW b \in BOOLEAN
  PROVE  CheckedUnless(fast, S, b) \subseteq Reach(st)
  <1>1. CASE fast BY <1>1 DEF CheckedUnless
  <1>2. CASE ~fast
    <2>1. ASSUME NEW t \in CheckedUnless(fast, S, b) PROVE t \in Reach(st)
      <3>1. PICK s \in S : t \in IF Ok(s) THEN CheckDpErrors(s, b) ELSE {s}
        BY <1>2, <2>1 DEF CheckedUnless, Then
      <3>2. s \in Reach(st) /\ s \in Good /\ s \in States BY ReachIsGood
      <3>3. CheckDpErrors(s, b) \subseteq Reach(s) BY <3>2, CheckDpErrorsCalm, CalmReach
      <3> QED BY <3>1, <3>2, <3>3, ReachTrans
    <2> QED BY <2>1
  <1> QED BY <1>1, <1>2

\* A chunk begins with TAR at its first word and, for a read, that word in
\* RDBUFF and TAR at the next.
LEMMA BegunReach ==
  ASSUME IInv, NEW x \in XferType, NEW t \in BeginChunk(x)
  PROVE  t \in Reach(Begin) /\ (x.op = "write" => t.writes = {})
  <1> DEFINE More(u) == IF x.op = "read" THEN ApRead(u, DRW) ELSE {u}
  <1>0. Begin \in Good /\ Ok(Begin) /\ Begin.writes = {} BY BeginGood DEF Begin
  <1>1. TAR \in Regs /\ DRW \in Regs /\ TAR # IDR BY RegsDiffer DEF Regs
  <1>2. PICK a \in Addrs : a = Next32(x) BY XferFields
  <1>3. PICK s \in WriteApRegister(Begin, TAR, a) :
          t \in IF Ok(s) THEN Then(CheckSelectAp(s, DRW), More) ELSE {s}
    BY <1>2 DEF BeginChunk, Then
  <1>4. s \in Reach(Begin) /\ s \in Good BY <1>0, <1>1, <1>3, WriteApReach, ReachIsGood
  <1>5. s.writes = {} BY <1>0, <1>3, WriteTarWrites
  <1>6. CASE ~Ok(s) BY <1>3, <1>4, <1>5, <1>6
  <1>7. CASE Ok(s)
    <2>1. PICK u \in CheckSelectAp(s, DRW) : t \in IF Ok(u) THEN More(u) ELSE {u}
      BY <1>3, <1>7 DEF Then
    <2>2. u \in Reach(s) /\ u \in Good /\ u \in States
      BY <1>1, <1>4, <1>7, <2>1, CheckSelectApReach, ReachIsGood
    <2>3. u.writes = {}
      <3>1. s \in States BY <1>4 DEF Good
      <3> QED BY <1>1, <1>5, <1>7, <2>1, <3>1, CheckSelectWrites
    <2>4. u \in Reach(Begin) BY <1>4, <2>2, ReachTrans
    <2>5. CASE t = u BY <2>3, <2>4, <2>5
    <2>6. CASE x.op = "read" /\ t \in ApRead(u, DRW)
      <3>1. t \in Reach(u) BY <1>1, <2>2, <2>6, ApReadCalm, CalmReach
      <3> QED BY <2>4, <2>6, <3>1, ReachTrans
    <2> QED BY <2>1, <2>5, <2>6
  <1> QED BY <1>6, <1>7

LEMMA BegunSeen ==
  ASSUME IInv, Undisturbed, NEW x \in XferType, NEW t \in BeginChunk(x), Ok(t), dp.alive => dp.inc
  PROVE  /\ OnCourse(x, t.drv, t.dp, t.obs)
         /\ t.drv.powered_up /\ t.drv.dp_select.bank = BankOf(DRW)
         /\ t.dp.alive /\ ~t.dp.sticky =>
              /\ x.op # "read" => t.dp.tar = Next32(x)
              /\ x.op = "read" => /\ t.dp.rdbuff = Word(Next32(x))
                                  /\ t.dp.tar = NextInPage(Next32(x))
  <1> DEFINE More(u) == IF x.op = "read" THEN ApRead(u, DRW) ELSE {u}
  <1>0. Clear(Begin) /\ Begin.dp = dp BY BeginClear, BeginGood
  <1>1. PICK a \in Addrs : a = Next32(x) BY XferFields
  <1>2. PICK s \in WriteApRegister(Begin, TAR, a) :
          t \in IF Ok(s) THEN Then(CheckSelectAp(s, DRW), More) ELSE {s}
    BY <1>0, <1>1 DEF BeginChunk, Then, Clear
  <1>3. Ok(s) /\ t \in Then(CheckSelectAp(s, DRW), More) BY <1>2
  <1>4. /\ Aimed(s, TAR) /\ Begin.dp.alive /\ ~s.dp.sticky
        /\ s.dp.tar = a /\ s.dp.inc = Begin.dp.inc
    BY <1>0, <1>2, <1>3, WriteTarSeen
  <1>5. Aimed(s, DRW) BY <1>4, RegisterFacts DEF Aimed
  <1>6. CheckSelectAp(s, DRW) = {s} BY <1>5 DEF CheckSelectAp, Aimed
  <1>7. t \in More(s)
    <2>1. PICK u \in CheckSelectAp(s, DRW) : t \in IF Ok(u) THEN More(u) ELSE {u}
      BY <1>3 DEF Then
    <2>2. u = s BY <1>6, <2>1
    <2> QED BY <1>3, <2>1, <2>2
  <1>8. s.dp.inc BY <1>0, <1>4
  <1>9. CASE x.op # "read"
    <2>1. t = s BY <1>7, <1>9
    <2> QED BY <1>1, <1>4, <1>5, <1>8, <1>9, <2>1 DEF OnCourse, Aimed, Clear
  <1>10. CASE x.op = "read"
    <2>1. t \in ApRead(s, DRW) BY <1>7, <1>10
    <2>2. /\ t \in States /\ s.dp.alive /\ ~s.dp.sticky
          /\ t.val = s.dp.rdbuff /\ t.drv = s.drv /\ t.obs = s.obs
          /\ t.dp.inc = s.dp.inc
          /\ ~t.dp.sticky => t.dp.rdbuff = Word(s.dp.tar) /\ t.dp.tar = NextTar(s)
      BY <1>5, <2>1, FetchSeen
    <2>3. NextTar(s) = NextInPage(a) BY <1>4, <1>8 DEF NextTar
    <2> QED BY <1>1, <1>4, <1>5, <1>8, <1>10, <2>2, <2>3 DEF OnCourse, Aimed, Clear
  <1> QED BY <1>9, <1>10

-----------------------------------------------------------------------------
(* The steps of a transfer keep the invariant *)

BulkHolds == Holds(xfer, drv, dp, obs)
Answered == ReadFits(last, obs) /\ WriteFits(last, obs)
BulkInv == IInv /\ Answered /\ BulkHolds

\* A step of register operations keeps what holds of the driver.
LEMMA DriverKept ==
  ASSUME IInv, Answered, NEW t \in Reach(Begin), drv' = t.drv, obs' = t.obs,
         dp' = t.dp \/ dp' = [t.dp EXCEPT !.rdbuff = NoVal], UNCHANGED <<boot, last>>
  PROVE  IInv' /\ Answered'
  <1>1. t \in Good /\ t \in States /\ Keeps(Begin, t) BY ReachIsGood DEF Reach
  <1>2. CoreInv'
    <2>1. CASE dp' = [t.dp EXCEPT !.rdbuff = NoVal]
      <3>1. Becomes(t) BY <2>1 DEF Becomes
      <3> QED BY <1>1, <3>1, BecomesCore
    <2>2. CASE dp' = t.dp
      <3>1. drv' \in DrvType /\ dp' \in DpType /\ obs' \in ObsType BY <1>1, <2>2 DEF States
      <3>2. SelectCoherent' BY <1>1, <2>2 DEF Good, Coherent, SelectCoherent, Undisturbed
      <3>3. ConnectedFacts' BY <1>1 DEF Good, Facts, ConnectedFacts
      <3>4. PowerCheckOn' /\ DpBankZero'
        BY <1>1, <2>2 DEF Good, Gate, BankZero, PowerCheckOn, DpBankZero
      <3> QED BY <3>1, <3>2, <3>3, <3>4 DEF CoreInv
    <2> QED BY <2>1, <2>2
  <1>3. boot' = boot /\ last' = last OBVIOUS
  <1>4. TypeOK' BY <1>2, <1>3 DEF CoreInv, IInv, TypeOK
  <1>5. /\ drv'.idcode = drv.idcode /\ drv'.idr = drv.idr /\ drv'.powered_up = drv.powered_up
        /\ drv'.reset_version = drv.reset_version /\ obs'.raw = obs.raw
    BY <1>1, BeginGood DEF Keeps
  <1>6. BootFacts' BY <1>3, <1>5 DEF IInv, BootFacts
  <1>7. Answered' BY <1>3, <1>5 DEF Answered, ReadFits, WriteFits
  <1> QED BY <1>2, <1>4, <1>6, <1>7 DEF CoreInv, IInv

\* A step that fails keeps what holds of the transfer.
LEMMA FailedStep ==
  ASSUME NEW x, NEW d0, NEW p0, NEW o0, Holds(x, d0, p0, o0), Moving(x),
         NEW t, NEW e \in Readings,
         x.op = "write" => \/ t.writes = {}
                           \/ t.writes = {e} /\ x.at = "word" /\ (x.clean => e = Word(Next32(x))),
         NEW y, y = Failed(x, t), NEW d, NEW p, NEW o
  PROVE  Holds(y, d, p, o)
  <1>1. Sized(x) /\ Progress(x) /\ x \in XferType /\ (x.clean => Ordered(x) /\ Accounted(x))
    BY DEF Holds, Sized
  <1>2. PICK m \in Seq(Readings) :
          /\ Written(x, t) = [x EXCEPT !.moved = m]
          /\ IF x.op = "write" /\ t.writes # {} THEN Longer(m, x.moved, e) ELSE m = x.moved
    <2>1. CASE x.op = "write" BY <1>1, <2>1, WrittenCases
    <2>2. CASE x.op # "write"
      <3>1. Written(x, t) = [x EXCEPT !.moved = x.moved] BY <1>1, <2>2 DEF Written, XferType
      <3>2. x.moved \in Seq(Readings) BY <1>1, XferFields
      <3> QED BY <2>2, <3>1, <3>2
    <2> QED BY <2>1, <2>2
  <1>3. \/ m = x.moved
        \/ /\ x.at = "word" /\ x.op = "write" /\ Longer(m, x.moved, e)
           /\ x.clean => e = Word(Next32(x))
    BY <1>2
  <1>4. y = [x EXCEPT !.moved = m, !.ok = FALSE, !.at = "inc_off"] BY <1>1, <1>2 DEF Failed, XferType
  <1> QED BY <1>1, <1>3, <1>4, FailedHolds, ZenonT(40)

\* What a transfer under way can rely on.
LEMMA CleanFacts ==
  ASSUME IInv, BulkHolds, Moving(xfer), xfer.clean
  PROVE  /\ Undisturbed /\ Clear(Begin) /\ Begin.writes = {} /\ (dp.alive => dp.inc)
         /\ xfer.at = "word" =>
              /\ Aimed(Begin, DRW)
              /\ dp.alive /\ ~dp.sticky =>
                   /\ xfer.op = "write" => dp.tar = Next32(xfer)
                   /\ xfer.op = "read" => dp.rdbuff = Word(Next32(xfer))
                   /\ xfer.op = "read" /\ xfer.todo > 1 => dp.tar = NextInPage(Next32(xfer))
  <1>1. Steady(xfer, obs) /\ Placed(xfer, drv, dp) BY DEF BulkHolds, Holds
  <1>2. Undisturbed BY <1>1 DEF Steady, Undisturbed
  <1>3. Clear(Begin) /\ Begin.writes = {} /\ Begin.drv = drv /\ Begin.dp = dp
    BY <1>2, BeginClear, BeginGood
  <1> QED BY <1>1, <1>2, <1>3 DEF Placed, Aimed

LEMMA ChunkStep == ASSUME BulkInv, BulkChunk PROVE BulkInv'
  <1>0. IInv /\ Answered /\ BulkHolds BY DEF BulkInv
  <1>1. PICK t \in BeginChunk(xfer) :
          /\ drv' = t.drv /\ dp' = t.dp /\ obs' = t.obs /\ UNCHANGED <<boot, last>>
          /\ xfer' = IF Ok(t)
                     THEN [Written(xfer, t) EXCEPT !.at = "word", !.todo = ChunkSize(xfer)]
                     ELSE Failed(xfer, t)
    BY DEF BulkChunk, XferStep
  <1>2. /\ xfer.at = "chunk" /\ Moving(xfer) /\ Sized(xfer) /\ Progress(xfer) /\ xfer \in XferType
        /\ xfer.clean => Ordered(xfer) /\ Accounted(xfer)
    BY <1>0 DEF BulkChunk, Moving, BulkHolds, Holds, Sized
  <1>3. t \in Reach(Begin) /\ (xfer.op = "write" => t.writes = {}) BY <1>0, <1>2, BegunReach
  <1>4. IInv' /\ Answered' BY <1>0, <1>1, <1>3, DriverKept
  <1>5. CASE ~Ok(t)
    <2>1. xfer' = Failed(xfer, t) BY <1>1, <1>5
    <2>2. NoVal \in Readings BY ValueFacts
    <2>3. Holds(xfer', drv', dp', obs') BY <1>0, <1>2, <1>3, <2>1, <2>2, FailedStep DEF BulkHolds
    <2> QED BY <1>4, <2>3 DEF BulkInv, BulkHolds
  <1>6. CASE Ok(t)
    <2>1. Written(xfer, t) = [xfer EXCEPT !.moved = xfer.moved]
      <3>1. PICK m \in Seq(Readings) :
              /\ Written(xfer, t) = [xfer EXCEPT !.moved = m]
              /\ IF xfer.op = "write" /\ t.writes # {} THEN Longer(m, xfer.moved, NoVal)
                 ELSE m = xfer.moved
        <4>1. CASE xfer.op = "write" BY <1>2, <1>3, <4>1, ValueFacts, WrittenCases
        <4>2. CASE xfer.op # "write"
          <5>1. Written(xfer, t) = [xfer EXCEPT !.moved = xfer.moved]
            BY <1>2, <4>2 DEF Written, XferType
          <5>2. xfer.moved \in Seq(Readings) BY <1>2, XferFields
          <5> QED BY <4>2, <5>1, <5>2
        <4> QED BY <4>1, <4>2
      <3> QED BY <1>3, <3>1
    <2>2. xfer' = [xfer EXCEPT !.moved = xfer.moved, !.at = "word", !.todo = ChunkSize(xfer)]
      <3>1. xfer' = [Written(xfer, t) EXCEPT !.at = "word", !.todo = ChunkSize(xfer)]
        BY <1>1, <1>6
      <3> QED BY <1>2, <2>1, <3>1 DEF XferType
    <2>3. ASSUME xfer.clean
          PROVE  /\ OnCourse(xfer, drv', dp', obs')
                 /\ drv'.powered_up /\ drv'.dp_select.bank = BankOf(DRW)
                 /\ dp'.alive /\ ~dp'.sticky =>
                      /\ xfer.op = "write" => dp'.tar = Next32(xfer)
                      /\ xfer.op = "read" => /\ dp'.rdbuff = Word(Next32(xfer))
                                             /\ dp'.tar = NextInPage(Next32(xfer))
      <3>1. Undisturbed /\ (dp.alive => dp.inc) BY <1>0, <1>2, <2>3, CleanFacts
      <3>2. /\ OnCourse(xfer, t.drv, t.dp, t.obs)
            /\ t.drv.powered_up /\ t.drv.dp_select.bank = BankOf(DRW)
            /\ t.dp.alive /\ ~t.dp.sticky =>
                 /\ xfer.op # "read" => t.dp.tar = Next32(xfer)
                 /\ xfer.op = "read" => /\ t.dp.rdbuff = Word(Next32(xfer))
                                        /\ t.dp.tar = NextInPage(Next32(xfer))
        BY <1>0, <1>2, <1>6, <3>1, BegunSeen
      <3> QED BY <1>1, <3>2
    <2>4. Holds(xfer', drv', dp', obs') BY <1>2, <2>2, <2>3, ChunkHolds
    <2> QED BY <1>4, <2>4 DEF BulkInv, BulkHolds
  <1> QED BY <1>5, <1>6

\* The words a transfer has left to move are those of its chunk.
LEMMA WordFacts ==
  ASSUME BulkInv, xfer.at = "word"
  PROVE  /\ Moving(xfer) /\ Sized(xfer) /\ Progress(xfer) /\ xfer \in XferType
         /\ xfer.clean => Ordered(xfer) /\ Accounted(xfer)
         /\ Begin \in Good /\ Ok(Begin) /\ Begin.dp = dp /\ Begin.drv = drv /\ Begin.obs = obs
         /\ Begin.writes = {}
  <1>1. Begin.writes = {} BY DEF Begin
  <1> QED BY <1>1, BeginGood DEF BulkInv, BulkHolds, Holds, Sized, Moving

LEMMA WriteStep == ASSUME BulkInv, BulkWrite PROVE BulkInv'
  <1>0. IInv /\ Answered /\ BulkHolds BY DEF BulkInv
  <1>1. PICK t \in WriteDrwWord(Begin) :
          /\ drv' = t.drv /\ dp' = t.dp /\ obs' = t.obs /\ UNCHANGED <<boot, last>>
          /\ xfer' = IF Ok(t) THEN WordDone(Written(xfer, t)) ELSE Failed(xfer, t)
    BY DEF BulkWrite, XferStep, WriteWord, WriteDrwWord
  <1>2. xfer.at = "word" /\ xfer.op = "write" BY DEF BulkWrite
  <1>3. /\ Moving(xfer) /\ Sized(xfer) /\ Progress(xfer) /\ xfer \in XferType
        /\ xfer.clean => Ordered(xfer) /\ Accounted(xfer)
        /\ Begin \in Good /\ Ok(Begin) /\ Begin.dp = dp /\ Begin.drv = drv /\ Begin.obs = obs
        /\ Begin.writes = {}
    BY <1>2, WordFacts
  <1>4. PICK e : e = [hit |-> Hit(Begin, DRW), val |-> Begin.dp.tar] OBVIOUS
  <1>5. /\ t \in Reach(Begin) /\ e \in Readings
        /\ t.writes = {} \/ t.writes = {e}
    BY <1>3, <1>4, WriteWordWrites
  <1>6. IInv' /\ Answered' BY <1>0, <1>1, <1>5, DriverKept
  <1>7. ASSUME xfer.clean
        PROVE  /\ t.writes = {} \/ t.writes = {Word(Next32(xfer))}
               /\ Ok(t) => /\ t.writes = {Word(Next32(xfer))}
                           /\ OnCourse(xfer, drv', dp', obs')
                           /\ drv'.powered_up /\ drv'.dp_select.bank = BankOf(DRW)
                           /\ dp'.tar = NextInPage(Next32(xfer))
    <2>1. /\ Clear(Begin) /\ (dp.alive => dp.inc) /\ Aimed(Begin, DRW)
          /\ dp.alive /\ ~dp.sticky => dp.tar = Next32(xfer)
      BY <1>0, <1>2, <1>3, <1>7, CleanFacts
    <2>2. /\ t.writes = {} \/ (t.writes = {Word(Begin.dp.tar)} /\ Begin.dp.alive /\ ~Begin.dp.sticky)
          /\ Ok(t) => /\ Begin.dp.alive /\ ~Begin.dp.sticky /\ t.writes = {Word(Begin.dp.tar)}
                      /\ t.drv = Begin.drv /\ t.obs = Begin.obs
                      /\ t.dp.inc = Begin.dp.inc /\ t.dp.tar = NextTar(Begin)
      BY <1>3, <2>1, WriteWordSeen
    <2>3. Begin.dp.alive => NextTar(Begin) = NextInPage(Begin.dp.tar)
      BY <1>3, <2>1 DEF NextTar
    <2> QED BY <1>1, <1>3, <2>1, <2>2, <2>3 DEF OnCourse, Aimed, Clear
  <1>8. CASE ~Ok(t)
    <2>1. xfer' = Failed(xfer, t) BY <1>1, <1>8
    <2>2. PICK w \in Readings : /\ t.writes = {} \/ t.writes = {w}
                                /\ xfer.clean => w = Word(Next32(xfer))
      <3>1. CASE xfer.clean
        <4>1. Word(Next32(xfer)) \in Readings BY <1>3, XferFields, RequestType
        <4> QED BY <1>7, <3>1, <4>1
      <3>2. CASE ~xfer.clean BY <1>5, <3>2
      <3> QED BY <3>1, <3>2
    <2>3. Holds(xfer', drv', dp', obs') BY <1>0, <1>2, <1>3, <2>1, <2>2, FailedStep DEF BulkHolds
    <2> QED BY <1>6, <2>3 DEF BulkInv, BulkHolds
  <1>9. CASE Ok(t)
    <2>1. PICK m \in Seq(Readings) :
            /\ Written(xfer, t) = [xfer EXCEPT !.moved = m]
            /\ IF xfer.op = "write" /\ t.writes # {} THEN Longer(m, xfer.moved, e)
               ELSE m = xfer.moved
      BY <1>3, <1>5, WrittenCases
    <2>2. xfer' = WordDone([xfer EXCEPT !.moved = m]) BY <1>1, <1>9, <2>1
    <2>3. m = xfer.moved \/ Longer(m, xfer.moved, e) BY <2>1
    <2>4. xfer.clean => Longer(m, xfer.moved, e) /\ e = Word(Next32(xfer))
      BY <1>2, <1>5, <1>7, <1>9, <2>1
    <2>5. xfer.clean =>
            /\ OnCourse(xfer, drv', dp', obs')
            /\ drv'.powered_up /\ drv'.dp_select.bank = BankOf(DRW)
            /\ xfer.todo > 1 /\ dp'.alive /\ ~dp'.sticky =>
                 /\ xfer.op = "write" => dp'.tar = NextInPage(Next32(xfer))
                 /\ xfer.op = "read" => /\ dp'.rdbuff = Word(NextInPage(Next32(xfer)))
                                        /\ dp'.tar = NextInPage(NextInPage(Next32(xfer)))
      BY <1>2, <1>7, <1>9
    <2>6. Holds(xfer', drv', dp', obs') BY <1>2, <1>3, <2>2, <2>3, <2>4, <2>5, WordHolds
    <2> QED BY <1>6, <2>6 DEF BulkInv, BulkHolds
  <1> QED BY <1>8, <1>9

\* A word read, by whichever of the two ways.
LEMMA StoreStep ==
  ASSUME BulkInv, xfer.at = "word", xfer.op = "read", NEW t \in Reach(Begin),
         drv' = t.drv, dp' = t.dp, obs' = t.obs, UNCHANGED <<boot, last>>,
         xfer' = IF Ok(t) THEN Store(xfer, t) ELSE Failed(xfer, t),
         xfer.clean /\ Ok(t) =>
           /\ t.val = Word(Next32(xfer)) /\ t.drv = drv /\ t.obs = obs /\ dp.alive
           /\ t.dp.inc = dp.inc
           /\ xfer.todo > 1 /\ ~t.dp.sticky =>
                /\ t.dp.rdbuff = Word(NextInPage(Next32(xfer)))
                /\ t.dp.tar = NextInPage(NextInPage(Next32(xfer)))
  PROVE  BulkInv'
  <1>0. IInv /\ Answered /\ BulkHolds BY DEF BulkInv
  <1>1. /\ Moving(xfer) /\ Sized(xfer) /\ Progress(xfer) /\ xfer \in XferType
        /\ xfer.clean => Ordered(xfer) /\ Accounted(xfer)
        /\ Begin \in Good /\ Ok(Begin) /\ Begin.dp = dp /\ Begin.drv = drv /\ Begin.obs = obs
        /\ Begin.writes = {}
    BY WordFacts
  <1>2. IInv' /\ Answered' BY <1>0, DriverKept
  <1>3. CASE ~Ok(t)
    <2>1. xfer' = Failed(xfer, t) BY <1>3
    <2>2. NoVal \in Readings /\ xfer.op # "write" BY ValueFacts
    <2>3. Holds(xfer', drv', dp', obs') BY <1>0, <1>1, <2>1, <2>2, FailedStep DEF BulkHolds
    <2> QED BY <1>2, <2>3 DEF BulkInv, BulkHolds
  <1>4. CASE Ok(t)
    <2>1. PICK e : e = t.val OBVIOUS
    <2>2. e \in Readings
      <3>1. t \in States BY ReachIsGood
      <3> QED BY <2>1, <3>1 DEF States
    <2>3. PICK m : m = Append(xfer.moved, e) OBVIOUS
    <2>4. xfer.moved \in Seq(Readings) BY <1>1, XferFields
    <2>5. m \in Seq(Readings) /\ Longer(m, xfer.moved, e)
      BY <2>2, <2>3, <2>4, AppendLonger DEF Longer
    <2>6. xfer' = WordDone([xfer EXCEPT !.moved = m])
      <3>1. [xfer EXCEPT !.moved = Append(@, t.val)] = [xfer EXCEPT !.moved = m]
        BY <1>1, <2>1, <2>3 DEF XferType
      <3> QED BY <1>4, <3>1 DEF Store
    <2>7. xfer.clean => Longer(m, xfer.moved, e) /\ e = Word(Next32(xfer))
      BY <1>4, <2>1, <2>5
    <2>8. ASSUME xfer.clean
          PROVE  /\ OnCourse(xfer, drv', dp', obs')
                 /\ drv'.powered_up /\ drv'.dp_select.bank = BankOf(DRW)
                 /\ xfer.todo > 1 /\ dp'.alive /\ ~dp'.sticky =>
                      /\ xfer.op = "write" => dp'.tar = NextInPage(Next32(xfer))
                      /\ xfer.op = "read" => /\ dp'.rdbuff = Word(NextInPage(Next32(xfer)))
                                             /\ dp'.tar = NextInPage(NextInPage(Next32(xfer)))
      <3>1. /\ Undisturbed /\ (dp.alive => dp.inc) /\ Aimed(Begin, DRW)
        BY <1>0, <1>1, <2>8, CleanFacts
      <3>2. /\ t.drv = drv /\ t.obs = obs /\ dp.alive /\ t.dp.inc = dp.inc
            /\ xfer.todo > 1 /\ ~t.dp.sticky =>
                 /\ t.dp.rdbuff = Word(NextInPage(Next32(xfer)))
                 /\ t.dp.tar = NextInPage(NextInPage(Next32(xfer)))
        BY <1>4, <2>8
      <3>3. drv.powered_up /\ drv.dp_select.bank = BankOf(DRW) BY <1>1, <3>1 DEF Aimed
      <3> QED BY <3>1, <3>2, <3>3 DEF OnCourse, Undisturbed
    <2>9. m = xfer.moved \/ Longer(m, xfer.moved, e) BY <2>5
    <2>10. Holds(xfer', drv', dp', obs') BY <1>1, <2>5, <2>6, <2>7, <2>8, <2>9, WordHolds, ZenonT(40)
    <2> QED BY <1>2, <2>10 DEF BulkInv, BulkHolds
  <1> QED BY <1>3, <1>4

LEMMA ReadStep == ASSUME BulkInv, BulkRead PROVE BulkInv'
  <1>0. IInv /\ BulkHolds BY DEF BulkInv
  <1>1. PICK t \in CheckedUnless(xfer.fast, ApRead(Begin, DRW), TRUE) :
          /\ drv' = t.drv /\ dp' = t.dp /\ obs' = t.obs /\ UNCHANGED <<boot, last>>
          /\ xfer' = IF Ok(t) THEN Store(xfer, t) ELSE Failed(xfer, t)
    BY DEF BulkRead, XferStep
  <1>2. xfer.at = "word" /\ xfer.op = "read" /\ xfer.todo > 1 BY DEF BulkRead
  <1>3. /\ Moving(xfer) /\ Sized(xfer) /\ Progress(xfer) /\ xfer \in XferType
        /\ xfer.clean => Ordered(xfer) /\ Accounted(xfer)
        /\ Begin \in Good /\ Ok(Begin) /\ Begin.dp = dp /\ Begin.drv = drv /\ Begin.obs = obs
        /\ Begin.writes = {}
    BY <1>2, WordFacts
  <1>4. ApRead(Begin, DRW) \subseteq Reach(Begin)
    <2>1. Begin \in States /\ DRW \in Regs BY <1>3 DEF Good, Regs
    <2> QED BY <1>3, <2>1, ApReadCalm, CalmReach
  <1>5. t \in Reach(Begin) BY <1>1, <1>4, CheckedReach
  <1>6. ASSUME xfer.clean, Ok(t)
        PROVE  /\ t.val = Word(Next32(xfer)) /\ t.drv = drv /\ t.obs = obs /\ dp.alive
               /\ t.dp.inc = dp.inc
               /\ xfer.todo > 1 /\ ~t.dp.sticky =>
                    /\ t.dp.rdbuff = Word(NextInPage(Next32(xfer)))
                    /\ t.dp.tar = NextInPage(NextInPage(Next32(xfer)))
    <2>1. /\ (dp.alive => dp.inc) /\ Aimed(Begin, DRW)
          /\ dp.alive /\ ~dp.sticky =>
               /\ dp.rdbuff = Word(Next32(xfer)) /\ dp.tar = NextInPage(Next32(xfer))
      BY <1>0, <1>2, <1>3, <1>6, CleanFacts
    <2>2. \A s \in ApRead(Begin, DRW) : Ok(s) => s \in States BY <1>4, ReachIsGood
    <2>3. PICK s \in ApRead(Begin, DRW) :
            Ok(s) /\ t.drv = s.drv /\ t.obs = s.obs /\ t.dp = s.dp /\ t.val = s.val
      BY <1>1, <1>6, <2>2, CheckedSeen
    <2>4. /\ s \in States /\ Begin.dp.alive /\ ~Begin.dp.sticky
          /\ s.val = Begin.dp.rdbuff /\ s.drv = Begin.drv /\ s.obs = Begin.obs
          /\ s.dp.inc = Begin.dp.inc
          /\ ~s.dp.sticky => s.dp.rdbuff = Word(Begin.dp.tar) /\ s.dp.tar = NextTar(Begin)
      BY <2>1, <2>3, FetchSeen
    <2>5. NextTar(Begin) = NextInPage(Begin.dp.tar) BY <1>3, <2>1, <2>4 DEF NextTar
    <2> QED BY <1>3, <2>1, <2>3, <2>4, <2>5
  <1> QED BY <1>1, <1>2, <1>5, <1>6, StoreStep

LEMMA ReadLastStep == ASSUME BulkInv, BulkReadLast PROVE BulkInv'
  <1>0. IInv /\ BulkHolds BY DEF BulkInv
  <1>1. PICK t \in CheckedUnless(xfer.fast, DpReadRdBuff(Begin), TRUE) :
          /\ drv' = t.drv /\ dp' = t.dp /\ obs' = t.obs /\ UNCHANGED <<boot, last>>
          /\ xfer' = IF Ok(t) THEN Store(xfer, t) ELSE Failed(xfer, t)
    BY DEF BulkReadLast, XferStep
  <1>2. xfer.at = "word" /\ xfer.op = "read" /\ ~(xfer.todo > 1) BY DEF BulkReadLast
  <1>3. /\ Moving(xfer) /\ Sized(xfer) /\ Progress(xfer) /\ xfer \in XferType
        /\ xfer.clean => Ordered(xfer) /\ Accounted(xfer)
        /\ Begin \in Good /\ Ok(Begin) /\ Begin.dp = dp /\ Begin.drv = drv /\ Begin.obs = obs
        /\ Begin.writes = {}
    BY <1>2, WordFacts
  <1>4. DpReadRdBuff(Begin) \subseteq Reach(Begin) /\ Begin \in States
    <2>1. Begin \in States BY <1>3 DEF Good
    <2> QED BY <1>3, <2>1, RdBuffCalm, CalmReach
  <1>5. t \in Reach(Begin) BY <1>1, <1>4, CheckedReach
  <1>6. ASSUME xfer.clean, Ok(t)
        PROVE  /\ t.val = Word(Next32(xfer)) /\ t.drv = drv /\ t.obs = obs /\ dp.alive
               /\ t.dp.inc = dp.inc
    <2>1. dp.alive /\ ~dp.sticky => dp.rdbuff = Word(Next32(xfer))
      BY <1>0, <1>2, <1>3, <1>6, CleanFacts
    <2>2. \A s \in DpReadRdBuff(Begin) : Ok(s) => s \in States BY <1>4, ReachIsGood
    <2>3. PICK s \in DpReadRdBuff(Begin) :
            Ok(s) /\ t.drv = s.drv /\ t.obs = s.obs /\ t.dp = s.dp /\ t.val = s.val
      BY <1>1, <1>6, <2>2, CheckedSeen
    <2>4. Passed(Begin, s) /\ s.dp = Begin.dp /\ s.val = Begin.dp.rdbuff
          /\ Begin.dp.alive /\ ~Begin.dp.sticky
      BY <1>3, <1>4, <2>3, RdBuffSeen DEF Lost
    <2>5. s.drv = Begin.drv /\ s.obs = Begin.obs BY <2>4 DEF Passed
    <2> QED BY <1>3, <2>1, <2>3, <2>4, <2>5
  <1> QED BY <1>1, <1>2, <1>5, <1>6, StoreStep

LEMMA CheckStep == ASSUME BulkInv, BulkCheck PROVE BulkInv'
  <1>0. IInv /\ Answered /\ BulkHolds BY DEF BulkInv
  <1>1. PICK b \in BOOLEAN : b = (xfer.op = "read") OBVIOUS
  <1>2. PICK t \in CheckDpErrors(Begin, b) :
          /\ drv' = t.drv /\ dp' = t.dp /\ obs' = t.obs /\ UNCHANGED <<boot, last>>
          /\ xfer' = IF Ok(t) THEN ChunkDone(Written(xfer, t)) ELSE Failed(xfer, t)
    BY <1>1 DEF BulkCheck, XferStep
  <1>3. /\ xfer.at = "check" /\ Moving(xfer) /\ Sized(xfer) /\ Progress(xfer)
        /\ xfer \in XferType
        /\ xfer.clean => Ordered(xfer) /\ Accounted(xfer)
    BY <1>0 DEF BulkCheck, Moving, BulkHolds, Holds, Sized
  <1>4. Begin \in Good /\ Begin \in States /\ Ok(Begin) /\ Begin.dp = dp /\ Begin.obs = obs
        /\ Begin.writes = {}
    BY <1>0, BeginGood DEF Begin
  <1>5. t.writes = {} BY <1>4, CheckWrites
  <1>6. t \in Reach(Begin) BY <1>4, CheckDpErrorsCalm, CalmReach
  <1>7. IInv' /\ Answered' BY <1>0, <1>2, <1>6, DriverKept
  <1>8. CASE ~Ok(t)
    <2>1. xfer' = Failed(xfer, t) BY <1>2, <1>8
    <2>2. NoVal \in Readings BY ValueFacts
    <2>3. Holds(xfer', drv', dp', obs') BY <1>0, <1>3, <1>5, <2>1, <2>2, FailedStep DEF BulkHolds
    <2> QED BY <1>7, <2>3 DEF BulkInv, BulkHolds
  <1>9. CASE Ok(t)
    <2>1. Written(xfer, t) = xfer
      <3>1. CASE xfer.op = "write"
        <4>1. xfer.moved \o SetToSeq(t.writes) = xfer.moved
          <5>1. SetToSeq(t.writes) = <<>> BY <1>5, NoWords
          <5>2. xfer.moved \in Seq(Readings) BY <1>3, XferFields
          <5> QED BY <5>1, <5>2, ConcatEmptySeq
        <4> QED BY <1>3, <3>1, <4>1 DEF Written, XferType
      <3>2. CASE xfer.op # "write" BY <3>2 DEF Written
      <3> QED BY <3>1, <3>2
    <2>2. xfer' = [xfer EXCEPT !.at = IF xfer.count = xfer.len THEN "inc_off" ELSE "chunk",
                               !.ok = xfer.ok]
      BY <1>2, <1>3, <1>9, <2>1 DEF ChunkDone, XferType
    <2>3. xfer.ok \in BOOLEAN BY <1>3 DEF XferType
    <2>4. Len(xfer.moved) <= xfer.count BY <1>3 DEF Progress
    <2>5. xfer.clean => InOrder(xfer) /\ Len(xfer.moved) = xfer.count
      BY <1>3 DEF Ordered, Accounted
    <2>6. ASSUME xfer.clean PROVE OnCourse(xfer, drv', dp', obs')
      <3>1. Undisturbed /\ (dp.alive => dp.inc) BY <1>0, <1>3, <2>6, CleanFacts
      <3>2. Passed(Begin, t) /\ t.dp = Begin.dp BY <1>4, <1>9, CheckSeen DEF Lost
      <3> QED BY <1>2, <1>4, <3>1, <3>2 DEF OnCourse, Undisturbed, Passed
    <2>7. Holds(xfer', drv', dp', obs') BY <1>3, <2>2, <2>3, <2>4, <2>5, <2>6, DoneHolds
    <2> QED BY <1>7, <2>7 DEF BulkInv, BulkHolds
  <1> QED BY <1>8, <1>9

\* AddrInc, switched on or off, with the driver's state that follows.
LEMMA IncStep ==
  ASSUME BulkInv, NEW b \in BOOLEAN, NEW t \in SetAddrInc(Begin, b), Becomes(t),
         UNCHANGED <<boot, last>>
  PROVE  /\ IInv' /\ Answered'
         /\ Undisturbed /\ Ok(t) => ~obs'.raw /\ ~obs'.linkErr /\ dp'.inc = b
  <1>0. IInv /\ Answered BY DEF BulkInv
  <1>1. Begin \in Good BY <1>0, BeginGood
  <1>2. t \in Reach(Begin) BY <1>1, SetAddrIncReach
  <1>3. drv' = t.drv /\ obs' = t.obs /\ dp' = [t.dp EXCEPT !.rdbuff = NoVal] BY DEF Becomes
  <1>4. IInv' /\ Answered' BY <1>0, <1>2, <1>3, DriverKept
  <1>5. ASSUME Undisturbed, Ok(t) PROVE ~obs'.raw /\ ~obs'.linkErr /\ dp'.inc = b
    <2>1. Clear(Begin) BY <1>0, <1>5, BeginClear
    <2>2. Clear(t) /\ t.dp.inc = b BY <1>5, <2>1, SetAddrIncSeen
    <2>3. t \in States BY <2>2 DEF Clear, Good
    <2>4. dp'.inc = t.dp.inc BY <1>3, <2>3 DEF States, DpType
    <2> QED BY <1>3, <2>2, <2>4 DEF Clear
  <1> QED BY <1>4, <1>5

LEMMA IncOnStep == ASSUME BulkInv, BulkIncOn PROVE BulkInv'
  <1>1. PICK t \in SetAddrInc(Begin, TRUE) :
          /\ Becomes(t) /\ UNCHANGED <<boot, last>>
          /\ xfer' = IF Ok(t) THEN [ChunkDone(xfer) EXCEPT !.ok = TRUE]
                     ELSE [xfer EXCEPT !.at = "done"]
    BY DEF BulkIncOn
  <1>2. /\ xfer.at = "inc_on" /\ Sized(xfer) /\ Progress(xfer) /\ xfer \in XferType
        /\ xfer.clean => Ordered(xfer) /\ Accounted(xfer) /\ Steady(xfer, obs)
    BY DEF BulkInv, BulkIncOn, BulkHolds, Holds, Sized
  <1>3. xfer.count = 0 /\ xfer.moved = <<>> /\ ~xfer.ok BY <1>2 DEF Progress
  <1>4. PICK b \in BOOLEAN : b = TRUE OBVIOUS
  <1>5. t \in SetAddrInc(Begin, b) BY <1>4
  <1>6. /\ IInv' /\ Answered'
        /\ Undisturbed /\ Ok(t) => ~obs'.raw /\ ~obs'.linkErr /\ dp'.inc = b
    BY <1>1, <1>5, IncStep
  <1>7. CASE Ok(t)
    <2>1. xfer' = [xfer EXCEPT !.at = IF xfer.count = xfer.len THEN "inc_off" ELSE "chunk",
                               !.ok = b]
      BY <1>1, <1>2, <1>4, <1>7 DEF ChunkDone, XferType
    <2>2. Len(xfer.moved) <= xfer.count BY <1>3
    <2>3. xfer.clean => InOrder(xfer) /\ Len(xfer.moved) = xfer.count
      BY <1>2, <1>3 DEF Ordered
    <2>4. xfer.clean => OnCourse(xfer, drv', dp', obs')
      BY <1>2, <1>4, <1>6, <1>7 DEF Steady, Undisturbed, OnCourse
    <2>5. Holds(xfer', drv', dp', obs') BY <1>2, <2>1, <2>2, <2>3, <2>4, DoneHolds
    <2> QED BY <1>6, <2>5 DEF BulkInv, BulkHolds
  <1>8. CASE ~Ok(t)
    <2>1. xfer' = [xfer EXCEPT !.at = "done"] BY <1>1, <1>8
    <2>2. /\ xfer' \in XferType /\ xfer'.at = "done" /\ ~xfer'.ok /\ xfer'.moved = xfer.moved
          /\ xfer'.op = xfer.op /\ xfer'.addr = xfer.addr /\ xfer'.len = xfer.len
          /\ xfer'.count = xfer.count /\ xfer'.clean = xfer.clean
      BY <1>2, <1>3, <2>1 DEF XferType
    <2>3. Sized(xfer') BY <1>2, <2>2 DEF Sized
    <2>4. xfer.clean => Ordered(xfer') BY <1>2, <2>2 DEF Ordered, InOrder
    <2>5. Progress(xfer') /\ Accounted(xfer') /\ Steady(xfer', obs') /\ Placed(xfer', drv', dp')
      BY <2>2 DEF Progress, Accounted, Steady, Placed, Moving
    <2>6. Holds(xfer', drv', dp', obs') BY <2>2, <2>3, <2>4, <2>5 DEF Holds
    <2> QED BY <1>6, <2>6 DEF BulkInv, BulkHolds
  <1> QED BY <1>7, <1>8

LEMMA IncOffStep == ASSUME BulkInv, BulkIncOff PROVE BulkInv'
  <1>1. PICK t \in SetAddrInc(Begin, FALSE) :
          /\ Becomes(t) /\ UNCHANGED <<boot, last>>
          /\ xfer' = [xfer EXCEPT !.at = "done", !.ok = Result(xfer, t)]
    BY DEF BulkIncOff
  <1>2. /\ xfer.at = "inc_off" /\ Sized(xfer) /\ Progress(xfer) /\ xfer \in XferType
        /\ xfer.clean => Ordered(xfer) /\ Accounted(xfer) /\ Steady(xfer, obs)
    BY DEF BulkInv, BulkIncOff, BulkHolds, Holds, Sized
  <1>3. PICK b \in BOOLEAN : b = FALSE OBVIOUS
  <1>4. t \in SetAddrInc(Begin, b) BY <1>3
  <1>5. /\ IInv' /\ Answered'
        /\ Undisturbed /\ Ok(t) => ~obs'.raw /\ ~obs'.linkErr /\ dp'.inc = b
    BY <1>1, <1>4, IncStep
  <1>6. PICK r \in BOOLEAN : r = Result(xfer, t) /\ (r => xfer.ok /\ Ok(t))
    <2>1. xfer.ok \in BOOLEAN BY <1>2 DEF XferType
    <2>2. Result(xfer, t) \in BOOLEAN BY <2>1 DEF Result, Ok
    <2> QED BY <2>2 DEF Result
  <1>7. xfer' = [xfer EXCEPT !.at = "done", !.ok = r] BY <1>1, <1>6
  <1>8. /\ xfer' \in XferType /\ xfer'.at = "done" /\ xfer'.ok = r /\ xfer'.moved = xfer.moved
        /\ xfer'.op = xfer.op /\ xfer'.addr = xfer.addr /\ xfer'.len = xfer.len
        /\ xfer'.count = xfer.count /\ xfer'.clean = xfer.clean
    BY <1>2, <1>7 DEF XferType
  <1>9. Sized(xfer') BY <1>2, <1>8 DEF Sized
  <1>10. xfer.clean => Ordered(xfer') BY <1>2, <1>8 DEF Ordered, InOrder
  <1>11. Progress(xfer') /\ Steady(xfer', obs') /\ Placed(xfer', drv', dp')
    BY <1>8 DEF Progress, Steady, Placed, Moving
  <1>12. xfer.clean => Accounted(xfer') BY <1>2, <1>6, <1>8 DEF Accounted, Moving
  <1>13. xfer.clean /\ r => ~dp'.inc
    BY <1>2, <1>3, <1>5, <1>6 DEF Steady, Undisturbed
  <1>14. Holds(xfer', drv', dp', obs')
    BY <1>8, <1>9, <1>10, <1>11, <1>12, <1>13 DEF Holds
  <1> QED BY <1>5, <1>14 DEF BulkInv, BulkHolds

\* No transfer is under way.
LEMMA NoXferHolds == ASSUME NEW d, NEW p, NEW o PROVE Holds(NoXfer, d, p, o)
  <1>1. <<>> \in Seq(Readings) /\ Len(<<>>) = 0 OBVIOUS
  <1>2. 0 \in Addrs /\ 0 \in 0 .. MaxLen /\ 0 \in 0 .. PageWords
    BY TargetAssumption, MaxLenAssumption DEF Addrs
  <1>3. NoXfer \in XferType BY <1>1, <1>2 DEF NoXfer, XferType
  <1>4. NoXfer.at = "idle" /\ NoXfer.count = 0 /\ NoXfer.len = 0 /\ ~NoXfer.clean
        /\ Len(NoXfer.moved) = 0
    BY <1>1 DEF NoXfer
  <1>5. Sized(NoXfer) BY <1>3, <1>4 DEF Sized
  <1>6. Progress(NoXfer) BY <1>4 DEF Progress, Moving
  <1> QED BY <1>4, <1>5, <1>6 DEF Holds

LEMMA StartStep == ASSUME BulkInv, BulkStart PROVE BulkInv'
  <1>1. PICK op \in {"read", "write"}, addr \in Addrs, len \in 0 .. MaxLen, fast \in BOOLEAN :
          xfer' = [NoXfer EXCEPT !.at = "inc_on", !.op = op, !.addr = addr, !.len = len,
                                 !.fast = fast, !.clean = Undisturbed]
    BY DEF BulkStart
  <1>2. last' = NoOutcome /\ UNCHANGED <<drv, dp, obs, boot>> BY DEF BulkStart
  <1>3. Answered' BY <1>2, NoOutcomeFits DEF Answered
  <1>4. IInv'
    <2>1. TypeOK' BY <1>2, NoOutcomeType DEF BulkInv, IInv, TypeOK
    <2>2. SelectCoherent' /\ ConnectedFacts' /\ PowerCheckOn' /\ DpBankZero' /\ BootFacts'
      BY <1>2 DEF BulkInv, IInv, SelectCoherent, Undisturbed, ConnectedFacts, PowerCheckOn,
                  DpBankZero, BootFacts
    <2> QED BY <2>1, <2>2 DEF IInv
  <1>5. PICK c \in BOOLEAN : c = Undisturbed
    <2>1. Undisturbed \in BOOLEAN BY DEF Undisturbed
    <2> QED BY <2>1
  <1>6. /\ xfer' \in XferType /\ xfer'.at = "inc_on" /\ ~xfer'.ok /\ xfer'.moved = <<>>
        /\ xfer'.op = op /\ xfer'.len = len /\ xfer'.count = 0 /\ (xfer'.clean => Undisturbed)
    <2>1. 0 \in 0 .. PageWords /\ 0 \in 0 .. MaxLen
      BY TargetAssumption, MaxLenAssumption
    <2>2. <<>> \in Seq(Readings) OBVIOUS
    <2>3. xfer' = [NoXfer EXCEPT !.at = "inc_on", !.op = op, !.addr = addr, !.len = len,
                                 !.fast = fast, !.clean = c]
      BY <1>1, <1>5
    <2>4. xfer' = [at |-> "inc_on", op |-> op, addr |-> addr, len |-> len, fast |-> fast,
                   todo |-> 0, count |-> 0, ok |-> FALSE, moved |-> <<>>, clean |-> c]
      BY <2>3 DEF NoXfer
    <2> QED BY <1>5, <2>1, <2>2, <2>4 DEF XferType
  <1>7. Sized(xfer')
    <2>1. Len(xfer'.moved) = 0 /\ len \in Nat BY <1>6, MaxLenAssumption
    <2> QED BY <1>6, <2>1 DEF Sized
  <1>8. Progress(xfer') BY <1>6 DEF Progress, Moving
  <1>9. Ordered(xfer') BY <1>6 DEF Ordered, InOrder
  <1>10. Accounted(xfer') /\ Placed(xfer', drv', dp')
    BY <1>6 DEF Accounted, Placed, Moving
  <1>11. xfer'.clean => Steady(xfer', obs') BY <1>2, <1>6 DEF Steady, Undisturbed
  <1>12. Holds(xfer', drv', dp', obs') BY <1>6, <1>7, <1>8, <1>9, <1>10, <1>11 DEF Holds
  <1> QED BY <1>3, <1>4, <1>12 DEF BulkInv, BulkHolds

\* Other operations run between two transfers; the target moves at any time.
LEMMA OthersStep == ASSUME BulkInv, OtherOps PROVE BulkInv'
  <1>1. IInv /\ xfer.at = "idle" /\ xfer' = xfer BY DEF BulkInv, OtherOps, Running
  <1>2. xfer = NoXfer BY <1>1 DEF BulkInv, BulkHolds, Holds, Progress
  <1>3. Holds(xfer', drv', dp', obs') BY <1>1, <1>2, NoXferHolds
  <1>4. IInv' BY <1>1, ConnectInv, StandardInv, RawInv DEF OtherOps
  <1>5. Answered'
    <2>1. [Next]_vars BY DEF OtherOps, Next
    <2> QED BY <1>1, <2>1, NextAnswers DEF BulkInv, Answered
  <1> QED BY <1>3, <1>4, <1>5 DEF BulkInv, BulkHolds

LEMMA TargetStep == ASSUME BulkInv, TargetMoves PROVE BulkInv'
  <1>1. (Detach \/ Attach) /\ xfer' = xfer /\ UNCHANGED <<drv, obs, boot, last>>
    BY DEF TargetMoves, Detach, Attach
  <1>2. IInv' BY <1>1, EnvironmentInv DEF BulkInv
  <1>3. Answered' BY <1>1 DEF BulkInv, Answered
  <1>4. ~dp'.alive /\ ~dp'.inc BY <1>1 DEF Detach, Attach, AnyTarget
  <1>5. Holds(xfer, drv, dp, obs) BY DEF BulkInv, BulkHolds
  <1>6. xfer.clean => Placed(xfer, drv', dp') BY <1>1, <1>4, <1>5 DEF Holds, Placed
  <1>7. Holds(xfer', drv', dp', obs') BY <1>1, <1>4, <1>5, <1>6 DEF Holds
  <1> QED BY <1>2, <1>3, <1>7 DEF BulkInv, BulkHolds

LEMMA BulkInvNext == ASSUME BulkInv, [BulkNext]_<<vars, xfer>> PROVE BulkInv'
  <1>1. CASE BulkReturn
    <2>1. UNCHANGED vars /\ xfer' = NoXfer BY <1>1 DEF BulkReturn
    <2>2. IInv'
      BY <2>1, NextInv DEF BulkInv
    <2>3. Answered' BY <2>1 DEF BulkInv, Answered, vars
    <2> QED BY <2>1, <2>2, <2>3, NoXferHolds DEF BulkInv, BulkHolds
  <1>2. CASE UNCHANGED <<vars, xfer>>
    <2>1. UNCHANGED vars /\ xfer' = xfer BY <1>2
    <2>2. IInv' BY <2>1, NextInv DEF BulkInv
    <2> QED BY <2>1, <2>2 DEF BulkInv, Answered, BulkHolds, vars
  <1> QED
    BY <1>1, <1>2, StartStep, IncOnStep, ChunkStep, ReadStep, ReadLastStep, WriteStep, CheckStep,
       IncOffStep, OthersStep, TargetStep DEF BulkNext, BulkOps

LEMMA BulkInvInit == ASSUME BulkInit PROVE BulkInv
  <1>1. Init /\ xfer = NoXfer BY DEF BulkInit
  <1>2. IInv BY <1>1, InitInv
  <1>3. Answered BY <1>1, NoOutcomeFits DEF Init, Answered
  <1> QED BY <1>1, <1>2, <1>3, NoXferHolds DEF BulkInv, BulkHolds

\* The invariant of the proofs is the one the configurations check.
LEMMA InvIsBulkIInv == ASSUME BulkInv PROVE BulkIInv
  <1>1. IInv /\ Holds(xfer, drv, dp, obs) BY DEF BulkInv, BulkHolds
  <1>2. BulkTypeOK BY <1>1 DEF BulkTypeOK, IInv, Holds, Sized, XferType, Progress
  <1>3. BulkInOrder BY <1>1 DEF BulkInOrder, Holds, Ordered, Accounted
  <1>4. IncOffAfterSuccess BY <1>1 DEF IncOffAfterSuccess, Holds
  <1> QED BY <1>1, <1>2, <1>3, <1>4 DEF BulkIInv, Holds

-----------------------------------------------------------------------------
(* Theorems *)

LEMMA BulkAlways == BulkSpec => []BulkInv
  <1>1. BulkInit => BulkInv BY BulkInvInit
  <1>2. BulkInv /\ [BulkNext]_<<vars, xfer>> => BulkInv' BY BulkInvNext
  <1> QED BY <1>1, <1>2, PTL DEF BulkSpec

\* The inductive invariant of the transfers, of which the next three are parts.
THEOREM BulkInvariance == BulkSpec => []BulkIInv
  <1>1. BulkInv => BulkIInv BY InvIsBulkIInv
  <1> QED BY <1>1, BulkAlways, PTL

\* A transfer never counts or stores more words than it was asked for and no
\* chunk is empty, whatever fails and whatever ran on the wire before.
THEOREM BulkTyping == BulkSpec => []BulkTypeOK
  <1>1. BulkIInv => BulkTypeOK BY DEF BulkIInv
  <1> QED BY <1>1, BulkInvariance, PTL

\* read_mem_bulk stores and write_mem_bulk writes the words asked for, each
\* once and in order, in memories and pages of every size and across every
\* page boundary, also when the target goes away between two words.
THEOREM BulkOrdered == BulkSpec => []BulkInOrder
  <1>1. BulkIInv => BulkInOrder BY DEF BulkIInv
  <1> QED BY <1>1, BulkInvariance, PTL

\* A transfer that reports success has switched AddrInc off again, unless raw
\* accesses or lost transactions had disturbed the target before it began.
THEOREM BulkIncOffLast == BulkSpec => []IncOffAfterSuccess
  <1>1. BulkIInv => IncOffAfterSuccess BY DEF BulkIInv
  <1> QED BY <1>1, BulkInvariance, PTL

\* Transfers among them, the other operations keep what SwdInterfaceProofs
\* proves of them alone: the cached SELECT is the target's, ...
THEOREM BulkCoherence == BulkSpec => []SelectCoherent
  <1>1. BulkIInv => SelectCoherent BY DEF BulkIInv, IInv
  <1> QED BY <1>1, BulkInvariance, PTL

\* ... is_connected() tells the truth, ...
THEOREM BulkConnected == BulkSpec => []ConnectedFacts
  <1>1. BulkIInv => ConnectedFacts BY DEF BulkIInv, IInv
  <1> QED BY <1>1, BulkInvariance, PTL

\* ... read_mem and check_mem_ap return what they were asked for, ...
THEOREM BulkReadsReturn == BulkSpec => []ReadReturnsRequested
  <1>1. BulkInv => ReadReturnsRequested BY FitsIsProperty DEF BulkInv, Answered
  <1> QED BY <1>1, BulkAlways, PTL

\* ... and write_mem writes the word at its address or nothing.
THEOREM BulkWritesLand == BulkSpec => []WritesLandAsAsked
  <1>1. BulkInv => WritesLandAsAsked BY FitsIsProperty DEF BulkInv, Answered
  <1> QED BY <1>1, BulkAlways, PTL
=============================================================================
