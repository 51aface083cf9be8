------------------------ MODULE HttpConnectionProofs ------------------------
(***************************************************************************)
(* Theorems of HttpConnection, for buffers and requests of any size and    *)
(* any number of them on a connection.                                     *)
(***************************************************************************)
EXTENDS HttpConnection, SequenceTheorems, WellFoundedInduction, TLAPS

-----------------------------------------------------------------------------
(* The invariant *)

Tasks == [at : {"accept", "head", "body", "route", "write"}, head : Seq(Byte), of : Nat,
          len : Nat, body : Seq(Byte)]
Clients == [at : {"none", "open", "closed", "reset"}, waits : BOOLEAN, sent : Seq(Requests),
            todo : Seq(Byte), answers : Nat]

\* The types of the task and of its client, and what their places say.
HttpType ==
  /\ server \in Tasks /\ client \in Clients
  /\ server.of <= Len(client.sent) /\ Len(client.sent) <= MaxRequests
  /\ Len(server.head) <= HEADER_BUF_SIZE
  /\ server.at = "head" => Len(server.head) < HEADER_BUF_SIZE
  /\ server.len <= BODY_BUF_SIZE /\ Len(server.body) <= server.len
  /\ server.at = "accept" => client = NoClient
  /\ server.at \notin {"body", "route"} => server.body = <<>>

\* Byte b is one of those a client that asked for sent sends.
IsSent(sent, b) ==
  /\ b.of \in 1 .. Len(sent) /\ b.at \in 1 .. Size(sent[b.of])
  /\ b = ByteOf(b.of, sent[b.of], b.at)

\* Bytes the client sent, one after the other; up to the last, unless it has
\* stopped.
Stream(sent, at, s) ==
  /\ \A i \in 1 .. Len(s) : IsSent(sent, s[i])
  /\ OnePiece(sent, s)
  /\ at = "open" /\ Len(s) > 0 =>
       s[Len(s)].of = Len(sent) /\ s[Len(s)].at = Size(sent[Len(sent)])

\* What the task has read of a request it still reads, and what is to come.
Read == IF server.at \in {"head", "body"} THEN server.head \o server.body ELSE <<>>
Line == Read \o client.todo

\* The head was cut at the first blank line; where it is one the client sent, the
\* length is the one that states.
HeadRead(sent, head, n, len) ==
  /\ Ends(head, 0) = {Len(head) - 1}
  /\ n > 0 => head = HeadBytes(n, sent[n])
              /\ len = (IF sent[n].kind = "sized" THEN sent[n].body ELSE 0)

HttpInv ==
  /\ HttpType
  /\ Stream(client.sent, client.at, Line)
  /\ server.at \in {"body", "route"} =>
       HeadRead(client.sent, server.head, server.of, server.len)
  /\ server.at = "body" => Len(server.body) < server.len
  /\ server.at = "route" =>
       /\ Len(server.body) = server.len
       /\ Stream(client.sent, "closed", server.head \o server.body)

-----------------------------------------------------------------------------
(* Sequences *)

LEMMA Joined ==
  ASSUME NEW S, NEW s \in Seq(S), NEW t \in Seq(S)
  PROVE  /\ s \o t \in Seq(S) /\ Len(s \o t) = Len(s) + Len(t)
         /\ \A i \in 1 .. Len(s) : (s \o t)[i] = s[i]
         /\ \A i \in 1 .. Len(t) : (s \o t)[Len(s) + i] = t[i]
         /\ \A i \in 1 .. Len(s) + Len(t) : i > Len(s) => (s \o t)[i] = t[i - Len(s)]
  BY ConcatProperties

LEMMA Cut ==
  ASSUME NEW S, NEW s \in Seq(S), NEW n \in Nat, n <= Len(s)
  PROVE  /\ SubSeq(s, 1, n) \in Seq(S) /\ Len(SubSeq(s, 1, n)) = n
         /\ \A i \in 1 .. n : SubSeq(s, 1, n)[i] = s[i]
         /\ After(s, n) \in Seq(S) /\ Len(After(s, n)) = Len(s) - n
         /\ \A i \in 1 .. Len(s) - n : After(s, n)[i] = s[n + i]
         /\ SubSeq(s, 1, n) \o After(s, n) = s
  <1>1. Len(s) \in Nat /\ \A i \in 1 .. Len(s) : s[i] \in S BY LenProperties
  <1>2. /\ SubSeq(s, 1, n) \in Seq(S) /\ Len(SubSeq(s, 1, n)) = n
        /\ \A i \in 1 .. n : SubSeq(s, 1, n)[i] = s[i]
    BY <1>1, SubSeqProperties
  <1>3. /\ After(s, n) \in Seq(S) /\ Len(After(s, n)) = Len(s) - n
        /\ \A i \in 1 .. Len(s) - n : After(s, n)[i] = s[n + i]
    BY <1>1, SubSeqProperties DEF After
  <1>4. SubSeq(s, 1, n) \o After(s, n) = s
    <2> DEFINE a == SubSeq(s, 1, n)
               b == After(s, n)
    <2>1. a \in Seq(S) /\ b \in Seq(S) /\ Len(a) = n /\ Len(b) = Len(s) - n
      BY <1>2, <1>3
    <2>2. \A i \in 1 .. n : a[i] = s[i] BY <1>2
    <2>3. \A i \in 1 .. Len(s) - n : b[i] = s[n + i] BY <1>3
    <2> HIDE DEF a, b
    <2>4. /\ a \o b \in Seq(S) /\ Len(a \o b) = Len(a) + Len(b)
          /\ \A i \in 1 .. Len(a) : (a \o b)[i] = a[i]
          /\ \A i \in 1 .. Len(a) + Len(b) : i > Len(a) => (a \o b)[i] = b[i - Len(a)]
      BY <2>1, Joined
    <2>5. ASSUME NEW i \in 1 .. Len(s) PROVE (a \o b)[i] = s[i]
      <3>1. CASE i <= n BY <1>1, <2>1, <2>2, <2>4, <3>1
      <3>2. CASE i > n
        <4>1. i - n \in 1 .. Len(s) - n /\ n + (i - n) = i BY <1>1, <3>2
        <4> QED BY <1>1, <2>1, <2>3, <2>4, <3>2, <4>1, SMTT(30)
      <3>3. i <= n \/ i > n
        <4>1. i \in Nat BY <1>1
        <4> QED BY <4>1
      <3> QED BY <3>1, <3>2, <3>3
    <2>6. Len(a \o b) = Len(s) BY <1>1, <2>1, <2>4
    <2>7. a \o b = s BY <2>4, <2>5, <2>6, SeqEqual
    <2> QED BY <2>7 DEF a, b
  <1> QED BY <1>2, <1>3, <1>4

LEMMA EmptyFacts ==
  ASSUME NEW S
  PROVE  /\ <<>> \in Seq(S) /\ Len(<<>>) = 0
         /\ \A s \in Seq(S) : (s = <<>> <=> Len(s) = 0) /\ Len(s) \in Nat
                              /\ <<>> \o s = s /\ s \o <<>> = s
  BY EmptySeq, ConcatEmptySeq, LenProperties

LEMMA NatOrder == \E R : IsWellFoundedOn(R, Nat) /\ \A x, y \in Nat : x < y => <<x, y>> \in R
  <1> DEFINE R == OpToRel(<, Nat)
  <1>1. IsWellFoundedOn(R, Nat) BY NatLessThanWellFounded
  <1>2. \A x, y \in Nat : x < y => <<x, y>> \in R BY DEF OpToRel
  <1> HIDE DEF R
  <1> QED BY <1>1, <1>2

\* What CHOOSE returns in Min: any set of naturals that is not empty has a least.
LEMMA LeastNumber ==
  ASSUME NEW T, T \subseteq Nat, T # {}
  PROVE  Min(T) \in T /\ \A y \in T : Min(T) <= y
  <1>1. PICK R : IsWellFoundedOn(R, Nat) /\ \A x, y \in Nat : x < y => <<x, y>> \in R
    BY NatOrder
  <1>2. IsWellFoundedOn(R, Nat) BY <1>1
  <1>3. \E x \in T : \A y \in T : ~ (<<y, x>> \in R) BY <1>2, WFMin, Zenon
  <1>4. PICK x \in T : \A y \in T : ~ (<<y, x>> \in R) BY <1>3
  <1>5. ASSUME NEW y \in T PROVE x <= y
    <2>1. ~(y < x) BY <1>1, <1>4
    <2> QED BY <2>1
  <1> QED BY <1>5 DEF Min

LEMMA JoinAssociative ==
  ASSUME NEW s \in Seq(Byte), NEW t \in Seq(Byte), NEW u \in Seq(Byte)
  PROVE  (s \o t) \o u = s \o (t \o u)
  OBVIOUS

LEMMA JoinedCut ==
  ASSUME NEW s \in Seq(Byte), NEW t \in Seq(Byte)
  PROVE  After(s \o t, Len(s)) = t
  <1>1. Len(s) \in Nat /\ Len(t) \in Nat BY LenProperties
  <1>2. /\ s \o t \in Seq(Byte) /\ Len(s \o t) = Len(s) + Len(t)
        /\ \A i \in 1 .. Len(t) : (s \o t)[Len(s) + i] = t[i]
    BY Joined
  <1> DEFINE u == s \o t
  <1> HIDE DEF u
  <1>3. u \in Seq(Byte) /\ Len(s) <= Len(u) BY <1>1, <1>2 DEF u
  <1>4. /\ After(u, Len(s)) \in Seq(Byte) /\ Len(After(u, Len(s))) = Len(u) - Len(s)
        /\ \A i \in 1 .. Len(u) - Len(s) : After(u, Len(s))[i] = u[Len(s) + i]
    BY <1>1, <1>3, Cut
  <1>5. Len(u) - Len(s) = Len(t) BY <1>1, <1>2 DEF u
  <1>6. \A i \in 1 .. Len(t) : After(u, Len(s))[i] = t[i] BY <1>2, <1>4, <1>5 DEF u
  <1>7. After(u, Len(s)) = t BY <1>4, <1>5, <1>6, SeqEqual
  <1> QED BY <1>7 DEF u

-----------------------------------------------------------------------------
(* The bytes of a request *)

LEMMA RequestFacts ==
  ASSUME NEW r \in Requests
  PROVE  /\ r.lines \in Nat \ {0} /\ r.body \in Nat /\ r.blank \in Nat /\ r.kind \in Kinds
         /\ r.kind = "sized" => r.body <= BODY_BUF_SIZE
         /\ Size(r) \in Nat \ {0} /\ Size(r) = r.lines + 2 + r.body
  BY HttpAssumption DEF Size

LEMMA RequestBytesFacts ==
  ASSUME NEW n \in 1 .. MaxRequests, NEW r \in Requests
  PROVE  /\ RequestBytes(n, r) \in Seq(Byte) /\ Len(RequestBytes(n, r)) = Size(r)
         /\ \A k \in 1 .. Size(r) : RequestBytes(n, r)[k] = ByteOf(n, r, k)
  <1>1. Size(r) \in Nat BY RequestFacts
  <1>2. \A k \in 1 .. Size(r) : ByteOf(n, r, k) \in Byte BY <1>1 DEF ByteOf, Byte, EndsLine
  <1> QED BY <1>1, <1>2 DEF RequestBytes

LEMMA HeadBytesFacts ==
  ASSUME NEW n \in 1 .. MaxRequests, NEW r \in Requests
  PROVE  /\ HeadBytes(n, r) \in Seq(Byte) /\ Len(HeadBytes(n, r)) = r.lines + 2
         /\ \A k \in 1 .. r.lines + 2 : HeadBytes(n, r)[k] = ByteOf(n, r, k)
  <1>1. r.lines + 2 \in Nat BY RequestFacts
  <1>2. \A k \in 1 .. r.lines + 2 : ByteOf(n, r, k) \in Byte BY <1>1 DEF ByteOf, Byte, EndsLine
  <1> QED BY <1>1, <1>2 DEF HeadBytes

LEMMA BodyBytesFacts ==
  ASSUME NEW n \in 1 .. MaxRequests, NEW r \in Requests, NEW len \in Nat
  PROVE  /\ BodyBytes(n, r, len) \in Seq(Byte) /\ Len(BodyBytes(n, r, len)) = len
         /\ \A k \in 1 .. len : BodyBytes(n, r, len)[k] = ByteOf(n, r, r.lines + 2 + k)
  <1>1. \A k \in 1 .. len : r.lines + 2 + k \in Nat \ {0} BY RequestFacts
  <1>2. \A k \in 1 .. len : ByteOf(n, r, r.lines + 2 + k) \in Byte
    BY <1>1 DEF ByteOf, Byte, EndsLine
  <1> QED BY <1>2 DEF BodyBytes

LEMMA ByteFields ==
  ASSUME NEW n, NEW r, NEW k
  PROVE  ByteOf(n, r, k).of = n /\ ByteOf(n, r, k).at = k /\ ByteOf(n, r, k).crlf = EndsLine(r, k)
  BY DEF ByteOf

LEMMA SentFacts ==
  ASSUME NEW sent \in Seq(Requests), Len(sent) <= MaxRequests
  PROVE  /\ Len(sent) \in Nat
         /\ \A n \in 1 .. Len(sent) : sent[n] \in Requests /\ n \in 1 .. MaxRequests
  BY LenProperties, HttpAssumption

-----------------------------------------------------------------------------
(* Streams *)

LEMMA StreamPart ==
  ASSUME NEW sent, NEW at, NEW at2, NEW s \in Seq(Byte), NEW t \in Seq(Byte),
         NEW m \in Nat, m + Len(t) <= Len(s), \A i \in 1 .. Len(t) : t[i] = s[m + i],
         at2 = "open" => at = "open" /\ m + Len(t) = Len(s), Stream(sent, at, s)
  PROVE  Stream(sent, at2, t)
  <1>1. Len(s) \in Nat /\ Len(t) \in Nat BY LenProperties
  <1>2. ASSUME NEW i \in 1 .. Len(t) PROVE IsSent(sent, t[i])
    <2>1. m + i \in 1 .. Len(s) BY <1>1
    <2> QED BY <2>1 DEF Stream
  <1>3. ASSUME NEW i \in 1 .. Len(t) - 1 PROVE Follows(sent, t[i], t[i + 1])
    <2>1. i \in 1 .. Len(t) /\ i + 1 \in 1 .. Len(t) /\ m + i \in 1 .. Len(s) - 1
          /\ m + (i + 1) = (m + i) + 1
      BY <1>1
    <2>2. t[i] = s[m + i] /\ t[i + 1] = s[(m + i) + 1] BY <2>1
    <2>3. Follows(sent, s[m + i], s[(m + i) + 1]) BY <2>1 DEF Stream, OnePiece
    <2> QED BY <2>2, <2>3
  <1>4. ASSUME at2 = "open", Len(t) > 0 PROVE t[Len(t)] = s[Len(s)] /\ at = "open" /\ Len(s) > 0
    <2>1. Len(t) \in 1 .. Len(t) BY <1>1, <1>4
    <2>2. m + Len(t) = Len(s) /\ at = "open" BY <1>4
    <2> QED BY <1>1, <1>4, <2>1, <2>2
  <1> QED BY <1>2, <1>3, <1>4 DEF Stream, OnePiece

\* Another request leaves the bytes of those before as they are.
LEMMA StreamKept ==
  ASSUME NEW sent \in Seq(Requests), NEW r \in Requests, NEW s \in Seq(Byte), NEW at,
         Len(sent) < MaxRequests, Stream(sent, at, s)
  PROVE  /\ \A i \in 1 .. Len(s) : IsSent(Append(sent, r), s[i])
         /\ OnePiece(Append(sent, r), s)
         /\ Stream(Append(sent, r), "closed", s)
  <1> DEFINE sent2 == Append(sent, r)
  <1>1. Len(sent) \in Nat /\ Len(s) \in Nat BY LenProperties
  <1>2. Len(sent2) = Len(sent) + 1 /\ \A n \in 1 .. Len(sent) : sent2[n] = sent[n]
    BY AppendProperties
  <1> HIDE DEF sent2
  <1>3. ASSUME NEW i \in 1 .. Len(s) PROVE IsSent(sent2, s[i])
    <2>1. IsSent(sent, s[i]) BY DEF Stream
    <2>2. s[i].of \in 1 .. Len(sent2) /\ sent2[s[i].of] = sent[s[i].of]
      BY <1>1, <1>2, <2>1 DEF IsSent
    <2> QED BY <2>1, <2>2 DEF IsSent
  <1>4. ASSUME NEW i \in 1 .. Len(s) - 1 PROVE Follows(sent2, s[i], s[i + 1])
    <2>1. i \in 1 .. Len(s) BY <1>1
    <2>2. s[i].of \in 1 .. Len(sent) BY <2>1 DEF Stream, IsSent
    <2>3. sent2[s[i].of] = sent[s[i].of] BY <1>2, <2>2
    <2>4. Follows(sent, s[i], s[i + 1]) BY DEF Stream, OnePiece
    <2> QED BY <2>3, <2>4 DEF Follows
  <1> QED BY <1>3, <1>4 DEF Stream, OnePiece, sent2

LEMMA StreamGrows ==
  ASSUME NEW sent \in Seq(Requests), NEW r \in Requests, NEW s \in Seq(Byte),
         Len(sent) < MaxRequests, Stream(sent, "open", s)
  PROVE  Stream(Append(sent, r), "open", s \o RequestBytes(Len(sent) + 1, r))
  <1> DEFINE sent2 == Append(sent, r)
             m == Len(sent) + 1
             a == RequestBytes(m, r)
             u == s \o a
  <1>1. Len(sent) \in Nat BY LenProperties
  <1>2. Len(sent2) = m /\ sent2[m] = r /\ m \in 1 .. MaxRequests
    BY <1>1, AppendProperties, HttpAssumption
  <1>3. PICK z \in Nat \ {0} : z = Size(r) BY RequestFacts
  <1>4. a \in Seq(Byte) /\ Len(a) = z /\ \A k \in 1 .. z : a[k] = ByteOf(m, r, k)
    BY <1>2, <1>3, RequestBytesFacts
  <1>5. /\ \A i \in 1 .. Len(s) : IsSent(sent2, s[i])
        /\ OnePiece(sent2, s)
    BY StreamKept
  <1> HIDE DEF sent2, a
  <1>6. PICK l \in Nat : l = Len(s) BY LenProperties
  <1>7. /\ Len(u) = l + z
        /\ \A i \in 1 .. l : u[i] = s[i]
        /\ \A k \in 1 .. z : u[l + k] = ByteOf(m, r, k)
    BY <1>4, <1>6, Joined
  <1> HIDE DEF u, m
  <1>8. ASSUME NEW k \in 1 .. z
        PROVE  u[l + k].of = m /\ u[l + k].at = k /\ IsSent(sent2, u[l + k])
    <2>1. u[l + k].of = m /\ u[l + k].at = k BY <1>7, ByteFields
    <2>2. m \in 1 .. Len(sent2) BY <1>1, <1>2 DEF m
    <2> QED BY <1>2, <1>3, <1>7, <2>1, <2>2 DEF IsSent
  <1>9. ASSUME NEW i \in 1 .. Len(u) PROVE IsSent(sent2, u[i])
    <2>1. CASE i <= l BY <1>5, <1>6, <1>7, <2>1
    <2>2. CASE i > l
      <3>1. i - l \in 1 .. z /\ l + (i - l) = i BY <1>7, <2>2
      <3> QED BY <1>8, <3>1
    <2> QED BY <1>7, <2>1, <2>2
  <1>10. ASSUME NEW i \in 1 .. Len(u) - 1 PROVE Follows(sent2, u[i], u[i + 1])
    <2>1. CASE i < l
      <3>1. i \in 1 .. l /\ i + 1 \in 1 .. l /\ i \in 1 .. Len(s) - 1 BY <1>6, <2>1
      <3> QED BY <1>5, <1>7, <3>1 DEF OnePiece
    <2>2. CASE i > l
      <3>1. i - l \in 1 .. z /\ (i + 1) - l \in 1 .. z /\ l + (i - l) = i /\ l + ((i + 1) - l) = i + 1
            /\ (i + 1) - l = (i - l) + 1
        BY <1>7, <2>2
      <3>2. u[i].of = m /\ u[i].at = i - l /\ u[i + 1].of = m /\ u[i + 1].at = (i - l) + 1
        BY <1>8, <3>1
      <3> QED BY <3>2 DEF Follows
    <2>3. CASE i = l
      <3>1. i \in 1 .. l /\ 1 \in 1 .. z /\ Len(s) > 0 BY <1>3, <1>6, <2>3
      <3>2. s[i].of = Len(sent) /\ s[i].at = Size(sent[Len(sent)])
        BY <1>6, <2>3, <3>1 DEF Stream
      <3>3. u[i + 1].of = m /\ u[i + 1].at = 1 BY <1>8, <2>3, <3>1
      <3>4. sent2[Len(sent)] = sent[Len(sent)]
        <4>1. s[i].of \in 1 .. Len(sent) BY <1>6, <3>1 DEF Stream, IsSent
        <4> QED BY <3>2, <4>1, AppendProperties DEF sent2
      <3> QED BY <1>7, <3>1, <3>2, <3>3, <3>4 DEF Follows, m
    <2> QED BY <1>7, <2>1, <2>2, <2>3
  <1>11. u[Len(u)].of = Len(sent2) /\ u[Len(u)].at = Size(sent2[Len(sent2)])
    <2>1. z \in 1 .. z OBVIOUS
    <2> QED BY <1>2, <1>3, <1>7, <1>8, <2>1
  <1> QED BY <1>9, <1>10, <1>11 DEF Stream, OnePiece, sent2, a, u, m

-----------------------------------------------------------------------------
(* The steps: those of the client *)

LEMMA Places ==
  ASSUME HttpType
  PROVE  /\ server.head \in Seq(Byte) /\ server.body \in Seq(Byte) /\ client.todo \in Seq(Byte)
         /\ client.sent \in Seq(Requests) /\ Len(client.sent) <= MaxRequests
         /\ Read \in Seq(Byte) /\ Line \in Seq(Byte) /\ Len(Line) = Len(Read) + Len(client.todo)
         /\ server.of \in Nat /\ server.len \in Nat
         /\ server.at = "head" => Read = server.head
         /\ server.at = "body" => Read = server.head \o server.body
         /\ server.at \notin {"head", "body"} => Read = <<>> /\ Line = client.todo
         /\ HEADER_BUF_SIZE \in Nat \ {0} /\ BODY_BUF_SIZE \in Nat /\ MaxRequests \in Nat
  <1>1. /\ server.head \in Seq(Byte) /\ server.body \in Seq(Byte) /\ client.todo \in Seq(Byte)
        /\ client.sent \in Seq(Requests) /\ Len(client.sent) <= MaxRequests
        /\ server.of \in Nat /\ server.len \in Nat
    BY DEF HttpType, Tasks, Clients
  <1>2. server.head \o server.body \in Seq(Byte) BY <1>1, Joined
  <1>3. Read \in Seq(Byte) BY <1>2, EmptyFacts DEF Read
  <1>4. Line \in Seq(Byte) /\ Len(Line) = Len(Read) + Len(client.todo) BY <1>1, <1>3, Joined DEF Line
  <1>5. server.at = "head" => Read = server.head
    <2>1. server.at = "head" => server.body = <<>> BY DEF HttpType
    <2> QED BY <1>1, <2>1, EmptyFacts DEF Read
  <1>6. server.at \notin {"head", "body"} => Read = <<>> /\ Line = client.todo
    BY <1>1, EmptyFacts DEF Read, Line
  <1> QED BY <1>1, <1>3, <1>4, <1>5, <1>6, HttpAssumption DEF Read

LEMMA StartFacts ==
  /\ Start = [at |-> "head", head |-> <<>>, of |-> 0, len |-> 0, body |-> <<>>]
  /\ Accepting = [at |-> "accept", head |-> <<>>, of |-> 0, len |-> 0, body |-> <<>>]
  /\ \A n : Respond(n) = [at |-> "write", head |-> <<>>, of |-> n, len |-> 0, body |-> <<>>]
  /\ Start \in Tasks /\ Accepting \in Tasks /\ \A n \in Nat : Respond(n) \in Tasks
  /\ NoClient \in Clients
  <1>1. <<>> \in Seq(Byte) /\ <<>> \in Seq(Requests) BY EmptyFacts
  <1>2. /\ Start = [at |-> "head", head |-> <<>>, of |-> 0, len |-> 0, body |-> <<>>]
        /\ Accepting = [at |-> "accept", head |-> <<>>, of |-> 0, len |-> 0, body |-> <<>>]
        /\ \A n : Respond(n) = [at |-> "write", head |-> <<>>, of |-> n, len |-> 0, body |-> <<>>]
    <2>1. Start = [at |-> "head", head |-> <<>>, of |-> 0, len |-> 0, body |-> <<>>]
      BY DEF Start
    <2>2. Accepting = [at |-> "accept", head |-> <<>>, of |-> 0, len |-> 0, body |-> <<>>]
      BY <2>1 DEF Accepting
    <2>3. ASSUME NEW n
          PROVE  Respond(n) = [at |-> "write", head |-> <<>>, of |-> n, len |-> 0, body |-> <<>>]
      <3>1. Respond(n) = [Start EXCEPT !.at = "write", !.of = n] BY DEF Respond
      <3> QED BY <2>1, <3>1
    <2> QED BY <2>1, <2>2, <2>3
  <1>3. NoClient \in Clients BY <1>1 DEF NoClient, Clients
  <1>4. \A at \in {"accept", "head", "write"}, n \in Nat :
          [at |-> at, head |-> <<>>, of |-> n, len |-> 0, body |-> <<>>] \in Tasks
    BY <1>1 DEF Tasks
  <1> QED BY <1>2, <1>3, <1>4

\* The task reads no request, and goes on at what is still to come after m bytes.
LEMMA DropStep ==
  ASSUME HttpInv, NEW n \in Nat, n <= Len(client.sent), server' \in {Start, Respond(n)},
         client' \in Clients, client'.sent = client.sent, client'.at = client.at,
         NEW m \in Nat, m <= Len(Line), client'.todo = After(Line, m)
  PROVE  HttpInv'
  <1>0. HttpType /\ Stream(client.sent, client.at, Line) BY DEF HttpInv
  <1>1. /\ server' \in Tasks /\ server'.at \in {"head", "write"} /\ server'.head = <<>>
        /\ server'.of <= Len(client.sent) /\ server'.len = 0 /\ server'.body = <<>>
    BY StartFacts, <1>0, Places, LenProperties, SMTT(30)
  <1>2. HttpType'
    <2>1. Len(<<>>) = 0 BY EmptyFacts
    <2>2. /\ Len(server'.head) < HEADER_BUF_SIZE /\ Len(server'.head) <= HEADER_BUF_SIZE
          /\ server'.len <= BODY_BUF_SIZE /\ Len(server'.body) <= server'.len
      BY <1>0, <1>1, <2>1, Places
    <2>3. server'.of <= Len(client'.sent) /\ Len(client'.sent) <= MaxRequests
      BY <1>0, <1>1, Places
    <2> QED BY <1>1, <2>2, <2>3 DEF HttpType
  <1>3. PICK t : t = client'.todo OBVIOUS
  <1>4. /\ t \in Seq(Byte) /\ Len(t) = Len(Line) - m
        /\ \A i \in 1 .. Len(Line) - m : t[i] = Line[m + i]
    <2>1. PICK s : s = Line OBVIOUS
    <2>2. s \in Seq(Byte) /\ m <= Len(s) /\ t = After(s, m) BY <1>0, <1>3, <2>1, Places
    <2>3. /\ After(s, m) \in Seq(Byte) /\ Len(After(s, m)) = Len(s) - m
          /\ \A i \in 1 .. Len(s) - m : After(s, m)[i] = s[m + i]
      BY <2>2, Cut
    <2> QED BY <2>1, <2>2, <2>3
  <1>5. Line' = t
    <2>1. Read' = <<>>
      <3>1. <<>> \o <<>> = <<>> BY EmptyFacts
      <3> QED BY <1>1, <3>1 DEF Read
    <2> QED BY <1>3, <1>4, <2>1, EmptyFacts DEF Line
  <1>6. Stream(client.sent, client.at, t)
    <2>1. Line \in Seq(Byte) /\ Len(Line) \in Nat BY <1>0, Places, LenProperties
    <2>2. PICK s : s = Line OBVIOUS
    <2>3. s \in Seq(Byte) /\ Len(s) \in Nat /\ Len(t) \in Nat /\ m + Len(t) = Len(s)
          /\ \A i \in 1 .. Len(t) : t[i] = s[m + i]
      BY <1>4, <2>1, <2>2
    <2>4. m + Len(t) <= Len(s) BY <2>3
    <2> QED BY <1>0, <1>4, <2>2, <2>3, <2>4, StreamPart
  <1> QED BY <1>1, <1>2, <1>5, <1>6 DEF HttpInv

LEMMA SendFacts ==
  ASSUME HttpType, Send
  PROVE  /\ client.at = "open" /\ Len(client.sent) < MaxRequests /\ server' = server
         /\ client.waits => client.answers >= Len(client.sent)
         /\ \E r \in Requests :
              client' = [at |-> "open", waits |-> client.waits, sent |-> Append(client.sent, r),
                         todo |-> client.todo \o RequestBytes(Len(client.sent) + 1, r),
                         answers |-> client.answers]
  <1>1. PICK r \in Requests :
          client' = [client EXCEPT !.sent = Append(client.sent, r),
                                   !.todo = client.todo \o RequestBytes(Len(client.sent) + 1, r)]
    BY DEF Send
  <1>2. PICK sent, todo : sent = Append(client.sent, r)
                          /\ todo = client.todo \o RequestBytes(Len(client.sent) + 1, r)
    OBVIOUS
  <1>3. client.at = "open" /\ Len(client.sent) < MaxRequests /\ server' = server
        /\ (client.waits => client.answers >= Len(client.sent))
    BY DEF Send
  <1>4. client' = [at |-> "open", waits |-> client.waits, sent |-> sent, todo |-> todo,
                   answers |-> client.answers]
    BY <1>1, <1>2, <1>3 DEF HttpType, Clients
  <1> QED BY <1>2, <1>3, <1>4

LEMMA SendStep == ASSUME HttpInv, Send PROVE HttpInv'
  <1>0. HttpType /\ Stream(client.sent, client.at, Line) BY DEF HttpInv
  <1>1. client.at = "open" /\ Len(client.sent) < MaxRequests /\ server' = server
    BY <1>0, SendFacts
  <1> DEFINE m == Len(client.sent) + 1
  <1>2. PICK r \in Requests :
          client' = [at |-> "open", waits |-> client.waits, sent |-> Append(client.sent, r),
                     todo |-> client.todo \o RequestBytes(m, r), answers |-> client.answers]
    BY <1>0, SendFacts
  <1>3. /\ client.sent \in Seq(Requests) /\ Len(client.sent) \in Nat /\ client.todo \in Seq(Byte)
        /\ Read \in Seq(Byte) /\ Line \in Seq(Byte)
        /\ server.head \in Seq(Byte) /\ server.body \in Seq(Byte) /\ server.of \in Nat
    BY <1>0, Places, LenProperties
  <1>4. PICK a : a = RequestBytes(m, r) OBVIOUS
  <1>5. a \in Seq(Byte)
    <2>1. m \in 1 .. MaxRequests BY <1>0, <1>1, <1>3, Places
    <2> QED BY <1>4, <2>1, RequestBytesFacts
  <1>6. PICK todo : todo = client.todo \o a OBVIOUS
  <1>7. todo \in Seq(Byte) BY <1>3, <1>5, <1>6, Joined
  <1>8. PICK sent : sent = Append(client.sent, r) OBVIOUS
  <1>9. /\ sent \in Seq(Requests) /\ Len(sent) = m
        /\ \A n \in 1 .. Len(client.sent) : sent[n] = client.sent[n]
    BY <1>3, <1>8, AppendProperties
  <1>10. client' = [at |-> "open", waits |-> client.waits, sent |-> sent, todo |-> todo,
                    answers |-> client.answers]
    BY <1>2, <1>4, <1>6, <1>8
  <1>11. HttpType'
    <2>1. client' \in Clients BY <1>0, <1>7, <1>9, <1>10 DEF HttpType, Clients
    <2>2. server.at # "accept" BY <1>0, <1>1 DEF HttpType, NoClient
    <2>3. server.of <= Len(client'.sent) /\ Len(client'.sent) <= MaxRequests
      <3>1. server.of <= Len(client.sent) /\ server.of \in Nat /\ MaxRequests \in Nat
        BY <1>0, <1>3, Places DEF HttpType
      <3>2. Len(client'.sent) = m BY <1>9, <1>10
      <3> QED BY <1>1, <1>3, <3>1, <3>2
    <2> QED BY <1>0, <1>1, <2>1, <2>2, <2>3 DEF HttpType
  <1>12. Line' = Line \o a
    <2>1. Line' = Read \o (client.todo \o a) BY <1>1, <1>6, <1>10 DEF Line, Read
    <2>2. Read \o (client.todo \o a) = (Read \o client.todo) \o a
      <3>1. Read \in Seq(Byte) /\ client.todo \in Seq(Byte) /\ a \in Seq(Byte) BY <1>3, <1>5
      <3> QED BY <3>1, JoinAssociative
    <2> QED BY <2>1, <2>2 DEF Line
  <1>13. Stream(client.sent, client.at, Line)'
    <2>1. Stream(sent, "open", Line \o a)
      BY <1>0, <1>1, <1>3, <1>4, <1>8, StreamGrows
    <2> QED BY <1>10, <1>12, <2>1
  <1>14. ASSUME server.at = "route" PROVE Stream(sent, "closed", server.head \o server.body)
    <2>1. Stream(client.sent, "closed", server.head \o server.body) BY <1>14 DEF HttpInv
    <2>2. server.head \o server.body \in Seq(Byte) BY <1>3, Joined
    <2> QED BY <1>1, <1>3, <1>8, <2>1, <2>2, StreamKept
  <1>15. ASSUME server.at \in {"body", "route"}
         PROVE  HeadRead(sent, server.head, server.of, server.len)
    <2>1. HeadRead(client.sent, server.head, server.of, server.len) BY <1>15 DEF HttpInv
    <2>2. server.of > 0 => sent[server.of] = client.sent[server.of]
      BY <1>0, <1>3, <1>9 DEF HttpType
    <2> QED BY <2>1, <2>2 DEF HeadRead
  <1> QED BY <1>1, <1>10, <1>11, <1>13, <1>14, <1>15 DEF HttpInv

\* The client stops: what is still to come ends somewhere before.
LEMMA StopFacts ==
  ASSUME HttpType, Close \/ Reset
  PROVE  /\ server' = server /\ client.at # "none"
         /\ \E at \in {"closed", "reset"}, todo \in Seq(Byte), rest \in Seq(Byte) :
              /\ client' = [at |-> at, waits |-> client.waits, sent |-> client.sent,
                            todo |-> todo, answers |-> client.answers]
              /\ client.todo = todo \o rest
              /\ Line' \in Seq(Byte) /\ Line = Line' \o rest
  <1>1. client.todo \in Seq(Byte) /\ Len(client.todo) \in Nat /\ Read \in Seq(Byte)
    BY Places, LenProperties
  <1>2. \E at \in {"closed", "reset"}, n \in 0 .. Len(client.todo) :
          client' = [client EXCEPT !.at = at, !.todo = SubSeq(client.todo, 1, n)]
    <2>1. CASE Close BY <2>1 DEF Close, Prefixes
    <2>2. CASE Reset
      <3>1. SubSeq(client.todo, 1, 0) = <<>> /\ 0 \in 0 .. Len(client.todo)
        BY <1>1, SubSeqEmpty
      <3> QED BY <2>2, <3>1 DEF Reset
    <2> QED BY <2>1, <2>2
  <1>3. PICK at \in {"closed", "reset"}, n \in 0 .. Len(client.todo) :
          client' = [client EXCEPT !.at = at, !.todo = SubSeq(client.todo, 1, n)]
    BY <1>2
  <1>4. PICK s, todo, rest : s = client.todo /\ todo = SubSeq(s, 1, n) /\ rest = After(s, n)
    OBVIOUS
  <1>5. todo \in Seq(Byte) /\ rest \in Seq(Byte) /\ s = todo \o rest
    <2>1. s \in Seq(Byte) /\ n \in Nat /\ n <= Len(s) BY <1>1, <1>4
    <2> QED BY <1>4, <2>1, Cut
  <1>6. client' = [at |-> at, waits |-> client.waits, sent |-> client.sent, todo |-> todo,
                   answers |-> client.answers]
    BY <1>3, <1>4 DEF HttpType, Clients
  <1>7. server' = server /\ client.at # "none" BY DEF Close, Reset
  <1>8. Line' = Read \o todo BY <1>6, <1>7 DEF Line, Read
  <1>9. Read \o todo \in Seq(Byte) /\ Line = (Read \o todo) \o rest
    <2>1. Read \o todo \in Seq(Byte) BY <1>1, <1>5, Joined
    <2>2. todo \in Seq(Byte) /\ rest \in Seq(Byte) /\ Read \in Seq(Byte) BY <1>1, <1>5
    <2>3. Read \o (todo \o rest) = (Read \o todo) \o rest BY <2>2, JoinAssociative
    <2> QED BY <1>4, <1>5, <2>1, <2>3 DEF Line
  <1> QED BY <1>4, <1>5, <1>6, <1>7, <1>8, <1>9

LEMMA StopStep == ASSUME HttpInv, Close \/ Reset PROVE HttpInv'
  <1>0. HttpType /\ Stream(client.sent, client.at, Line) BY DEF HttpInv
  <1>1. PICK at \in {"closed", "reset"}, todo \in Seq(Byte), rest \in Seq(Byte) :
          /\ client' = [at |-> at, waits |-> client.waits, sent |-> client.sent, todo |-> todo,
                        answers |-> client.answers]
          /\ Line' \in Seq(Byte) /\ Line = Line' \o rest
    BY <1>0, StopFacts
  <1>2. server' = server /\ client.at # "none" BY <1>0, StopFacts
  <1>3. HttpType'
    <2>1. client' \in Clients BY <1>0, <1>1 DEF HttpType, Clients
    <2>2. server.at # "accept" BY <1>0, <1>2 DEF HttpType, NoClient
    <2> QED BY <1>0, <1>1, <1>2, <2>1, <2>2 DEF HttpType
  <1>4. PICK t, line : t = Line' /\ line = Line OBVIOUS
  <1>5. t \in Seq(Byte) /\ line \in Seq(Byte) /\ line = t \o rest
    BY <1>0, <1>1, <1>4, Places
  <1>6. Stream(client.sent, at, t)
    <2>1. Len(t) \in Nat /\ Len(rest) \in Nat BY <1>5, LenProperties
    <2>2. Len(t \o rest) = Len(t) + Len(rest) /\ \A i \in 1 .. Len(t) : (t \o rest)[i] = t[i]
      BY <1>5, Joined
    <2>3. 0 + Len(t) <= Len(line) /\ \A i \in 1 .. Len(t) : t[i] = line[0 + i]
      BY <1>5, <2>1, <2>2
    <2>4. 0 \in Nat /\ at # "open" OBVIOUS
    <2>5. t \in Seq(Byte) /\ line \in Seq(Byte) BY <1>5
    <2>6. Stream(client.sent, client.at, line) BY <1>0, <1>4
    <2> QED BY <2>3, <2>4, <2>5, <2>6, StreamPart
  <1> QED BY <1>1, <1>2, <1>3, <1>4, <1>6 DEF HttpInv

-----------------------------------------------------------------------------
(* The steps of the task *)

\* A connection on which nothing was sent.
LEMMA NewConnection ==
  ASSUME client' \in Clients, client'.sent = <<>>, client'.todo = <<>>,
         server' = Start \/ (server' = Accepting /\ client' = NoClient)
  PROVE  HttpInv'
  <1>1. Len(<<>>) = 0 /\ <<>> \o <<>> = <<>> BY EmptyFacts
  <1>2. /\ server' \in Tasks /\ server'.at \in {"head", "accept"} /\ server'.head = <<>>
        /\ server'.of = 0 /\ server'.len = 0 /\ server'.body = <<>>
        /\ server'.at = "accept" => client' = NoClient
    BY StartFacts
  <1>3. HttpType' BY <1>1, <1>2, HttpAssumption DEF HttpType
  <1>4. Line' = <<>> BY <1>1, <1>2 DEF Line, Read
  <1>5. Stream(client.sent, client.at, Line)' BY <1>1, <1>4 DEF Stream, OnePiece
  <1> QED BY <1>2, <1>3, <1>5 DEF HttpInv

LEMMA DoneStep == ASSUME Done PROVE HttpInv'
  <1>1. client' = NoClient /\ NoClient.sent = <<>> /\ NoClient.todo = <<>> BY DEF Done, NoClient
  <1> QED BY <1>1, NewConnection, StartFacts DEF Done

LEMMA AcceptStep == ASSUME Accept PROVE HttpInv'
  <1>1. PICK waits \in BOOLEAN : client' = [NoClient EXCEPT !.at = "open", !.waits = waits]
    BY DEF Accept
  <1>2. client' = [at |-> "open", waits |-> waits, sent |-> <<>>, todo |-> <<>>, answers |-> 0]
    BY <1>1 DEF NoClient
  <1>3. client' \in Clients
    <2>1. <<>> \in Seq(Byte) /\ <<>> \in Seq(Requests) BY EmptyFacts
    <2> QED BY <1>2, <2>1 DEF Clients
  <1> QED BY <1>2, <1>3, NewConnection DEF Accept

LEMMA WriteStep == ASSUME HttpInv, Write PROVE HttpInv'
  <1>0. HttpType BY DEF HttpInv
  <1>1. server.at = "write" /\ server' = Start /\ client' = [client EXCEPT !.answers = @ + 1]
    BY DEF Write
  <1>2. client' = [at |-> client.at, waits |-> client.waits, sent |-> client.sent,
                   todo |-> client.todo, answers |-> client.answers + 1]
        /\ client' \in Clients
    BY <1>0, <1>1 DEF HttpType, Clients
  <1>3. Line = client.todo /\ Line \in Seq(Byte) /\ Len(Line) \in Nat /\ After(Line, 0) = Line
    <2>1. Line = client.todo /\ Line \in Seq(Byte) BY <1>0, <1>1, Places
    <2>2. <<>> \o Line = Line /\ Len(<<>>) = 0 /\ <<>> \in Seq(Byte) BY <2>1, EmptyFacts
    <2> QED BY <2>1, <2>2, JoinedCut, LenProperties
  <1>4. 0 \in Nat /\ 0 <= Len(Line) /\ 0 <= Len(client.sent)
    BY <1>0, <1>3, Places, LenProperties
  <1> QED BY <1>1, <1>2, <1>3, <1>4, DropStep

LEMMA RouteStep == ASSUME HttpInv, Route PROVE HttpInv'
  <1>0. HttpType BY DEF HttpInv
  <1>1. server.at = "route" /\ server' = Respond(server.of) /\ client' = client BY DEF Route
  <1>2. Line = client.todo /\ Line \in Seq(Byte) /\ Len(Line) \in Nat /\ After(Line, 0) = Line
    <2>1. Line = client.todo /\ Line \in Seq(Byte) BY <1>0, <1>1, Places
    <2>2. <<>> \o Line = Line /\ Len(<<>>) = 0 /\ <<>> \in Seq(Byte) BY <2>1, EmptyFacts
    <2> QED BY <2>1, <2>2, JoinedCut, LenProperties
  <1>3. server.of \in Nat /\ server.of <= Len(client.sent) /\ client \in Clients
    BY <1>0 DEF HttpType, Tasks
  <1>4. 0 \in Nat /\ 0 <= Len(Line) BY <1>2
  <1> QED BY <1>1, <1>2, <1>3, <1>4, DropStep

\* A read takes n bytes of those to come, and there is room for them.
LEMMA ReceiveFacts ==
  ASSUME HttpType, NEW n \in Nat, NEW room \in Int, Receive(n, room)
  PROVE  /\ n <= Len(client.todo) /\ n <= room /\ client' \in Clients
         /\ client'.at = client.at /\ client'.sent = client.sent /\ client'.waits = client.waits
         /\ client'.answers = client.answers
         /\ SubSeq(client.todo, 1, n) \in Seq(Byte) /\ Len(SubSeq(client.todo, 1, n)) = n
         /\ client'.todo \in Seq(Byte)
         /\ client.todo = SubSeq(client.todo, 1, n) \o client'.todo
  <1>1. client.todo \in Seq(Byte) /\ Len(client.todo) \in Nat BY Places, LenProperties
  <1>2. n <= Len(client.todo) /\ n <= room BY <1>1 DEF Receive, Least
  <1>3. PICK s, rest : s = client.todo /\ rest = After(client.todo, n) OBVIOUS
  <1>4. /\ SubSeq(s, 1, n) \in Seq(Byte) /\ Len(SubSeq(s, 1, n)) = n
        /\ rest \in Seq(Byte) /\ SubSeq(s, 1, n) \o rest = s
    <2>1. s \in Seq(Byte) /\ n <= Len(s) /\ rest = After(s, n) BY <1>1, <1>2, <1>3
    <2> QED BY <2>1, Cut
  <1>5. client' = [at |-> client.at, waits |-> client.waits, sent |-> client.sent,
                   todo |-> rest, answers |-> client.answers]
    BY <1>3 DEF HttpType, Clients, Receive
  <1>6. client' \in Clients BY <1>4, <1>5 DEF HttpType, Clients
  <1> QED BY <1>2, <1>3, <1>4, <1>5, <1>6

\* The task has some of a body, or all of it; rest is what came with it and is
\* not part of it.
LEMMA BodyStep ==
  ASSUME HttpInv, NEW head \in Seq(Byte), Len(head) <= HEADER_BUF_SIZE,
         NEW n \in Nat, n <= Len(client.sent), NEW len \in Nat, len <= BODY_BUF_SIZE,
         HeadRead(client.sent, head, n, len), NEW body \in Seq(Byte), Len(body) <= len,
         server' = WithBody(head, n, len, body), client' \in Clients,
         client'.sent = client.sent, client'.at = client.at,
         NEW rest \in Seq(Byte), Len(body) < len => rest = <<>>,
         Line = ((head \o body) \o rest) \o client'.todo
  PROVE  HttpInv'
  <1>0. HttpType /\ Stream(client.sent, client.at, Line) BY DEF HttpInv
  <1>1. PICK s, t : s = head \o body /\ t = client'.todo OBVIOUS
  <1>2. s \in Seq(Byte) /\ t \in Seq(Byte) BY <1>1, Joined DEF Clients
  <1>3. PICK line : line = Line OBVIOUS
  <1>4. line \in Seq(Byte) /\ line = (s \o rest) \o t BY <1>0, <1>1, <1>3, Places
  <1>5. Len(s) \in Nat /\ Len(t) \in Nat /\ Len(rest) \in Nat /\ Len(line) \in Nat
        /\ Len(body) \in Nat
    BY <1>2, <1>4, LenProperties
  <1>6. PICK u : u = s \o rest OBVIOUS
  <1>7. /\ u \in Seq(Byte) /\ Len(u) = Len(s) + Len(rest)
        /\ \A i \in 1 .. Len(s) : u[i] = s[i]
    BY <1>2, <1>6, Joined
  <1>8. /\ Len(line) = Len(u) + Len(t)
        /\ \A i \in 1 .. Len(u) : line[i] = u[i]
        /\ \A i \in 1 .. Len(t) : line[Len(u) + i] = t[i]
    BY <1>2, <1>4, <1>6, <1>7, Joined
  <1>9. Stream(client.sent, "closed", s)
    <2>1. 0 \in Nat /\ 0 + Len(s) <= Len(line) /\ "closed" # "open" BY <1>5, <1>7, <1>8
    <2>2. \A i \in 1 .. Len(s) : s[i] = line[0 + i] BY <1>5, <1>7, <1>8
    <2>3. Stream(client.sent, client.at, line) BY <1>0, <1>3
    <2>4. s \in Seq(Byte) /\ line \in Seq(Byte) BY <1>2, <1>4
    <2> QED BY <2>1, <2>2, <2>3, <2>4, StreamPart
  <1>10. Stream(client.sent, client.at, t)
    <2>1. PICK m \in Nat : m = Len(u) BY <1>5, <1>7
    <2>2. /\ m + Len(t) <= Len(line) /\ m + Len(t) = Len(line)
          /\ \A i \in 1 .. Len(t) : t[i] = line[m + i]
      BY <1>5, <1>8, <2>1
    <2>3. Stream(client.sent, client.at, line) BY <1>0, <1>3
    <2>4. t \in Seq(Byte) /\ line \in Seq(Byte) BY <1>2, <1>4
    <2> QED BY <2>1, <2>2, <2>3, <2>4, StreamPart
  <1>11. /\ server' = [at |-> IF Len(body) = len THEN "route" ELSE "body",
                       head |-> head, of |-> n, len |-> len, body |-> body]
         /\ server' \in Tasks
    BY DEF WithBody, Tasks
  <1>12. HttpType' BY <1>0, <1>11 DEF HttpType
  <1>13. Stream(client.sent, client.at, Line)'
    <2>1. CASE Len(body) = len
      <3>1. Line' = t
        <4>1. Read' = <<>> BY <1>11, <2>1 DEF Read
        <4> QED BY <1>1, <1>2, <4>1, EmptyFacts DEF Line
      <3> QED BY <1>10, <3>1
    <2>2. CASE Len(body) # len
      <3>1. u = s
        <4>1. rest = <<>> BY <1>5, <2>2
        <4> QED BY <1>2, <1>6, <4>1, EmptyFacts
      <3>2. Line' = s \o t
        <4>1. Read' = s BY <1>1, <1>11, <2>2 DEF Read
        <4> QED BY <1>1, <4>1 DEF Line
      <3>3. Line' = Line BY <1>3, <1>4, <1>6, <3>1, <3>2
      <3> QED BY <1>0, <3>3
    <2> QED BY <2>1, <2>2
  <1>14. Len(body) # len => Len(body) < len BY <1>5
  <1> QED BY <1>1, <1>9, <1>11, <1>12, <1>13, <1>14 DEF HttpInv

LEMMA ReadBodyFacts ==
  ASSUME HttpInv, ReadBody
  PROVE  /\ server.at = "body" /\ server.len \in Nat
         /\ client' \in Clients /\ client'.sent = client.sent /\ client'.at = client.at
         /\ client'.waits = client.waits /\ client'.answers = client.answers
         /\ \E body \in Seq(Byte) :
              /\ server' = WithBody(server.head, server.of, server.len, body)
              /\ Len(body) <= server.len
              /\ server.body \o client.todo = body \o client'.todo
  <1>0. HttpType BY DEF HttpInv
  <1>1. PICK n \in 1 .. Len(client.todo) :
          /\ Receive(n, server.len - Len(server.body))
          /\ server' = WithBody(server.head, server.of, server.len,
                                server.body \o SubSeq(client.todo, 1, n))
    BY DEF ReadBody
  <1>2. /\ server.body \in Seq(Byte) /\ server.len \in Nat /\ Len(server.body) \in Nat
        /\ Len(client.todo) \in Nat
    BY <1>0, Places, LenProperties
  <1>3. n \in Nat /\ server.len - Len(server.body) \in Int BY <1>2
  <1>4. PICK new : new = SubSeq(client.todo, 1, n) OBVIOUS
  <1>5. /\ n <= server.len - Len(server.body) /\ client' \in Clients
        /\ client'.at = client.at /\ client'.sent = client.sent
        /\ client'.waits = client.waits /\ client'.answers = client.answers
        /\ new \in Seq(Byte) /\ Len(new) = n
        /\ client'.todo \in Seq(Byte) /\ client.todo = new \o client'.todo
    BY <1>0, <1>1, <1>3, <1>4, ReceiveFacts
  <1>6. server.body \o new \in Seq(Byte) /\ Len(server.body \o new) = Len(server.body) + n
    BY <1>2, <1>5, Joined
  <1>7. Len(server.body \o new) <= server.len BY <1>2, <1>3, <1>5, <1>6
  <1>8. server.body \o client.todo = (server.body \o new) \o client'.todo
    <2>1. PICK t : t = client'.todo OBVIOUS
    <2>2. t \in Seq(Byte) /\ client.todo = new \o t BY <1>5, <2>1
    <2>3. (server.body \o new) \o t = server.body \o (new \o t)
      BY <1>2, <1>5, <2>2, JoinAssociative
    <2> QED BY <2>1, <2>2, <2>3
  <1>9. server.at = "body" BY DEF ReadBody
  <1> QED BY <1>1, <1>2, <1>4, <1>5, <1>6, <1>7, <1>8, <1>9

LEMMA ReadBodyStep == ASSUME HttpInv, ReadBody PROVE HttpInv'
  <1>0. HttpType BY DEF HttpInv
  <1>1. /\ server.at = "body" /\ server.len \in Nat
        /\ client' \in Clients /\ client'.sent = client.sent /\ client'.at = client.at
    BY ReadBodyFacts
  <1>2. PICK body \in Seq(Byte) :
          /\ server' = WithBody(server.head, server.of, server.len, body)
          /\ Len(body) <= server.len
          /\ server.body \o client.todo = body \o client'.todo
    BY ReadBodyFacts
  <1>3. /\ server.head \in Seq(Byte) /\ server.body \in Seq(Byte) /\ client.todo \in Seq(Byte)
        /\ Line = (server.head \o server.body) \o client.todo
    BY <1>0, <1>1, Places DEF Line
  <1>4. <<>> \in Seq(Byte) /\ client'.todo \in Seq(Byte) BY <1>1, EmptyFacts DEF Clients
  <1>5. Line = ((server.head \o body) \o <<>>) \o client'.todo
    <2>1. (server.head \o server.body) \o client.todo = server.head \o (server.body \o client.todo)
      <3>1. server.head \in Seq(Byte) /\ server.body \in Seq(Byte) /\ client.todo \in Seq(Byte)
        BY <1>3
      <3>2. \A h, b, c \in Seq(Byte) : (h \o b) \o c = h \o (b \o c) BY JoinAssociative
      <3> QED BY <3>1, <3>2, Zenon
    <2>2. PICK t : t = client'.todo OBVIOUS
    <2>3. (server.head \o body) \o t = server.head \o (body \o t)
      <3>1. server.head \in Seq(Byte) /\ t \in Seq(Byte) BY <1>3, <1>4, <2>2
      <3> QED BY <3>1, JoinAssociative
    <2>4. (server.head \o body) \o <<>> = server.head \o body
      <3>1. server.head \o body \in Seq(Byte) BY <1>3, Joined
      <3> QED BY <3>1, EmptyFacts
    <2> QED BY <1>2, <1>3, <2>1, <2>2, <2>3, <2>4
  <1>6. /\ server.of \in Nat /\ server.of <= Len(client.sent) /\ server.len <= BODY_BUF_SIZE
        /\ Len(server.head) <= HEADER_BUF_SIZE
    BY <1>0, Places DEF HttpType
  <1>7. HeadRead(client.sent, server.head, server.of, server.len) BY <1>1 DEF HttpInv
  <1> QED BY <1>1, <1>2, <1>3, <1>4, <1>5, <1>6, <1>7, BodyStep

\* What the task has of a head after a read, and what it does with it.
HeadStep(all) ==
  LET ends == Ends(all, 0)
  IN  /\ all \in Seq(Byte) /\ Len(all) <= HEADER_BUF_SIZE /\ Len(server.head) < Len(all)
      /\ client' \in Clients /\ client'.at = client.at /\ client'.sent = client.sent
      /\ client'.waits = client.waits /\ client'.answers = client.answers
      /\ Line = all \o client'.todo
      /\ \/ TooLarge(all, ends) /\ server' = Respond(0)
         \/ ~TooLarge(all, ends) /\ ends = {} /\ server' = [server EXCEPT !.head = all]
         \/ ends # {} /\ Parse(SubSeq(all, 1, HeadLen(ends)), After(all, HeadLen(ends)))

LEMMA ReadHeadFacts == ASSUME HttpType, ReadHead PROVE \E all : HeadStep(all)
  <1>1. /\ server.at = "head" /\ server.head \in Seq(Byte) /\ Read = server.head
        /\ Len(server.head) \in Nat /\ HEADER_BUF_SIZE \in Nat
    BY Places, LenProperties DEF ReadHead
  <1>2. PICK n \in 1 .. HEADER_BUF_SIZE :
          /\ Receive(n, HEADER_BUF_SIZE - Len(server.head))
          /\ LET head == server.head \o SubSeq(client.todo, 1, n)
                 ends == Ends(head, Len(server.head))
             IN  \/ TooLarge(head, ends) /\ server' = Respond(0)
                 \/ ~TooLarge(head, ends) /\ ends = {} /\ server' = [server EXCEPT !.head = head]
                 \/ ends # {} /\ Parse(SubSeq(head, 1, HeadLen(ends)), After(head, HeadLen(ends)))
    BY DEF ReadHead
  <1>3. n \in Nat /\ HEADER_BUF_SIZE - Len(server.head) \in Int BY <1>1
  <1>4. PICK new : new = SubSeq(client.todo, 1, n) OBVIOUS
  <1>5. /\ n <= HEADER_BUF_SIZE - Len(server.head) /\ client' \in Clients
        /\ client'.at = client.at /\ client'.sent = client.sent
        /\ client'.waits = client.waits /\ client'.answers = client.answers
        /\ new \in Seq(Byte) /\ Len(new) = n
        /\ client'.todo \in Seq(Byte) /\ client.todo = new \o client'.todo
    BY <1>2, <1>3, <1>4, ReceiveFacts
  <1>6. PICK all : all = server.head \o new OBVIOUS
  <1>7. all \in Seq(Byte) /\ Len(all) = Len(server.head) + n BY <1>1, <1>5, <1>6, Joined
  <1>8. Len(all) <= HEADER_BUF_SIZE /\ Len(server.head) < Len(all) BY <1>1, <1>3, <1>5, <1>7
  <1>9. Line = all \o client'.todo
    <2>1. server.head \o (new \o client'.todo) = (server.head \o new) \o client'.todo
      BY <1>1, <1>5, JoinAssociative
    <2> QED BY <1>1, <1>5, <1>6, <2>1 DEF Line
  <1>10. Ends(all, Len(server.head)) = Ends(all, 0) BY DEF Ends
  <1>11. HeadStep(all)
    <2>1. \/ TooLarge(all, Ends(all, 0)) /\ server' = Respond(0)
          \/ ~TooLarge(all, Ends(all, 0)) /\ Ends(all, 0) = {} /\ server' = [server EXCEPT !.head = all]
          \/ /\ Ends(all, 0) # {}
             /\ Parse(SubSeq(all, 1, HeadLen(Ends(all, 0))), After(all, HeadLen(Ends(all, 0))))
      BY <1>2, <1>4, <1>6, <1>10
    <2> QED BY <1>5, <1>7, <1>8, <1>9, <2>1 DEF HeadStep
  <1> QED BY <1>11

\* The first blank line is where the head is cut, and the only one in it.
LEMMA EndFacts ==
  ASSUME NEW all \in Seq(Byte), Ends(all, 0) # {}
  PROVE  /\ HeadLen(Ends(all, 0)) \in Nat /\ HeadLen(Ends(all, 0)) <= Len(all)
         /\ HeadLen(Ends(all, 0)) - 1 \in Ends(all, 0)
         /\ \A p \in Ends(all, 0) : HeadLen(Ends(all, 0)) - 1 <= p
         /\ LET head == SubSeq(all, 1, HeadLen(Ends(all, 0)))
            IN  Ends(head, 0) = {Len(head) - 1}
  <1>1. Len(all) \in Nat BY LenProperties
  <1>2. PICK e : e = Ends(all, 0) OBVIOUS
  <1>3. e \subseteq Nat /\ e # {} BY <1>1, <1>2 DEF Ends
  <1>4. PICK m : m = Min(e) OBVIOUS
  <1>5. m \in e /\ \A p \in e : m <= p BY <1>3, <1>4, LeastNumber
  <1>6. m \in 1 .. Len(all) - 1 /\ all[m].crlf /\ all[m + 1].crlf BY <1>2, <1>5 DEF Ends
  <1>7. PICK end : end = m + 1 OBVIOUS
  <1>8. end \in Nat /\ end <= Len(all) /\ end - 1 = m /\ HeadLen(e) = end
    BY <1>1, <1>4, <1>6, <1>7 DEF HeadLen
  <1>9. PICK head : head = SubSeq(all, 1, end) OBVIOUS
  <1>10. Len(head) = end /\ \A i \in 1 .. end : head[i] = all[i] BY <1>8, <1>9, Cut
  <1>11. ASSUME NEW p \in Ends(head, 0) PROVE p = m
    <2>1. p \in 1 .. end - 1 /\ head[p].crlf /\ head[p + 1].crlf BY <1>10, <1>11 DEF Ends
    <2>2. p \in 1 .. end /\ p + 1 \in 1 .. end /\ p \in 1 .. Len(all) - 1 /\ p <= m
      BY <1>1, <1>8, <2>1
    <2>3. p \in e BY <1>2, <1>10, <2>1, <2>2 DEF Ends
    <2> QED BY <1>5, <1>6, <2>2, <2>3
  <1>12. m \in Ends(head, 0)
    <2>1. m \in 1 .. end - 1 /\ m \in 1 .. end /\ m + 1 \in 1 .. end BY <1>6, <1>7
    <2> QED BY <1>6, <1>10, <2>1 DEF Ends
  <1>13. Ends(head, 0) = {Len(head) - 1} BY <1>8, <1>10, <1>11, <1>12
  <1> QED BY <1>2, <1>5, <1>8, <1>9, <1>13

LEMMA ReadHeadStep == ASSUME HttpInv, ReadHead PROVE HttpInv'
  <1>0. HttpType /\ Stream(client.sent, client.at, Line) /\ server.at = "head"
    BY DEF HttpInv, ReadHead
  <1>1. PICK all : HeadStep(all) BY <1>0, ReadHeadFacts
  <1>2. /\ all \in Seq(Byte) /\ Len(all) <= HEADER_BUF_SIZE
        /\ client' \in Clients /\ client'.at = client.at /\ client'.sent = client.sent
        /\ Line = all \o client'.todo
    BY <1>1 DEF HeadStep
  <1>3. /\ Line \in Seq(Byte) /\ client'.todo \in Seq(Byte) /\ client.sent \in Seq(Requests)
        /\ Len(client.sent) \in Nat /\ Len(client.sent) <= MaxRequests
        /\ Len(all) \in Nat /\ HEADER_BUF_SIZE \in Nat /\ BODY_BUF_SIZE \in Nat
    BY <1>0, <1>2, Places, LenProperties DEF Clients
  <1>4. PICK t : t = client'.todo OBVIOUS
  <1>5. Len(all) <= Len(Line) /\ After(Line, Len(all)) = t
    <2>1. t \in Seq(Byte) /\ Line = all \o t BY <1>2, <1>3, <1>4
    <2>2. Len(all \o t) = Len(all) + Len(t) /\ Len(t) \in Nat BY <1>2, <2>1, Joined, LenProperties
    <2>3. After(all \o t, Len(all)) = t BY <1>2, <2>1, JoinedCut
    <2> QED BY <1>3, <2>1, <2>2, <2>3
  <1>6. ASSUME NEW n \in Nat, n <= Len(client.sent), server' = Respond(n) PROVE HttpInv'
    BY <1>2, <1>3, <1>4, <1>5, <1>6, DropStep
  <1>7. CASE Ends(all, 0) = {} /\ TooLarge(all, Ends(all, 0)) /\ server' = Respond(0)
    <2>1. 0 \in Nat /\ 0 <= Len(client.sent) BY <1>3
    <2> QED BY <1>6, <1>7, <2>1
  <1>8. CASE ~TooLarge(all, Ends(all, 0)) /\ Ends(all, 0) = {} /\ server' = [server EXCEPT !.head = all]
    <2>1. /\ server' = [at |-> "head", head |-> all, of |-> server.of, len |-> server.len,
                        body |-> server.body]
          /\ server.body = <<>> /\ server' \in Tasks
      BY <1>0, <1>2, <1>8 DEF HttpType, Tasks
    <2>2. Len(all) < HEADER_BUF_SIZE BY <1>3, <1>8 DEF TooLarge
    <2>3. HttpType' BY <1>0, <1>2, <2>1, <2>2 DEF HttpType
    <2>4. Read' = all BY <1>2, <2>1, EmptyFacts DEF Read
    <2>5. Line' = Line BY <1>2, <2>4 DEF Line
    <2> QED BY <1>0, <1>2, <2>1, <2>3, <2>5 DEF HttpInv
  <1>9. CASE /\ Ends(all, 0) # {}
             /\ Parse(SubSeq(all, 1, HeadLen(Ends(all, 0))), After(all, HeadLen(Ends(all, 0))))
    <2>1. PICK end : end = HeadLen(Ends(all, 0)) OBVIOUS
    <2>2. PICK head, more : head = SubSeq(all, 1, end) /\ more = After(all, end) OBVIOUS
    <2>3. end \in Nat /\ end <= Len(all) /\ Ends(head, 0) = {Len(head) - 1}
      BY <1>2, <1>9, <2>1, <2>2, EndFacts
    <2>4. /\ head \in Seq(Byte) /\ Len(head) = end /\ more \in Seq(Byte)
          /\ all = head \o more
      BY <1>2, <2>2, <2>3, Cut
    <2>5. Len(head) <= HEADER_BUF_SIZE BY <1>2, <1>3, <2>3, <2>4
    <2>6. ASSUME NEW n \in Nat, n <= Len(client.sent), NEW len \in Nat, len <= BODY_BUF_SIZE,
                 HeadRead(client.sent, head, n, len),
                 server' = WithBody(head, n, len, AlreadyRead(more, len))
          PROVE  HttpInv'
      <3>1. PICK k \in Nat : k = Least(Len(more), len) /\ k <= Len(more) /\ k <= len
                             /\ (k < len => k = Len(more))
        BY <2>4, LenProperties DEF Least
      <3>2. PICK body, rest : body = SubSeq(more, 1, k) /\ rest = After(more, k) OBVIOUS
      <3>3. /\ body \in Seq(Byte) /\ Len(body) = k /\ rest \in Seq(Byte)
            /\ Len(rest) = Len(more) - k /\ more = body \o rest
        BY <2>4, <3>1, <3>2, Cut
      <3>4. Len(body) <= len /\ (Len(body) < len => rest = <<>>)
        <4>1. k = Len(more) => Len(rest) = 0 BY <3>1, <3>3
        <4> QED BY <3>1, <3>3, <4>1, EmptyFacts
      <3>5. server' = WithBody(head, n, len, body) BY <2>6, <3>1, <3>2 DEF AlreadyRead
      <3>6. Line = ((head \o body) \o rest) \o client'.todo
        <4>1. head \in Seq(Byte) /\ body \in Seq(Byte) /\ rest \in Seq(Byte) BY <2>4, <3>3
        <4>2. head \o (body \o rest) = (head \o body) \o rest BY <4>1, JoinAssociative
        <4> QED BY <1>2, <2>4, <3>3, <4>2
      <3> QED BY <1>2, <2>4, <2>5, <2>6, <3>3, <3>4, <3>5, <3>6, BodyStep
    <2>7. CASE \E n \in Parsed(head) :
                 server' = IF client.sent[n].kind = "refused" THEN Respond(n)
                           ELSE WithBody(head, n, ContentLength(n), AlreadyRead(more, ContentLength(n)))
      <3>1. PICK n \in Parsed(head) :
              server' = IF client.sent[n].kind = "refused" THEN Respond(n)
                        ELSE WithBody(head, n, ContentLength(n), AlreadyRead(more, ContentLength(n)))
        BY <2>7
      <3>2. n \in 1 .. Len(client.sent) /\ head = HeadBytes(n, client.sent[n])
        BY <1>3, LenProperties DEF Parsed
      <3>3. n \in Nat /\ n <= Len(client.sent) BY <1>3, <3>2
      <3>4. PICK len \in Nat :
              /\ len = ContentLength(n) /\ len <= BODY_BUF_SIZE
              /\ HeadRead(client.sent, head, n, len)
        <4>1. client.sent[n] \in Requests BY <1>3, <3>2, SentFacts
        <4>2. ContentLength(n) \in Nat /\ ContentLength(n) <= BODY_BUF_SIZE
          BY <1>3, <4>1, RequestFacts DEF ContentLength
        <4>3. HeadRead(client.sent, head, n, ContentLength(n))
          BY <2>3, <3>2 DEF HeadRead, ContentLength
        <4> QED BY <4>2, <4>3
      <3> QED BY <1>6, <2>6, <3>1, <3>3, <3>4
    <2>8. CASE server' = Respond(0)
      <3>1. 0 \in Nat /\ 0 <= Len(client.sent) BY <1>3
      <3> QED BY <1>6, <2>8, <3>1
    <2>9. CASE \E len \in 0 .. BODY_BUF_SIZE : server' = WithBody(head, 0, len, AlreadyRead(more, len))
      <3>1. PICK len \in 0 .. BODY_BUF_SIZE : server' = WithBody(head, 0, len, AlreadyRead(more, len))
        BY <2>9
      <3>2. len \in Nat /\ len <= BODY_BUF_SIZE /\ 0 \in Nat /\ 0 <= Len(client.sent) BY <1>3
      <3>3. HeadRead(client.sent, head, 0, len) BY <2>3 DEF HeadRead
      <3> QED BY <2>6, <3>1, <3>2, <3>3
    <2> QED BY <1>9, <2>1, <2>2, <2>7, <2>8, <2>9 DEF Parse
  <1> QED BY <1>1, <1>7, <1>8, <1>9 DEF HeadStep, TooLarge

-----------------------------------------------------------------------------
(* What is routed *)

LEMMA InitHttpInv == Init => HttpInv
  <1> SUFFICES ASSUME Init PROVE HttpInv OBVIOUS
  <1>1. Len(<<>>) = 0 /\ <<>> \o <<>> = <<>> BY EmptyFacts
  <1>2. server = [at |-> "accept", head |-> <<>>, of |-> 0, len |-> 0, body |-> <<>>]
        /\ server \in Tasks /\ client = NoClient /\ client \in Clients
    BY StartFacts DEF Init
  <1>3. client.sent = <<>> /\ client.todo = <<>> BY <1>2 DEF NoClient
  <1>4. HttpType BY <1>1, <1>2, <1>3, HttpAssumption DEF HttpType
  <1>5. Line = <<>> BY <1>1, <1>2, <1>3 DEF Line, Read
  <1>6. Stream(client.sent, client.at, Line) BY <1>1, <1>5 DEF Stream, OnePiece
  <1> QED BY <1>2, <1>4, <1>6 DEF HttpInv

LEMMA NextHttpInv == HttpInv /\ [Next]_vars => HttpInv'
  <1> SUFFICES ASSUME HttpInv, [Next]_vars PROVE HttpInv' OBVIOUS
  <1>1. CASE UNCHANGED vars
    <2>1. server' = server /\ client' = client BY <1>1 DEF vars
    <2>2. HttpType' BY <2>1 DEF HttpInv, HttpType
    <2>3. Line' = Line BY <2>1 DEF Line, Read
    <2> QED BY <2>1, <2>2, <2>3 DEF HttpInv
  <1>2. CASE ReadEnd \/ WriteFails BY <1>2, DoneStep DEF ReadEnd, WriteFails
  <1> QED BY <1>1, <1>2, SendStep, StopStep, AcceptStep, ReadHeadStep, ReadBodyStep, RouteStep,
             WriteStep DEF Next, Serve

\* The bytes after a head that was found are the body it belongs to.
LEMMA BodyFollows ==
  ASSUME HttpInv, server.at = "route", server.of > 0
  PROVE  server.body = BodyBytes(server.of, client.sent[server.of], ContentLength(server.of))
  <1>0. HttpType BY DEF HttpInv
  <1>1. /\ client.sent \in Seq(Requests) /\ Len(client.sent) \in Nat
        /\ Len(client.sent) <= MaxRequests /\ MaxRequests \in Nat /\ server.of \in Nat
        /\ server.of <= Len(client.sent)
        /\ server.head \in Seq(Byte) /\ server.body \in Seq(Byte)
    BY <1>0, Places, LenProperties DEF HttpType
  <1>2. PICK n : n = server.of OBVIOUS
  <1>3. n \in 1 .. Len(client.sent) /\ n \in 1 .. MaxRequests BY <1>1, <1>2
  <1>4. PICK r \in Requests : r = client.sent[n] BY <1>1, <1>3, SentFacts
  <1>5. PICK l \in Nat, b \in Nat, len \in Nat :
          l = r.lines + 2 /\ b = r.body /\ len = ContentLength(n) /\ len <= b /\ Size(r) = l + b
    <2>1. r.lines + 2 \in Nat /\ r.body \in Nat /\ Size(r) = r.lines + 2 + r.body
      BY RequestFacts
    <2>2. ContentLength(n) \in {0, r.body} BY <1>4 DEF ContentLength
    <2> QED BY <2>1, <2>2
  <1>6. PICK head, body : head = server.head /\ body = server.body OBVIOUS
  <1>7. /\ head \in Seq(Byte) /\ Len(head) = l /\ \A k \in 1 .. l : head[k] = ByteOf(n, r, k)
    <2>1. head = HeadBytes(n, r) BY <1>2, <1>4, <1>6 DEF HttpInv, HeadRead
    <2> QED BY <1>3, <1>5, <2>1, HeadBytesFacts
  <1>8. body \in Seq(Byte) /\ Len(body) = len
    BY <1>1, <1>2, <1>5, <1>6 DEF HttpInv, HeadRead, ContentLength
  <1>9. PICK s : s = head \o body OBVIOUS
  <1>10. /\ s \in Seq(Byte) /\ Len(s) = l + len
         /\ \A k \in 1 .. l : s[k] = ByteOf(n, r, k)
         /\ \A k \in 1 .. len : s[l + k] = body[k]
    <2>1. /\ head \o body \in Seq(Byte) /\ Len(head \o body) = Len(head) + Len(body)
          /\ \A k \in 1 .. Len(head) : (head \o body)[k] = head[k]
          /\ \A k \in 1 .. Len(body) : (head \o body)[Len(head) + k] = body[k]
      <3>1. head \in Seq(Byte) /\ body \in Seq(Byte) BY <1>7, <1>8
      <3> QED BY <3>1, Joined
    <2> QED BY <1>7, <1>8, <1>9, <2>1
  <1>11. Stream(client.sent, "closed", s) BY <1>6, <1>9 DEF HttpInv
  <1> DEFINE bad == {i \in 1 .. l + len : ~(s[i].of = n /\ s[i].at = i)}
  <1>12. bad = {}
    <2> SUFFICES ASSUME bad # {} PROVE FALSE OBVIOUS
    <2>1. bad \subseteq Nat OBVIOUS
    <2> HIDE DEF bad
    <2>2. PICK i : i \in bad /\ \A j \in bad : i <= j BY <2>1, LeastNumber
    <2>3. i \in 1 .. l + len /\ ~(s[i].of = n /\ s[i].at = i) BY <2>2 DEF bad
    <2>4. i > l
      <3>1. ~(i \in 1 .. l) BY <1>10, <2>3, ByteFields
      <3> QED BY <2>3, <3>1
    <2>5. PICK j : j = i - 1 OBVIOUS
    <2>6. j \in 1 .. l + len /\ j < i /\ i = j + 1 /\ j \in 1 .. Len(s) - 1 /\ j \notin bad
      <3>1. r.lines \in Nat BY RequestFacts
      <3>2. l > 0 BY <1>5, <3>1
      <3>3. j \in 1 .. l + len /\ j < i /\ i = j + 1 /\ j \in 1 .. Len(s) - 1
        BY <1>10, <2>3, <2>4, <2>5, <3>2
      <3>4. j \notin bad
        <4>1. ~(i <= j) BY <3>3, <2>3
        <4> QED BY <2>2, <4>1
      <3> QED BY <3>3, <3>4
    <2>7. s[j].of = n /\ s[j].at = j BY <2>6 DEF bad
    <2>8. Follows(client.sent, s[j], s[i]) BY <1>11, <2>6 DEF Stream, OnePiece
    <2>9. j # Size(client.sent[n])
      <3>1. j < l + b BY <1>5, <2>3, <2>6
      <3> QED BY <1>4, <1>5, <3>1
    <2> QED BY <2>3, <2>6, <2>7, <2>8, <2>9 DEF Follows
  <1>13. ASSUME NEW k \in 1 .. len PROVE body[k] = ByteOf(n, r, r.lines + 2 + k)
    <2>1. l + k \in 1 .. l + len /\ l + k \in 1 .. Len(s) BY <1>10
    <2>2. s[l + k].of = n /\ s[l + k].at = l + k BY <1>12, <2>1
    <2>3. IsSent(client.sent, s[l + k]) BY <1>11, <2>1 DEF Stream
    <2>4. s[l + k] = ByteOf(n, r, l + k) BY <1>4, <2>2, <2>3 DEF IsSent
    <2> QED BY <1>5, <1>10, <2>4
  <1>14. PICK t : t = BodyBytes(n, r, len) OBVIOUS
  <1>15. /\ t \in Seq(Byte) /\ Len(t) = len
         /\ \A k \in 1 .. len : t[k] = ByteOf(n, r, r.lines + 2 + k)
    BY <1>3, <1>14, BodyBytesFacts
  <1>16. body = t BY <1>8, <1>13, <1>15, SeqEqual
  <1> QED BY <1>2, <1>4, <1>5, <1>6, <1>14, <1>16

LEMMA HttpInvParts == HttpInv => TypeOK /\ RoutedInOnePiece
  <1> SUFFICES ASSUME HttpInv PROVE TypeOK /\ RoutedInOnePiece OBVIOUS
  <1>1. HttpType BY DEF HttpInv
  <1>2. TypeOK
    <2>1. /\ {server.head, server.body, client.todo} \subseteq Seq(Byte)
          /\ server.of \in 0 .. Len(client.sent)
      <3>1. server.of \in Nat /\ server.of <= Len(client.sent) /\ Len(client.sent) \in Nat
        BY <1>1, Places, LenProperties DEF HttpType
      <3>2. server.head \in Seq(Byte) /\ server.body \in Seq(Byte) /\ client.todo \in Seq(Byte)
        BY <1>1, Places
      <3> QED BY <3>1, <3>2
    <2> QED BY <1>1, <2>1 DEF TypeOK, HttpType, Tasks, Clients
  <1>3. RoutedInOnePiece BY DEF HttpInv, RoutedInOnePiece, HeadRead, Stream
  <1> QED BY <1>2, <1>3

\* The buffers hold what is read, and what places say fits.
THEOREM HttpTypeCorrect == Spec => []TypeOK
  BY InitHttpInv, NextHttpInv, HttpInvParts, PTL DEF Spec

\* Whatever is routed, were it left over from a request that was refused or not
\* read, is bytes up to the first blank line and those next to them, as many as
\* they state: for buffers and requests of any size, wherever reads cut them.
THEOREM RoutedWhole == Spec => []RoutedInOnePiece
  BY InitHttpInv, NextHttpInv, HttpInvParts, PTL DEF Spec

-----------------------------------------------------------------------------
(* Requests in order *)

\* A client that waits and was answered whole requests has one at most that is
\* not answered, and the task is at it.
InOrder ==
  Orderly =>
    LET n == Len(client.sent)
    IN  \/ client.answers = n /\ server.at \in {"accept", "head"} /\ Line = <<>>
        \/ /\ client.answers + 1 = n
           /\ \/ /\ server.at = "head"
                 /\ Len(Line) <= Size(client.sent[n])
                 /\ \A i \in 1 .. Len(Line) : Line[i] = ByteOf(n, client.sent[n], i)
              \/ /\ server.at = "body" /\ server.of = n
                 /\ Len(server.body) + Len(client.todo) <= client.sent[n].body
              \/ /\ server.at = "route" /\ server.of = n
                 /\ ReadWhole(client.sent[n]) => client.todo = <<>>
              \/ /\ server.at = "write"
                 /\ server.of = n \/ client.sent[n].lines + 2 > HEADER_BUF_SIZE
                 /\ ReadWhole(client.sent[n]) => client.todo = <<>>

\* The first blank line in what a request starts with is the end of its head.
LEMMA FirstBlank ==
  ASSUME NEW n \in 1 .. MaxRequests, NEW r \in Requests, NEW all \in Seq(Byte),
         Len(all) <= Size(r), \A i \in 1 .. Len(all) : all[i] = ByteOf(n, r, i)
  PROVE  /\ Ends(all, 0) = {} <=> Len(all) < r.lines + 2
         /\ Ends(all, 0) # {} =>
              /\ HeadLen(Ends(all, 0)) = r.lines + 2
              /\ SubSeq(all, 1, r.lines + 2) = HeadBytes(n, r)
  <1>1. PICK l \in Nat \ {0} : l = r.lines BY RequestFacts
  <1>2. Len(all) \in Nat /\ r.blank \in Nat BY RequestFacts, LenProperties
  <1>3. \A i \in 1 .. Len(all) : all[i].crlf = EndsLine(r, i) BY ByteFields
  <1>4. ASSUME NEW p \in Ends(all, 0) PROVE p >= l + 1 /\ p \in 1 .. Len(all) - 1
    <2>1. p \in 1 .. Len(all) - 1 /\ all[p].crlf BY DEF Ends
    <2>2. p \in 1 .. Len(all) BY <1>2, <2>1
    <2>3. EndsLine(r, p) BY <1>3, <2>1, <2>2
    <2>4. p = l + 1 \/ p = l + 2 \/ p = l + 2 + r.blank \/ p = l + 3 + r.blank
      BY <1>1, <2>3 DEF EndsLine
    <2> QED BY <1>2, <2>1, <2>4
  <1>5. ASSUME Len(all) >= l + 2 PROVE l + 1 \in Ends(all, 0)
    <2>1. l + 1 \in 1 .. Len(all) - 1 /\ l + 1 \in 1 .. Len(all) /\ (l + 1) + 1 \in 1 .. Len(all)
      BY <1>2, <1>5
    <2>2. EndsLine(r, l + 1) /\ EndsLine(r, (l + 1) + 1) BY <1>1 DEF EndsLine
    <2> QED BY <1>3, <2>1, <2>2 DEF Ends
  <1>6. Ends(all, 0) = {} <=> Len(all) < l + 2
    <2>1. ASSUME NEW p \in Ends(all, 0) PROVE ~(Len(all) < l + 2) BY <1>2, <1>4
    <2>2. ~(Len(all) < l + 2) => Len(all) >= l + 2 BY <1>2
    <2> QED BY <1>5, <2>1, <2>2
  <1>7. ASSUME Ends(all, 0) # {}
        PROVE  HeadLen(Ends(all, 0)) = l + 2 /\ SubSeq(all, 1, l + 2) = HeadBytes(n, r)
    <2>1. Len(all) >= l + 2 BY <1>2, <1>6, <1>7
    <2>2. PICK end : end = HeadLen(Ends(all, 0)) OBVIOUS
    <2>3. end \in Nat /\ end - 1 \in Ends(all, 0) /\ \A p \in Ends(all, 0) : end - 1 <= p
      BY <1>7, <2>2, EndFacts
    <2>4. end - 1 >= l + 1 /\ end - 1 <= l + 1 BY <1>4, <1>5, <2>1, <2>3
    <2>5. end = l + 2 BY <2>3, <2>4
    <2>6. PICK head, h : head = SubSeq(all, 1, l + 2) /\ h = HeadBytes(n, r) OBVIOUS
    <2>7. /\ head \in Seq(Byte) /\ Len(head) = l + 2
          /\ \A i \in 1 .. l + 2 : head[i] = all[i]
      <3>1. l + 2 \in Nat /\ l + 2 <= Len(all) BY <1>2, <2>1
      <3> QED BY <2>6, <3>1, Cut
    <2>8. h \in Seq(Byte) /\ Len(h) = l + 2 /\ \A i \in 1 .. l + 2 : h[i] = ByteOf(n, r, i)
      BY <1>1, <2>6, HeadBytesFacts
    <2>9. \A i \in 1 .. l + 2 : head[i] = h[i]
      <3>1. \A i \in 1 .. l + 2 : i \in 1 .. Len(all) BY <1>2, <2>1
      <3> QED BY <2>7, <2>8, <3>1
    <2>10. head = h BY <2>7, <2>8, <2>9, SeqEqual
    <2> QED BY <2>2, <2>5, <2>6, <2>10
  <1> QED BY <1>1, <1>6, <1>7

LEMMA ParsedIsOwn ==
  ASSUME HttpType, NEW n \in 1 .. Len(client.sent)
  PROVE  Parsed(HeadBytes(n, client.sent[n])) = {n}
  <1>1. client.sent \in Seq(Requests) /\ Len(client.sent) <= MaxRequests
        /\ DOMAIN client.sent = 1 .. Len(client.sent)
    BY Places, LenProperties
  <1>2. ASSUME NEW k \in 1 .. Len(client.sent)
        PROVE  HeadBytes(k, client.sent[k])[1].of = k
    <2>1. client.sent[k] \in Requests /\ k \in 1 .. MaxRequests BY <1>1, SentFacts
    <2>2. 1 \in 1 .. client.sent[k].lines + 2 BY <2>1, RequestFacts
    <2> QED BY <2>1, <2>2, HeadBytesFacts, ByteFields
  <1> QED BY <1>1, <1>2 DEF Parsed

LEMMA OrderlyBefore ==
  ASSUME client'.sent = client.sent, client'.waits = client.waits, client.answers \in Nat,
         client'.answers \in {client.answers, client.answers + 1}, Len(client.sent) \in Nat,
         DOMAIN client.sent = 1 .. Len(client.sent), Orderly'
  PROVE  Orderly
  BY DEF Orderly

LEMMA SendInOrder == ASSUME HttpInv, InOrder, Send PROVE InOrder'
  <1>0. HttpType BY DEF HttpInv
  <1> SUFFICES ASSUME Orderly' PROVE InOrder' BY DEF InOrder
  <1>1. /\ client.at = "open" /\ Len(client.sent) < MaxRequests /\ server' = server
        /\ (client.waits => client.answers >= Len(client.sent))
    BY <1>0, SendFacts
  <1> DEFINE m == Len(client.sent) + 1
  <1>2. PICK r \in Requests :
          client' = [at |-> "open", waits |-> client.waits, sent |-> Append(client.sent, r),
                     todo |-> client.todo \o RequestBytes(m, r), answers |-> client.answers]
    BY <1>0, SendFacts
  <1>3. /\ client.sent \in Seq(Requests) /\ Len(client.sent) \in Nat /\ client.todo \in Seq(Byte)
        /\ Read \in Seq(Byte) /\ Line \in Seq(Byte) /\ client.answers \in Nat
        /\ DOMAIN client.sent = 1 .. Len(client.sent)
    BY <1>0, Places, LenProperties DEF HttpType, Clients
  <1>4. PICK sent : sent = Append(client.sent, r) OBVIOUS
  <1>5. /\ sent \in Seq(Requests) /\ Len(sent) = m /\ DOMAIN sent = 1 .. m
        /\ \A n \in 1 .. Len(client.sent) : sent[n] = client.sent[n]
        /\ sent[m] = r
    BY <1>3, <1>4, AppendProperties, LenProperties
  <1>6. Orderly
    <2>1. client'.sent = sent /\ client'.waits = client.waits /\ client'.answers = client.answers
      BY <1>2, <1>4
    <2>2. \A n \in 1 .. Len(client.sent) : n \in 1 .. m BY <1>3
    <2> QED BY <1>3, <1>5, <2>1, <2>2 DEF Orderly
  <1>7. client.answers = Len(client.sent) /\ server.at \in {"accept", "head"} /\ Line = <<>>
    <2>1. client.answers >= Len(client.sent) BY <1>1, <1>6 DEF Orderly
    <2>2. ~(client.answers + 1 = Len(client.sent)) BY <1>3, <2>1
    <2> QED BY <1>6, <2>2 DEF InOrder
  <1>8. server.at = "head"
    <2>1. server.at # "accept" BY <1>0, <1>1 DEF HttpType, NoClient
    <2> QED BY <1>7, <2>1
  <1>9. PICK a : a = RequestBytes(m, r) OBVIOUS
  <1>10. /\ a \in Seq(Byte) /\ Len(a) = Size(r) /\ \A k \in 1 .. Size(r) : a[k] = ByteOf(m, r, k)
    <2>1. m \in 1 .. MaxRequests BY <1>0, <1>1, <1>3, Places
    <2> QED BY <1>9, <2>1, RequestBytesFacts
  <1>11. Line' = a
    <2>1. Line' = Read \o (client.todo \o a) BY <1>1, <1>2, <1>9 DEF Line, Read
    <2>2. Read \o (client.todo \o a) = (Read \o client.todo) \o a BY <1>3, <1>10, JoinAssociative
    <2> QED BY <1>7, <1>10, <2>1, <2>2, EmptyFacts DEF Line
  <1>12. client'.answers + 1 = Len(client'.sent) /\ client'.sent[Len(client'.sent)] = r
         /\ Len(client'.sent) = m
    BY <1>2, <1>3, <1>4, <1>5, <1>7
  <1>13. Size(r) <= Size(r) BY RequestFacts
  <1> QED BY <1>1, <1>8, <1>10, <1>11, <1>12, <1>13 DEF InOrder

LEMMA StopInOrder == ASSUME HttpInv, InOrder, Close \/ Reset PROVE InOrder'
  <1>0. HttpType BY DEF HttpInv
  <1> SUFFICES ASSUME Orderly' PROVE InOrder' BY DEF InOrder
  <1>1. PICK at \in {"closed", "reset"}, todo \in Seq(Byte), rest \in Seq(Byte) :
          /\ client' = [at |-> at, waits |-> client.waits, sent |-> client.sent, todo |-> todo,
                        answers |-> client.answers]
          /\ client.todo = todo \o rest
          /\ Line' \in Seq(Byte) /\ Line = Line' \o rest
    BY <1>0, StopFacts
  <1>2. server' = server BY <1>0, StopFacts
  <1>3. PICK line : line = Line' OBVIOUS
  <1>4. /\ line \in Seq(Byte) /\ Len(line) \in Nat /\ Len(rest) \in Nat /\ Len(todo) \in Nat
        /\ Len(client.todo) = Len(todo) + Len(rest) /\ Len(Line) = Len(line) + Len(rest)
        /\ \A i \in 1 .. Len(line) : Line[i] = line[i]
    <2>1. line \in Seq(Byte) /\ Line = line \o rest BY <1>1, <1>3
    <2>2. Len(todo \o rest) = Len(todo) + Len(rest) BY Joined
    <2> QED BY <1>1, <2>1, <2>2, Joined, LenProperties
  <1>5. Orderly BY <1>1 DEF Orderly
  <1>6. Line = <<>> => line = <<>>
    <2>1. Len(<<>>) = 0 BY EmptyFacts
    <2>2. Line = <<>> => Len(line) = 0 BY <1>4, <2>1
    <2> QED BY <1>4, <2>2, EmptyFacts
  <1>7. client.todo = <<>> => todo = <<>>
    <2>1. Len(<<>>) = 0 BY EmptyFacts
    <2>2. client.todo = <<>> => Len(todo) = 0 BY <1>4, <2>1
    <2> QED BY <2>2, EmptyFacts
  <1> DEFINE n == Len(client.sent)
             r == client.sent[n]
  <1>8. CASE client.answers = n
    <2>1. \/ server.at \in {"accept", "head"} /\ Line = <<>>
          \/ client.answers + 1 = n
      BY <1>5 DEF InOrder
    <2>2. client.answers + 1 # n BY <1>0, <1>8 DEF HttpType, Clients
    <2> QED BY <1>1, <1>2, <1>3, <1>6, <1>8, <2>1, <2>2 DEF InOrder
  <1>9. CASE client.answers # n
    <2>1. client.answers + 1 = n BY <1>5, <1>9 DEF InOrder
    <2>2. r \in Requests /\ Size(r) \in Nat /\ r.body \in Nat
      <3>1. n \in 1 .. n /\ client.sent \in Seq(Requests) /\ Len(client.sent) <= MaxRequests
        BY <1>0, <2>1, Places DEF HttpType, Clients
      <3> QED BY <3>1, SentFacts, RequestFacts
    <2>3. CASE server.at = "head"
      <3>1. /\ Len(Line) <= Size(r)
            /\ \A i \in 1 .. Len(Line) : Line[i] = ByteOf(n, r, i)
        BY <1>5, <1>9, <2>3 DEF InOrder
      <3>2. Len(line) <= Size(r) /\ \A i \in 1 .. Len(line) : line[i] = ByteOf(n, r, i)
        <4>1. Len(line) <= Size(r)
          <5>1. PICK z \in Nat, x \in Nat, y \in Nat :
                  z = Size(r) /\ x = Len(line) /\ y = Len(rest) /\ Len(Line) = x + y
            BY <1>4, <2>2
          <5>2. x + y <= z BY <3>1, <5>1
          <5> QED BY <5>1, <5>2
        <4>2. ASSUME NEW i \in 1 .. Len(line) PROVE line[i] = ByteOf(n, r, i)
          <5>1. i \in 1 .. Len(Line) BY <1>4
          <5> QED BY <1>4, <3>1, <5>1
        <4> QED BY <4>1, <4>2
      <3> QED BY <1>1, <1>2, <1>3, <2>1, <2>3, <3>2 DEF InOrder
    <2>4. CASE server.at = "body"
      <3>1. server.of = n /\ Len(server.body) + Len(client.todo) <= r.body
        BY <1>5, <1>9, <2>4 DEF InOrder
      <3>2. Len(server.body) + Len(todo) <= r.body
        <4>1. Len(server.body) \in Nat BY <1>0, Places, LenProperties
        <4>2. PICK z \in Nat, x \in Nat, y \in Nat, b \in Nat :
                z = r.body /\ x = Len(todo) /\ y = Len(rest) /\ Len(client.todo) = x + y
                /\ b = Len(server.body)
          BY <1>4, <2>2, <4>1
        <4>3. b + (x + y) <= z BY <3>1, <4>2
        <4>4. b + x <= z BY <4>3
        <4> QED BY <4>2, <4>4
      <3> QED BY <1>1, <1>2, <2>1, <2>4, <3>1, <3>2 DEF InOrder
    <2>5. CASE server.at = "route"
      <3>1. server.of = n /\ (ReadWhole(r) => client.todo = <<>>) BY <1>5, <1>9, <2>5 DEF InOrder
      <3> QED BY <1>1, <1>2, <1>7, <2>1, <2>5, <3>1 DEF InOrder
    <2>6. CASE server.at = "write"
      <3>1. /\ server.of = n \/ r.lines + 2 > HEADER_BUF_SIZE
            /\ ReadWhole(r) => client.todo = <<>>
        BY <1>5, <1>9, <2>6 DEF InOrder
      <3> QED BY <1>1, <1>2, <1>7, <2>1, <2>6, <3>1 DEF InOrder
    <2>7. server.at \in {"head", "body", "route", "write"} BY <1>5, <1>9 DEF InOrder
    <2> QED BY <2>3, <2>4, <2>5, <2>6, <2>7
  <1> QED BY <1>8, <1>9

LEMMA NewInOrder ==
  ASSUME client'.sent = <<>>, client'.todo = <<>>, client'.answers = 0, server' \in {Start, Accepting}
  PROVE  InOrder'
  <1>1. Len(<<>>) = 0 /\ <<>> \o <<>> = <<>> BY EmptyFacts
  <1>2. /\ server'.at \in {"accept", "head"} /\ server'.head = <<>> /\ server'.body = <<>>
    BY StartFacts
  <1>3. Line' = <<>> BY <1>1, <1>2 DEF Line, Read
  <1> QED BY <1>1, <1>2, <1>3 DEF InOrder

LEMMA WriteInOrder == ASSUME HttpInv, InOrder, Write PROVE InOrder'
  <1>0. HttpType BY DEF HttpInv
  <1> SUFFICES ASSUME Orderly' PROVE InOrder' BY DEF InOrder
  <1>1. server.at = "write" /\ server' = Start /\ client' = [client EXCEPT !.answers = @ + 1]
    BY DEF Write
  <1>2. /\ client'.sent = client.sent /\ client'.waits = client.waits
        /\ client'.todo = client.todo /\ client'.answers = client.answers + 1
    BY <1>0, <1>1 DEF HttpType, Clients
  <1>3. /\ client.answers \in Nat /\ Len(client.sent) \in Nat
        /\ DOMAIN client.sent = 1 .. Len(client.sent)
    BY <1>0, Places, LenProperties DEF HttpType, Clients
  <1>4. Orderly BY <1>2, <1>3, OrderlyBefore
  <1>5. /\ client.answers + 1 = Len(client.sent)
        /\ (ReadWhole(client.sent[Len(client.sent)]) => client.todo = <<>>)
    BY <1>1, <1>4 DEF InOrder
  <1>6. ReadWhole(client.sent[Len(client.sent)])
    <2>1. Len(client.sent) \in 1 .. Len(client.sent) /\ Len(client.sent) <= client'.answers
      BY <1>2, <1>3, <1>5
    <2> QED BY <1>2, <1>3, <2>1 DEF Orderly
  <1>7. Line' = <<>>
    <2>1. Start.head = <<>> /\ Start.body = <<>> BY StartFacts
    <2>2. <<>> \o <<>> = <<>> BY EmptyFacts
    <2> QED BY <1>1, <1>2, <1>5, <1>6, <2>1, <2>2 DEF Line, Read
  <1>8. Start.at = "head" BY StartFacts
  <1> QED BY <1>1, <1>2, <1>5, <1>7, <1>8 DEF InOrder

LEMMA RouteInOrder == ASSUME HttpInv, InOrder, Route PROVE InOrder'
  <1> SUFFICES ASSUME Orderly' PROVE InOrder' BY DEF InOrder
  <1>1. server.at = "route" /\ server' = Respond(server.of) /\ client' = client BY DEF Route
  <1>2. server'.at = "write" /\ server'.of = server.of BY <1>1, StartFacts
  <1>3. Orderly BY <1>1 DEF Orderly
  <1>4. /\ client.answers + 1 = Len(client.sent) /\ server.of = Len(client.sent)
        /\ (ReadWhole(client.sent[Len(client.sent)]) => client.todo = <<>>)
    BY <1>1, <1>3 DEF InOrder
  <1> QED BY <1>1, <1>2, <1>4 DEF InOrder

LEMMA ReadBodyInOrder == ASSUME HttpInv, InOrder, ReadBody PROVE InOrder'
  <1>0. HttpType BY DEF HttpInv
  <1> SUFFICES ASSUME Orderly' PROVE InOrder' BY DEF InOrder
  <1>1. /\ server.at = "body" /\ server.len \in Nat /\ client' \in Clients
        /\ client'.sent = client.sent /\ client'.waits = client.waits
        /\ client'.answers = client.answers
    BY ReadBodyFacts
  <1>2. PICK body \in Seq(Byte) :
          /\ server' = WithBody(server.head, server.of, server.len, body)
          /\ Len(body) <= server.len
          /\ server.body \o client.todo = body \o client'.todo
    BY ReadBodyFacts
  <1>3. PICK n : n = Len(client.sent) OBVIOUS
  <1>4. /\ client.sent \in Seq(Requests) /\ n \in Nat /\ client.answers \in Nat
        /\ DOMAIN client.sent = 1 .. n /\ n <= MaxRequests
        /\ server.body \in Seq(Byte) /\ client.todo \in Seq(Byte) /\ client'.todo \in Seq(Byte)
    BY <1>0, <1>1, <1>3, Places, LenProperties DEF HttpType, Clients
  <1>5. Orderly BY <1>1, <1>3, <1>4, OrderlyBefore
  <1>6. /\ client.answers + 1 = n /\ server.of = n
        /\ Len(server.body) + Len(client.todo) <= client.sent[n].body
    BY <1>1, <1>3, <1>5 DEF InOrder
  <1>7. PICK t : t = client'.todo OBVIOUS
  <1>8. PICK k \in Nat, q \in Nat, b \in Nat :
          k = Len(body) /\ q = Len(t) /\ b = client.sent[n].body /\ k + q <= b
    <2>1. Len(server.body \o client.todo) = Len(server.body) + Len(client.todo)
      BY <1>4, Joined
    <2>2. t \in Seq(Byte) BY <1>4, <1>7
    <2>3. Len(body \o t) = Len(body) + Len(t) BY <2>2, Joined
    <2>4. n \in 1 .. Len(client.sent) BY <1>3, <1>4, <1>6
    <2>5. client.sent[n].body \in Nat BY <1>3, <1>4, <2>4, SentFacts, RequestFacts
    <2> QED BY <1>2, <1>6, <1>7, <2>1, <2>2, <2>3, <2>5, LenProperties
  <1>9. server.len = b
    <2>1. server.len = ContentLength(n) /\ Len(server.body) < server.len
      BY <1>1, <1>4, <1>6 DEF HttpInv, HeadRead, ContentLength
    <2>2. server.len > 0
      <3>1. Len(server.body) \in Nat BY <1>4, LenProperties
      <3> QED BY <1>1, <2>1, <3>1
    <2> QED BY <1>8, <2>1, <2>2 DEF ContentLength
  <1>10. /\ server'.at = (IF Len(body) = server.len THEN "route" ELSE "body")
         /\ server'.of = server.of /\ server'.body = body
    BY <1>2 DEF WithBody
  <1>11. CASE k = b
    <2>1. q = 0 BY <1>8, <1>11
    <2>2. client'.todo = <<>> BY <1>4, <1>7, <1>8, <2>1, EmptyFacts
    <2>3. server'.at = "route" BY <1>8, <1>9, <1>10, <1>11
    <2> QED BY <1>1, <1>3, <1>6, <1>10, <2>2, <2>3 DEF InOrder
  <1>12. CASE k # b
    <2>1. server'.at = "body" BY <1>8, <1>9, <1>10, <1>12
    <2>2. Len(server'.body) + Len(client'.todo) <= client'.sent[n].body
      BY <1>1, <1>7, <1>8, <1>10
    <2> QED BY <1>1, <1>3, <1>6, <1>10, <2>1, <2>2 DEF InOrder
  <1> QED BY <1>11, <1>12

LEMMA ReadHeadInOrder == ASSUME HttpInv, InOrder, ReadHead PROVE InOrder'
  <1>0. HttpType /\ server.at = "head" BY DEF HttpInv, ReadHead
  <1> SUFFICES ASSUME Orderly' PROVE InOrder' BY DEF InOrder
  <1>1. PICK all : HeadStep(all) BY <1>0, ReadHeadFacts
  <1>2. /\ all \in Seq(Byte) /\ Len(all) <= HEADER_BUF_SIZE /\ Len(server.head) < Len(all)
        /\ client' \in Clients /\ client'.sent = client.sent /\ client'.waits = client.waits
        /\ client'.answers = client.answers /\ Line = all \o client'.todo
    BY <1>1 DEF HeadStep
  <1>3. PICK n : n = Len(client.sent) OBVIOUS
  <1>4. PICK r : r = client.sent[n] OBVIOUS
  <1>5. /\ client.sent \in Seq(Requests) /\ n \in Nat /\ client.answers \in Nat
        /\ DOMAIN client.sent = 1 .. n /\ n <= MaxRequests /\ HEADER_BUF_SIZE \in Nat
        /\ client'.todo \in Seq(Byte) /\ Len(server.head) \in Nat
    BY <1>0, <1>2, <1>3, Places, LenProperties DEF HttpType, Clients
  <1>6. Orderly BY <1>2, <1>3, <1>5, OrderlyBefore
  <1>7. PICK t, line : t = client'.todo /\ line = Line OBVIOUS
  <1>8. PICK h \in Nat, q \in Nat, size \in Nat :
          /\ h = Len(all) /\ q = Len(t) /\ size = HEADER_BUF_SIZE
          /\ h > 0 /\ h <= size /\ Len(line) = h + q
          /\ \A i \in 1 .. h : line[i] = all[i]
    <2>1. t \in Seq(Byte) /\ line = all \o t BY <1>2, <1>5, <1>7
    <2>2. /\ Len(all \o t) = Len(all) + Len(t)
          /\ \A i \in 1 .. Len(all) : (all \o t)[i] = all[i]
      BY <1>2, <2>1, Joined
    <2>3. Len(all) \in Nat /\ Len(t) \in Nat BY <1>2, <2>1, LenProperties
    <2> QED BY <1>2, <1>5, <2>1, <2>2, <2>3
  <1>9. Line # <<>>
    <2>1. Len(<<>>) = 0 BY EmptyFacts
    <2> QED BY <1>7, <1>8, <2>1
  <1>10. /\ client.answers + 1 = n /\ Len(line) <= Size(r)
         /\ \A i \in 1 .. Len(line) : line[i] = ByteOf(n, r, i)
    BY <1>0, <1>3, <1>4, <1>6, <1>7, <1>9 DEF InOrder
  <1>11. n \in 1 .. Len(client.sent) /\ n \in 1 .. MaxRequests /\ r \in Requests
    <2>1. n \in 1 .. Len(client.sent) BY <1>3, <1>5, <1>10
    <2> QED BY <1>3, <1>4, <1>5, <2>1, SentFacts
  <1>12. PICK l \in Nat, b \in Nat : l = r.lines + 2 /\ b = r.body /\ Size(r) = l + b
    <2>1. r.lines + 2 \in Nat /\ r.body \in Nat /\ Size(r) = r.lines + 2 + r.body
      BY <1>11, RequestFacts
    <2> QED BY <2>1
  <1>13. h + q <= l + b BY <1>8, <1>10, <1>12
  <1>14. PICK ends : ends = Ends(all, 0) OBVIOUS
  <1>15. /\ ends = {} <=> h < l
         /\ ends # {} => HeadLen(ends) = l /\ SubSeq(all, 1, l) = HeadBytes(n, r)
    <2>1. Len(all) <= Size(r) BY <1>8, <1>12, <1>13
    <2>2. \A i \in 1 .. Len(all) : all[i] = ByteOf(n, r, i)
      <3>1. \A i \in 1 .. h : i \in 1 .. Len(line) BY <1>8
      <3> QED BY <1>8, <1>10, <3>1
    <2> QED BY <1>2, <1>8, <1>11, <1>12, <1>14, <2>1, <2>2, FirstBlank
  <1>16. ASSUME server'.at = "write" \/ (server'.at = "route" /\ server'.of = n),
                server'.of = n \/ l > size, ReadWhole(r) => q = 0
         PROVE  InOrder'
    <2>1. ReadWhole(r) => client'.todo = <<>>
      <3>1. q = 0 => t = <<>> BY <1>5, <1>7, <1>8, EmptyFacts
      <3> QED BY <1>7, <1>16, <3>1
    <2>2. server'.of = n \/ r.lines + 2 > HEADER_BUF_SIZE BY <1>8, <1>12, <1>16
    <2> QED BY <1>2, <1>3, <1>4, <1>10, <1>16, <2>1, <2>2 DEF InOrder
  <1>17. ReadWhole(r) => l <= size /\ (r.kind = "sized" \/ b = 0) BY <1>8, <1>12 DEF ReadWhole
  <1>18. CASE TooLarge(all, ends) /\ server' = Respond(0)
    <2>1. h < l /\ h >= size BY <1>8, <1>15, <1>18 DEF TooLarge
    <2>2. l > size /\ ~(l <= size) BY <1>8, <2>1
    <2>3. server'.at = "write" BY <1>18, StartFacts
    <2> QED BY <1>16, <1>17, <2>2, <2>3
  <1>19. CASE ~TooLarge(all, ends) /\ ends = {} /\ server' = [server EXCEPT !.head = all]
    <2>1. server'.at = "head" /\ server'.head = all /\ server'.body = <<>>
      BY <1>0, <1>19 DEF HttpType, Tasks
    <2>2. Read' = all BY <1>2, <2>1, EmptyFacts DEF Read
    <2>3. Line' = line BY <1>2, <1>7, <2>2 DEF Line
    <2> QED BY <1>2, <1>3, <1>4, <1>10, <2>1, <2>3 DEF InOrder
  <1>20. CASE ends # {} /\ Parse(SubSeq(all, 1, HeadLen(ends)), After(all, HeadLen(ends)))
    <2>1. PICK head, more : head = SubSeq(all, 1, l) /\ more = After(all, l) OBVIOUS
    <2>2. Parse(head, more) /\ l <= h
      <3>1. HeadLen(ends) = l /\ ~(h < l) BY <1>15, <1>20
      <3>2. Parse(SubSeq(all, 1, l), After(all, l)) BY <1>20, <3>1
      <3> QED BY <2>1, <3>1, <3>2
    <2>3. Parsed(head) = {n}
      <3>1. head = HeadBytes(n, r) BY <1>15, <1>20, <2>1
      <3> QED BY <1>0, <1>4, <1>11, <3>1, ParsedIsOwn
    <2>4. PICK len \in Nat : len = ContentLength(n) /\ (ReadWhole(r) => len = b) /\ len \in {0, b}
      <3>1. ContentLength(n) \in {0, b} BY <1>4, <1>12 DEF ContentLength
      <3>2. ReadWhole(r) => ContentLength(n) = b BY <1>4, <1>12, <1>17 DEF ContentLength
      <3> QED BY <3>1, <3>2
    <2>5. server' = IF r.kind = "refused" THEN Respond(n)
                    ELSE WithBody(head, n, len, AlreadyRead(more, len))
      BY <1>4, <2>2, <2>3, <2>4 DEF Parse
    <2>6. CASE r.kind = "refused"
      <3>1. server'.at = "write" /\ server'.of = n BY <2>5, <2>6, StartFacts
      <3>2. b = 0 => q = 0 BY <1>13, <2>2
      <3> QED BY <1>16, <1>17, <2>6, <3>1, <3>2
    <2>7. CASE r.kind # "refused"
      <3>1. more \in Seq(Byte) /\ Len(more) = h - l BY <1>2, <1>8, <2>1, <2>2, Cut
      <3>2. PICK k \in Nat : k = Least(Len(more), len) /\ k <= Len(more) /\ k <= len
                             /\ (k < len => k = Len(more))
        <4>1. PICK x \in Nat : x = Len(more) BY <3>1, LenProperties
        <4> QED BY <4>1 DEF Least
      <3>3. PICK body : body = SubSeq(more, 1, k) OBVIOUS
      <3>4. Len(body) = k BY <3>1, <3>2, <3>3, Cut
      <3>5. /\ server'.at = (IF Len(body) = len THEN "route" ELSE "body")
            /\ server'.of = n /\ server'.body = body
        <4>1. AlreadyRead(more, len) = body BY <3>2, <3>3 DEF AlreadyRead
        <4> QED BY <2>5, <2>7, <4>1 DEF WithBody
      <3>6. CASE k = len
        <4>1. server'.at = "route" BY <3>4, <3>5, <3>6
        <4>2. len = b => q = 0 BY <1>13, <2>2, <3>1, <3>2, <3>6
        <4> QED BY <1>16, <2>4, <3>5, <4>1, <4>2
      <3>7. CASE k # len
        <4>1. server'.at = "body" BY <3>4, <3>5, <3>7
        <4>2. k = Len(more) /\ len = b
          <5>1. k < len BY <3>2, <3>7
          <5>2. len # 0 BY <3>2, <5>1
          <5> QED BY <2>4, <3>2, <5>1, <5>2
        <4>3. k + q <= b BY <1>13, <2>2, <3>1, <4>2
        <4>4. Len(server'.body) + Len(client'.todo) <= client'.sent[n].body
          BY <1>2, <1>4, <1>7, <1>8, <1>12, <3>4, <3>5, <4>3
        <4> QED BY <1>2, <1>3, <1>10, <3>5, <4>1, <4>4 DEF InOrder
      <3> QED BY <3>6, <3>7
    <2> QED BY <2>6, <2>7
  <1> QED BY <1>1, <1>14, <1>18, <1>19, <1>20 DEF HeadStep

LEMMA InitInOrder == Init => InOrder
  <1> SUFFICES ASSUME Init PROVE InOrder OBVIOUS
  <1>1. Len(<<>>) = 0 /\ <<>> \o <<>> = <<>> BY EmptyFacts
  <1>2. server.at = "accept" BY StartFacts DEF Init
  <1>3. client.sent = <<>> /\ client.todo = <<>> /\ client.answers = 0 BY DEF Init, NoClient
  <1>4. Line = <<>> BY <1>1, <1>2, <1>3 DEF Line, Read
  <1> QED BY <1>1, <1>2, <1>3, <1>4 DEF InOrder

LEMMA NextInOrder == HttpInv /\ InOrder /\ [Next]_vars => InOrder'
  <1> SUFFICES ASSUME HttpInv, InOrder, [Next]_vars PROVE InOrder' OBVIOUS
  <1>1. CASE UNCHANGED vars
    <2>1. server' = server /\ client' = client BY <1>1 DEF vars
    <2>2. Line' = Line BY <2>1 DEF Line, Read
    <2>3. Orderly' => Orderly BY <2>1 DEF Orderly
    <2> QED BY <2>1, <2>2, <2>3 DEF InOrder
  <1>2. CASE ReadEnd \/ WriteFails
    <2>1. server' = Accepting /\ client' = NoClient BY <1>2 DEF ReadEnd, WriteFails, Done
    <2>2. NoClient.sent = <<>> /\ NoClient.todo = <<>> /\ NoClient.answers = 0 BY DEF NoClient
    <2> QED BY <2>1, <2>2, NewInOrder
  <1>3. CASE Accept
    <2>1. server' = Start /\ client'.sent = <<>> /\ client'.todo = <<>> /\ client'.answers = 0
      BY <1>3 DEF Accept, NoClient
    <2> QED BY <2>1, NewInOrder
  <1> QED BY <1>1, <1>2, <1>3, SendInOrder, StopInOrder, ReadHeadInOrder, ReadBodyInOrder,
             RouteInOrder, WriteInOrder DEF Next, Serve

LEMMA InOrderParts == HttpInv /\ InOrder => OnlyWholeRequests /\ AnswersOwn
  <1> SUFFICES ASSUME HttpInv, InOrder PROVE OnlyWholeRequests /\ AnswersOwn OBVIOUS
  <1>1. OnlyWholeRequests
    <2> SUFFICES ASSUME server.at = "route" PROVE OnlyWholeRequests BY DEF OnlyWholeRequests
    <2>1. server.of > 0 => server.head = HeadBytes(server.of, client.sent[server.of])
      BY DEF HttpInv, HeadRead
    <2>2. server.of > 0 =>
            server.body = BodyBytes(server.of, client.sent[server.of], ContentLength(server.of))
      BY BodyFollows
    <2>3. Orderly => server.of = Len(client.sent) BY DEF InOrder
    <2> QED BY <2>1, <2>2, <2>3 DEF OnlyWholeRequests
  <1>2. AnswersOwn
    <2> SUFFICES ASSUME server.at = "write", Orderly PROVE AnswersOwn BY DEF AnswersOwn
    <2>1. /\ client.answers + 1 = Len(client.sent)
          /\ \/ server.of = Len(client.sent)
             \/ client.sent[Len(client.sent)].lines + 2 > HEADER_BUF_SIZE
      BY DEF InOrder
    <2>2. client.answers \in Nat BY DEF HttpInv, HttpType, Clients
    <2>3. client.answers = Len(client.sent) - 1 BY <2>1, <2>2
    <2> QED BY <2>1, <2>3 DEF AnswersOwn
  <1> QED BY <1>1, <1>2

\* A request whose head was found is routed with exactly the body it stated; and
\* a client that waits for each answer, and was answered no request that was not
\* read to its end, has nothing else routed than the request it waits for.
THEOREM RequestsAreWhole == Spec => []OnlyWholeRequests
  BY InitHttpInv, NextHttpInv, InitInOrder, NextInOrder, InOrderParts, PTL DEF Spec

\* A client that waits for each answer gets one for each request, its own, up to
\* the first request the server answers before it has read all of it; for any
\* number of requests of any size, and wherever reads cut them.
THEOREM ClientsGetTheirAnswers == Spec => []AnswersOwn
  BY InitHttpInv, NextHttpInv, InitInOrder, NextInOrder, InOrderParts, PTL DEF Spec
=============================================================================
