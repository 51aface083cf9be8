-------------------------- MODULE AirfrogTasksProofs --------------------------
(***************************************************************************)
(* Theorems of AirfrogTasks, for any number of HTTP servers.               *)
(***************************************************************************)
EXTENDS AirfrogTasks, TLAPS

-----------------------------------------------------------------------------
(* Channels, messages and signals *)

LEMMA ConstantFacts ==
  /\ NoMsg.from \notin Owners /\ "fw" \in Owners /\ "rtt" \in Owners
  /\ "fw" # "rtt" /\ "fw" \notin Servers /\ "rtt" \notin Servers
  /\ NoSig \in SigType /\ NoSig.empty
  BY TasksAssumption DEF NoMsg, Owners, NoSig, SigType

\* The message that is being handled, if any.
Handled(froms, ops) == MsgType(froms, ops) \cup {NoMsg}

\* A message or a signal that goes stale keeps its type, and its sender.
LEMMA StaleFacts ==
  ASSUME NEW froms, NEW ops, NEW m \in Handled(froms, ops), NEW o
  PROVE  /\ Stale(m, o) \in Handled(froms, ops)
         /\ Stale(m, o).from = m.from /\ Stale(m, o).op = m.op
         /\ m = NoMsg => Stale(m, o) = NoMsg
         /\ m.from # o => Stale(m, o) = m
  <1> USE DEF Handled
  <1>1. Stale(NoMsg, o) = NoMsg BY DEF Stale, NoMsg
  <1>2. m.from # o => Stale(m, o) = m BY DEF Stale
  <1>3. CASE m \in MsgType(froms, ops)
    <2>1. /\ Stale(m, o) \in MsgType(froms, ops)
          /\ Stale(m, o).from = m.from /\ Stale(m, o).op = m.op
      BY <1>3 DEF Stale, MsgType
    <2> QED BY <1>1, <1>2, <2>1
  <1>4. CASE m = NoMsg BY <1>1, <1>4
  <1> QED BY <1>3, <1>4

LEMMA StaleAllFacts ==
  ASSUME NEW froms, NEW ops, NEW q \in Seq(MsgType(froms, ops)), NEW o
  PROVE  /\ StaleAll(q, o) \in Seq(MsgType(froms, ops))
         /\ Len(StaleAll(q, o)) = Len(q) /\ DOMAIN StaleAll(q, o) = DOMAIN q
         /\ \A i \in DOMAIN q : /\ StaleAll(q, o)[i].from = q[i].from
                                /\ q[i].from # o => StaleAll(q, o)[i] = q[i]
  <1>1. ASSUME NEW i \in DOMAIN q
        PROVE  /\ Stale(q[i], o) \in MsgType(froms, ops) /\ Stale(q[i], o).from = q[i].from
               /\ q[i].from # o => Stale(q[i], o) = q[i]
    <2>1. q[i] \in MsgType(froms, ops) OBVIOUS
    <2> QED BY <2>1 DEF Stale, MsgType
  <1> QED BY <1>1 DEF StaleAll

LEMMA PutFacts ==
  ASSUME NEW M, NEW q \in Seq(M), NEW m \in M, Len(q) <= CHANNEL_SIZE
  PROVE  /\ Put(q, m) \in Seq(M) /\ Len(Put(q, m)) <= CHANNEL_SIZE
         /\ HasRoom(q) => /\ Put(q, m) = Append(q, m) /\ Len(Put(q, m)) = Len(q) + 1
                          /\ Put(q, m)[Len(q) + 1] = m
         /\ ~HasRoom(q) => Put(q, m) = q
         /\ \A i \in DOMAIN q : i \in DOMAIN Put(q, m) /\ Put(q, m)[i] = q[i]
  BY DEF Put, HasRoom, CHANNEL_SIZE

LEMMA TailFacts ==
  ASSUME NEW M, NEW q \in Seq(M), q # <<>>
  PROVE  /\ Tail(q) \in Seq(M) /\ Len(Tail(q)) = Len(q) - 1
         /\ Head(q) \in M /\ Head(q) = q[1]
         /\ \A i \in DOMAIN q : i = 1 \/ (i - 1 \in DOMAIN Tail(q) /\ Tail(q)[i - 1] = q[i])
         /\ \A i \in DOMAIN Tail(q) : i + 1 \in DOMAIN q /\ Tail(q)[i] = q[i + 1]
  OBVIOUS

-----------------------------------------------------------------------------
(* The three request channels are the same thing: a queue of questions q,  *)
(* the one being handled cur, the signals sig answers are left in, and the *)
(* owners that wait for one.  What the steps of the tasks do to a channel  *)
(* is one of few things; owners in G may give their question up.           *)

Chan(C, ops) ==
  [q : {s \in Seq(MsgType(C, ops)) : Len(s) <= CHANNEL_SIZE}, cur : Handled(C, ops),
   sig : [C -> SigType], waits : SUBSET C]

OthersWait(c, d, o) == \A p : p # o => (p \in d.waits <=> p \in c.waits)
Asked(q, d, m) == d.q = Put(q, m) /\ (m.from \in d.waits <=> HasRoom(q))

Asks(c, d, m) ==
  /\ m.from \notin c.waits
  /\ d.cur = c.cur
  /\ d.sig \in {c.sig, [c.sig EXCEPT ![m.from] = NoSig]}
  /\ Asked(c.q, d, m)
  /\ OthersWait(c, d, m.from)

\* o no longer waits for what it asked, and may ask on.
Leaves(c, d, o, sig, ops) ==
  /\ d.cur = Stale(c.cur, o)
  /\ d.sig = [c.sig EXCEPT ![o] = [sig EXCEPT !.fresh = FALSE]]
  /\ OthersWait(c, d, o)
  /\ \/ d.q = StaleAll(c.q, o) /\ o \notin d.waits
     \/ \E op \in ops : Asked(StaleAll(c.q, o), d, Msg(o, op))

Takes(c, d, o, ops) == ~c.sig[o].empty /\ Leaves(c, d, o, NoSig, ops)
Abandons(c, d, o, ops) == Leaves(c, d, o, c.sig[o], ops)

Receives(c, d) ==
  /\ c.cur = NoMsg /\ c.q # <<>>
  /\ d.q = Tail(c.q) /\ d.cur = Head(c.q) /\ d.sig = c.sig /\ d.waits = c.waits

Responds(c, d, up) ==
  /\ d.q = c.q /\ d.cur = NoMsg /\ d.waits = c.waits
  /\ d.sig = [c.sig EXCEPT ![c.cur.from] = Answer(c.cur, up)]

AnswersAtOnce(c, d, up) ==
  /\ c.q # <<>> /\ d.q = Tail(c.q) /\ d.cur = c.cur /\ d.waits = c.waits
  /\ d.sig = [c.sig EXCEPT ![Head(c.q).from] = Answer(Head(c.q), up)]

ChanStep(c, d, C, ops, G) ==
  \/ d = c
  \/ \E o \in C, op \in ops : Asks(c, d, Msg(o, op))
  \/ \E o \in C : Takes(c, d, o, ops)
  \/ \E o \in G : Abandons(c, d, o, ops)
  \/ Receives(c, d)
  \/ \E up \in BOOLEAN : Responds(c, d, up) \/ AnswersAtOnce(c, d, up)

LEMMA MsgFacts ==
  ASSUME NEW C, NEW ops, NEW o \in C, NEW op \in ops
  PROVE  Msg(o, op) \in MsgType(C, ops) /\ Msg(o, op).from = o /\ Msg(o, op).fresh
  BY DEF Msg, MsgType

LEMMA AnswerFacts ==
  ASSUME NEW C, NEW ops, NEW m \in Handled(C, ops), NEW up \in BOOLEAN
  PROVE  Answer(m, up) \in SigType /\ ~Answer(m, up).empty /\ Answer(m, up).fresh = m.fresh
  <1> USE DEF Handled
  <1>1. CASE m \in MsgType(C, ops) BY <1>1 DEF Answer, MsgType, SigType
  <1>2. CASE m = NoMsg BY <1>2 DEF Answer, NoMsg, SigType
  <1> QED BY <1>1, <1>2

\* What a channel holds keeps its type, and its length.
LEMMA LeavesType ==
  ASSUME NEW C, NEW ops, NEW c \in Chan(C, ops), NEW d, NEW o \in C, NEW sig \in SigType,
         d = [q |-> d.q, cur |-> d.cur, sig |-> d.sig, waits |-> d.waits],
         d.waits \subseteq C, Leaves(c, d, o, sig, ops)
  PROVE  d \in Chan(C, ops)
  <1>1. c.q \in Seq(MsgType(C, ops)) /\ Len(c.q) <= CHANNEL_SIZE /\ c.cur \in Handled(C, ops)
        /\ c.sig \in [C -> SigType]
    BY DEF Chan
  <1>2. d.cur \in Handled(C, ops) BY <1>1, StaleFacts DEF Leaves
  <1>3. d.sig \in [C -> SigType]
    <2>1. [sig EXCEPT !.fresh = FALSE] \in SigType BY DEF SigType
    <2> QED BY <1>1, <2>1 DEF Leaves
  <1> DEFINE r == StaleAll(c.q, o)
  <1>4. r \in Seq(MsgType(C, ops)) /\ Len(r) <= CHANNEL_SIZE BY <1>1, StaleAllFacts
  <1>5. d.q \in Seq(MsgType(C, ops)) /\ Len(d.q) <= CHANNEL_SIZE
    <2>1. CASE d.q = r BY <1>4, <2>1
    <2>2. ASSUME NEW op \in ops, Asked(r, d, Msg(o, op))
          PROVE  d.q \in Seq(MsgType(C, ops)) /\ Len(d.q) <= CHANNEL_SIZE
      <3> HIDE DEF r
      <3> QED BY <1>4, <2>2, MsgFacts, PutFacts DEF Asked
    <2> QED BY <2>1, <2>2 DEF Leaves
  <1> QED BY <1>2, <1>3, <1>5 DEF Chan

LEMMA ChanStepType ==
  ASSUME NEW C, NEW ops, NEW G \in SUBSET C, NEW c \in Chan(C, ops), NEW d,
         d = [q |-> d.q, cur |-> d.cur, sig |-> d.sig, waits |-> d.waits],
         d.waits \subseteq C, ChanStep(c, d, C, ops, G), NoMsg.from \notin C
  PROVE  d \in Chan(C, ops)
  <1>0. c.q \in Seq(MsgType(C, ops)) /\ Len(c.q) <= CHANNEL_SIZE /\ c.cur \in Handled(C, ops)
        /\ c.sig \in [C -> SigType] /\ c.waits \subseteq C
    BY DEF Chan
  <1>1. ASSUME NEW o \in C, NEW op \in ops, Asks(c, d, Msg(o, op)) PROVE d \in Chan(C, ops)
    <2>1. d.q \in Seq(MsgType(C, ops)) /\ Len(d.q) <= CHANNEL_SIZE
      BY <1>0, <1>1, MsgFacts, PutFacts DEF Asks, Asked
    <2>2. d.cur = c.cur /\ d.sig \in [C -> SigType] BY <1>0, <1>1, ConstantFacts DEF Asks
    <2> QED BY <1>0, <2>1, <2>2 DEF Chan
  <1>2. ASSUME NEW o \in C, Takes(c, d, o, ops) PROVE d \in Chan(C, ops)
    BY <1>2, ConstantFacts, LeavesType DEF Takes
  <1>3. ASSUME NEW o \in G, Abandons(c, d, o, ops) PROVE d \in Chan(C, ops)
    BY <1>0, <1>3, LeavesType DEF Abandons
  <1>4. CASE Receives(c, d)
    <2>1. d.q \in Seq(MsgType(C, ops)) /\ Len(d.q) <= CHANNEL_SIZE /\ d.cur \in MsgType(C, ops)
      BY <1>0, <1>4, TailFacts DEF Receives, CHANNEL_SIZE
    <2> QED BY <1>0, <1>4, <2>1 DEF Receives, Chan, Handled
  <1>5. ASSUME NEW up \in BOOLEAN, Responds(c, d, up) PROVE d \in Chan(C, ops)
    <2>1. Answer(c.cur, up) \in SigType BY <1>0, AnswerFacts
    <2>2. d.sig \in [C -> SigType] BY <1>0, <1>5, <2>1, ZenonT(30) DEF Responds
    <2> QED BY <1>0, <1>5, <2>2 DEF Responds, Chan, Handled
  <1>6. ASSUME NEW up \in BOOLEAN, AnswersAtOnce(c, d, up) PROVE d \in Chan(C, ops)
    <2>1. d.q \in Seq(MsgType(C, ops)) /\ Len(d.q) <= CHANNEL_SIZE /\ Head(c.q) \in MsgType(C, ops)
      BY <1>0, <1>6, TailFacts DEF AnswersAtOnce, CHANNEL_SIZE
    <2> DEFINE m == Head(c.q)
    <2>3. Answer(m, up) \in SigType
      <3>1. m \in Handled(C, ops) BY <2>1 DEF Handled
      <3> QED BY <3>1, AnswerFacts
    <2>2. d.sig \in [C -> SigType] BY <1>0, <1>6, <2>3, ZenonT(30) DEF AnswersAtOnce
    <2> QED BY <1>0, <1>6, <2>1, <2>2 DEF AnswersAtOnce, Chan
  <1> QED BY <1>1, <1>2, <1>3, <1>4, <1>5, <1>6 DEF ChanStep

-----------------------------------------------------------------------------
(* Whoever waits has a question under way, or an answer.                   *)

Cared(c, o) == o \in c.waits => Pending(c.q, c.cur, c.sig, o)

LEMMA HasPut ==
  ASSUME NEW M, NEW q \in Seq(M), NEW m \in M, Len(q) <= CHANNEL_SIZE
  PROVE  /\ \A o : Has(q, o) => Has(Put(q, m), o)
         /\ HasRoom(q) => Has(Put(q, m), m.from)
  <1>1. ASSUME NEW o, Has(q, o) PROVE Has(Put(q, m), o)
    <2>1. PICK i \in DOMAIN q : q[i].from = o BY <1>1 DEF Has
    <2>2. i \in DOMAIN Put(q, m) /\ Put(q, m)[i] = q[i] BY PutFacts
    <2> QED BY <2>1, <2>2 DEF Has
  <1>2. ASSUME HasRoom(q) PROVE Has(Put(q, m), m.from)
    <2>1. Put(q, m) \in Seq(M) /\ Len(Put(q, m)) = Len(q) + 1 /\ Put(q, m)[Len(q) + 1] = m
      BY <1>2, PutFacts
    <2>2. Len(q) + 1 \in DOMAIN Put(q, m) BY <2>1
    <2> QED BY <2>1, <2>2 DEF Has
  <1> QED BY <1>1, <1>2

LEMMA HasStaleAll ==
  ASSUME NEW C, NEW ops, NEW q \in Seq(MsgType(C, ops)), NEW p, NEW o
  PROVE  Has(StaleAll(q, p), o) <=> Has(q, o)
  BY StaleAllFacts, SMTT(30) DEF Has

LEMMA LeavesCared ==
  ASSUME NEW C, NEW ops, NEW c \in Chan(C, ops), NEW d, NEW o \in C, NEW sig \in SigType,
         d.waits \subseteq C, Leaves(c, d, o, sig, ops), NEW p \in C, Cared(c, p),
         p = o \/ c.sig \in [C -> SigType]
  PROVE  Cared(d, p)
  <1> SUFFICES ASSUME p \in d.waits PROVE Pending(d.q, d.cur, d.sig, p) BY DEF Cared
  <1>1. c.q \in Seq(MsgType(C, ops)) /\ Len(c.q) <= CHANNEL_SIZE /\ c.cur \in Handled(C, ops)
        /\ c.sig \in [C -> SigType]
    BY DEF Chan
  <1> DEFINE r == StaleAll(c.q, o)
  <1>2. r \in Seq(MsgType(C, ops)) /\ Len(r) <= CHANNEL_SIZE BY <1>1, StaleAllFacts
  <1>3. Has(r, p) <=> Has(c.q, p) BY <1>1, HasStaleAll
  <1>4. d.cur.from = c.cur.from
    <2>1. Stale(c.cur, o).from = c.cur.from BY <1>1, StaleFacts
    <2> QED BY <2>1 DEF Leaves
  <1> HIDE DEF r
  <1>5. Has(r, p) => Has(d.q, p)
    <2>1. ASSUME NEW op \in ops, Asked(r, d, Msg(o, op)), Has(r, p) PROVE Has(d.q, p)
      BY <1>2, <2>1, MsgFacts, HasPut DEF Asked
    <2> QED BY <2>1 DEF Leaves, r
  <1>6. CASE p # o
    <2>1. d.sig[p] = c.sig[p] BY <1>1, <1>6 DEF Leaves
    <2>2. p \in c.waits BY <1>6 DEF Leaves, OthersWait
    <2> QED BY <1>3, <1>4, <1>5, <2>1, <2>2 DEF Cared, Pending
  <1>7. CASE p = o
    <2>1. PICK op \in ops : Asked(r, d, Msg(o, op)) BY <1>7 DEF Leaves, r
    <2>0. Msg(o, op).from = o BY MsgFacts, ZenonT(30)
    <2>2. HasRoom(r) /\ d.q = Put(r, Msg(o, op)) BY <1>7, <2>0, <2>1 DEF Asked
    <2>3. Has(d.q, p) BY <1>2, <1>7, <2>2, MsgFacts, HasPut
    <2> QED BY <2>3 DEF Pending
  <1> QED BY <1>6, <1>7

LEMMA ChanStepCared ==
  ASSUME NEW C, NEW ops, NEW G \in SUBSET C, NEW c \in Chan(C, ops), NEW d, d.waits \subseteq C,
         ChanStep(c, d, C, ops, G), NoMsg.from \notin C, NEW p \in C, Cared(c, p)
  PROVE  Cared(d, p)
  <1>0. c.q \in Seq(MsgType(C, ops)) /\ Len(c.q) <= CHANNEL_SIZE /\ c.cur \in Handled(C, ops)
        /\ c.sig \in [C -> SigType] /\ c.waits \subseteq C
    BY DEF Chan
  <1>1. ASSUME NEW o \in C, NEW op \in ops, Asks(c, d, Msg(o, op)) PROVE Cared(d, p)
    <2>1. /\ Has(c.q, p) => Has(d.q, p)
          /\ p = o /\ p \in d.waits => Has(d.q, p)
      BY <1>0, <1>1, MsgFacts, HasPut DEF Asks, Asked
    <2>2. p # o => (p \in d.waits => p \in c.waits) /\ d.sig[p] = c.sig[p] /\ d.cur = c.cur
      BY <1>0, <1>1, MsgFacts DEF Asks, OthersWait
    <2> QED BY <2>1, <2>2 DEF Cared, Pending
  <1>2. ASSUME NEW o \in C, Takes(c, d, o, ops) PROVE Cared(d, p)
    BY <1>0, <1>2, ConstantFacts, LeavesCared DEF Takes
  <1>3. ASSUME NEW o \in G, Abandons(c, d, o, ops) PROVE Cared(d, p)
    BY <1>0, <1>3, LeavesCared DEF Abandons
  <1>4. CASE Receives(c, d)
    <2>1. c.cur.from # p BY <1>4 DEF Receives
    <2>2. ASSUME Has(c.q, p) PROVE Has(d.q, p) \/ d.cur.from = p
      <3>1. PICK i \in DOMAIN c.q : c.q[i].from = p BY <2>2 DEF Has
      <3>2. c.q[1] = Head(c.q) /\ (i = 1 \/ (i - 1 \in DOMAIN Tail(c.q) /\ Tail(c.q)[i - 1] = c.q[i]))
        BY <1>0, <1>4, <3>1, TailFacts DEF Receives
      <3> QED BY <1>4, <3>1, <3>2 DEF Receives, Has
    <2> QED BY <1>4, <2>1, <2>2 DEF Receives, Cared, Pending
  <1>5. ASSUME NEW up \in BOOLEAN, Responds(c, d, up) PROVE Cared(d, p)
    <2>1. ~Answer(c.cur, up).empty BY DEF Answer
    <2>2. d.sig[p] = IF p = c.cur.from THEN Answer(c.cur, up) ELSE c.sig[p]
      BY <1>0, <1>5 DEF Responds
    <2> QED BY <1>5, <2>1, <2>2 DEF Responds, Cared, Pending
  <1>6. ASSUME NEW up \in BOOLEAN, AnswersAtOnce(c, d, up) PROVE Cared(d, p)
    <2>1. ~Answer(Head(c.q), up).empty BY DEF Answer
    <2>2. d.sig[p] = IF p = Head(c.q).from THEN Answer(Head(c.q), up) ELSE c.sig[p]
      BY <1>0, <1>6 DEF AnswersAtOnce
    <2>3. ASSUME Has(c.q, p) PROVE Has(d.q, p) \/ Head(c.q).from = p
      <3>1. PICK i \in DOMAIN c.q : c.q[i].from = p BY <2>3 DEF Has
      <3>2. c.q[1] = Head(c.q) /\ (i = 1 \/ (i - 1 \in DOMAIN Tail(c.q) /\ Tail(c.q)[i - 1] = c.q[i]))
        BY <1>0, <1>6, <3>1, TailFacts DEF AnswersAtOnce
      <3> QED BY <1>6, <3>1, <3>2 DEF AnswersAtOnce, Has
    <2> QED BY <1>6, <2>1, <2>2, <2>3 DEF AnswersAtOnce, Cared, Pending
  <1> QED BY <1>1, <1>2, <1>3, <1>4, <1>5, <1>6 DEF ChanStep

-----------------------------------------------------------------------------
(* Who does not give up has one question under way at most, and the answer *)
(* is to that.                                                             *)

Sole(c, o) ==
  /\ \A i \in DOMAIN c.q : c.q[i].from = o =>
       o \in c.waits /\ c.q[i].fresh /\ c.cur.from # o /\ c.sig[o].empty
  /\ \A i, j \in DOMAIN c.q : c.q[i].from = o /\ c.q[j].from = o => i = j
  /\ c.cur.from = o => o \in c.waits /\ c.cur.fresh /\ c.sig[o].empty
  /\ ~c.sig[o].empty => o \in c.waits /\ c.sig[o].fresh

\* What somebody else does to a queue and a channel, leaving o's part alone.
LeftAlone(q, r, o) == \A i \in DOMAIN r : r[i].from = o => i \in DOMAIN q /\ r[i] = q[i]

LEMMA SoleOthers ==
  ASSUME NEW c, NEW d, NEW o, Sole(c, o),
         LeftAlone(c.q, d.q, o),
         d.cur.from = o => d.cur = c.cur, c.cur.from = o => d.cur.from = o,
         d.sig[o] = c.sig[o], o \in d.waits <=> o \in c.waits
  PROVE  Sole(d, o)
  BY DEF Sole, LeftAlone

LEMMA SolePut ==
  ASSUME NEW C, NEW ops, NEW q \in Seq(MsgType(C, ops)), Len(q) <= CHANNEL_SIZE,
         NEW m \in MsgType(C, ops), NEW o, m.from # o
  PROVE  LeftAlone(q, Put(q, m), o)
  <1>1. CASE HasRoom(q)
    <2>1. /\ Put(q, m) \in Seq(MsgType(C, ops)) /\ Len(Put(q, m)) = Len(q) + 1
          /\ Put(q, m)[Len(q) + 1] = m
          /\ \A i \in DOMAIN q : Put(q, m)[i] = q[i]
      BY <1>1, PutFacts
    <2> QED BY <2>1 DEF LeftAlone
  <1>2. CASE ~HasRoom(q) BY <1>2, PutFacts DEF LeftAlone
  <1> QED BY <1>1, <1>2

\* o asks when nothing of its own is under way.
LEMMA SoleAsks ==
  ASSUME NEW C, NEW ops, NEW q \in Seq(MsgType(C, ops)), Len(q) <= CHANNEL_SIZE, NEW d,
         NEW o \in C, NEW op \in ops, Asked(q, d, Msg(o, op)), ~Has(q, o), d.cur.from # o,
         d.sig[o].empty
  PROVE  Sole(d, o)
  <1> DEFINE m == Msg(o, op)
  <1>0. m \in MsgType(C, ops) /\ m.from = o /\ m.fresh BY MsgFacts
  <1>1. \A i \in DOMAIN q : q[i].from # o BY DEF Has
  <1> HIDE DEF m
  <1>2. d.q = Put(q, m) /\ (o \in d.waits <=> HasRoom(q)) BY <1>0 DEF Asked, m
  <1>3. CASE HasRoom(q)
    <2>1. d.q \in Seq(MsgType(C, ops)) /\ Len(d.q) = Len(q) + 1 /\ d.q[Len(q) + 1] = m
          /\ \A i \in DOMAIN q : d.q[i] = q[i]
      BY <1>0, <1>2, <1>3, PutFacts
    <2>2. \A i \in DOMAIN d.q : d.q[i].from = o => i = Len(q) + 1 BY <1>1, <2>1
    <2> QED BY <1>0, <1>2, <1>3, <2>1, <2>2 DEF Sole
  <1>4. CASE ~HasRoom(q)
    <2>1. d.q = q BY <1>0, <1>2, <1>4, PutFacts
    <2> QED BY <1>1, <2>1 DEF Sole
  <1> QED BY <1>3, <1>4

LEMMA LeavesSole ==
  ASSUME NEW C, NEW ops, NEW c \in Chan(C, ops), NEW d, NEW p \in C, NEW sig \in SigType,
         Leaves(c, d, p, sig, ops), NEW o \in C, o # p, Sole(c, o)
  PROVE  Sole(d, o)
  <1>1. c.q \in Seq(MsgType(C, ops)) /\ Len(c.q) <= CHANNEL_SIZE /\ c.cur \in Handled(C, ops)
        /\ c.sig \in [C -> SigType]
    BY DEF Chan
  <1> DEFINE r == StaleAll(c.q, p)
  <1>2. r \in Seq(MsgType(C, ops)) /\ Len(r) <= CHANNEL_SIZE /\ DOMAIN r = DOMAIN c.q
        /\ \A i \in DOMAIN r : r[i].from = o => r[i] = c.q[i]
    BY <1>1, StaleAllFacts
  <1>3. LeftAlone(c.q, d.q, o)
    <2>1. CASE d.q = r BY <1>2, <2>1 DEF LeftAlone
    <2>2. ASSUME NEW op \in ops, Asked(r, d, Msg(p, op)) PROVE LeftAlone(c.q, d.q, o)
      <3>1. Msg(p, op) \in MsgType(C, ops) /\ Msg(p, op).from = p BY MsgFacts
      <3> HIDE DEF r
      <3>2. LeftAlone(r, d.q, o) BY <1>2, <2>2, <3>1, SolePut DEF Asked
      <3> QED BY <1>2, <3>2 DEF LeftAlone
    <2> QED BY <2>1, <2>2 DEF Leaves
  <1>4. d.cur.from = c.cur.from /\ (c.cur.from = o => d.cur = c.cur) BY <1>1, StaleFacts DEF Leaves
  <1>5. d.sig[o] = c.sig[o] /\ (o \in d.waits <=> o \in c.waits) BY <1>1 DEF Leaves, OthersWait
  <1> QED BY <1>3, <1>4, <1>5, SoleOthers

LEMMA ChanStepSole ==
  ASSUME NEW C, NEW ops, NEW G \in SUBSET C, NEW c \in Chan(C, ops), NEW d,
         ChanStep(c, d, C, ops, G), NoMsg.from \notin C, NEW o \in C \ G, Sole(c, o)
  PROVE  Sole(d, o)
  <1>0. c.q \in Seq(MsgType(C, ops)) /\ Len(c.q) <= CHANNEL_SIZE /\ c.cur \in Handled(C, ops)
        /\ c.sig \in [C -> SigType] /\ c.waits \subseteq C
    BY DEF Chan
  <1>1. ASSUME NEW p \in C, NEW op \in ops, Asks(c, d, Msg(p, op)) PROVE Sole(d, o)
    <2>1. Msg(p, op) \in MsgType(C, ops) /\ Msg(p, op).from = p BY MsgFacts
    <2>2. CASE p = o
      <3>1. o \notin c.waits BY <1>1, <2>1, <2>2 DEF Asks
      <3>2. ~Has(c.q, o) /\ c.cur.from # o /\ c.sig[o].empty BY <3>1 DEF Sole, Has
      <3>3. d.cur = c.cur /\ d.sig[o].empty
        BY <1>0, <1>1, <2>1, <2>2, <3>2, ConstantFacts DEF Asks
      <3> QED BY <1>0, <1>1, <2>2, <3>2, <3>3, SoleAsks DEF Asks
    <2>3. CASE p # o
      <3>1. LeftAlone(c.q, d.q, o) BY <1>0, <1>1, <2>1, <2>3, SolePut DEF Asks, Asked
      <3>2. d.cur = c.cur /\ d.sig[o] = c.sig[o] /\ (o \in d.waits <=> o \in c.waits)
        BY <1>0, <1>1, <2>1, <2>3 DEF Asks, OthersWait
      <3> QED BY <3>1, <3>2, SoleOthers
    <2> QED BY <2>2, <2>3
  <1>2. ASSUME NEW p \in C, Takes(c, d, p, ops) PROVE Sole(d, o)
    <2>1. CASE p # o BY <1>2, <2>1, ConstantFacts, LeavesSole DEF Takes
    <2>2. CASE p = o
      <3>1. ~Has(c.q, o) /\ c.cur.from # o BY <1>2, <2>2 DEF Takes, Sole, Has
      <3> DEFINE r == StaleAll(c.q, o)
      <3>2. r \in Seq(MsgType(C, ops)) /\ Len(r) <= CHANNEL_SIZE BY <1>0, StaleAllFacts
      <3>3. ~Has(r, o) BY <1>0, <3>1, HasStaleAll
      <3>4. d.cur.from # o
        <4>1. Stale(c.cur, o).from = c.cur.from BY <1>0, StaleFacts
        <4> QED BY <1>2, <2>2, <3>1, <4>1 DEF Takes, Leaves
      <3>5. d.sig[o].empty
        <4>1. [NoSig EXCEPT !.fresh = FALSE].empty BY DEF NoSig
        <4> QED BY <1>0, <1>2, <2>2, <4>1 DEF Takes, Leaves
      <3> HIDE DEF r
      <3>6. CASE d.q = r /\ o \notin d.waits BY <3>3, <3>4, <3>5, <3>6 DEF Sole, Has
      <3>7. ASSUME NEW op \in ops, Asked(r, d, Msg(o, op)) PROVE Sole(d, o)
        BY <3>2, <3>3, <3>4, <3>5, <3>7, SoleAsks
      <3> QED BY <1>2, <2>2, <3>6, <3>7 DEF Takes, Leaves, r
    <2> QED BY <2>1, <2>2
  <1>3. ASSUME NEW p \in G, Abandons(c, d, p, ops) PROVE Sole(d, o)
    BY <1>0, <1>3, LeavesSole DEF Abandons
  <1>4. CASE Receives(c, d)
    <2>1. c.q[1] = Head(c.q) /\ 1 \in DOMAIN c.q BY <1>0, <1>4 DEF Receives
    <2>2. \A i \in DOMAIN d.q : i + 1 \in DOMAIN c.q /\ d.q[i] = c.q[i + 1] /\ i + 1 # 1
      BY <1>0, <1>4, TailFacts DEF Receives
    <2>3. \A i \in DOMAIN d.q : d.q[i].from = o => c.q[1].from # o BY <2>1, <2>2 DEF Sole
    <2>4. \A i, j \in DOMAIN d.q : d.q[i].from = o /\ d.q[j].from = o => i = j
      <3> SUFFICES ASSUME NEW i \in DOMAIN d.q, NEW j \in DOMAIN d.q, d.q[i].from = o, d.q[j].from = o
                   PROVE  i = j
        OBVIOUS
      <3>1. i + 1 = j + 1 BY <2>2 DEF Sole
      <3>2. i \in Nat /\ j \in Nat BY <1>0, <1>4, TailFacts DEF Receives
      <3> QED BY <3>1, <3>2
    <2> QED BY <1>4, <2>1, <2>2, <2>3, <2>4 DEF Receives, Sole
  <1>5. ASSUME NEW up \in BOOLEAN, Responds(c, d, up) PROVE Sole(d, o)
    <2>1. ~Answer(c.cur, up).empty /\ Answer(c.cur, up).fresh = c.cur.fresh BY DEF Answer
    <2>2. d.sig[o] = IF o = c.cur.from THEN Answer(c.cur, up) ELSE c.sig[o]
      BY <1>0, <1>5 DEF Responds
    <2>3. d.q = c.q /\ d.cur.from # o /\ d.waits = c.waits BY <1>5 DEF Responds
    <2> QED BY <2>1, <2>2, <2>3 DEF Sole
  <1>6. ASSUME NEW up \in BOOLEAN, AnswersAtOnce(c, d, up) PROVE Sole(d, o)
    <2> DEFINE m == Head(c.q)
    <2>1. ~Answer(m, up).empty /\ Answer(m, up).fresh = m.fresh BY DEF Answer
    <2>2. d.sig[o] = IF o = m.from THEN Answer(m, up) ELSE c.sig[o]
      BY <1>0, <1>6 DEF AnswersAtOnce
    <2>3. c.q[1] = m /\ 1 \in DOMAIN c.q BY <1>0, <1>6 DEF AnswersAtOnce
    <2>4. \A i \in DOMAIN d.q : i + 1 \in DOMAIN c.q /\ d.q[i] = c.q[i + 1] /\ i + 1 # 1
      BY <1>0, <1>6, TailFacts DEF AnswersAtOnce
    <2>5. \A i, j \in DOMAIN d.q : d.q[i].from = o /\ d.q[j].from = o => i = j
      <3> SUFFICES ASSUME NEW i \in DOMAIN d.q, NEW j \in DOMAIN d.q, d.q[i].from = o, d.q[j].from = o
                   PROVE  i = j
        OBVIOUS
      <3>1. i + 1 = j + 1 BY <2>4 DEF Sole
      <3>2. i \in Nat /\ j \in Nat BY <1>0, <1>6, TailFacts DEF AnswersAtOnce
      <3> QED BY <3>1, <3>2
    <2>6. \A i \in DOMAIN d.q : d.q[i].from = o => m.from # o BY <2>3, <2>4 DEF Sole
    <2>7. d.cur = c.cur /\ d.waits = c.waits BY <1>6 DEF AnswersAtOnce
    <2> HIDE DEF m
    <2> QED BY <2>1, <2>2, <2>3, <2>4, <2>5, <2>6, <2>7 DEF Sole
  <1> QED BY <1>1, <1>2, <1>3, <1>4, <1>5, <1>6 DEF ChanStep

-----------------------------------------------------------------------------
(* The invariant: what the place a task is at tells of it (the Places), and *)
(* what the three channels hold.                                           *)

TargetCommands == {"status", "access", "reset", "raw_reset", "settings"}
FwCommands == {"info", "handler"}
ServerAsks == TargetOps \cup {"status"}

SrvPlaces ==
  \A s \in Servers : /\ srv[s].at = "target_send" => srv[s].op \in ServerAsks
                     /\ srv[s].at = "fw_send" => srv[s].op \in FwCommands

TargetPlaces == target.at # "serving" => target.cur = NoMsg

FwPlaces ==
  /\ fw.at = "select" <=> fw.job = "none"
  /\ fw.job # "command" => fw.cmd = NoMsg
  /\ fw.at # "select" => fw.state = "Started"

RttPlaces ==
  /\ rtt.at # "reply" => rtt.cmd = NoMsg
  /\ rtt.at \in {"send", "wait"} <=> rtt.job # "none"

\* The three channels.
AsksTarget(o) ==
  \/ o \in Servers /\ srv[o].at = "target_wait"
  \/ o = "fw" /\ fw.at = "wait"
  \/ o = "rtt" /\ rtt.at = "wait"

TargetChan == [q |-> tq, cur |-> target.cur, sig |-> tsig, waits |-> {o \in Owners : AsksTarget(o)}]
FwChan == [q |-> fq, cur |-> fw.cmd, sig |-> fsig, waits |-> {s \in Servers : srv[s].at = "fw_wait"}]
RttChan == [q |-> rq, cur |-> rtt.cmd, sig |-> rch, waits |-> {s \in Servers : srv[s].at = "rtt_wait"}]

\* Who may give a question up: with no timeouts nobody, the RTT task never.
Hasty(C) == IF Timeouts THEN C \ {"rtt"} ELSE {}

TargetStep == ChanStep(TargetChan, TargetChan', Owners, TargetCommands, Hasty(Owners))
FwStep == ChanStep(FwChan, FwChan', Servers, FwCommands, Hasty(Servers))
RttStep == ChanStep(RttChan, RttChan', Servers, {"read"}, Hasty(Servers))
ChanSteps == TargetStep /\ FwStep /\ RttStep

\* The types and the places of the rest.
SrvOK == srv \in [Servers -> ServerType] /\ SrvPlaces
TargetOK ==
  /\ target = [at |-> target.at, cur |-> target.cur, connected |-> target.connected,
               settings |-> target.settings]
  /\ target.at \in {"idle", "serving", "bin"}
  /\ target.connected \in BOOLEAN /\ target.settings \in Settings
  /\ TargetPlaces
FwOK ==
  /\ fw = [at |-> fw.at, job |-> fw.job, cmd |-> fw.cmd, decoders |-> fw.decoders,
           state |-> fw.state, firmware |-> fw.firmware]
  /\ fw.at \in {"select", "send", "wait"} /\ fw.job \in {"none", "start", "command"}
  /\ fw.decoders \in 0 .. DECODERS /\ fw.state \in {"Started", "Stopped"}
  /\ fw.firmware \in {"none", "plain", "rtt"}
  /\ ctrl \in {NoCtrl, "start", "stop"}
  /\ FwPlaces
RttOK ==
  /\ rtt = [at |-> rtt.at, job |-> rtt.job, cmd |-> rtt.cmd, timer |-> rtt.timer, state |-> rtt.state]
  /\ rtt.at \in {"select", "send", "wait", "reply"}
  /\ rtt.job \in {"none", "poll", "restart", "start"}
  /\ rtt.timer \in BOOLEAN /\ rtt.state \in {"Started", "Stopped"}
  /\ rctrl \in {NoCtrl, "start", "stop"}
  /\ RttPlaces
RestOK == SrvOK /\ TargetOK /\ FwOK /\ RttOK

TypeInv ==
  /\ RestOK
  /\ TargetChan \in Chan(Owners, TargetCommands)
  /\ FwChan \in Chan(Servers, FwCommands)
  /\ RttChan \in Chan(Servers, {"read"})

\* What there is of a channel in the variables.
LEMMA ChanFacts ==
  ASSUME TypeInv
  PROVE  /\ tq \in Seq(TargetMsgs) /\ Len(tq) <= CHANNEL_SIZE /\ tsig \in [Owners -> SigType]
         /\ target.cur \in TargetMsgs \cup {NoMsg}
         /\ fq \in Seq(FwMsgs) /\ Len(fq) <= CHANNEL_SIZE /\ fsig \in [Servers -> SigType]
         /\ fw.cmd \in FwMsgs \cup {NoMsg}
         /\ rq \in Seq(RttMsgs) /\ Len(rq) <= CHANNEL_SIZE /\ rch \in [Servers -> SigType]
         /\ rtt.cmd \in RttMsgs \cup {NoMsg}
  <1> USE DEF TypeInv, Chan, Handled, TargetMsgs, FwMsgs, RttMsgs
  <1>1. tq \in Seq(TargetMsgs) /\ Len(tq) <= CHANNEL_SIZE /\ tsig \in [Owners -> SigType]
        /\ target.cur \in TargetMsgs \cup {NoMsg}
    BY DEF TargetChan, TargetCommands
  <1>2. fq \in Seq(FwMsgs) /\ Len(fq) <= CHANNEL_SIZE /\ fsig \in [Servers -> SigType]
        /\ fw.cmd \in FwMsgs \cup {NoMsg}
    BY DEF FwChan, FwCommands
  <1>3. rq \in Seq(RttMsgs) /\ Len(rq) <= CHANNEL_SIZE /\ rch \in [Servers -> SigType]
        /\ rtt.cmd \in RttMsgs \cup {NoMsg}
    BY DEF RttChan
  <1> QED BY <1>1, <1>2, <1>3

LEMMA TypeInvTypeOK == ASSUME TypeInv PROVE TypeOK
  <1>1. target \in TargetType BY ChanFacts DEF TypeInv, RestOK, TargetOK, TargetType
  <1>2. fw \in FwType BY ChanFacts DEF TypeInv, RestOK, FwOK, FwType
  <1>3. rtt \in RttType BY ChanFacts DEF TypeInv, RestOK, RttOK, RttType
  <1>4. /\ srv \in [Servers -> ServerType] /\ ctrl \in {NoCtrl, "start", "stop"}
        /\ rctrl \in {NoCtrl, "start", "stop"}
    BY DEF TypeInv, RestOK, SrvOK, FwOK, RttOK
  <1> QED BY <1>1, <1>2, <1>3, <1>4, ChanFacts DEF TypeOK

-----------------------------------------------------------------------------
(* The steps of the HTTP servers *)

\* A server that moves on makes itself wait, or not, and nobody else.
LEMMA SrvWaits ==
  ASSUME srv \in [Servers -> ServerType], NEW s \in Servers, NEW x, srv' = [srv EXCEPT ![s] = x],
         fw'.at = fw.at, rtt'.at = rtt.at
  PROVE  /\ OthersWait(TargetChan, TargetChan', s) /\ OthersWait(FwChan, FwChan', s)
         /\ OthersWait(RttChan, RttChan', s)
         /\ s \in TargetChan'.waits <=> x.at = "target_wait"
         /\ s \in FwChan'.waits <=> x.at = "fw_wait"
         /\ s \in RttChan'.waits <=> x.at = "rtt_wait"
  <1>1. OthersWait(TargetChan, TargetChan', s) /\ (s \in TargetChan'.waits <=> x.at = "target_wait")
    BY ConstantFacts DEF OthersWait, TargetChan, AsksTarget, Owners
  <1>2. OthersWait(FwChan, FwChan', s) /\ (s \in FwChan'.waits <=> x.at = "fw_wait")
    BY DEF OthersWait, FwChan
  <1>3. OthersWait(RttChan, RttChan', s) /\ (s \in RttChan'.waits <=> x.at = "rtt_wait")
    BY DEF OthersWait, RttChan
  <1> QED BY <1>1, <1>2, <1>3

\* Before the step.
LEMMA SrvWaitsNow ==
  ASSUME NEW s \in Servers
  PROVE  /\ s \in TargetChan.waits <=> srv[s].at = "target_wait"
         /\ s \in FwChan.waits <=> srv[s].at = "fw_wait"
         /\ s \in RttChan.waits <=> srv[s].at = "rtt_wait"
  BY ConstantFacts DEF TargetChan, FwChan, RttChan, AsksTarget, Owners

LEMMA SameWaits ==
  ASSUME NEW c, NEW d, NEW s, OthersWait(c, d, s), s \in c.waits <=> s \in d.waits,
         NEW C, c.waits \subseteq C, d.waits \subseteq C
  PROVE  c.waits = d.waits
  BY DEF OthersWait

\* Nothing of the channels a server does not use changes.
LEMMA SrvOthers ==
  ASSUME srv \in [Servers -> ServerType], NEW s \in Servers, NEW x, srv' = [srv EXCEPT ![s] = x],
         fw'.at = fw.at, rtt'.at = rtt.at
  PROVE  /\ UNCHANGED <<tq, target.cur, tsig>> /\ srv[s].at # "target_wait" /\ x.at # "target_wait"
              => TargetChan' = TargetChan
         /\ UNCHANGED <<fq, fw.cmd, fsig>> /\ srv[s].at # "fw_wait" /\ x.at # "fw_wait"
              => FwChan' = FwChan
         /\ UNCHANGED <<rq, rtt.cmd, rch>> /\ srv[s].at # "rtt_wait" /\ x.at # "rtt_wait"
              => RttChan' = RttChan
  <1>1. /\ TargetChan.waits \subseteq Owners /\ TargetChan'.waits \subseteq Owners
        /\ FwChan.waits \subseteq Servers /\ FwChan'.waits \subseteq Servers
        /\ RttChan.waits \subseteq Servers /\ RttChan'.waits \subseteq Servers
    BY DEF TargetChan, FwChan, RttChan
  <1>2. srv[s].at # "target_wait" /\ x.at # "target_wait" => TargetChan'.waits = TargetChan.waits
    BY <1>1, SrvWaits, SrvWaitsNow, SameWaits, ZenonT(30)
  <1>3. srv[s].at # "fw_wait" /\ x.at # "fw_wait" => FwChan'.waits = FwChan.waits
    BY <1>1, SrvWaits, SrvWaitsNow, SameWaits
  <1>4. srv[s].at # "rtt_wait" /\ x.at # "rtt_wait" => RttChan'.waits = RttChan.waits
    BY <1>1, SrvWaits, SrvWaitsNow, SameWaits
  <1>5. UNCHANGED <<tq, target.cur, tsig>> /\ TargetChan'.waits = TargetChan.waits
          => TargetChan' = TargetChan
    BY DEF TargetChan
  <1>6. UNCHANGED <<fq, fw.cmd, fsig>> /\ FwChan'.waits = FwChan.waits => FwChan' = FwChan
    BY DEF FwChan
  <1>7. UNCHANGED <<rq, rtt.cmd, rch>> /\ RttChan'.waits = RttChan.waits => RttChan' = RttChan
    BY DEF RttChan
  <1> QED BY <1>2, <1>3, <1>4, <1>5, <1>6, <1>7

\* Where a server may be.
SrvPlaced(x) ==
  /\ x \in ServerType
  /\ x.at = "target_send" => x.op \in ServerAsks
  /\ x.at = "fw_send" => x.op \in FwCommands

LEMMA ServerFacts ==
  /\ SrvPlaced(ServerIdle)
  /\ \A page \in BOOLEAN : SrvPlaced(Server("target_wait", "none", page))
  /\ \A page \in BOOLEAN, op \in ServerAsks : SrvPlaced(Server("target_send", op, page))
  /\ SrvPlaced(Server("fw_wait", "none", FALSE))
  /\ \A op \in FwCommands : SrvPlaced(Server("fw_send", op, FALSE))
  /\ SrvPlaced(Server("rtt_wait", "none", FALSE)) /\ SrvPlaced(Server("rtt_send", "read", FALSE))
  BY DEF SrvPlaced, ServerIdle, Server, ServerType, ServerAsks, FwCommands

LEMMA SrvOKStep ==
  ASSUME SrvOK, NEW s \in Servers, NEW x, SrvPlaced(x), srv' = [srv EXCEPT ![s] = x]
  PROVE  SrvOK'
  BY DEF SrvOK, SrvPlaces, SrvPlaced

\* What the task a server leaves keeps.
LEMMA LeaveFacts ==
  ASSUME TypeInv, NEW o, NEW sig
  PROVE  /\ LeaveTarget(o, sig) =>
              TargetOK' /\ target'.cur = Stale(target.cur, o)
              /\ tsig' = [tsig EXCEPT ![o] = [sig EXCEPT !.fresh = FALSE]]
         /\ LeaveFw(o, sig) /\ UNCHANGED ctrl =>
              FwOK' /\ fw'.cmd = Stale(fw.cmd, o) /\ fw'.at = fw.at
              /\ fsig' = [fsig EXCEPT ![o] = [sig EXCEPT !.fresh = FALSE]]
         /\ LeaveRtt(o, sig) /\ UNCHANGED rctrl =>
              RttOK' /\ rtt'.cmd = Stale(rtt.cmd, o) /\ rtt'.at = rtt.at
              /\ rch' = [rch EXCEPT ![o] = [sig EXCEPT !.fresh = FALSE]]
  <1>0. Stale(NoMsg, o) = NoMsg BY DEF Stale, NoMsg
  <1>1. LeaveTarget(o, sig) => TargetOK' /\ target'.cur = Stale(target.cur, o)
    BY <1>0 DEF TypeInv, RestOK, TargetOK, TargetPlaces, LeaveTarget
  <1>2. LeaveFw(o, sig) /\ UNCHANGED ctrl => FwOK' /\ fw'.cmd = Stale(fw.cmd, o) /\ fw'.at = fw.at
    BY <1>0 DEF TypeInv, RestOK, FwOK, FwPlaces, LeaveFw
  <1>3. LeaveRtt(o, sig) /\ UNCHANGED rctrl => RttOK' /\ rtt'.cmd = Stale(rtt.cmd, o) /\ rtt'.at = rtt.at
    BY <1>0 DEF TypeInv, RestOK, RttOK, RttPlaces, LeaveRtt
  <1> QED BY <1>1, <1>2, <1>3 DEF LeaveTarget, LeaveFw, LeaveRtt

LEMMA UnchangedOK ==
  ASSUME TypeInv
  PROVE  /\ UNCHANGED srv => SrvOK'
         /\ UNCHANGED target => TargetOK'
         /\ UNCHANGED <<fw, ctrl>> => FwOK'
         /\ UNCHANGED <<rtt, rctrl>> => RttOK'
  BY DEF TypeInv, RestOK, SrvOK, TargetOK, FwOK, RttOK, SrvPlaces, TargetPlaces, FwPlaces, RttPlaces

LEMMA AskTargetStep ==
  ASSUME TypeInv, NEW s \in Servers, NEW op \in ServerAsks, NEW page \in BOOLEAN,
         srv[s].at \in {"idle", "target_send"}, AskTarget(s, op, page),
         UNCHANGED <<target, tsig, fwVars, rttVars>>
  PROVE  ChanSteps /\ RestOK'
  <1> USE DEF fwVars, rttVars
  <1> DEFINE x == IF HasRoom(tq) THEN Server("target_wait", "none", page)
                                 ELSE Server("target_send", op, page)
  <1>1. SrvOK /\ srv \in [Servers -> ServerType] BY DEF TypeInv, RestOK, SrvOK
  <1>2. srv' = [srv EXCEPT ![s] = x] /\ SrvPlaced(x) BY ServerFacts DEF AskTarget, AskAt
  <1>3. (x.at = "target_wait" <=> HasRoom(tq)) /\ x.at # "fw_wait" /\ x.at # "rtt_wait" BY DEF Server
  <1> HIDE DEF x
  <1>4. TargetStep
    <2>1. s \notin TargetChan.waits BY SrvWaitsNow
    <2>2. OthersWait(TargetChan, TargetChan', s) /\ (s \in TargetChan'.waits <=> HasRoom(tq))
      BY <1>1, <1>2, <1>3, SrvWaits
    <2>3. Asks(TargetChan, TargetChan', Msg(s, op))
      BY <2>1, <2>2 DEF Asks, Asked, TargetChan, AskTarget, Msg
    <2>4. s \in Owners /\ op \in TargetCommands
      BY TasksAssumption DEF ServerAsks, TargetCommands, Owners
    <2> QED BY <2>3, <2>4 DEF TargetStep, ChanStep
  <1>5. FwChan' = FwChan /\ RttChan' = RttChan BY <1>1, <1>2, <1>3, SrvOthers
  <1>6. SrvOK' BY <1>1, <1>2, SrvOKStep
  <1> QED BY <1>4, <1>5, <1>6, UnchangedOK DEF ChanSteps, FwStep, RttStep, ChanStep, RestOK

LEMMA SrvTargetStep == ASSUME TypeInv, NEW s \in Servers, SrvTarget(s) PROVE ChanSteps /\ RestOK'
  BY AskTargetStep DEF SrvTarget, ServerAsks

LEMMA SrvSendTargetStep ==
  ASSUME TypeInv, NEW s \in Servers, SrvSendTarget(s) PROVE ChanSteps /\ RestOK'
  <1>1. srv[s] \in ServerType /\ SrvPlaces BY DEF TypeInv, RestOK, SrvOK
  <1>2. srv[s].page \in BOOLEAN BY <1>1 DEF ServerType
  <1>3. srv[s].op \in ServerAsks BY <1>1 DEF SrvPlaces, SrvSendTarget
  <1> QED BY <1>2, <1>3, AskTargetStep DEF SrvSendTarget

\* A command for the Firmware task, after its signal is emptied or not.
LEMMA AskFwStep ==
  ASSUME TypeInv, NEW s \in Servers, NEW op \in FwCommands, srv[s].at # "fw_wait",
         fsig' \in {fsig, [fsig EXCEPT ![s] = NoSig]}, fq' = Put(fq, Msg(s, op)),
         srv' = [srv EXCEPT ![s] = AskAt(fq, Server("fw_wait", "none", FALSE),
                                             Server("fw_send", op, FALSE))],
         UNCHANGED <<fw, rttVars>>
  PROVE  /\ FwStep /\ SrvOK' /\ OthersWait(TargetChan, TargetChan', s) /\ s \notin TargetChan'.waits
         /\ UNCHANGED <<tq, target.cur, tsig>> /\ srv[s].at # "target_wait" => TargetChan' = TargetChan
         /\ srv[s].at # "rtt_wait" => RttChan' = RttChan
  <1> USE DEF rttVars
  <1> DEFINE x == IF HasRoom(fq) THEN Server("fw_wait", "none", FALSE) ELSE Server("fw_send", op, FALSE)
  <1>1. SrvOK /\ srv \in [Servers -> ServerType] BY DEF TypeInv, RestOK, SrvOK
  <1>2. srv' = [srv EXCEPT ![s] = x] /\ SrvPlaced(x) BY ServerFacts DEF AskAt
  <1>3. (x.at = "fw_wait" <=> HasRoom(fq)) /\ x.at # "target_wait" /\ x.at # "rtt_wait" BY DEF Server
  <1> HIDE DEF x
  <1>4. FwStep
    <2>1. s \notin FwChan.waits BY SrvWaitsNow
    <2>2. OthersWait(FwChan, FwChan', s) /\ (s \in FwChan'.waits <=> HasRoom(fq))
      BY <1>1, <1>2, <1>3, SrvWaits
    <2>3. Asks(FwChan, FwChan', Msg(s, op)) BY <2>1, <2>2 DEF Asks, Asked, FwChan, Msg
    <2> QED BY <2>3 DEF FwStep, ChanStep
  <1>5. SrvOK' BY <1>1, <1>2, SrvOKStep
  <1>6. OthersWait(TargetChan, TargetChan', s) /\ s \notin TargetChan'.waits
    BY <1>1, <1>2, <1>3, SrvWaits
  <1>7. /\ UNCHANGED <<tq, target.cur, tsig>> /\ srv[s].at # "target_wait" => TargetChan' = TargetChan
        /\ srv[s].at # "rtt_wait" => RttChan' = RttChan
    BY <1>1, <1>2, <1>3, SrvOthers
  <1> QED BY <1>4, <1>5, <1>6, <1>7

LEMMA SrvFirmwareStep == ASSUME TypeInv, NEW s \in Servers, SrvFirmware(s) PROVE ChanSteps /\ RestOK'
  <1> USE DEF targetVars, rttVars
  <1>1. PICK op \in FwCommands : AskFw(s, op) BY TasksAssumption DEF SrvFirmware, FwCommands
  <1>2. /\ FwStep /\ SrvOK' /\ TargetChan' = TargetChan /\ RttChan' = RttChan
    BY <1>1, AskFwStep DEF SrvFirmware, AskFw
  <1>3. TargetOK' /\ FwOK' /\ RttOK' BY UnchangedOK DEF SrvFirmware
  <1> QED BY <1>2, <1>3 DEF ChanSteps, TargetStep, RttStep, ChanStep, RestOK

LEMMA SrvSendFwStep == ASSUME TypeInv, NEW s \in Servers, SrvSendFw(s) PROVE ChanSteps /\ RestOK'
  <1> USE DEF targetVars, rttVars
  <1>1. srv[s].op \in FwCommands BY DEF TypeInv, RestOK, SrvOK, SrvPlaces, SrvSendFw
  <1>2. /\ FwStep /\ SrvOK' /\ TargetChan' = TargetChan /\ RttChan' = RttChan
    BY <1>1, AskFwStep DEF SrvSendFw, AskAt
  <1>3. TargetOK' /\ FwOK' /\ RttOK' BY UnchangedOK DEF SrvSendFw
  <1> QED BY <1>2, <1>3 DEF ChanSteps, TargetStep, RttStep, ChanStep, RestOK

\* A server that leaves a channel, with its answer or without it.
LEMMA LeaveChans ==
  ASSUME TypeInv, NEW s, NEW sig
  PROVE  /\ LeaveTarget(s, sig) /\ tq' = StaleAll(tq, s) /\ OthersWait(TargetChan, TargetChan', s)
              /\ s \notin TargetChan'.waits
            => Leaves(TargetChan, TargetChan', s, sig, TargetCommands)
         /\ LeaveFw(s, sig) /\ UNCHANGED ctrl /\ fq' = StaleAll(fq, s) /\ OthersWait(FwChan, FwChan', s)
              /\ s \notin FwChan'.waits
            => Leaves(FwChan, FwChan', s, sig, FwCommands)
         /\ LeaveRtt(s, sig) /\ UNCHANGED rctrl /\ rq' = StaleAll(rq, s) /\ OthersWait(RttChan, RttChan', s)
              /\ s \notin RttChan'.waits
            => Leaves(RttChan, RttChan', s, sig, {"read"})
  <1>1. ASSUME LeaveTarget(s, sig), tq' = StaleAll(tq, s), OthersWait(TargetChan, TargetChan', s),
               s \notin TargetChan'.waits
        PROVE  Leaves(TargetChan, TargetChan', s, sig, TargetCommands)
    BY <1>1, LeaveFacts DEF Leaves, TargetChan
  <1>2. ASSUME LeaveFw(s, sig), UNCHANGED ctrl, fq' = StaleAll(fq, s), OthersWait(FwChan, FwChan', s),
               s \notin FwChan'.waits
        PROVE  Leaves(FwChan, FwChan', s, sig, FwCommands)
    BY <1>2, LeaveFacts DEF Leaves, FwChan
  <1>3. ASSUME LeaveRtt(s, sig), UNCHANGED rctrl, rq' = StaleAll(rq, s), OthersWait(RttChan, RttChan', s),
               s \notin RttChan'.waits
        PROVE  Leaves(RttChan, RttChan', s, sig, {"read"})
    BY <1>3, LeaveFacts DEF Leaves, RttChan
  <1> QED BY <1>1, <1>2, <1>3

\* A server that has all it asked for is idle.
LEMMA IdleFacts ==
  ASSUME TypeInv, NEW s \in Servers, srv' = [srv EXCEPT ![s] = ServerIdle],
         fw'.at = fw.at, rtt'.at = rtt.at
  PROVE  /\ SrvOK'
         /\ OthersWait(TargetChan, TargetChan', s) /\ s \notin TargetChan'.waits
         /\ OthersWait(FwChan, FwChan', s) /\ s \notin FwChan'.waits
         /\ OthersWait(RttChan, RttChan', s) /\ s \notin RttChan'.waits
         /\ UNCHANGED <<tq, target.cur, tsig>> /\ srv[s].at # "target_wait" => TargetChan' = TargetChan
         /\ UNCHANGED <<fq, fw.cmd, fsig>> /\ srv[s].at # "fw_wait" => FwChan' = FwChan
         /\ UNCHANGED <<rq, rtt.cmd, rch>> /\ srv[s].at # "rtt_wait" => RttChan' = RttChan
  <1>1. SrvOK /\ srv \in [Servers -> ServerType] BY DEF TypeInv, RestOK, SrvOK
  <1>2. ServerIdle.at = "idle" BY DEF ServerIdle, Server
  <1>3. SrvOK' BY <1>1, ServerFacts, SrvOKStep
  <1> QED BY <1>1, <1>2, <1>3, SrvWaits, SrvOthers

LEMMA SrvTargetAnswerStep ==
  ASSUME TypeInv, NEW s \in Servers, SrvTargetAnswer(s) PROVE ChanSteps /\ RestOK'
  <1> USE DEF rttVars
  <1>1. /\ srv[s].at = "target_wait" /\ ~tsig[s].empty /\ LeaveTarget(s, NoSig) /\ tq' = StaleAll(tq, s)
        /\ UNCHANGED <<fw, ctrl, rtt, rctrl, rq, rch>>
    BY DEF SrvTargetAnswer, TakeAnswer
  <1>2. /\ SrvOK' /\ FwStep /\ RttChan' = RttChan
        /\ OthersWait(TargetChan, TargetChan', s) /\ s \notin TargetChan'.waits
    <2>1. CASE AskFw(s, "info")
      <3>1. "info" \in FwCommands BY DEF FwCommands
      <3> QED BY <1>1, <2>1, <3>1, AskFwStep DEF AskFw
    <2>2. CASE srv' = [srv EXCEPT ![s] = ServerIdle] /\ UNCHANGED <<fq, fsig>>
      BY <1>1, <2>2, IdleFacts DEF FwStep, ChanStep
    <2> QED BY <2>1, <2>2 DEF SrvTargetAnswer
  <1>3. TargetStep
    <2>1. Leaves(TargetChan, TargetChan', s, NoSig, TargetCommands) BY <1>1, <1>2, LeaveChans
    <2>2. Takes(TargetChan, TargetChan', s, TargetCommands) BY <1>1, <2>1 DEF Takes, TargetChan
    <2> QED BY <2>2 DEF TargetStep, ChanStep, Owners
  <1>4. TargetOK' /\ FwOK' /\ RttOK' BY <1>1, LeaveFacts, UnchangedOK
  <1> QED BY <1>2, <1>3, <1>4 DEF ChanSteps, RttStep, ChanStep, RestOK

LEMMA SrvFwAnswerStep ==
  ASSUME TypeInv, NEW s \in Servers, SrvFwAnswer(s) PROVE ChanSteps /\ RestOK'
  <1> USE DEF targetVars, rttVars
  <1>1. fw'.at = fw.at /\ FwOK' BY LeaveFacts DEF SrvFwAnswer
  <1>2. /\ SrvOK' /\ TargetChan' = TargetChan /\ RttChan' = RttChan
        /\ OthersWait(FwChan, FwChan', s) /\ s \notin FwChan'.waits
    BY <1>1, IdleFacts DEF SrvFwAnswer
  <1>3. FwStep
    <2>1. Leaves(FwChan, FwChan', s, NoSig, FwCommands) BY <1>2, LeaveChans DEF SrvFwAnswer
    <2>2. Takes(FwChan, FwChan', s, FwCommands) BY <2>1 DEF Takes, FwChan, SrvFwAnswer
    <2> QED BY <2>2 DEF FwStep, ChanStep
  <1>4. TargetOK' /\ RttOK' BY UnchangedOK DEF SrvFwAnswer
  <1> QED BY <1>1, <1>2, <1>3, <1>4 DEF ChanSteps, TargetStep, RttStep, ChanStep, RestOK

LEMMA AskRttStep ==
  ASSUME TypeInv, NEW s \in Servers, srv[s].at \in {"idle", "rtt_send"}, AskRtt(s)
  PROVE  ChanSteps /\ RestOK'
  <1> USE DEF targetVars, fwVars
  <1> DEFINE x == IF HasRoom(rq) THEN Server("rtt_wait", "none", FALSE) ELSE Server("rtt_send", "read", FALSE)
  <1>1. SrvOK /\ srv \in [Servers -> ServerType] BY DEF TypeInv, RestOK, SrvOK
  <1>2. srv' = [srv EXCEPT ![s] = x] /\ SrvPlaced(x) BY ServerFacts DEF AskRtt, AskAt
  <1>3. (x.at = "rtt_wait" <=> HasRoom(rq)) /\ x.at # "target_wait" /\ x.at # "fw_wait" BY DEF Server
  <1> HIDE DEF x
  <1>4. RttStep
    <2>1. s \notin RttChan.waits BY SrvWaitsNow
    <2>2. OthersWait(RttChan, RttChan', s) /\ (s \in RttChan'.waits <=> HasRoom(rq))
      BY <1>1, <1>2, <1>3, SrvWaits DEF AskRtt
    <2>3. Asks(RttChan, RttChan', Msg(s, "read"))
      BY <2>1, <2>2 DEF Asks, Asked, RttChan, AskRtt, Msg
    <2> QED BY <2>3 DEF RttStep, ChanStep
  <1>5. TargetChan' = TargetChan /\ FwChan' = FwChan BY <1>1, <1>2, <1>3, SrvOthers DEF AskRtt
  <1>6. SrvOK' BY <1>1, <1>2, SrvOKStep
  <1>7. TargetOK' /\ FwOK' /\ RttOK' BY UnchangedOK DEF AskRtt
  <1> QED BY <1>4, <1>5, <1>6, <1>7 DEF ChanSteps, TargetStep, FwStep, ChanStep, RestOK

LEMMA SrvRttSteps ==
  ASSUME TypeInv, NEW s \in Servers, SrvRtt(s) \/ SrvSendRtt(s) PROVE ChanSteps /\ RestOK'
  BY AskRttStep DEF SrvRtt, SrvSendRtt

LEMMA SrvRttAnswerStep ==
  ASSUME TypeInv, NEW s \in Servers, SrvRttAnswer(s) PROVE ChanSteps /\ RestOK'
  <1> USE DEF targetVars, fwVars
  <1>1. rtt'.at = rtt.at /\ RttOK' BY LeaveFacts DEF SrvRttAnswer
  <1>2. /\ SrvOK' /\ TargetChan' = TargetChan /\ FwChan' = FwChan
        /\ OthersWait(RttChan, RttChan', s) /\ s \notin RttChan'.waits
    BY <1>1, IdleFacts DEF SrvRttAnswer
  <1>3. RttStep
    <2>1. Leaves(RttChan, RttChan', s, NoSig, {"read"}) BY <1>2, LeaveChans DEF SrvRttAnswer
    <2>2. Takes(RttChan, RttChan', s, {"read"}) BY <2>1 DEF Takes, RttChan, SrvRttAnswer
    <2> QED BY <2>2 DEF RttStep, ChanStep
  <1>4. TargetOK' /\ FwOK' BY UnchangedOK DEF SrvRttAnswer
  <1> QED BY <1>1, <1>2, <1>3, <1>4 DEF ChanSteps, TargetStep, FwStep, ChanStep, RestOK

\* A timeout makes the server leave all three channels.
LEMMA SrvTimeoutStep == ASSUME TypeInv, NEW s \in Servers, SrvTimeout(s) PROVE ChanSteps /\ RestOK'
  <1>1. TargetOK' /\ FwOK' /\ RttOK' /\ fw'.at = fw.at /\ rtt'.at = rtt.at
    BY LeaveFacts DEF SrvTimeout
  <1>2. /\ SrvOK'
        /\ OthersWait(TargetChan, TargetChan', s) /\ s \notin TargetChan'.waits
        /\ OthersWait(FwChan, FwChan', s) /\ s \notin FwChan'.waits
        /\ OthersWait(RttChan, RttChan', s) /\ s \notin RttChan'.waits
    BY <1>1, IdleFacts DEF SrvTimeout
  <1>3. s \in Hasty(Owners) /\ s \in Hasty(Servers)
    BY ConstantFacts DEF SrvTimeout, Hasty, Owners
  <1>4. TargetStep
    <2>1. Leaves(TargetChan, TargetChan', s, tsig[s], TargetCommands)
      BY <1>2, LeaveChans DEF SrvTimeout
    <2>2. Abandons(TargetChan, TargetChan', s, TargetCommands) BY <2>1 DEF Abandons, TargetChan
    <2> QED BY <1>3, <2>2 DEF TargetStep, ChanStep
  <1>5. FwStep
    <2>1. Leaves(FwChan, FwChan', s, fsig[s], FwCommands) BY <1>2, LeaveChans DEF SrvTimeout
    <2>2. Abandons(FwChan, FwChan', s, FwCommands) BY <2>1 DEF Abandons, FwChan
    <2> QED BY <1>3, <2>2 DEF FwStep, ChanStep
  <1>6. RttStep
    <2>1. Leaves(RttChan, RttChan', s, rch[s], {"read"}) BY <1>2, LeaveChans DEF SrvTimeout
    <2>2. Abandons(RttChan, RttChan', s, {"read"}) BY <2>1 DEF Abandons, RttChan
    <2> QED BY <1>3, <2>2 DEF RttStep, ChanStep
  <1> QED BY <1>1, <1>2, <1>4, <1>5, <1>6 DEF ChanSteps, RestOK

LEMMA SrvNextStep == ASSUME TypeInv, NEW s \in Servers, SrvNext(s) PROVE ChanSteps /\ RestOK'
  BY SrvTargetStep, SrvSendTargetStep, SrvTargetAnswerStep, SrvFirmwareStep, SrvSendFwStep,
     SrvFwAnswerStep, SrvRttSteps, SrvRttAnswerStep, SrvTimeoutStep
  DEF SrvNext

-----------------------------------------------------------------------------
(* The steps of the Target task *)

\* The other channels, and who waits, when only the Target task moves.
LEMMA TargetOnly ==
  ASSUME TypeInv, UNCHANGED <<srv, fw, fq, fsig, rttVars>>
  PROVE  /\ TargetChan'.waits = TargetChan.waits /\ FwStep /\ RttStep
         /\ SrvOK' /\ RttOK' /\ (ctrl' \in {NoCtrl, "start", "stop"} => FwOK')
  <1> USE DEF rttVars
  <1>1. TargetChan'.waits = TargetChan.waits BY DEF TargetChan, AsksTarget
  <1>2. FwChan' = FwChan /\ RttChan' = RttChan BY DEF FwChan, RttChan
  <1>3. ctrl' \in {NoCtrl, "start", "stop"} => FwOK' BY DEF TypeInv, RestOK, FwOK, FwPlaces
  <1> QED BY <1>1, <1>2, <1>3, UnchangedOK DEF FwStep, RttStep, ChanStep

\* What calls may leave when they start from target t.
Effects(t) ==
  {Effect(u, c) : u \in [at : {t.at}, cur : {t.cur}, connected : BOOLEAN, settings : Settings],
                  c \in {NoCtrl, "start", "stop"}}

LEMMA EffectFacts ==
  ASSUME TypeInv
  PROVE  /\ \A op : HandleRequest(target, op) \subseteq Effects(target)
         /\ TimerEffects(target) \subseteq Effects(target)
         /\ Connect(target, ctrl) \subseteq Effects(target)
  <1>0. /\ target = [at |-> target.at, cur |-> target.cur, connected |-> target.connected,
                     settings |-> target.settings]
        /\ target.connected \in BOOLEAN /\ target.settings \in Settings
        /\ ctrl \in {NoCtrl, "start", "stop"}
    BY DEF TypeInv, RestOK, TargetOK, FwOK
  <1>1. AllOn \in Settings /\ AllOff \in Settings BY DEF AllOn, AllOff, Settings
  <1> DEFINE Like(t) == t \in [at : {target.at}, cur : {target.cur}, connected : BOOLEAN, settings : Settings]
  <1>2. Like(target) BY <1>0
  <1>3. ASSUME NEW t, Like(t) PROVE Like(Up(t)) /\ Like(Down(t)) BY <1>3 DEF Up, Down
  <1>4. ASSUME NEW x \in Settings PROVE Like([target EXCEPT !.settings = x]) BY <1>0, <1>4
  <1>5. ASSUME NEW t, Like(t), NEW c \in {NoCtrl, "start", "stop"}
        PROVE  Effect(t, c) \in Effects(target)
    BY <1>5 DEF Effects
  <1> HIDE DEF Like
  <1>6. ASSUME NEW t, Like(t), NEW c \in {NoCtrl, "start", "stop"}
        PROVE  Connect(t, c) \subseteq Effects(target) /\ Refresh(t, c) \subseteq Effects(target)
    BY <1>3, <1>5, <1>6 DEF Connect, Refresh
  <1>7. IsConnected(target, ctrl) \in {NoCtrl, "start", "stop"} BY <1>0 DEF IsConnected
  <1>8. TimerEffects(target) \subseteq Effects(target)
    BY <1>0, <1>2, <1>5, <1>6, <1>7 DEF TimerEffects
  <1>9. RestReset(target) \subseteq Effects(target) BY <1>0, <1>1, <1>4, <1>6 DEF RestReset
  <1>10. RestRawReset(target) \subseteq Effects(target)
    BY <1>0, <1>1, <1>3, <1>4, <1>5 DEF RestRawReset
  <1>11. UpdateSettings(target) \subseteq Effects(target) BY <1>0, <1>4, <1>5 DEF UpdateSettings
  <1>12. RestAccess(target) \subseteq Effects(target) BY <1>0, <1>2, <1>5 DEF RestAccess
  <1>13. \A op : HandleRequest(target, op) \subseteq Effects(target)
    BY <1>9, <1>10, <1>11, <1>12 DEF HandleRequest
  <1> QED BY <1>0, <1>2, <1>6, <1>8, <1>13

LEMMA LoopFacts ==
  ASSUME TypeInv, NEW e \in Effects(target), NEW expired, Loop(e, expired)
  PROVE  /\ TargetOK' /\ target'.cur = NoMsg /\ target'.at = "idle"
         /\ ctrl' \in {NoCtrl, "start", "stop"}
  <1>1. PICK u \in [at : {target.at}, cur : {target.cur}, connected : BOOLEAN, settings : Settings],
             c \in {NoCtrl, "start", "stop"} : e = Effect(u, c)
    BY DEF Effects
  <1>2. e.target = u /\ e.ctrl = c BY <1>1 DEF Effect
  <1>3. target' = [u EXCEPT !.at = "idle", !.cur = NoMsg] BY <1>2 DEF Loop
  <1>4. ctrl' \in {NoCtrl, "start", "stop"} BY <1>2 DEF Loop, IsConnected
  <1>5. TargetOK' BY <1>3 DEF TargetOK, TargetPlaces
  <1> QED BY <1>3, <1>4, <1>5

LEMMA TargetReceiveStep == ASSUME TypeInv, TargetReceive PROVE ChanSteps /\ RestOK'
  <1>1. TargetChan'.waits = TargetChan.waits /\ FwStep /\ RttStep /\ SrvOK' /\ RttOK' /\ FwOK'
    BY TargetOnly, UnchangedOK DEF TargetReceive, fwVars
  <1>2. target.cur = NoMsg BY DEF TargetReceive, TypeInv, RestOK, TargetOK, TargetPlaces
  <1>3. /\ target' = [target EXCEPT !.at = "serving", !.cur = Head(tq)]
        /\ target = [at |-> target.at, cur |-> target.cur, connected |-> target.connected,
                     settings |-> target.settings]
    BY DEF TargetReceive, TypeInv, RestOK, TargetOK
  <1>4. TargetOK' BY <1>3 DEF TypeInv, RestOK, TargetOK, TargetPlaces
  <1>5. Receives(TargetChan, TargetChan')
    <2>1. target'.cur = Head(tq) BY <1>3
    <2> QED BY <1>1, <1>2, <2>1 DEF Receives, TargetChan, TargetReceive
  <1> QED BY <1>1, <1>4, <1>5 DEF ChanSteps, TargetStep, ChanStep, RestOK

LEMMA TargetRespondStep ==
  ASSUME TypeInv, NEW expired, TargetRespond(expired) PROVE ChanSteps /\ RestOK'
  <1>1. PICK e \in Effects(target) :
          /\ Loop(e, expired)
          /\ tsig' = [tsig EXCEPT ![target.cur.from] =
               Answer(target.cur, target.cur.op \in {"status", "reset"} /\ e.target.connected)]
    BY EffectFacts DEF TargetRespond
  <1>2. TargetOK' /\ target'.cur = NoMsg /\ ctrl' \in {NoCtrl, "start", "stop"} BY <1>1, LoopFacts
  <1>3. TargetChan'.waits = TargetChan.waits /\ FwStep /\ RttStep /\ SrvOK' /\ RttOK' /\ FwOK'
    BY <1>2, TargetOnly DEF TargetRespond
  <1>4. TargetStep
    <2> DEFINE up == target.cur.op \in {"status", "reset"} /\ e.target.connected
    <2>1. up \in BOOLEAN OBVIOUS
    <2>2. tsig' = [tsig EXCEPT ![target.cur.from] = Answer(target.cur, up)] BY <1>1
    <2> HIDE DEF up
    <2>3. Responds(TargetChan, TargetChan', up)
      BY <1>2, <1>3, <2>2 DEF Responds, TargetChan, TargetRespond
    <2> QED BY <2>1, <2>3 DEF TargetStep, ChanStep
  <1> QED BY <1>2, <1>3, <1>4 DEF ChanSteps, RestOK

\* The rest leaves the requests alone.
LEMMA TargetMovesStep ==
  ASSUME TypeInv, BinAccept \/ TargetTimer \/ \E expired \in BOOLEAN : BinEnd(expired)
  PROVE  ChanSteps /\ RestOK'
  <1>0. target.cur = NoMsg
    BY DEF BinAccept, TargetTimer, BinEnd, TypeInv, RestOK, TargetOK, TargetPlaces
  <1>1. UNCHANGED <<srv, tq, tsig, fw, fq, fsig, rttVars>>
    BY DEF BinAccept, TargetTimer, BinEnd, fwVars
  <1>2. TargetOK' /\ target'.cur = NoMsg /\ ctrl' \in {NoCtrl, "start", "stop"}
    <2>1. CASE BinAccept
      <3>1. /\ target' = [target EXCEPT !.at = "bin"]
            /\ target = [at |-> target.at, cur |-> target.cur, connected |-> target.connected,
                         settings |-> target.settings]
        BY <2>1 DEF BinAccept, TypeInv, RestOK, TargetOK
      <3>2. ctrl' \in {NoCtrl, "start", "stop"} BY <2>1 DEF BinAccept, fwVars, TypeInv, RestOK, FwOK
      <3> QED BY <1>0, <3>1, <3>2 DEF TypeInv, RestOK, TargetOK, TargetPlaces
    <2>2. CASE TargetTimer BY <2>2, EffectFacts, LoopFacts DEF TargetTimer
    <2>3. ASSUME NEW expired \in BOOLEAN, BinEnd(expired)
          PROVE  TargetOK' /\ target'.cur = NoMsg /\ ctrl' \in {NoCtrl, "start", "stop"}
      BY <2>3, EffectFacts, LoopFacts DEF BinEnd
    <2> QED BY <2>1, <2>2, <2>3
  <1>3. TargetChan'.waits = TargetChan.waits /\ FwStep /\ RttStep /\ SrvOK' /\ RttOK' /\ FwOK'
    BY <1>1, <1>2, TargetOnly
  <1>4. TargetChan' = TargetChan BY <1>0, <1>1, <1>2, <1>3 DEF TargetChan
  <1> QED BY <1>2, <1>3, <1>4 DEF ChanSteps, TargetStep, ChanStep, RestOK

LEMMA TargetNextStep == ASSUME TypeInv, TargetNext PROVE ChanSteps /\ RestOK'
  <1>1. CASE TargetReceive BY <1>1, TargetReceiveStep
  <1>2. ASSUME NEW expired \in BOOLEAN, TargetRespond(expired) PROVE ChanSteps /\ RestOK'
    BY <1>2, TargetRespondStep
  <1>3. CASE BinAccept \/ TargetTimer \/ \E expired \in BOOLEAN : BinEnd(expired)
    BY <1>3, TargetMovesStep
  <1> QED BY <1>1, <1>2, <1>3 DEF TargetNext

-----------------------------------------------------------------------------
(* How the Firmware and the RTT task use the request channel               *)

\* o asks nothing more, or it asks one question more.
GoesOn(o, q) ==
  \/ tq' = q /\ o \notin TargetChan'.waits
  \/ Asked(q, TargetChan', Msg(o, "access"))

LEMMA OwnerStep ==
  ASSUME TypeInv, NEW o \in {"fw", "rtt"}, OthersWait(TargetChan, TargetChan', o),
         \/ o \notin TargetChan.waits /\ UNCHANGED <<target, tsig>> /\ GoesOn(o, tq)
         \/ TakeAnswer(o) /\ GoesOn(o, StaleAll(tq, o))
         \/ o = "fw" /\ Timeouts /\ LeaveTarget(o, tsig[o]) /\ GoesOn(o, StaleAll(tq, o))
  PROVE  TargetStep /\ TargetOK'
  <1>0. o \in Owners /\ "access" \in TargetCommands BY DEF Owners, TargetCommands
  <1>1. TargetOK' BY LeaveFacts, UnchangedOK DEF TakeAnswer
  <1>2. CASE o \notin TargetChan.waits /\ UNCHANGED <<target, tsig>> /\ GoesOn(o, tq)
    <2>1. CASE tq' = tq /\ o \notin TargetChan'.waits
      <3>1. TargetChan.waits \subseteq Owners /\ TargetChan'.waits \subseteq Owners BY DEF TargetChan
      <3>2. TargetChan'.waits = TargetChan.waits BY <1>2, <2>1, <3>1, SameWaits
      <3>3. TargetChan' = TargetChan BY <1>2, <2>1, <3>2 DEF TargetChan
      <3> QED BY <1>1, <3>3 DEF TargetStep, ChanStep
    <2>2. CASE Asked(tq, TargetChan', Msg(o, "access"))
      <3>1. Msg(o, "access").from = o BY DEF Msg
      <3>2. TargetChan'.cur = TargetChan.cur /\ TargetChan'.sig = TargetChan.sig /\ TargetChan.q = tq
        BY <1>2 DEF TargetChan
      <3>3. Asks(TargetChan, TargetChan', Msg(o, "access")) BY <1>2, <2>2, <3>1, <3>2 DEF Asks
      <3> QED BY <1>0, <1>1, <3>3 DEF TargetStep, ChanStep
    <2> QED BY <1>2, <2>1, <2>2 DEF GoesOn
  <1>3. ASSUME NEW sig, LeaveTarget(o, sig), GoesOn(o, StaleAll(tq, o))
        PROVE  Leaves(TargetChan, TargetChan', o, sig, TargetCommands)
    <2>1. TargetChan'.cur = Stale(TargetChan.cur, o)
          /\ TargetChan'.sig = [TargetChan.sig EXCEPT ![o] = [sig EXCEPT !.fresh = FALSE]]
          /\ TargetChan'.q = tq' /\ TargetChan.q = tq
      BY <1>3, LeaveFacts DEF TargetChan
    <2> QED BY <1>0, <1>3, <2>1 DEF Leaves, GoesOn
  <1>4. CASE TakeAnswer(o) /\ GoesOn(o, StaleAll(tq, o))
    <2>1. Takes(TargetChan, TargetChan', o, TargetCommands)
      BY <1>3, <1>4 DEF TakeAnswer, Takes, TargetChan
    <2> QED BY <1>0, <1>1, <2>1 DEF TargetStep, ChanStep
  <1>5. CASE o = "fw" /\ Timeouts /\ LeaveTarget(o, tsig[o]) /\ GoesOn(o, StaleAll(tq, o))
    <2>1. Abandons(TargetChan, TargetChan', o, TargetCommands)
      BY <1>3, <1>5 DEF Abandons, TargetChan
    <2>2. o \in Hasty(Owners) BY <1>0, <1>5, ConstantFacts DEF Hasty
    <2> QED BY <1>1, <2>1, <2>2 DEF TargetStep, ChanStep
  <1> QED BY <1>1, <1>2, <1>4, <1>5

LEMMA OwnerWaits ==
  /\ "fw" \in TargetChan.waits <=> fw.at = "wait"
  /\ "rtt" \in TargetChan.waits <=> rtt.at = "wait"
  /\ UNCHANGED <<srv, rtt>> => OthersWait(TargetChan, TargetChan', "fw")
                               /\ ("fw" \in TargetChan'.waits <=> fw'.at = "wait")
  /\ UNCHANGED <<srv, fw>> => OthersWait(TargetChan, TargetChan', "rtt")
                              /\ ("rtt" \in TargetChan'.waits <=> rtt'.at = "wait")
  BY ConstantFacts DEF TargetChan, AsksTarget, OthersWait

-----------------------------------------------------------------------------
(* The steps of the Firmware task *)

FwLike(f) ==
  /\ f = [at |-> f.at, job |-> f.job, cmd |-> f.cmd, decoders |-> f.decoders,
          state |-> f.state, firmware |-> f.firmware]
  /\ f.at \in {"select", "send", "wait"} /\ f.job \in {"none", "start", "command"}
  /\ f.decoders \in 0 .. DECODERS /\ f.state \in {"Started", "Stopped"}
  /\ f.firmware \in {"none", "plain", "rtt"}

LEMMA FwLikeFacts == ASSUME TypeInv PROVE FwLike(fw) /\ ctrl \in {NoCtrl, "start", "stop"} /\ FwPlaces
  BY DEF TypeInv, RestOK, FwOK, FwLike

\* Where an access leaves the task.
LEMMA FwAccessFacts ==
  ASSUME NEW f, FwLike(f), NEW q, FwAccess(f, q)
  PROVE  /\ fw'.cmd = f.cmd /\ fw'.at # "select"
         /\ f.job # "none" /\ (f.job # "command" => f.cmd = NoMsg) /\ f.state = "Started"
              /\ ctrl' \in {NoCtrl, "start", "stop"} => FwOK'
         /\ UNCHANGED <<srv, rtt>> => GoesOn("fw", q)
  <1>1. fw' = [f EXCEPT !.at = IF HasRoom(q) THEN "wait" ELSE "send"] BY DEF FwAccess, AskAt
  <1>2. fw'.cmd = f.cmd /\ fw'.at # "select" BY <1>1 DEF FwLike
  <1>3. f.job # "none" /\ (f.job # "command" => f.cmd = NoMsg) /\ f.state = "Started"
          /\ ctrl' \in {NoCtrl, "start", "stop"} => FwOK'
    BY <1>1 DEF FwLike, FwOK, FwPlaces
  <1>4. ASSUME UNCHANGED <<srv, rtt>> PROVE GoesOn("fw", q)
    <2>1. fw'.at = "wait" <=> HasRoom(q) BY <1>1 DEF FwLike
    <2>2. "fw" \in TargetChan'.waits <=> HasRoom(q) BY <1>4, <2>1, OwnerWaits
    <2>3. tq' = Put(q, Msg("fw", "access")) /\ Msg("fw", "access").from = "fw" BY DEF FwAccess, Msg
    <2> QED BY <2>2, <2>3 DEF GoesOn, Asked, TargetChan
  <1> QED BY <1>2, <1>3, <1>4

LEMMA FwSelectFacts ==
  ASSUME NEW f, FwLike(f), NEW x \in {"none", "plain", "rtt", f.firmware}, ctrl' \in {NoCtrl, "start", "stop"},
         fw' = [FwSelect(f) EXCEPT !.firmware = x]
  PROVE  FwOK' /\ fw'.at = "select" /\ fw'.cmd = NoMsg
  <1>1. fw' = [at |-> "select", job |-> "none", cmd |-> NoMsg, decoders |-> 0,
               state |-> f.state, firmware |-> x]
    BY DEF FwLike, FwSelect
  <1>2. /\ fw'.at = "select" /\ fw'.job = "none" /\ fw'.cmd = NoMsg /\ fw'.decoders = 0
        /\ fw'.state = f.state /\ fw'.firmware = x
    BY <1>1
  <1>3. 0 \in 0 .. DECODERS BY DEF DECODERS
  <1> QED BY <1>1, <1>2, <1>3 DEF FwLike, FwOK, FwPlaces

\* The other channels when the Firmware task moves.
LEMMA FwOnly ==
  ASSUME TypeInv, UNCHANGED <<srv, rtt, rq, rch>>
  PROVE  /\ RttStep /\ SrvOK'
         /\ rctrl' \in {NoCtrl, "start", "stop"} => RttOK'
         /\ UNCHANGED <<fq, fsig>> /\ fw'.cmd = fw.cmd => FwStep
         /\ OthersWait(TargetChan, TargetChan', "fw")
         /\ "fw" \in TargetChan.waits <=> fw.at = "wait"
         /\ "fw" \in TargetChan'.waits <=> fw'.at = "wait"
  <1>1. RttChan' = RttChan BY DEF RttChan
  <1>2. UNCHANGED <<fq, fsig>> /\ fw'.cmd = fw.cmd => FwChan' = FwChan BY DEF FwChan
  <1>3. rctrl' \in {NoCtrl, "start", "stop"} => RttOK' BY DEF TypeInv, RestOK, RttOK, RttPlaces
  <1> QED BY <1>1, <1>2, <1>3, OwnerWaits, UnchangedOK DEF RttStep, FwStep, ChanStep

LEMMA FwStopStep == ASSUME TypeInv, FwStop PROVE ChanSteps /\ RestOK'
  <1> USE FwLikeFacts DEF FwStop, targetVars
  <1>1. fw'.at = "select" /\ fw'.cmd = fw.cmd /\ FwOK' BY DEF FwLike, FwOK, FwPlaces
  <1>2. GoesOn("fw", tq) BY <1>1, FwOnly DEF GoesOn
  <1> QED BY <1>1, <1>2, FwOnly, OwnerStep DEF ChanSteps, RestOK

LEMMA FwStartStep == ASSUME TypeInv, FwStart PROVE ChanSteps /\ RestOK'
  <1> USE FwLikeFacts DEF FwStart, rttVars
  <1>0. PICK f : f = [fw EXCEPT !.state = "Started", !.job = "start", !.decoders = DECODERS] OBVIOUS
  <1>1. FwLike(f) /\ f.job = "start" /\ f.cmd = fw.cmd /\ f.state = "Started" /\ fw.cmd = NoMsg
    <2>1. DECODERS \in 0 .. DECODERS BY DEF DECODERS
    <2> QED BY <1>0, <2>1 DEF FwLike, FwPlaces
  <1>2. FwAccess(f, tq) BY <1>0
  <1>3. FwOK' /\ fw'.cmd = fw.cmd /\ GoesOn("fw", tq) BY <1>1, <1>2, FwAccessFacts
  <1>4. TargetStep /\ TargetOK' BY <1>3, FwOnly, OwnerStep
  <1>5. rctrl' \in {NoCtrl, "start", "stop"} BY DEF TypeInv, RestOK, RttOK
  <1> QED BY <1>3, <1>4, <1>5, FwOnly DEF ChanSteps, RestOK

LEMMA FwCommandStep == ASSUME TypeInv, FwCommand PROVE ChanSteps /\ RestOK'
  <1> USE FwLikeFacts DEF rttVars
  <1>0. /\ fw.at = "select" /\ fw.cmd = NoMsg /\ fw.job = "none" /\ fq # <<>> /\ fq' = Tail(fq)
        /\ UNCHANGED <<srv, target, tsig, ctrl, rtt, rctrl, rq, rch>>
    BY DEF FwCommand, FwPlaces
  <1>1. FwChan'.waits = FwChan.waits BY <1>0 DEF FwChan
  <1>2. rctrl' \in {NoCtrl, "start", "stop"} BY <1>0 DEF TypeInv, RestOK, RttOK
  <1>3. CASE FwRespond(Head(fq)) /\ UNCHANGED <<fw, tq>>
    <2>1. AnswersAtOnce(FwChan, FwChan', FALSE)
      BY <1>0, <1>1, <1>3 DEF AnswersAtOnce, FwChan, FwRespond
    <2>2. FwStep BY <2>1 DEF FwStep, ChanStep
    <2>3. GoesOn("fw", tq) BY <1>0, <1>3, FwOnly DEF GoesOn
    <2>4. TargetStep /\ TargetOK' BY <1>0, <2>3, FwOnly, OwnerStep
    <2> QED BY <1>0, <1>2, <1>3, <2>2, <2>4, FwOnly, UnchangedOK DEF ChanSteps, RestOK
  <1>4. CASE /\ fw.state = "Started" /\ FwAccess([fw EXCEPT !.job = "command", !.cmd = Head(fq)], tq)
             /\ UNCHANGED fsig
    <2>0. PICK f : f = [fw EXCEPT !.job = "command", !.cmd = Head(fq)] OBVIOUS
    <2>1. FwLike(f) /\ f.job = "command" /\ f.cmd = Head(fq) /\ f.state = "Started"
      BY <1>4, <2>0 DEF FwLike
    <2>2. FwOK' /\ fw'.cmd = Head(fq) /\ GoesOn("fw", tq)
      BY <1>0, <1>4, <2>0, <2>1, FwAccessFacts
    <2>3. Receives(FwChan, FwChan') BY <1>0, <1>1, <1>4, <2>2 DEF Receives, FwChan
    <2>4. FwStep BY <2>3 DEF FwStep, ChanStep
    <2>5. TargetStep /\ TargetOK' BY <1>0, <2>2, FwOnly, OwnerStep
    <2> QED BY <1>0, <1>2, <2>2, <2>4, <2>5, FwOnly DEF ChanSteps, RestOK
  <1> QED BY <1>3, <1>4 DEF FwCommand

\* In the middle of something, with its command, if any.
LEMMA FwBusyFacts ==
  ASSUME TypeInv, fw.at # "select"
  PROVE  FwLike(fw) /\ fw.job # "none" /\ (fw.job # "command" => fw.cmd = NoMsg) /\ fw.state = "Started"
  BY FwLikeFacts DEF FwPlaces, FwLike

LEMMA FwSendTargetStep == ASSUME TypeInv, FwSendTarget PROVE ChanSteps /\ RestOK'
  <1> USE FwLikeFacts, FwBusyFacts DEF FwSendTarget, rttVars
  <1>1. FwOK' /\ fw'.cmd = fw.cmd /\ GoesOn("fw", tq) BY FwAccessFacts
  <1>2. TargetStep /\ TargetOK' BY <1>1, FwOnly, OwnerStep
  <1>3. rctrl' \in {NoCtrl, "start", "stop"} BY DEF TypeInv, RestOK, RttOK
  <1> QED BY <1>1, <1>2, <1>3, FwOnly DEF ChanSteps, RestOK

LEMMA FwReadMoreStep == ASSUME TypeInv, FwReadMore PROVE ChanSteps /\ RestOK'
  <1> USE FwLikeFacts, FwBusyFacts DEF FwReadMore, rttVars
  <1>1. FwOK' /\ fw'.cmd = fw.cmd /\ GoesOn("fw", StaleAll(tq, "fw")) BY FwAccessFacts
  <1>2. TargetStep /\ TargetOK' BY <1>1, FwOnly, OwnerStep
  <1>3. rctrl' \in {NoCtrl, "start", "stop"} BY DEF TypeInv, RestOK, RttOK
  <1> QED BY <1>1, <1>2, <1>3, FwOnly DEF ChanSteps, RestOK

\* However a decoder ends.
LEMMA DecoderFacts ==
  ASSUME TypeInv, fw.at # "select", fw.job = "start", NextDecoder \/ \E x \in Firmwares : Decoded(x),
         UNCHANGED <<srv, ctrl, rtt>>
  PROVE  /\ FwOK' /\ fw'.cmd = fw.cmd /\ GoesOn("fw", StaleAll(tq, "fw"))
         /\ rctrl' \in {NoCtrl, "start", "stop"}
  <1> USE FwLikeFacts, FwBusyFacts
  <1>0. rctrl \in {NoCtrl, "start", "stop"} BY DEF TypeInv, RestOK, RttOK
  <1>1. ASSUME NEW x \in {"none", "plain", "rtt"}, Decoded(x)
        PROVE  /\ FwOK' /\ fw'.cmd = fw.cmd /\ GoesOn("fw", StaleAll(tq, "fw"))
               /\ rctrl' \in {NoCtrl, "start", "stop"}
    <2>1. FwOK' /\ fw'.at = "select" /\ fw'.cmd = NoMsg BY <1>1, FwSelectFacts DEF Decoded
    <2>2. GoesOn("fw", StaleAll(tq, "fw")) BY <1>1, <2>1, OwnerWaits DEF GoesOn, Decoded
    <2>3. rctrl' \in {NoCtrl, "start", "stop"} BY <1>0, <1>1 DEF Decoded
    <2> QED BY <2>1, <2>2, <2>3
  <1>2. CASE /\ fw.decoders > 1 /\ FwAccess([fw EXCEPT !.decoders = @ - 1], StaleAll(tq, "fw"))
             /\ UNCHANGED rctrl
    <2> DEFINE f == [fw EXCEPT !.decoders = @ - 1]
    <2>1. FwLike(f) /\ f.job = fw.job /\ f.cmd = fw.cmd /\ f.state = fw.state
      BY <1>2 DEF FwLike, DECODERS
    <2> HIDE DEF f
    <2> QED BY <1>0, <1>2, <2>1, FwAccessFacts DEF f
  <1> QED BY <1>1, <1>2, TasksAssumption DEF NextDecoder

LEMMA FwDecodedStep == ASSUME TypeInv, FwDecoded PROVE ChanSteps /\ RestOK'
  <1> USE DEF FwDecoded
  <1>1. FwOK' /\ fw'.cmd = fw.cmd /\ GoesOn("fw", StaleAll(tq, "fw")) /\ rctrl' \in {NoCtrl, "start", "stop"}
    BY DecoderFacts
  <1>2. TargetStep /\ TargetOK' BY <1>1, FwOnly, OwnerStep
  <1> QED BY <1>1, <1>2, FwOnly DEF ChanSteps, RestOK

LEMMA FwDecodeTimeoutStep == ASSUME TypeInv, FwDecodeTimeout PROVE ChanSteps /\ RestOK'
  <1> USE DEF FwDecodeTimeout, FwBlocked
  <1>1. FwOK' /\ fw'.cmd = fw.cmd /\ GoesOn("fw", StaleAll(tq, "fw")) /\ rctrl' \in {NoCtrl, "start", "stop"}
    BY DecoderFacts
  <1>2. TargetStep /\ TargetOK' BY <1>1, FwOnly, OwnerStep
  <1> QED BY <1>1, <1>2, FwOnly DEF ChanSteps, RestOK

\* A handler ends with its answer in the sender's signal, in time or not.
LEMMA FwHandlerEnds ==
  ASSUME TypeInv, FwHandled \/ FwHandlerTimeout PROVE ChanSteps /\ RestOK'
  <1> USE FwLikeFacts DEF FwHandled, FwHandlerTimeout, FwBlocked, rttVars
  <1>1. FwOK' /\ fw'.at = "select" /\ fw'.cmd = NoMsg
    <2>1. FwSelect(fw) = [FwSelect(fw) EXCEPT !.firmware = fw.firmware] BY DEF FwSelect, FwLike
    <2> QED BY <2>1, FwSelectFacts DEF FwLike
  <1>2. GoesOn("fw", StaleAll(tq, "fw")) BY <1>1, FwOnly DEF GoesOn
  <1>3. TargetStep /\ TargetOK' BY <1>2, FwOnly, OwnerStep
  <1>4. FwStep
    <2>1. FwChan'.waits = FwChan.waits BY DEF FwChan
    <2>2. Responds(FwChan, FwChan', FALSE) BY <1>1, <2>1 DEF Responds, FwChan, FwRespond
    <2> QED BY <2>2 DEF FwStep, ChanStep
  <1>5. rctrl' \in {NoCtrl, "start", "stop"} BY DEF TypeInv, RestOK, RttOK
  <1> QED BY <1>1, <1>3, <1>4, <1>5, FwOnly DEF ChanSteps, RestOK

LEMMA FwNextStep == ASSUME TypeInv, FwNext PROVE ChanSteps /\ RestOK'
  BY FwStopStep, FwStartStep, FwCommandStep, FwSendTargetStep, FwReadMoreStep, FwDecodedStep,
     FwDecodeTimeoutStep, FwHandlerEnds
  DEF FwNext

-----------------------------------------------------------------------------
(* The steps of the RTT task *)

RttLike(r) ==
  /\ r = [at |-> r.at, job |-> r.job, cmd |-> r.cmd, timer |-> r.timer, state |-> r.state]
  /\ r.at \in {"select", "send", "wait", "reply"}
  /\ r.job \in {"none", "poll", "restart", "start"}
  /\ r.timer \in BOOLEAN /\ r.state \in {"Started", "Stopped"}

LEMMA RttLikeFacts == ASSUME TypeInv PROVE RttLike(rtt) /\ rctrl \in {NoCtrl, "start", "stop"} /\ RttPlaces
  BY DEF TypeInv, RestOK, RttOK, RttLike

\* The other channels when the RTT task moves.
LEMMA RttOnly ==
  ASSUME TypeInv, UNCHANGED <<srv, fwVars>>
  PROVE  /\ FwStep /\ SrvOK' /\ FwOK' /\ RttChan'.waits = RttChan.waits
         /\ UNCHANGED <<rq, rch>> /\ rtt'.cmd = rtt.cmd => RttStep
         /\ OthersWait(TargetChan, TargetChan', "rtt")
         /\ "rtt" \in TargetChan.waits <=> rtt.at = "wait"
         /\ "rtt" \in TargetChan'.waits <=> rtt'.at = "wait"
  <1> USE DEF fwVars
  <1>1. FwChan' = FwChan BY DEF FwChan
  <1>2. RttChan'.waits = RttChan.waits BY DEF RttChan
  <1>3. UNCHANGED <<rq, rch>> /\ rtt'.cmd = rtt.cmd => RttChan' = RttChan BY <1>2 DEF RttChan
  <1> QED BY <1>1, <1>2, <1>3, OwnerWaits, UnchangedOK DEF RttStep, FwStep, ChanStep

\* Where an access leaves the task, and where the start of its loop does.
LEMMA RttAccessFacts ==
  ASSUME NEW r, RttLike(r), r.job # "none", r.cmd = NoMsg, NEW q, RttAccess(r, q),
         rctrl' \in {NoCtrl, "start", "stop"}, UNCHANGED <<srv, fw>>
  PROVE  /\ RttOK' /\ rtt'.cmd = NoMsg /\ rtt'.at # "select" /\ rtt'.job = r.job /\ rtt'.state = r.state
         /\ GoesOn("rtt", q)
  <1>1. rtt' = [r EXCEPT !.at = IF HasRoom(q) THEN "wait" ELSE "send"] BY DEF RttAccess, AskAt
  <1>2. /\ RttOK' /\ rtt'.cmd = NoMsg /\ rtt'.at # "select" /\ rtt'.job = r.job /\ rtt'.state = r.state
    BY <1>1 DEF RttLike, RttOK, RttPlaces
  <1>3. GoesOn("rtt", q)
    <2>1. rtt'.at = "wait" <=> HasRoom(q) BY <1>1 DEF RttLike
    <2>2. "rtt" \in TargetChan'.waits <=> HasRoom(q) BY <2>1, OwnerWaits
    <2>3. tq' = Put(q, Msg("rtt", "access")) /\ Msg("rtt", "access").from = "rtt"
      BY DEF RttAccess, Msg
    <2> QED BY <2>2, <2>3 DEF GoesOn, Asked, TargetChan
  <1> QED BY <1>2, <1>3

LEMMA RttLoopFacts ==
  ASSUME NEW r, RttLike(r), NEW q, RttLoop(r, q), rctrl' \in {NoCtrl, "start", "stop"},
         UNCHANGED <<srv, fw>>
  PROVE  /\ RttOK' /\ rtt'.cmd = NoMsg /\ GoesOn("rtt", q)
         /\ rtt'.state = r.state /\ (rtt'.job # "none" => r.state = "Started")
  <1>0. PICK w : w = [r EXCEPT !.at = "select", !.job = "none", !.cmd = NoMsg,
                               !.timer = (r.state = "Started")]
    OBVIOUS
  <1>1. /\ RttLike(w) /\ w.at = "select" /\ w.job = "none" /\ w.cmd = NoMsg /\ w.state = r.state
    BY <1>0 DEF RttLike
  <1>2. CASE r.state = "Started" /\ RttAccess([w EXCEPT !.job = "poll"], q)
    <2>0. PICK v : v = [w EXCEPT !.job = "poll"] OBVIOUS
    <2>1. RttLike(v) /\ v.job = "poll" /\ v.cmd = NoMsg /\ v.state = r.state
      BY <1>1, <2>0 DEF RttLike
    <2> QED BY <1>2, <2>0, <2>1, RttAccessFacts
  <1>3. CASE tq' = q /\ rtt' = w
    <2>1. RttOK' /\ rtt'.cmd = NoMsg /\ rtt'.at # "wait" /\ rtt'.state = r.state /\ rtt'.job = "none"
      BY <1>1, <1>3 DEF RttLike, RttOK, RttPlaces
    <2>2. GoesOn("rtt", q) BY <1>3, <2>1, OwnerWaits DEF GoesOn
    <2> QED BY <2>1, <2>2
  <1> QED BY <1>0, <1>2, <1>3 DEF RttLoop

LEMMA RttCommandStep == ASSUME TypeInv, RttCommand PROVE ChanSteps /\ RestOK'
  <1> USE RttLikeFacts DEF RttPlaces
  <1>0. /\ rtt.at = "select" /\ rtt.cmd = NoMsg /\ rq # <<>> /\ rq' = Tail(rq)
        /\ UNCHANGED <<srv, target, tsig, fwVars, rctrl>>
    BY DEF RttCommand
  <1>1. CASE rch' = [rch EXCEPT ![Head(rq).from] = Answer(Head(rq), FALSE)] /\ RttLoop(rtt, tq)
    <2>1. RttOK' /\ rtt'.cmd = NoMsg /\ GoesOn("rtt", tq) BY <1>0, <1>1, RttLoopFacts DEF fwVars
    <2>2. TargetStep /\ TargetOK' BY <1>0, <2>1, RttOnly, OwnerStep
    <2>3. AnswersAtOnce(RttChan, RttChan', FALSE)
      BY <1>0, <1>1, <2>1, RttOnly DEF AnswersAtOnce, RttChan
    <2> QED BY <1>0, <2>1, <2>2, <2>3, RttOnly DEF ChanSteps, RestOK, RttStep, ChanStep
  <1>2. CASE rtt' = [rtt EXCEPT !.at = "reply", !.cmd = Head(rq)] /\ UNCHANGED <<rch, tq>>
    <2>1. RttOK' /\ rtt'.cmd = Head(rq) /\ rtt'.at = "reply" BY <1>0, <1>2 DEF RttLike, RttOK
    <2>2. GoesOn("rtt", tq) BY <1>0, <1>2, <2>1, OwnerWaits DEF GoesOn, fwVars
    <2>3. TargetStep /\ TargetOK' BY <1>0, <2>2, RttOnly, OwnerStep
    <2>4. Receives(RttChan, RttChan') BY <1>0, <1>2, <2>1, RttOnly DEF Receives, RttChan
    <2> QED BY <1>0, <2>1, <2>3, <2>4, RttOnly DEF ChanSteps, RestOK, RttStep, ChanStep
  <1> QED BY <1>1, <1>2 DEF RttCommand

LEMMA RttReplyStep == ASSUME TypeInv, RttReply PROVE ChanSteps /\ RestOK'
  <1> USE RttLikeFacts DEF RttReply
  <1>1. RttOK' /\ rtt'.cmd = NoMsg /\ GoesOn("rtt", tq) BY RttLoopFacts DEF fwVars
  <1>2. TargetStep /\ TargetOK' BY <1>1, RttOnly, OwnerStep
  <1>3. Responds(RttChan, RttChan', FALSE) BY <1>1, RttOnly DEF Responds, RttChan
  <1> QED BY <1>1, <1>2, <1>3, RttOnly DEF ChanSteps, RestOK, RttStep, ChanStep

LEMMA RttControlStep == ASSUME TypeInv, RttControl PROVE ChanSteps /\ RestOK'
  <1> USE RttLikeFacts DEF RttPlaces
  <1>0. /\ rtt.at = "select" /\ rtt.cmd = NoMsg /\ rctrl' = NoCtrl
        /\ UNCHANGED <<srv, target, tsig, fwVars, rq, rch>>
    BY DEF RttControl
  <1>1. RttOK' /\ rtt'.cmd = NoMsg /\ GoesOn("rtt", tq)
    <2>1. CASE RttAccess([rtt EXCEPT !.job = "start"], tq)
      <3>0. PICK r : r = [rtt EXCEPT !.job = "start"] OBVIOUS
      <3>1. RttLike(r) /\ r.job = "start" /\ r.cmd = NoMsg BY <1>0, <3>0 DEF RttLike
      <3> QED BY <1>0, <2>1, <3>0, <3>1, RttAccessFacts DEF fwVars
    <2>2. CASE RttLoop([rtt EXCEPT !.state = "Stopped"], tq)
      <3>0. PICK r : r = [rtt EXCEPT !.state = "Stopped"] OBVIOUS
      <3>1. RttLike(r) BY <3>0 DEF RttLike
      <3> QED BY <1>0, <2>2, <3>0, <3>1, RttLoopFacts DEF fwVars
    <2> QED BY <2>1, <2>2 DEF RttControl
  <1>2. TargetStep /\ TargetOK' BY <1>0, <1>1, RttOnly, OwnerStep
  <1> QED BY <1>0, <1>1, <1>2, RttOnly DEF ChanSteps, RestOK

LEMMA RttTimerStep == ASSUME TypeInv, RttTimer PROVE ChanSteps /\ RestOK'
  <1> USE RttLikeFacts DEF RttTimer, RttPlaces
  <1>1. RttOK' /\ rtt'.cmd = NoMsg /\ GoesOn("rtt", tq) BY RttLoopFacts DEF fwVars
  <1>2. TargetStep /\ TargetOK' BY <1>1, RttOnly, OwnerStep
  <1> QED BY <1>1, <1>2, RttOnly DEF ChanSteps, RestOK

LEMMA RttSendTargetStep == ASSUME TypeInv, RttSendTarget PROVE ChanSteps /\ RestOK'
  <1> USE RttLikeFacts DEF RttSendTarget, RttPlaces
  <1>1. RttOK' /\ rtt'.cmd = NoMsg /\ GoesOn("rtt", tq) BY RttAccessFacts DEF fwVars
  <1>2. TargetStep /\ TargetOK' BY <1>1, RttOnly, OwnerStep
  <1> QED BY <1>1, <1>2, RttOnly DEF ChanSteps, RestOK

LEMMA RttReadMoreStep == ASSUME TypeInv, RttReadMore PROVE ChanSteps /\ RestOK'
  <1> USE RttLikeFacts
  <1> DEFINE q == StaleAll(tq, "rtt")
  <1>0. /\ rtt.at = "wait" /\ rtt.cmd = NoMsg /\ rtt.job # "none" /\ TakeAnswer("rtt")
        /\ UNCHANGED <<srv, fwVars, rctrl, rq, rch>>
    BY DEF RttReadMore, RttPlaces
  <1>1. PICK r : /\ r \in {rtt, [rtt EXCEPT !.job = "restart", !.state = "Stopped"],
                           [rtt EXCEPT !.job = "poll", !.state = "Started"]}
                 /\ RttAccess(r, q)
    BY DEF RttReadMore
  <1>2. RttLike(r) /\ r.job # "none" /\ r.cmd = NoMsg
    <2>1. CASE r = rtt BY <1>0, <2>1
    <2>2. CASE r = [rtt EXCEPT !.job = "restart", !.state = "Stopped"] BY <1>0, <2>2 DEF RttLike
    <2>3. CASE r = [rtt EXCEPT !.job = "poll", !.state = "Started"] BY <1>0, <2>3 DEF RttLike
    <2> QED BY <1>1, <2>1, <2>2, <2>3
  <1> HIDE DEF q
  <1>3. RttOK' /\ rtt'.cmd = NoMsg /\ GoesOn("rtt", q) BY <1>0, <1>1, <1>2, RttAccessFacts DEF fwVars
  <1>4. TargetStep /\ TargetOK' BY <1>0, <1>3, RttOnly, OwnerStep DEF q
  <1> QED BY <1>0, <1>3, <1>4, RttOnly DEF ChanSteps, RestOK

LEMMA RttReadLastStep == ASSUME TypeInv, RttReadLast PROVE ChanSteps /\ RestOK'
  <1> USE RttLikeFacts
  <1> DEFINE q == StaleAll(tq, "rtt")
  <1>0. /\ rtt.at = "wait" /\ rtt.cmd = NoMsg /\ TakeAnswer("rtt")
        /\ UNCHANGED <<srv, fwVars, rctrl, rq, rch>>
    BY DEF RttReadLast, RttPlaces
  <1>1. RttOK' /\ rtt'.cmd = NoMsg /\ GoesOn("rtt", q)
    <2>1. CASE tq' = q /\ rtt' = [rtt EXCEPT !.at = "select", !.job = "none", !.timer = TRUE]
      <3>1. RttOK' /\ rtt'.cmd = NoMsg /\ rtt'.at = "select"
        BY <1>0, <2>1 DEF RttLike, RttOK, RttPlaces
      <3> QED BY <1>0, <2>1, <3>1, OwnerWaits DEF GoesOn, fwVars
    <2>2. ASSUME NEW x \in {rtt.state, "Started"}, RttLoop([rtt EXCEPT !.state = x], q)
          PROVE  RttOK' /\ rtt'.cmd = NoMsg /\ GoesOn("rtt", q)
      <3>0. PICK r : r = [rtt EXCEPT !.state = x] OBVIOUS
      <3>1. RttLike(r) BY <3>0 DEF RttLike
      <3> HIDE DEF q
      <3> QED BY <1>0, <2>2, <3>0, <3>1, RttLoopFacts DEF fwVars
    <2> QED BY <2>1, <2>2 DEF RttReadLast
  <1> HIDE DEF q
  <1>2. TargetStep /\ TargetOK' BY <1>0, <1>1, RttOnly, OwnerStep DEF q
  <1> QED BY <1>0, <1>1, <1>2, RttOnly DEF ChanSteps, RestOK

LEMMA RttNextStep == ASSUME TypeInv, RttNext PROVE ChanSteps /\ RestOK'
  BY RttCommandStep, RttReplyStep, RttControlStep, RttTimerStep, RttSendTargetStep,
     RttReadMoreStep, RttReadLastStep
  DEF RttNext

\* What every step does: one thing to each channel, and the rest keeps its place.
LEMMA Steps == ASSUME TypeInv, [Next]_vars PROVE ChanSteps /\ RestOK'
  <1>1. CASE UNCHANGED vars
    <2>1. TargetChan' = TargetChan /\ FwChan' = FwChan /\ RttChan' = RttChan
      BY <1>1 DEF vars, targetVars, fwVars, rttVars, TargetChan, FwChan, RttChan, AsksTarget
    <2>2. RestOK'
      BY <1>1, UnchangedOK DEF vars, targetVars, fwVars, rttVars, RestOK
    <2> QED BY <2>1, <2>2 DEF ChanSteps, TargetStep, FwStep, RttStep, ChanStep
  <1> QED BY <1>1, SrvNextStep, TargetNextStep, FwNextStep, RttNextStep DEF Next

-----------------------------------------------------------------------------
(* The invariant holds, and with it what the three channels promise        *)

LEMMA ChanShapes ==
  /\ TargetChan = [q |-> TargetChan.q, cur |-> TargetChan.cur, sig |-> TargetChan.sig,
                   waits |-> TargetChan.waits] /\ TargetChan.waits \subseteq Owners
  /\ FwChan = [q |-> FwChan.q, cur |-> FwChan.cur, sig |-> FwChan.sig, waits |-> FwChan.waits]
     /\ FwChan.waits \subseteq Servers
  /\ RttChan = [q |-> RttChan.q, cur |-> RttChan.cur, sig |-> RttChan.sig, waits |-> RttChan.waits]
     /\ RttChan.waits \subseteq Servers
  /\ Hasty(Owners) \in SUBSET Owners /\ Hasty(Servers) \in SUBSET Servers
  /\ NoMsg.from \notin Owners /\ NoMsg.from \notin Servers
  BY ConstantFacts DEF TargetChan, FwChan, RttChan, Hasty, Owners

LEMMA ChanShapesNext ==
  /\ TargetChan' = [q |-> TargetChan'.q, cur |-> TargetChan'.cur, sig |-> TargetChan'.sig,
                    waits |-> TargetChan'.waits] /\ TargetChan'.waits \subseteq Owners
  /\ FwChan' = [q |-> FwChan'.q, cur |-> FwChan'.cur, sig |-> FwChan'.sig, waits |-> FwChan'.waits]
     /\ FwChan'.waits \subseteq Servers
  /\ RttChan' = [q |-> RttChan'.q, cur |-> RttChan'.cur, sig |-> RttChan'.sig, waits |-> RttChan'.waits]
     /\ RttChan'.waits \subseteq Servers
  BY DEF TargetChan, FwChan, RttChan

LEMMA InitTypeInv == Init => TypeInv
  <1> SUFFICES ASSUME Init PROVE TypeInv OBVIOUS
  <1> USE DEF Init
  <1>1. SrvOK BY ServerFacts DEF SrvOK, SrvPlaces, SrvPlaced, ServerIdle, Server, ServerAsks
  <1>2. TargetOK
    <2>1. AllOn \in Settings BY DEF AllOn, Settings
    <2> QED BY <2>1 DEF TargetOK, TargetPlaces
  <1>3. FwOK BY DEF FwOK, FwPlaces, DECODERS
  <1>4. RttOK BY DEF RttOK, RttPlaces
  <1>5. TargetChan \in Chan(Owners, TargetCommands)
    BY ConstantFacts DEF TargetChan, Chan, Handled, CHANNEL_SIZE
  <1>6. FwChan \in Chan(Servers, FwCommands)
    BY ConstantFacts DEF FwChan, Chan, Handled, CHANNEL_SIZE
  <1>7. RttChan \in Chan(Servers, {"read"})
    BY ConstantFacts DEF RttChan, Chan, Handled, CHANNEL_SIZE
  <1> QED BY <1>1, <1>2, <1>3, <1>4, <1>5, <1>6, <1>7 DEF TypeInv, RestOK

LEMMA NextTypeInv == TypeInv /\ [Next]_vars => TypeInv'
  <1> SUFFICES ASSUME TypeInv, [Next]_vars PROVE TypeInv' OBVIOUS
  <1>1. ChanSteps /\ RestOK' BY Steps
  <1>2. TargetChan' \in Chan(Owners, TargetCommands)
    BY <1>1, ChanStepType, ChanShapes, ChanShapesNext DEF TypeInv, ChanSteps, TargetStep
  <1>3. FwChan' \in Chan(Servers, FwCommands)
    BY <1>1, ChanStepType, ChanShapes, ChanShapesNext DEF TypeInv, ChanSteps, FwStep
  <1>4. RttChan' \in Chan(Servers, {"read"})
    BY <1>1, ChanStepType, ChanShapes, ChanShapesNext DEF TypeInv, ChanSteps, RttStep
  <1> QED BY <1>1, <1>2, <1>3, <1>4 DEF TypeInv

LEMMA SpecTypeInv == Spec => []TypeInv
  BY InitTypeInv, NextTypeInv, PTL DEF Spec

\* Every task is at one of its awaits with the variables of that place, every
\* message names a task that asks and an operation it may ask for, and no
\* channel holds more than its capacity, for any number of HTTP servers.
THEOREM TasksTypeCorrect == Spec => []TypeOK
  BY SpecTypeInv, TypeInvTypeOK, PTL

AllCared ==
  /\ \A o \in Owners : Cared(TargetChan, o)
  /\ \A s \in Servers : Cared(FwChan, s) /\ Cared(RttChan, s)

LEMMA InitAllCared == Init => AllCared
  BY ConstantFacts
  DEF Init, AllCared, Cared, TargetChan, FwChan, RttChan, AsksTarget, ServerIdle, Server

LEMMA NextAllCared == TypeInv /\ AllCared /\ [Next]_vars => AllCared'
  <1> SUFFICES ASSUME TypeInv, AllCared, [Next]_vars PROVE AllCared' OBVIOUS
  <1>1. ChanSteps BY Steps
  <1>2. ASSUME NEW o \in Owners PROVE Cared(TargetChan', o)
    BY <1>1, ChanStepCared, ChanShapes, ChanShapesNext DEF TypeInv, ChanSteps, TargetStep, AllCared
  <1>3. ASSUME NEW s \in Servers PROVE Cared(FwChan', s)
    BY <1>1, ChanStepCared, ChanShapes, ChanShapesNext DEF TypeInv, ChanSteps, FwStep, AllCared
  <1>4. ASSUME NEW s \in Servers PROVE Cared(RttChan', s)
    BY <1>1, ChanStepCared, ChanShapes, ChanShapesNext DEF TypeInv, ChanSteps, RttStep, AllCared
  <1>5. /\ \A o \in Owners : Cared(TargetChan, o)'
        /\ \A s \in Servers : Cared(FwChan, s)' /\ Cared(RttChan, s)'
    BY <1>2, <1>3, <1>4 DEF Cared, Pending, Has
  <1> QED BY <1>5 DEF AllCared

LEMMA AllCaredNoOrphan == AllCared => NoOrphanedWait
  <1> SUFFICES ASSUME AllCared PROVE NoOrphanedWait OBVIOUS
  <1>1. ASSUME NEW o \in Owners, AsksTarget(o) PROVE Pending(tq, target.cur, tsig, o)
    BY <1>1 DEF AllCared, Cared, TargetChan
  <1>2. ASSUME NEW s \in Servers
        PROVE  /\ srv[s].at = "fw_wait" => Pending(fq, fw.cmd, fsig, s)
               /\ srv[s].at = "rtt_wait" => Pending(rq, rtt.cmd, rch, s)
    BY DEF AllCared, Cared, FwChan, RttChan
  <1> QED BY <1>1, <1>2 DEF NoOrphanedWait, AsksTarget, Owners

\* No interleaving of servers, timeouts, cancelled handlers, resets, binary API
\* sessions and RTT polls leaves any task waiting for an answer nobody will
\* give: its question is queued or being handled, or the answer is in its
\* signal.
THEOREM WaitsAreAnswered == Spec => []NoOrphanedWait
  <1>1. Init => AllCared BY InitAllCared
  <1>2. TypeInv /\ AllCared /\ [Next]_vars => AllCared' BY NextAllCared
  <1>3. AllCared => NoOrphanedWait BY AllCaredNoOrphan
  <1> QED BY <1>1, <1>2, <1>3, SpecTypeInv, PTL DEF Spec

-----------------------------------------------------------------------------
(* Answers go to the question they belong to                               *)

RttSole == Sole(TargetChan, "rtt")

LEMMA InitSole ==
  ASSUME Init
  PROVE  /\ \A o \in Owners : Sole(TargetChan, o)
         /\ \A s \in Servers : Sole(FwChan, s) /\ Sole(RttChan, s)
  BY ConstantFacts DEF Init, Sole, TargetChan, FwChan, RttChan, Owners

LEMMA NextRttSole == TypeInv /\ RttSole /\ [Next]_vars => RttSole'
  <1> SUFFICES ASSUME TypeInv, RttSole, [Next]_vars PROVE RttSole' OBVIOUS
  <1>1. ChanSteps BY Steps
  <1>2. "rtt" \in Owners \ Hasty(Owners) BY DEF Owners, Hasty
  <1>3. Sole(TargetChan', "rtt")
    BY <1>1, <1>2, ChanStepSole, ChanShapes DEF TypeInv, ChanSteps, TargetStep, RttSole
  <1> QED BY <1>3 DEF RttSole, Sole

LEMMA SoleOwn ==
  ASSUME NEW c, NEW o, Sole(c, o), NEW waits PROVE Own(waits, c.sig[o])
  BY DEF Sole, Own

\* Whatever else times out, the answer the RTT task takes is to the question
\* it asked last: it never parses another access as a ring position.
THEOREM RttReadsItsOwn == Spec => []RttReadsOwn
  <1>1. Init => RttSole BY InitSole, ConstantFacts DEF RttSole
  <1>2. TypeInv /\ RttSole /\ [Next]_vars => RttSole' BY NextRttSole
  <1>3. RttSole => RttReadsOwn
    <2>1. TargetChan.sig = tsig BY DEF TargetChan
    <2> QED BY <2>1, SoleOwn DEF RttSole, RttReadsOwn
  <1> QED BY <1>1, <1>2, <1>3, SpecTypeInv, PTL DEF Spec

AllSole ==
  /\ \A o \in Owners : Sole(TargetChan, o)
  /\ \A s \in Servers : Sole(FwChan, s) /\ Sole(RttChan, s)

LEMMA NextAllSole == ~Timeouts /\ TypeInv /\ AllSole /\ [Next]_vars => AllSole'
  <1> SUFFICES ASSUME ~Timeouts, TypeInv, AllSole, [Next]_vars PROVE AllSole' OBVIOUS
  <1>1. ChanSteps BY Steps
  <1>2. Hasty(Owners) = {} /\ Hasty(Servers) = {} BY DEF Hasty
  <1>3. ASSUME NEW o \in Owners PROVE Sole(TargetChan', o)
    BY <1>1, <1>2, ChanStepSole, ChanShapes DEF TypeInv, ChanSteps, TargetStep, AllSole
  <1>4. ASSUME NEW s \in Servers PROVE Sole(FwChan', s)
    BY <1>1, <1>2, ChanStepSole, ChanShapes DEF TypeInv, ChanSteps, FwStep, AllSole
  <1>5. ASSUME NEW s \in Servers PROVE Sole(RttChan', s)
    <2>0. PICK ops, G : ops = {"read"} /\ G = {} OBVIOUS
    <2>1. ChanStep(RttChan, RttChan', Servers, ops, G)
      BY <1>1, <1>2, <2>0 DEF ChanSteps, RttStep
    <2>2. RttChan \in Chan(Servers, ops) /\ Sole(RttChan, s) BY <2>0 DEF TypeInv, AllSole
    <2>3. G \in SUBSET Servers /\ s \in Servers \ G BY <2>0
    <2> QED BY <2>1, <2>2, <2>3, ChanStepSole, ChanShapes
  <1>6. /\ \A o \in Owners : Sole(TargetChan, o)'
        /\ \A s \in Servers : Sole(FwChan, s)' /\ Sole(RttChan, s)'
    BY <1>3, <1>4, <1>5 DEF Sole
  <1> QED BY <1>6 DEF AllSole

LEMMA AllSoleOwn == AllSole => AnswersOwn
  <1> SUFFICES ASSUME AllSole PROVE AnswersOwn OBVIOUS
  <1>1. TargetChan.sig = tsig /\ FwChan.sig = fsig /\ RttChan.sig = rch
    BY DEF TargetChan, FwChan, RttChan
  <1>2. ASSUME NEW o \in Owners, NEW waits PROVE Own(waits, tsig[o])
    BY <1>1, SoleOwn DEF AllSole
  <1>3. ASSUME NEW s \in Servers, NEW waits PROVE Own(waits, fsig[s]) /\ Own(waits, rch[s])
    BY <1>1, SoleOwn DEF AllSole
  <1> QED BY <1>2, <1>3 DEF AnswersOwn, Owners

\* As long as nothing times out every answer any task takes, of the Target, the
\* Firmware or the RTT task, is the answer to the question it asked last.
THEOREM AnswersAreOwn == ASSUME ~Timeouts PROVE Spec => []AnswersOwn
  <1>1. Init => AllSole BY InitSole DEF AllSole
  <1>2. TypeInv /\ AllSole /\ [Next]_vars => AllSole' BY NextAllSole
  <1>3. AllSole => AnswersOwn BY AllSoleOwn
  <1> QED BY <1>1, <1>2, <1>3, SpecTypeInv, PTL DEF Spec

-----------------------------------------------------------------------------
(* RTT runs under the Firmware task                                        *)

\* RTT is stopped, or about to be.
Quiet == rctrl = "stop" \/ (rtt.state = "Stopped" /\ rtt.job = "none" /\ rctrl = NoCtrl)

LEMMA SrvQuiet ==
  ASSUME TypeInv, NEW s \in Servers, SrvNext(s)
  PROVE  fw'.state = fw.state /\ (Quiet => Quiet')
  <1> DEFINE fwSame == fw'.state = fw.state
             rttSame == rtt'.state = rtt.state /\ rtt'.job = rtt.job /\ rctrl' = rctrl
  <1>1. \A sig : LeaveFw(s, sig) => fwSame BY FwLikeFacts DEF LeaveFw, FwLike
  <1>2. \A sig : LeaveRtt(s, sig) => rtt'.state = rtt.state /\ rtt'.job = rtt.job
    BY RttLikeFacts DEF LeaveRtt, RttLike
  <1>3. fwSame
    BY <1>1 DEF SrvNext, SrvTarget, SrvSendTarget, SrvTargetAnswer, SrvFirmware, SrvSendFw,
                SrvFwAnswer, SrvRtt, SrvSendRtt, AskRtt, SrvRttAnswer, SrvTimeout, fwVars
  <1>4. rttSame
    BY <1>2 DEF SrvNext, SrvTarget, SrvSendTarget, SrvTargetAnswer, SrvFirmware, SrvSendFw,
                SrvFwAnswer, SrvRtt, SrvSendRtt, AskRtt, SrvRttAnswer, SrvTimeout, rttVars
  <1> QED BY <1>3, <1>4 DEF Quiet

LEMMA TargetQuiet == ASSUME TargetNext PROVE fw'.state = fw.state /\ (Quiet => Quiet')
  BY DEF TargetNext, TargetReceive, TargetRespond, BinAccept, BinEnd, TargetTimer, fwVars, rttVars, Quiet

\* A Firmware task that is stopped after its step was before, or stops RTT.
LEMMA FwQuiet ==
  ASSUME TypeInv, FwNext, fw'.state = "Stopped" PROVE Quiet' \/ (fw.state = "Stopped" /\ (Quiet => Quiet'))
  <1>1. CASE FwStop BY <1>1 DEF FwStop, Quiet
  <1>2. CASE FwCommand /\ UNCHANGED fw BY <1>2 DEF FwCommand, rttVars, Quiet
  <1>3. ASSUME NEW f, FwLike(f), f.state = "Started", NEW q, FwAccess(f, q) PROVE FALSE
    <2>1. fw' = [f EXCEPT !.at = IF HasRoom(q) THEN "wait" ELSE "send"] BY <1>3 DEF FwAccess, AskAt
    <2> QED BY <1>3, <2>1 DEF FwLike
  <1>4. FwLike(fw) BY FwLikeFacts
  <1>5. CASE FwStart
    <2>1. PICK f : f = [fw EXCEPT !.state = "Started", !.job = "start", !.decoders = DECODERS] OBVIOUS
    <2>2. FwLike(f) /\ f.state = "Started"
      <3>1. DECODERS \in 0 .. DECODERS BY DEF DECODERS
      <3> QED BY <1>4, <2>1, <3>1 DEF FwLike
    <2> QED BY <1>3, <1>5, <2>1, <2>2 DEF FwStart
  <1>6. CASE FwCommand /\ ~UNCHANGED fw
    <2>1. PICK f : f = [fw EXCEPT !.job = "command", !.cmd = Head(fq)] OBVIOUS
    <2>2. fw.state = "Started" /\ FwAccess(f, tq) BY <1>6, <2>1 DEF FwCommand
    <2>3. FwLike(f) /\ f.state = "Started" BY <1>4, <2>1, <2>2 DEF FwLike
    <2> QED BY <1>3, <2>2, <2>3
  <1>7. CASE FwSendTarget \/ FwReadMore
    BY <1>3, <1>4, <1>7, FwBusyFacts DEF FwSendTarget, FwReadMore
  <1>8. ASSUME fw.state = "Started", fw' = FwSelect(fw) \/ \E x : fw' = [FwSelect(fw) EXCEPT !.firmware = x]
        PROVE  FALSE
    BY <1>4, <1>8 DEF FwSelect, FwLike
  <1>9. CASE FwHandled \/ FwHandlerTimeout
    BY <1>8, <1>9, FwBusyFacts DEF FwHandled, FwHandlerTimeout, FwBlocked
  <1>10. CASE FwDecoded \/ FwDecodeTimeout
    <2>1. fw.state = "Started" BY <1>10, FwBusyFacts DEF FwDecoded, FwDecodeTimeout, FwBlocked
    <2>2. ASSUME fw.decoders > 1, FwAccess([fw EXCEPT !.decoders = @ - 1], StaleAll(tq, "fw")) PROVE FALSE
      <3>1. PICK f : f = [fw EXCEPT !.decoders = @ - 1] OBVIOUS
      <3>2. FwLike(f) /\ f.state = "Started" BY <1>4, <2>1, <2>2, <3>1 DEF FwLike, DECODERS
      <3> QED BY <1>3, <2>2, <3>1, <3>2
    <2> QED BY <1>8, <1>10, <2>1, <2>2 DEF FwDecoded, FwDecodeTimeout, NextDecoder, Decoded
  <1> QED BY <1>1, <1>2, <1>5, <1>6, <1>7, <1>9, <1>10 DEF FwNext

LEMMA RttQuiet == ASSUME TypeInv, RttNext, Quiet PROVE fw' = fw /\ Quiet'
  <1> USE RttLikeFacts
  <1>1. fw' = fw
    BY DEF RttNext, RttCommand, RttReply, RttControl, RttTimer, RttSendTarget, RttReadMore,
           RttReadLast, fwVars
  <1>2. CASE rctrl = "stop" /\ UNCHANGED rctrl BY <1>1, <1>2 DEF Quiet
  <1>3. CASE rctrl = "stop" /\ ~UNCHANGED rctrl
    <2>1. RttControl /\ RttLoop([rtt EXCEPT !.state = "Stopped"], tq)
      BY <1>3 DEF RttNext, RttCommand, RttReply, RttControl, RttTimer, RttSendTarget, RttReadMore,
                  RttReadLast
    <2>2. PICK r : r = [rtt EXCEPT !.state = "Stopped"] OBVIOUS
    <2>3. RttLike(r) /\ r.state = "Stopped" BY <2>2 DEF RttLike
    <2>4. UNCHANGED <<srv, fw>> /\ rctrl' = NoCtrl BY <2>1 DEF RttControl, fwVars
    <2>5. rtt'.state = "Stopped" /\ rtt'.job = "none"
      <3>1. rtt'.state = r.state /\ (rtt'.job # "none" => r.state = "Started")
        BY <2>1, <2>2, <2>3, <2>4, RttLoopFacts
      <3> QED BY <2>3, <3>1
    <2> QED BY <2>4, <2>5 DEF Quiet
  <1>4. CASE rtt.state = "Stopped" /\ rtt.job = "none" /\ rctrl = NoCtrl
    <2>1. rtt.at \notin {"send", "wait"} BY <1>4 DEF RttPlaces
    <2>2. RttCommand \/ RttReply \/ RttTimer
      BY <1>4, <2>1 DEF RttNext, RttControl, RttSendTarget, RttReadMore, RttReadLast, NoCtrl
    <2>3. UNCHANGED <<srv, fw, rctrl>> BY <2>2 DEF RttCommand, RttReply, RttTimer, fwVars
    <2>4. CASE RttLoop(rtt, tq)
      <3>1. rtt'.state = rtt.state /\ (rtt'.job # "none" => rtt.state = "Started")
        BY <2>3, <2>4, RttLoopFacts
      <3> QED BY <1>4, <2>3, <3>1 DEF Quiet
    <2>5. CASE rtt' = [rtt EXCEPT !.at = "reply", !.cmd = Head(rq)]
      BY <1>4, <2>3, <2>5 DEF RttLike, Quiet
    <2> QED BY <2>2, <2>4, <2>5 DEF RttCommand, RttReply, RttTimer
  <1> QED BY <1>1, <1>2, <1>3, <1>4 DEF Quiet

LEMMA NextRttFollowsFw == TypeInv /\ RttFollowsFw /\ [Next]_vars => RttFollowsFw'
  <1> SUFFICES ASSUME TypeInv, RttFollowsFw, [Next]_vars, fw'.state = "Stopped" PROVE Quiet'
    BY DEF RttFollowsFw, Quiet
  <1>0. fw.state = "Stopped" => Quiet BY DEF RttFollowsFw, Quiet
  <1>1. CASE UNCHANGED vars BY <1>0, <1>1 DEF vars, fwVars, rttVars, Quiet
  <1>2. ASSUME NEW s \in Servers, SrvNext(s) PROVE Quiet' BY <1>0, <1>2, SrvQuiet
  <1>3. CASE TargetNext BY <1>0, <1>3, TargetQuiet
  <1>4. CASE FwNext BY <1>0, <1>4, FwQuiet
  <1>5. CASE RttNext
    <2>1. fw' = fw
      BY <1>5 DEF RttNext, RttCommand, RttReply, RttControl, RttTimer, RttSendTarget, RttReadMore,
                  RttReadLast, fwVars
    <2> QED BY <1>0, <1>5, <2>1, RttQuiet
  <1> QED BY <1>1, <1>2, <1>3, <1>4, <1>5 DEF Next

\* RTT reads the target only under a Firmware task that runs: when that has
\* stopped, RTT has too, or has been told to, whatever the order of
\* connections, resets, timeouts and polls.
THEOREM RttRunsUnderFw == Spec => []RttFollowsFw
  <1>1. Init => RttFollowsFw BY DEF Init, RttFollowsFw
  <1> QED BY <1>1, NextRttFollowsFw, SpecTypeInv, PTL DEF Spec
=============================================================================
