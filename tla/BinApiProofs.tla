---------------------------- MODULE BinApiProofs ----------------------------
(***************************************************************************)
(* Theorems of BinApi, for any number of HTTP servers and whatever the     *)
(* client sends.                                                           *)
(***************************************************************************)
EXTENDS BinApi, AirfrogTasksProofs, SequenceTheorems

-----------------------------------------------------------------------------
(* A session is a way the Target task behaves                              *)

LEMMA StepIsTaskStep == [BinNext]_binVars => [Next]_vars
  <1> SUFFICES ASSUME [BinNext]_binVars PROVE [Next]_vars OBVIOUS
  <1>1. CASE UNCHANGED binVars BY <1>1 DEF binVars
  <1>2. CASE Others BY <1>2 DEF Others, Next, TargetNext
  <1>3. CASE Accept BY <1>3 DEF Accept, Next, TargetNext
  <1>4. ASSUME NEW expired \in BOOLEAN, End(expired) PROVE [Next]_vars
    BY <1>4 DEF End, Next, TargetNext
  <1>5. CASE \/ Hello \/ ReadVersion \/ ReadCommand \/ ReadRest \/ Silent \/ ClientCloses
             \/ Handle \/ SendAnswer \/ SendData \/ SendLast
    BY <1>5 DEF Hello, ReadVersion, ReadCommand, ReadRest, Silent, ClientCloses, Handle,
                SendAnswer, SendData, SendLast, Write
  <1> QED BY <1>1, <1>2, <1>3, <1>4, <1>5 DEF BinNext

\* With a binary API session in all its steps the tasks still do only what
\* AirfrogTasks says: all that is proved of them holds during a session.
THEOREM SessionsImplementTasks == BinSpec => Spec
  BY StepIsTaskStep, PTL DEF BinSpec, BinInit, Spec

-----------------------------------------------------------------------------
(* The items of a command                                                  *)

LEMMA TwoItems ==
  ASSUME NEW a, NEW b
  PROVE  /\ <<a>> \o <<b>> = <<a, b>> /\ Append(<<a>>, b) = <<a, b>>
         /\ Head(<<a, b>>) = a /\ Tail(<<a, b>>) = <<b>> /\ <<a, b>> # <<>>
  <1> DEFINE S == {a, b}
  <1>1. <<a>> \in Seq(S) /\ <<b>> \in Seq(S) /\ <<a, b>> \in Seq(S) OBVIOUS
  <1>2. ASSUME NEW s \in Seq(S), Len(s) = 2, s[1] = a, s[2] = b PROVE s = <<a, b>>
    <2>1. \A i \in 1 .. Len(s) : s[i] = <<a, b>>[i] BY <1>2
    <2> HIDE DEF S
    <2> QED BY <1>1, <1>2, <2>1, SeqEqual
  <1>3. <<a>> \o <<b>> \in Seq(S) /\ Len(<<a>> \o <<b>>) = 2 /\ (<<a>> \o <<b>>)[1] = a
        /\ (<<a>> \o <<b>>)[2] = b
    OBVIOUS
  <1>4. Append(<<a>>, b) \in Seq(S) /\ Len(Append(<<a>>, b)) = 2 /\ Append(<<a>>, b)[1] = a
        /\ Append(<<a>>, b)[2] = b
    OBVIOUS
  <1>5. Head(<<a, b>>) = a /\ Tail(<<a, b>>) = <<b>> /\ <<a, b>> # <<>> OBVIOUS
  <1> HIDE DEF S
  <1> QED BY <1>2, <1>3, <1>4, <1>5

LEMMA ThreeItems ==
  ASSUME NEW a, NEW b, NEW c
  PROVE  /\ <<a, b>> \o <<c>> = <<a, b, c>> /\ Append(<<a, b>>, c) = <<a, b, c>>
         /\ Head(<<a, b, c>>) = a /\ Tail(<<a, b, c>>) = <<b, c>>
  <1> DEFINE S == {a, b, c}
  <1>1. <<a, b>> \in Seq(S) /\ <<c>> \in Seq(S) /\ <<a, b, c>> \in Seq(S) OBVIOUS
  <1>2. ASSUME NEW s \in Seq(S), Len(s) = 3, s[1] = a, s[2] = b, s[3] = c PROVE s = <<a, b, c>>
    <2>1. \A i \in 1 .. Len(s) : s[i] = <<a, b, c>>[i] BY <1>2
    <2> HIDE DEF S
    <2> QED BY <1>1, <1>2, <2>1, SeqEqual
  <1>3. <<a, b>> \o <<c>> \in Seq(S) /\ Len(<<a, b>> \o <<c>>) = 3 /\ (<<a, b>> \o <<c>>)[1] = a
        /\ (<<a, b>> \o <<c>>)[2] = b /\ (<<a, b>> \o <<c>>)[3] = c
    OBVIOUS
  <1>4. Append(<<a, b>>, c) \in Seq(S) /\ Len(Append(<<a, b>>, c)) = 3 /\ Append(<<a, b>>, c)[1] = a
        /\ Append(<<a, b>>, c)[2] = b /\ Append(<<a, b>>, c)[3] = c
    OBVIOUS
  <1>5. Head(<<a, b, c>>) = a /\ Tail(<<a, b, c>>) = <<b, c>> OBVIOUS
  <1> HIDE DEF S
  <1> QED BY <1>2, <1>3, <1>4, <1>5

LEMMA NoItems ==
  ASSUME NEW a, NEW b
  PROVE  /\ <<a>> \o <<>> = <<a>> /\ <<a, b>> \o <<>> = <<a, b>>
         /\ Head(<<a>>) = a /\ Tail(<<a>>) = <<>> /\ <<a>> # <<>>
  <1> DEFINE S == {a, b}
  <1>1. <<a>> \in Seq(S) /\ <<a, b>> \in Seq(S) OBVIOUS
  <1>2. Head(<<a>>) = a /\ Tail(<<a>>) = <<>> /\ <<a>> # <<>> OBVIOUS
  <1> HIDE DEF S
  <1> QED BY <1>1, <1>2, ConcatEmptySeq

\* A part whose values are all right.
Right(part, c) == Item(part, c, "nothing")

LEMMA ItemFacts ==
  ASSUME NEW c, NEW w \in Wrongs(c)
  PROVE  /\ \A part \in {"args", "words"} :
              ~Item(part, c, w).wrong => Item(part, c, w) = Right(part, c)
         /\ Item("command", c, w) = Right("command", c)
         /\ HasWords(c) => HasArgs(c)
         /\ ~HasArgs(c) => Items(c, w) = <<Right("command", c)>>
         /\ HasArgs(c) /\ ~HasWords(c) => Items(c, w) = <<Right("command", c), Item("args", c, w)>>
         /\ HasWords(c)
              => Items(c, w) = <<Right("command", c), Item("args", c, w), Item("words", c, w)>>
  <1>1. ASSUME NEW part, part # "nothing", w # part PROVE Item(part, c, w) = Right(part, c)
    BY <1>1 DEF Item, Right
  <1>2. \A part \in {"args", "words"} : ~Item(part, c, w).wrong => Item(part, c, w) = Right(part, c)
    <2>1. \A part : Item(part, c, w).wrong = (w = part) BY DEF Item
    <2> QED BY <1>1, <2>1
  <1>3. Item("command", c, w) = Right("command", c)
    <2>1. w # "command" BY DEF Wrongs
    <2> QED BY <1>1, <2>1
  <1>4. HasWords(c) => HasArgs(c) BY DEF HasWords, HasArgs
  <1> DEFINE a == Item("command", c, w)
             b == Item("args", c, w)
             d == Item("words", c, w)
  <1>5. Items(c, w) = (<<a>> \o (IF HasArgs(c) THEN <<b>> ELSE <<>>))
                        \o (IF HasWords(c) THEN <<d>> ELSE <<>>)
    BY DEF Items
  <1>6. a = Right("command", c) BY <1>3
  <1> HIDE DEF a, b, d
  <1>7. CASE ~HasArgs(c)
    <2>1. Items(c, w) = (<<a>> \o <<>>) \o <<>> BY <1>4, <1>5, <1>7
    <2> QED BY <1>2, <1>3, <1>4, <1>6, <1>7, <2>1, NoItems
  <1>8. CASE HasArgs(c) /\ ~HasWords(c)
    <2>1. Items(c, w) = (<<a>> \o <<b>>) \o <<>> BY <1>5, <1>8
    <2>3. <<a>> \o <<b>> = <<a, b>> BY TwoItems
    <2>4. <<a, b>> \o <<>> = <<a, b>> BY NoItems
    <2>2. Items(c, w) = <<a, b>> BY <2>1, <2>3, <2>4
    <2> QED BY <1>2, <1>3, <1>4, <1>6, <1>8, <2>2 DEF b
  <1>9. CASE HasWords(c)
    <2>1. Items(c, w) = (<<a>> \o <<b>>) \o <<d>> BY <1>4, <1>5, <1>9
    <2>3. <<a>> \o <<b>> = <<a, b>> BY TwoItems
    <2>4. <<a, b>> \o <<d>> = <<a, b, d>> BY ThreeItems
    <2>2. Items(c, w) = <<a, b, d>> BY <2>1, <2>3, <2>4
    <2> QED BY <1>2, <1>3, <1>4, <1>6, <1>9, <2>2 DEF b, d
  <1> QED BY <1>7, <1>8, <1>9

-----------------------------------------------------------------------------
(* What the server has read, and what the client has still to send         *)

ApiShape == api = [at |-> api.at, of |-> api.of, taken |-> api.taken, todo |-> api.todo]

\* Between two commands nothing is left of the last.
NothingLeft ==
  api.at \in {"none", "hello", "ack", "command", "handle", "answer", "data"} => api.todo = <<>>

ArgsNext(c, taken, todo) ==
  /\ HasArgs(c)
  /\ taken = <<Right("command", c)>>
  /\ \E w \in Wrongs(c) : todo = IF HasWords(c) THEN <<Item("args", c, w), Item("words", c, w)>>
                                                ELSE <<Item("args", c, w)>>

WordsNext(c, taken, todo) ==
  /\ HasWords(c)
  /\ taken = <<Right("command", c), Right("args", c)>>
  /\ \E w \in Wrongs(c) : todo = <<Item("words", c, w)>>

ApiParts ==
  /\ ApiShape
  /\ NothingLeft
  /\ At("args") => ArgsNext(api.of, api.taken, api.todo)
  /\ At("words") => WordsNext(api.of, api.taken, api.todo)
  /\ At("handle") => api.taken = Items(api.of, "nothing")

SessionServed == At("none") <=> target.at # "bin"

ApiInv == ApiParts /\ SessionServed

LEMMA NewSession ==
  /\ api' = NoSession => ApiParts' /\ api'.at = "none"
  /\ \A at \in {"hello", "closed"} : api' = [NoSession EXCEPT !.at = at] => ApiParts' /\ api'.at = at
  BY DEF NoSession, ApiParts, ApiShape, NothingLeft, At

LEMMA ReadCommandStep == ASSUME ApiParts, ReadCommand PROVE ApiParts' /\ api'.at # "none"
  <1>1. api.todo = <<>> /\ ApiShape BY DEF ApiParts, NothingLeft, ReadCommand, At
  <1> DEFINE Reads(c, items) ==
        IF c = "Unknown" THEN Close
        ELSE api' = [at |-> CASE c = "Disconnect" -> "bye"
                              [] HasArgs(c)       -> "args"
                              [] OTHER            -> "handle",
                     of |-> c, taken |-> <<Head(items)>>, todo |-> Tail(items)]
  <1>2. PICK items \in Coming : \E c \in CommandsIn(Head(items)) : Reads(c, items) BY DEF ReadCommand
  <1>9. PICK c \in CommandsIn(Head(items)) : Reads(c, items) BY <1>2
  <1>10. Coming = UNION {{Items(c0, w) : w \in Wrongs(c0)} : c0 \in Sends} BY <1>1 DEF Coming
  <1>11. PICK c0 \in Sends : items \in {Items(c0, w) : w \in Wrongs(c0)} BY <1>10
  <1>12. PICK w \in Wrongs(c0) : items = Items(c0, w) BY <1>11
  <1>3. /\ Head(items) = Right("command", c0)
        /\ Tail(items) = IF HasWords(c0) THEN <<Item("args", c0, w), Item("words", c0, w)>>
                         ELSE IF HasArgs(c0) THEN <<Item("args", c0, w)>> ELSE <<>>
    <2> DEFINE x == Right("command", c0)
               y == Item("args", c0, w)
               z == Item("words", c0, w)
    <2>1. HasWords(c0) => HasArgs(c0) BY DEF HasWords, HasArgs
    <2>2. /\ ~HasArgs(c0) => items = <<x>>
          /\ HasArgs(c0) /\ ~HasWords(c0) => items = <<x, y>>
          /\ HasWords(c0) => items = <<x, y, z>>
      BY <1>12, ItemFacts
    <2> HIDE DEF x, y, z
    <2>3. Head(<<x>>) = x /\ Tail(<<x>>) = <<>> BY NoItems
    <2>4. Head(<<x, y>>) = x /\ Tail(<<x, y>>) = <<y>> BY TwoItems
    <2>5. Head(<<x, y, z>>) = x /\ Tail(<<x, y, z>>) = <<y, z>> BY ThreeItems
    <2>6. Head(items) = x /\ Tail(items) = IF HasWords(c0) THEN <<y, z>>
                                          ELSE IF HasArgs(c0) THEN <<y>> ELSE <<>>
      BY <2>1, <2>2, <2>3, <2>4, <2>5
    <2> QED BY <2>6 DEF x, y, z
  <1>4. c = c0
    <2>1. Right("command", c0).part = "command" /\ Right("command", c0).of = c0 BY DEF Right, Item
    <2> QED BY <1>3, <2>1 DEF CommandsIn
  <1>5. CASE c = "Unknown" BY <1>9, <1>5, NewSession DEF Close
  <1>6. CASE c = "Disconnect"
    <2>1. api' = [at |-> "bye", of |-> c, taken |-> <<Head(items)>>, todo |-> Tail(items)]
      <3>1. ~HasArgs(c) BY <1>6 DEF HasArgs
      <3> QED BY <1>6, <1>9, <3>1
    <2> QED BY <2>1 DEF ApiParts, ApiShape, NothingLeft, At
  <1>7. CASE c # "Unknown" /\ c # "Disconnect" /\ HasArgs(c)
    <2>1. api' = [at |-> "args", of |-> c, taken |-> <<Right("command", c)>>, todo |-> Tail(items)]
      BY <1>9, <1>3, <1>4, <1>7
    <2>2. ArgsNext(c, <<Right("command", c)>>, Tail(items))
      BY <1>3, <1>4, <1>7 DEF ArgsNext
    <2> QED BY <2>1, <2>2 DEF ApiParts, ApiShape, NothingLeft, At
  <1>8. CASE c # "Unknown" /\ c # "Disconnect" /\ ~HasArgs(c)
    <2>0. HasWords(c) => HasArgs(c) BY DEF HasWords, HasArgs
    <2>1. api' = [at |-> "handle", of |-> c, taken |-> <<Right("command", c)>>, todo |-> <<>>]
      BY <1>9, <1>3, <1>4, <1>8, <2>0
    <2>2. Items(c, "nothing") = <<Right("command", c)>>
      <3>1. "nothing" \in Wrongs(c) BY DEF Wrongs
      <3> QED BY <1>8, <3>1, ItemFacts
    <2> QED BY <2>1, <2>2 DEF ApiParts, ApiShape, NothingLeft, At
  <1> QED BY <1>5, <1>6, <1>7, <1>8

LEMMA ReadRestStep == ASSUME ApiParts, ReadRest PROVE ApiParts' /\ api'.at # "none"
  <1>0. ApiShape BY DEF ApiParts
  <1> DEFINE c == api.of
  <1>1. CASE At("args") /\ Take(AfterArgs)
    <2>1. ArgsNext(c, api.taken, api.todo) BY <1>1 DEF ApiParts
    <2>2. PICK w \in Wrongs(c) : api.todo = IF HasWords(c) THEN <<Item("args", c, w), Item("words", c, w)>>
                                                         ELSE <<Item("args", c, w)>>
      BY <2>1 DEF ArgsNext
    <2> DEFINE x == Item("args", c, w)
    <2>3. /\ api.todo # <<>> /\ Head(api.todo) = x
          /\ Tail(api.todo) = IF HasWords(c) THEN <<Item("words", c, w)>> ELSE <<>>
      BY <2>2, NoItems, TwoItems
    <2>4. Append(api.taken, x) = <<Right("command", c), x>> BY <2>1, TwoItems DEF ArgsNext
    <2>5. api' = [api EXCEPT !.at = IF x.wrong THEN Refuse ELSE AfterArgs(c),
                             !.taken = Append(@, x), !.todo = Tail(api.todo)]
      BY <1>1, <2>3 DEF Take, Coming
    <2>6. x.wrong \/ x = Right("args", c) BY ItemFacts
    <2> HIDE DEF x
    <2>7. api'.of = c /\ api'.taken = <<Right("command", c), x>> /\ api'.todo = Tail(api.todo) /\ ApiShape'
          /\ api'.at = IF x.wrong THEN Refuse ELSE AfterArgs(c)
      BY <1>0, <2>4, <2>5 DEF ApiShape
    <2>8. CASE x.wrong
      BY <2>7, <2>8 DEF Refuse, ApiParts, NothingLeft, At
    <2>9. CASE ~x.wrong /\ HasWords(c)
      <3>1. api'.at = "words" BY <2>7, <2>9 DEF AfterArgs
      <3>2. WordsNext(c, api'.taken, api'.todo) BY <2>3, <2>6, <2>7, <2>9 DEF WordsNext
      <3> QED BY <2>7, <3>1, <3>2 DEF ApiParts, NothingLeft, At
    <2>10. CASE ~x.wrong /\ ~HasWords(c)
      <3>1. api'.at = "handle" /\ api'.todo = <<>> BY <2>3, <2>7, <2>10 DEF AfterArgs
      <3>2. api'.taken = Items(c, "nothing")
        <4>1. "nothing" \in Wrongs(c) BY DEF Wrongs
        <4>2. Items(c, "nothing") = <<Right("command", c), Right("args", c)>>
          BY <2>1, <2>10, <4>1, ItemFacts DEF ArgsNext, Right
        <4> QED BY <2>6, <2>7, <2>10, <4>2
      <3> QED BY <2>7, <3>1, <3>2 DEF ApiParts, NothingLeft, At
    <2> QED BY <2>8, <2>9, <2>10
  <1>2. CASE At("words") /\ Take(AfterWords)
    <2>1. WordsNext(c, api.taken, api.todo) BY <1>2 DEF ApiParts
    <2>2. PICK w \in Wrongs(c) : api.todo = <<Item("words", c, w)>> BY <2>1 DEF WordsNext
    <2> DEFINE x == Item("words", c, w)
    <2>3. api.todo # <<>> /\ Head(api.todo) = x /\ Tail(api.todo) = <<>> BY <2>2, NoItems
    <2>4. Append(api.taken, x) = <<Right("command", c), Right("args", c), x>>
      <3>1. Append(<<Right("command", c), Right("args", c)>>, x) = <<Right("command", c), Right("args", c), x>>
        BY ThreeItems
      <3> QED BY <2>1, <3>1 DEF WordsNext
    <2>5. api' = [api EXCEPT !.at = IF x.wrong THEN Refuse ELSE AfterWords(c),
                             !.taken = Append(@, x), !.todo = Tail(api.todo)]
      BY <1>2, <2>3 DEF Take, Coming
    <2>6. x.wrong \/ x = Right("words", c) BY ItemFacts
    <2> HIDE DEF x
    <2>7. api'.of = c /\ api'.taken = <<Right("command", c), Right("args", c), x>> /\ api'.todo = <<>>
          /\ ApiShape' /\ api'.at = IF x.wrong THEN "bye" ELSE "handle"
      BY <1>0, <2>3, <2>4, <2>5 DEF ApiShape, Refuse, AfterWords
    <2>8. CASE x.wrong BY <2>7, <2>8 DEF ApiParts, NothingLeft, At
    <2>9. CASE ~x.wrong
      <3>1. "nothing" \in Wrongs(c) BY DEF Wrongs
      <3>2. Items(c, "nothing") = <<Right("command", c), Right("args", c), Right("words", c)>>
        BY <2>1, <3>1, ItemFacts DEF WordsNext, Right
      <3> QED BY <2>6, <2>7, <2>9, <3>2 DEF ApiParts, NothingLeft, At
    <2> QED BY <2>8, <2>9
  <1> QED BY <1>1, <1>2 DEF ReadRest

-----------------------------------------------------------------------------
(* The Target task is there while the session is                           *)

LEMMA OthersKeepTask == ASSUME TypeInv, Others PROVE target'.at = "bin" <=> target.at = "bin"
  <1>0. target = [at |-> target.at, cur |-> target.cur, connected |-> target.connected,
                  settings |-> target.settings]
    BY DEF TypeInv, RestOK, TargetOK
  <1>1. \A o, sig : LeaveTarget(o, sig) => target'.at = target.at BY <1>0 DEF LeaveTarget
  <1>2. ASSUME NEW s \in Servers, SrvNext(s) PROVE target'.at = target.at
    BY <1>1, <1>2 DEF SrvNext, SrvTarget, SrvSendTarget, SrvTargetAnswer, SrvFirmware, SrvSendFw,
                      SrvFwAnswer, SrvRtt, SrvSendRtt, AskRtt, SrvRttAnswer, SrvTimeout, TakeAnswer,
                      targetVars
  <1>3. CASE FwNext
    BY <1>1, <1>3 DEF FwNext, FwStop, FwStart, FwCommand, FwSendTarget, FwReadMore, FwDecoded,
                      FwHandled, FwDecodeTimeout, FwHandlerTimeout, TakeAnswer, targetVars
  <1>4. CASE RttNext
    BY <1>1, <1>4 DEF RttNext, RttCommand, RttReply, RttControl, RttTimer, RttSendTarget,
                      RttReadMore, RttReadLast, TakeAnswer
  <1>5. CASE TargetReceive BY <1>0, <1>5 DEF TargetReceive
  <1>6. CASE TargetTimer BY <1>6, EffectFacts, LoopFacts DEF TargetTimer
  <1>7. ASSUME NEW expired \in BOOLEAN, TargetRespond(expired)
        PROVE  target'.at = "bin" <=> target.at = "bin"
    BY <1>7, EffectFacts, LoopFacts DEF TargetRespond
  <1> QED BY <1>2, <1>3, <1>4, <1>5, <1>6, <1>7 DEF Others

LEMMA InitApiInv == BinInit => ApiInv
  BY DEF BinInit, Init, NoSession, ApiInv, ApiParts, ApiShape, NothingLeft, SessionServed, At

LEMMA NextApiInv == TypeInv /\ ApiInv /\ [BinNext]_binVars => ApiInv'
  <1> SUFFICES ASSUME TypeInv, ApiInv, [BinNext]_binVars PROVE ApiInv' OBVIOUS
  <1>0. ApiParts /\ SessionServed BY DEF ApiInv
  <1>1. CASE UNCHANGED api /\ (target'.at = "bin" <=> target.at = "bin")
    BY <1>0, <1>1 DEF ApiInv, ApiParts, ApiShape, NothingLeft, SessionServed, At
  <1>2. CASE Others BY <1>1, <1>2, OthersKeepTask DEF Others
  <1>3. CASE UNCHANGED binVars BY <1>1, <1>3 DEF binVars, vars, targetVars
  <1>4. CASE Accept
    <2>1. target'.at = "bin" BY <1>4 DEF Accept, BinAccept, TypeInv, RestOK, TargetOK
    <2>2. ApiParts' /\ api'.at = "hello" BY <1>4, NewSession DEF Accept
    <2> QED BY <2>1, <2>2 DEF ApiInv, SessionServed, At
  <1>5. ASSUME NEW expired \in BOOLEAN, End(expired) PROVE ApiInv'
    <2>1. target'.at = "idle" BY <1>5, EffectFacts, LoopFacts DEF End, BinEnd
    <2>2. ApiParts' /\ api'.at = "none" BY <1>5, NewSession DEF End
    <2> QED BY <2>1, <2>2 DEF ApiInv, SessionServed, At
  <1>6. ASSUME UNCHANGED vars, api.at # "none", ApiParts', api'.at # "none" PROVE ApiInv'
    BY <1>0, <1>6 DEF ApiInv, SessionServed, At, vars, targetVars
  <1>7. ASSUME Close PROVE ApiParts' /\ api'.at # "none" BY <1>7, NewSession DEF Close
  <1>8. CASE ReadCommand BY <1>0, <1>6, <1>8, ReadCommandStep DEF ReadCommand, At
  <1>9. CASE ReadRest BY <1>0, <1>6, <1>9, ReadRestStep DEF ReadRest, At
  <1>10. CASE Silent \/ ClientCloses \/ SendLast
    <2>1. CASE Silent
      <3>1. api.at # "none" /\ Close /\ UNCHANGED vars BY <2>1 DEF Silent, GivesUp
      <3> QED BY <1>6, <1>7, <3>1
    <2>2. CASE ClientCloses BY <1>6, <1>7, <2>2 DEF ClientCloses
    <2>3. CASE SendLast BY <1>6, <1>7, <2>3 DEF SendLast, At
    <2> QED BY <1>10, <2>1, <2>2, <2>3
  <1>11. CASE Hello \/ ReadVersion \/ Handle \/ SendAnswer \/ SendData
    <2>1. /\ api.at \in {"hello", "ack", "handle", "answer", "data"} /\ api.todo = <<>> /\ ApiShape
          /\ UNCHANGED vars
      BY <1>0, <1>11 DEF Hello, ReadVersion, Handle, SendAnswer, SendData, Write, At, ApiParts, NothingLeft
    <2>2. ASSUME NEW at \in {"ack", "command", "answer", "data"}, NEW of, NEW taken,
                 api' = [at |-> at, of |-> of, taken |-> taken, todo |-> <<>>]
          PROVE  ApiParts' /\ api'.at # "none"
      BY <2>2 DEF ApiParts, ApiShape, NothingLeft, At
    <2>3. ASSUME NEW at, GoTo(at)
          PROVE  api' = [at |-> at, of |-> api.of, taken |-> api.taken, todo |-> <<>>]
      BY <2>1, <2>3 DEF GoTo, ApiShape
    <2>4. ASSUME NextCommand
          PROVE  api' = [at |-> "command", of |-> "none", taken |-> api.taken, todo |-> <<>>]
      BY <2>1, <2>4 DEF NextCommand, ApiShape
    <2>5. ASSUME Handle
          PROVE  api' = [at |-> "answer", of |-> api.of, taken |-> <<>>, todo |-> <<>>]
      BY <2>1, <2>5 DEF Handle, ApiShape
    <2>6. \/ Close \/ GoTo("ack") \/ NextCommand \/ Handle \/ GoTo("data")
      BY <1>11 DEF Hello, ReadVersion, SendAnswer, SendData, Write
    <2>7. ApiParts' /\ api'.at # "none" BY <1>7, <2>2, <2>3, <2>4, <2>5, <2>6
    <2> QED BY <1>6, <2>1, <2>7
  <1> QED BY <1>2, <1>3, <1>4, <1>5, <1>8, <1>9, <1>10, <1>11 DEF BinNext

\* A session is under way exactly while the Target task serves one, and every
\* command handled is one the client sent, whole, whatever the client sends on
\* after one that was refused.
THEOREM CommandsAreWhole == BinSpec => []OnlyWholeCommands
  <1>1. BinSpec => []TypeInv BY SessionsImplementTasks, SpecTypeInv, PTL
  <1>2. ApiInv => OnlyWholeCommands BY DEF ApiInv, ApiParts, SessionServed, OnlyWholeCommands
  <1> QED BY <1>1, <1>2, InitApiInv, NextApiInv, PTL DEF BinSpec
=============================================================================
