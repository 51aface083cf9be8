------------------------------- MODULE BinApi -------------------------------
(***************************************************************************)
(* A binary API session (airfrog-swd/src/bin.rs, airfrog-bin/src/lib.rs),  *)
(* which the Target task serves in place of everything else, composed with *)
(* the tasks of AirfrogTasks: it is what happens there between BinAccept   *)
(* and BinEnd.                                                             *)
(*                                                                         *)
(* The connection is a stream of bytes.  Its items here are the parts that *)
(* the server reads at once: a command byte, the command's arguments, and  *)
(* the words that follow them.  The client sends its commands' items in    *)
(* order, whenever it likes, and may stop or close the connection between  *)
(* any two.                                                                *)
(***************************************************************************)
EXTENDS AirfrogTasks

CONSTANT Sends   \* the commands clients send

ASSUME BinApiAssumption ==
  Sends \subseteq {"Read", "Write", "ApBulkWrite", "MultiRegWrite", "Ping", "Disconnect", "Unknown"}

VARIABLE api   \* the session

binVars == <<vars, api>>

\* Command::remaining_bytes and var_bytes: which commands have arguments, and
\* which words after them.  Read stands for the commands whose answer has data,
\* Write for those with arguments only, Ping for those without; Unknown is a
\* byte that is no command.
HasArgs(c) == c \in {"Read", "Write", "ApBulkWrite", "MultiRegWrite"}
HasWords(c) == c \in {"ApBulkWrite", "MultiRegWrite"}

\* Arguments with a count, a speed or line levels, of which the server refuses
\* some values.
ChecksArgs(c) == HasWords(c) \/ c = "Write"

\* The part of a command with a value the server refuses: arguments such as a
\* speed that is none, words that name no kind of register.
Wrongs(c) ==
  {"nothing"} \cup (IF ChecksArgs(c) THEN {"args"} ELSE {})
              \cup (IF c = "MultiRegWrite" THEN {"words"} ELSE {})

Item(part, c, wrong) == [part |-> part, of |-> c, wrong |-> (wrong = part)]
Items(c, wrong) ==
  <<Item("command", c, wrong)>> \o
  (IF HasArgs(c) THEN <<Item("args", c, wrong)>> ELSE <<>>) \o
  (IF HasWords(c) THEN <<Item("words", c, wrong)>> ELSE <<>>)

-----------------------------------------------------------------------------
(* at: what the server does next; of: the command under way; taken: what   *)
(* it has read of it; todo: what the client has still to send of its own.  *)

NoSession == [at |-> "none", of |-> "none", taken |-> <<>>, todo |-> <<>>]

At(at) == api.at = at
GoTo(at) == api' = [api EXCEPT !.at = at]
Close == api' = [NoSession EXCEPT !.at = "closed"]
NextCommand == api' = [api EXCEPT !.at = "command", !.of = "none"]

\* A write succeeds and next is what follows, or fails or times out and ends the
\* session.
Write(at, next) == At(at) /\ (next \/ Close) /\ UNCHANGED vars

\* binary_api_handshake: a version that is not ours ends the session.
Hello == Write("hello", GoTo("ack"))
ReadVersion == Write("ack", NextCommand)

\* What the client may send next.
Coming == IF api.todo # <<>> THEN {api.todo} ELSE UNION {{Items(c, w) : w \in Wrongs(c)} : c \in Sends}

\* Any byte is read as a command: one that is none ends the session without an
\* answer.  Bytes that are not a command's first may look like any.
CommandsIn(item) == IF item.part = "command" THEN {item.of} ELSE Sends

ReadCommand ==
  /\ At("command")
  /\ \E items \in Coming : \E c \in CommandsIn(Head(items)) :
       IF c = "Unknown" THEN Close
       ELSE api' = [at |-> CASE c = "Disconnect" -> "bye"
                             [] HasArgs(c)       -> "args"
                             [] OTHER            -> "handle",
                    of |-> c, taken |-> <<Head(items)>>, todo |-> Tail(items)]
  /\ UNCHANGED vars

\* Mutant: an argument that is refused is answered, and the session goes on.
RefuseAndGoOn == "answer"

\* async_recv fails, and the loop ends with one more answer.
Refuse == "bye"

Take(next(_)) ==
  \E items \in Coming :
    api' = [api EXCEPT !.at = IF Head(items).wrong THEN Refuse ELSE next(api.of),
                       !.taken = Append(@, Head(items)), !.todo = Tail(items)]

AfterArgs(c) == IF HasWords(c) THEN "words" ELSE "handle"
AfterWords(c) == "handle"
ReadRest ==
  /\ \/ At("args") /\ Take(AfterArgs)
     \/ At("words") /\ Take(AfterWords)
  /\ UNCHANGED vars

\* Mutant: only the handshake has a timeout.
GivesUpInHandshake == {"ack"}

\* API_TIMEOUT is around the handshake and the command byte, not around the
\* rest of a command, which only ends when the connection does.
GivesUp == {"ack", "command"}

Silent == api.at \in GivesUp /\ Close /\ UNCHANGED vars
ClientCloses == api.at \in {"ack", "command", "args", "words"} /\ Close /\ UNCHANGED vars

\* binary_api_handle_op, whose effect on the target is in SwdInterface.
Handle == At("handle") /\ api' = [api EXCEPT !.at = "answer", !.taken = <<>>] /\ UNCHANGED vars

\* The response code, of success or of an error, and after a read that
\* succeeded what was read.
SendAnswer == Write("answer", NextCommand \/ (api.of = "Read" /\ GoTo("data")))
SendData == Write("data", NextCommand)

\* serve() sends the last answer, if it can.
SendLast == At("bye") /\ Close /\ UNCHANGED vars

-----------------------------------------------------------------------------
(* The specification *)

Accept == BinAccept /\ api' = [NoSession EXCEPT !.at = "hello"]

\* The socket is aborted, and the target connected anew.
End(expired) == At("closed") /\ BinEnd(expired) /\ api' = NoSession

Others ==
  /\ \/ \E s \in Servers : SrvNext(s)
     \/ TargetReceive \/ TargetTimer \/ \E expired \in BOOLEAN : TargetRespond(expired)
     \/ FwNext \/ RttNext
  /\ UNCHANGED api

BinInit == Init /\ api = NoSession

BinNext ==
  \/ Others \/ Accept \/ Hello \/ ReadVersion \/ ReadCommand \/ ReadRest \/ Silent \/ ClientCloses
  \/ Handle \/ SendAnswer \/ SendData \/ SendLast \/ \E expired \in BOOLEAN : End(expired)

\* The server goes on, and gives up a silent client where it has a timeout.
\* Nothing is assumed of the client.
BinFairness == WF_binVars(Hello \/ Silent \/ Handle \/ SendAnswer \/ SendData \/ SendLast \/ End(FALSE))

BinSpec == BinInit /\ [][BinNext]_binVars /\ TargetFairness /\ FwFairness /\ BinFairness

-----------------------------------------------------------------------------
(* Properties *)

\* A session is under way exactly while the Target task serves one, and what it
\* handles is a command the client sent, whole: never the arguments or words of
\* one it refused or gave up, whatever the client sends on without waiting for the
\* answer.
OnlyWholeCommands ==
  /\ At("none") <=> target.at # "bin"
  /\ At("handle") => api.taken = Items(api.of, "nothing")

\* A session that never ends handles commands for ever, or waits for the rest
\* of one: otherwise the Target task comes back to its requests.
SessionsEnd ==
  <>[](target.at = "bin") => []<>At("handle") \/ <>[](api.at \in {"args", "words"})
=============================================================================
