---------------------------- MODULE HttpConnection ---------------------------
(***************************************************************************)
(* One connection after another at an HTTP server task (http/server.rs     *)
(* task, handle_request): how requests are cut out of the bytes that come  *)
(* in, and answered one by one.  What a request does is in AirfrogTasks;   *)
(* here it is one step.                                                    *)
(*                                                                         *)
(* A byte is the number of the request it is part of, its place there, and *)
(* whether it ends a line.  Two such in a row are a blank line, of which a *)
(* read may bring the first alone; it ends a head, and a body may hold one *)
(* as well.  A read returns as many of the bytes sent as the network       *)
(* likes, and the place allows.                                            *)
(***************************************************************************)
EXTENDS Naturals, Sequences, FiniteSetsExt

CONSTANTS
  HEADER_BUF_SIZE,   \* HTTPD_HEADER_BUF_SIZE
  BODY_BUF_SIZE,     \* HTTPD_BODY_BUF_SIZE
  Requests,          \* what clients ask
  MaxRequests        \* bound: requests on one connection

\* kind: a body with the length stated, a body without, or a request that is
\* refused when its head is parsed: its syntax, its method or the length of its
\* body, which has no place.
Kinds == {"sized", "unsized", "refused"}

ASSUME HttpAssumption ==
  /\ HEADER_BUF_SIZE \in Nat \ {0} /\ BODY_BUF_SIZE \in Nat
  /\ Requests \subseteq [lines : Nat \ {0}, body : Nat, blank : Nat, kind : Kinds]
  /\ \A r \in Requests : r.kind = "sized" => r.body <= BODY_BUF_SIZE
  /\ MaxRequests \in Nat

VARIABLES
  server,   \* the task: at what, with what it has read of the request
  client    \* whether it waits for answers; its requests, bytes still to come, answers

vars == <<server, client>>

\* A head is r.lines bytes and a blank line.  The body after it may hold a blank
\* line, at its place r.blank.
Size(r) == r.lines + 2 + r.body
EndsLine(r, k) ==
  \/ k \in {r.lines + 1, r.lines + 2}
  \/ r.blank > 0 /\ k \in {r.lines + 2 + r.blank, r.lines + 3 + r.blank}
ByteOf(n, r, k) == [of |-> n, at |-> k, crlf |-> EndsLine(r, k)]

RequestBytes(n, r) == [k \in 1 .. Size(r) |-> ByteOf(n, r, k)]
HeadBytes(n, r) == [k \in 1 .. r.lines + 2 |-> ByteOf(n, r, k)]
BodyBytes(n, r, len) == [k \in 1 .. len |-> ByteOf(n, r, r.lines + 2 + k)]

Prefixes(s) == {SubSeq(s, 1, n) : n \in 0 .. Len(s)}
After(s, n) == SubSeq(s, n + 1, Len(s))
Least(a, b) == IF a < b THEN a ELSE b

-----------------------------------------------------------------------------
(* Clients *)

NoClient == [at |-> "none", waits |-> TRUE, sent |-> <<>>, todo |-> <<>>, answers |-> 0]

\* A client that waits sends a request when all before are answered.
Send ==
  /\ client.at = "open"
  /\ Len(client.sent) < MaxRequests
  /\ client.waits => client.answers >= Len(client.sent)
  /\ \E r \in Requests :
       LET n == Len(client.sent) + 1
       IN  client' = [client EXCEPT !.sent = Append(@, r),
                                    !.todo = @ \o RequestBytes(n, r)]
  /\ UNCHANGED server

\* It may stop anywhere, and read on; or break the connection.
Close ==
  /\ client.at = "open"
  /\ \E rest \in Prefixes(client.todo) : client' = [client EXCEPT !.at = "closed", !.todo = rest]
  /\ UNCHANGED server

Reset ==
  /\ client.at \in {"open", "closed"}
  /\ client' = [client EXCEPT !.at = "reset", !.todo = <<>>]
  /\ UNCHANGED server

-----------------------------------------------------------------------------
(* handle_request *)

\* of is the request the head read is the head of, or 0; len the length it states.
Start == [at |-> "head", head |-> <<>>, of |-> 0, len |-> 0, body |-> <<>>]
Accepting == [Start EXCEPT !.at = "accept"]

Respond(n) == [Start EXCEPT !.at = "write", !.of = n]

\* Mutant: the blank line is looked for in what has just come.
EndsInNew(head, new) == {p \in new + 1 .. Len(head) - 1 : head[p].crlf /\ head[p + 1].crlf}

\* Where a blank line is in all that was read, of which the bytes after new have
\* just come.
Ends(head, new) == {p \in 1 .. Len(head) - 1 : head[p].crlf /\ head[p + 1].crlf}

\* Mutant: the last blank line that has come ends the head.
HeadLenLast(ends) == Max(ends) + 1

HeadLen(ends) == Min(ends) + 1

\* Mutants: a head that fills its place is refused; or there is always room for
\* another read.
TooLargeWhenFull(head, ends) == Len(head) >= HEADER_BUF_SIZE
TooLargeWhenOver(head, ends) == ends = {} /\ Len(head) > HEADER_BUF_SIZE

TooLarge(head, ends) == ends = {} /\ Len(head) >= HEADER_BUF_SIZE

\* The requests a head is the whole head of.
Parsed(head) == {n \in DOMAIN client.sent : head = HeadBytes(n, client.sent[n])}

ContentLength(n) == IF client.sent[n].kind = "sized" THEN client.sent[n].body ELSE 0

\* The body that is there routes the request, or is read on.
WithBody(head, n, len, body) ==
  [at |-> IF Len(body) = len THEN "route" ELSE "body",
   head |-> head, of |-> n, len |-> len, body |-> body]

\* Mutant: what came with the head is not part of the body.
AlreadyReadNothing(more, len) == <<>>

\* Of what came with the head, what belongs to the body; the rest is gone.
AlreadyRead(more, len) == SubSeq(more, 1, Least(Len(more), len))

\* Bytes that are no head as a client sent it were left over, alone or with the
\* head that came next: they are refused, for their syntax or their method, or
\* read as a head that states any length.
Parse(head, more) ==
  \/ \E n \in Parsed(head) :
       server' = IF client.sent[n].kind = "refused" THEN Respond(n)
                 ELSE WithBody(head, n, ContentLength(n), AlreadyRead(more, ContentLength(n)))
  \/ /\ Parsed(head) = {}
     /\ \/ server' = Respond(0)
        \/ \E len \in 0 .. BODY_BUF_SIZE :
             server' = WithBody(head, 0, len, AlreadyRead(more, len))

\* socket.read: n bytes of those to come, into the room there is.
Receive(n, room) ==
  /\ n <= Least(Len(client.todo), room)
  /\ client' = [client EXCEPT !.todo = After(@, n)]

ReadHead ==
  /\ server.at = "head"
  /\ \E n \in 1 .. HEADER_BUF_SIZE :
       /\ Receive(n, HEADER_BUF_SIZE - Len(server.head))
       /\ LET head == server.head \o SubSeq(client.todo, 1, n)
              ends == Ends(head, Len(server.head))
          IN  \/ TooLarge(head, ends) /\ server' = Respond(0)
              \/ ~TooLarge(head, ends) /\ ends = {} /\ server' = [server EXCEPT !.head = head]
              \/ ends # {} /\ Parse(SubSeq(head, 1, HeadLen(ends)), After(head, HeadLen(ends)))

ReadBody ==
  /\ server.at = "body"
  /\ \E n \in 1 .. Len(client.todo) :
       /\ Receive(n, server.len - Len(server.body))
       /\ server' = WithBody(server.head, server.of, server.len,
                             server.body \o SubSeq(client.todo, 1, n))

\* The socket is closed, and the next connection accepted.
Done == server' = Accepting /\ client' = NoClient

\* Mutant: within a request a read that returns nothing is tried again.
ReadEndAgain ==
  /\ server.at \in {"head", "body"}
  /\ client.at = "reset" \/ (client.at = "closed" /\ client.todo = <<>>)
  /\ IF server.at = "head" /\ server.head = <<>> THEN Done ELSE UNCHANGED vars

\* A read that returns nothing, or fails.
ReadEnd ==
  /\ server.at \in {"head", "body"}
  /\ client.at = "reset" \/ (client.at = "closed" /\ client.todo = <<>>)
  /\ Done

\* route_request answers, or ROUTER_TIMEOUT does; or the body is no text, and is
\* refused.
Route ==
  /\ server.at = "route"
  /\ server' = Respond(server.of)
  /\ UNCHANGED client

-----------------------------------------------------------------------------
(* task *)

Accept ==
  /\ server.at = "accept"
  /\ server' = Start
  /\ \E waits \in BOOLEAN : client' = [NoClient EXCEPT !.at = "open", !.waits = waits]

Write ==
  /\ server.at = "write"
  /\ client.at # "reset"
  /\ server' = Start
  /\ client' = [client EXCEPT !.answers = @ + 1]

WriteFails == server.at = "write" /\ client.at # "open" /\ Done

-----------------------------------------------------------------------------
(* The specification *)

Init == server = Accepting /\ client = NoClient

Serve == ReadHead \/ ReadBody \/ ReadEnd \/ Route \/ Write \/ WriteFails

Next == Send \/ Close \/ Reset \/ Accept \/ Serve

\* The task goes on as long as there is something to read or to say.  Nothing
\* is assumed of clients, but that they read their answers.
Spec == Init /\ [][Next]_vars /\ WF_vars(Serve)

-----------------------------------------------------------------------------
(* Properties *)

Byte == [of : 1 .. MaxRequests, at : Nat \ {0}, crlf : BOOLEAN]

\* What was read fits its buffer, and no more of a body was than was stated.
TypeOK ==
  /\ server.at \in {"accept", "head", "body", "route", "write"}
  /\ server.of \in 0 .. Len(client.sent)
  /\ {server.head, server.body, client.todo} \subseteq Seq(Byte)
  /\ Len(server.head) <= HEADER_BUF_SIZE
  /\ server.at = "head" => Len(server.head) < HEADER_BUF_SIZE
  /\ server.len <= BODY_BUF_SIZE /\ Len(server.body) <= server.len
  /\ client.at \in {"none", "open", "closed", "reset"}
  /\ client.waits \in BOOLEAN
  /\ client.sent \in Seq(Requests)
  /\ client.answers \in Nat

\* Byte b is the next a client that asked for sent sends after a.
Follows(sent, a, b) ==
  \/ b.of = a.of /\ b.at = a.at + 1
  \/ b.of = a.of + 1 /\ b.at = 1 /\ a.at = Size(sent[a.of])

OnePiece(sent, s) == \A i \in 1 .. Len(s) - 1 : Follows(sent, s[i], s[i + 1])

\* Whatever is routed is bytes up to the first blank line and, next to them in
\* what the client sent, as many as they state: no read, refusal or request sent
\* early makes the server skip a byte of a body, take one twice or take too many.
\* So it is for what is left of a request and taken for one of its own as well.
RoutedInOnePiece ==
  server.at = "route" =>
    /\ Ends(server.head, 0) = {Len(server.head) - 1}
    /\ Len(server.body) = server.len
    /\ OnePiece(client.sent, server.head \o server.body)

\* A head that fits, and no body but one the server reads.
ReadWhole(r) == r.lines + 2 <= HEADER_BUF_SIZE /\ (r.kind = "sized" \/ r.body = 0)

\* What was answered on this connection were such requests, one at a time.
Orderly ==
  /\ client.waits
  /\ \A n \in DOMAIN client.sent : n <= client.answers => ReadWhole(client.sent[n])

\* Where the head of a request was found, what is routed is that head with its
\* body, exactly the bytes of the length it stated; and a client that waits, and
\* was answered no request the server had not read to its end, has no other bytes
\* routed than those of the request it waits for.
OnlyWholeRequests ==
  server.at = "route" =>
    LET n == server.of
    IN  /\ n > 0 => /\ server.head = HeadBytes(n, client.sent[n])
                   /\ server.body = BodyBytes(n, client.sent[n], ContentLength(n))
        /\ Orderly => n = Len(client.sent)

\* A client that waits for each answer gets one answer for each request, its
\* own, on a connection that stays open; up to the first request the server
\* answers before it has read it all, for what is left is taken for a request.
AnswersOwn ==
  server.at = "write" /\ Orderly =>
    LET n == Len(client.sent)
    IN  /\ client.answers = n - 1
        /\ server.of = n \/ client.sent[n].lines + 2 > HEADER_BUF_SIZE

\* And it gets that answer, unless it stops before the whole request is sent or
\* breaks the connection.
Answered ==
  \A n \in 1 .. MaxRequests :
    (Orderly /\ Len(client.sent) = n) ~> (client.answers >= n \/ client.at # "open")

\* A client that has closed its connection does not keep the server.
ServerFreed == (client.at \in {"closed", "reset"}) ~> (server.at = "accept")
=============================================================================
