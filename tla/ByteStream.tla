----------------------------- MODULE ByteStream -----------------------------
(***************************************************************************)
(* What RTT promises: the bytes the target writes, numbered from 1 in the  *)
(* order they are written, reach clients in that order and none skipped,   *)
(* a few at a time; each exactly once while every write to the target      *)
(* succeeds.  A reset of the target breaks the stream.                     *)
(***************************************************************************)
EXTENDS Naturals, Sequences

CONSTANTS MaxBytes   \* how many bytes are ever written

VARIABLES
  sent,   \* bytes written so far
  got,    \* the last byte a client got
  out,    \* what the last read returned
  faith   \* "exact"; "again" when bytes may come again; "broken"

vars == <<sent, got, out, faith>>

Init == sent = 0 /\ got = 0 /\ out = <<>> /\ faith = "exact"

Put ==
  /\ sent < MaxBytes
  /\ sent' = sent + 1
  /\ UNCHANGED <<got, out, faith>>

Successor(x, y) ==
  /\ faith = "exact" => y = x + 1
  /\ faith = "again" => y \in 1 .. x + 1

Get ==
  /\ out' \in Seq(0 .. sent)
  /\ LET read == <<got>> \o out'
     IN  /\ \A i \in DOMAIN out' : Successor(read[i], read[i + 1])
         /\ got' = read[Len(read)]
  /\ UNCHANGED <<sent, faith>>

WriteFailed == faith # "broken" /\ faith' = "again" /\ UNCHANGED <<sent, got, out>>
TargetReset == faith' = "broken" /\ UNCHANGED <<sent, got, out>>

Next == Put \/ Get \/ WriteFailed \/ TargetReset

Spec == Init /\ [][Next]_vars
=============================================================================
