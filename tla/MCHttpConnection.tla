--------------------------- MODULE MCHttpConnection --------------------------
(* Instances of HttpConnection for TLC. *)
EXTENDS HttpConnection

\* Heads that fit with room, that fill their place, and that are a byte too
\* long; bodies that do and do not fit in what is left of it, that are read and
\* left, with and without a blank line.
Request(lines, body, blank, kind) ==
  [lines |-> lines, body |-> body, blank |-> blank, kind |-> kind]
MCRequests ==
  {Request(1, 0, 0, "sized"), Request(1, 2, 1, "sized"), Request(3, 1, 0, "sized"),
   Request(4, 0, 0, "sized"), Request(1, 3, 2, "unsized"), Request(1, 1, 0, "refused")}
=============================================================================
