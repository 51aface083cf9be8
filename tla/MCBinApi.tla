------------------------------ MODULE MCBinApi ------------------------------
(* BinApi with one HTTP server. *)
EXTENDS BinApi

CONSTANT s1
=============================================================================
