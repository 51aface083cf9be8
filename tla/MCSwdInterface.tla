--------------------------- MODULE MCSwdInterface ---------------------------
(* Small instances of SwdInterface for TLC. *)
EXTENDS SwdInterface
=============================================================================
