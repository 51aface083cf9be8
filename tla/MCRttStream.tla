----------------------------- MODULE MCRttStream ----------------------------
(* RttStream with small rings; the cfgs choose the bounds. *)
EXTENDS RttStream
=============================================================================
