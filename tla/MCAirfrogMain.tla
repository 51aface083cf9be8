---------------------------- MODULE MCAirfrogMain ----------------------------
(* AirfrogMain with few configurations and one loss of power. *)
EXTENDS AirfrogMain
=============================================================================
