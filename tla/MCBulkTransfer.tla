--------------------------- MODULE MCBulkTransfer ---------------------------
(* A small instance of BulkTransfer for TLC. *)
EXTENDS BulkTransfer
=============================================================================
