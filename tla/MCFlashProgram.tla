--------------------------- MODULE MCFlashProgram ---------------------------
(* FlashProgram with sectors 0 and 1, of two words each; sector 2, which   *)
(* does not exist, is asked for too.                                       *)
EXTENDS FlashProgram

MCBitsOf == [n \in 0 .. 2 |-> CASE n = 0 -> {} [] n = 1 -> {0} [] n = 2 -> {1}]
MCSectorOf == [w \in 0 .. 3 |-> w \div 2]
=============================================================================
