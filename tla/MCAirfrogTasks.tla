--------------------------- MODULE MCAirfrogTasks ---------------------------
(* AirfrogTasks on small instances. *)
EXTENDS AirfrogTasks, TLC

CONSTANTS s1, s2

\* The servers run the same code.
ServerSymmetry == Permutations(Servers)
=============================================================================
