--------------------------- MODULE MCBarcodeScan ---------------------------
(* Symmetry of the users, for the safety runs.                             *)
EXTENDS BarcodeScan, TLC

Symmetry == Permutations(Scanners)
=============================================================================
