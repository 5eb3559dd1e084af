--------------------------- MODULE MCUpdateGate ---------------------------
(* Small instances of UpdateGate. *)
EXTENDS UpdateGate, TLC

CONSTANTS c1, c2

ClientSymmetry == Permutations(Clients)
=============================================================================
