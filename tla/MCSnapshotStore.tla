-------------------------- MODULE MCSnapshotStore --------------------------
(* Small instances of SnapshotStore. *)
EXTENDS SnapshotStore, TLC

CONSTANTS k1, k2

KeySymmetry == Permutations(Keys)
=============================================================================
