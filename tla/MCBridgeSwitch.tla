--------------------------- MODULE MCBridgeSwitch ---------------------------
(* Small instances of BridgeSwitch. *)
EXTENDS BridgeSwitch, TLC

CONSTANTS s1, s2, s3

SwitchSymmetry == Permutations(Switches)
=============================================================================
