--------------------------- MODULE MCEngineDaemon ---------------------------
EXTENDS EngineDaemon, TLC

CONSTANTS s1, s2, p1

DaemonProcesses == 1..2
ClientSymmetry == Permutations({s1, s2})
=============================================================================
