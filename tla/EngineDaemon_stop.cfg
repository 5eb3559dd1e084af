CONSTANTS
  s1 = s1
  s2 = s2
  p1 = p1
  Switches = {s1, s2}
  Prewarms = {}
  Daemons <- DaemonProcesses
  Faults = {"oom", "worker", "stop", "long"}
SPECIFICATION FairSpec
INVARIANTS OutputMatchesOutcome JobsExclusive ServingIsReachable
PROPERTY CallsEnd
CHECK_DEADLOCK FALSE
