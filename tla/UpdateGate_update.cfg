\* Ticks of 30 s.  A park ends before its lease does.
SPECIFICATION FairSpec
CONSTANTS
  c1 = c1
  c2 = c2
  Clients = {c1, c2}
  Lease = 10
  WaitLimit = 2
  ReplyLimit = 3
  ParkLimit = 7
  WorkLimit = 1
  Latest = 2
  Faults = {"park", "killed", "stop", "verify"}
INVARIANTS OutcomeIsTrue
PROPERTIES StopsAreClean GateReopens
