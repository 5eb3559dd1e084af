\* Four jobs of four kinds, every fault.
SPECIFICATION FairSpec
CONSTANTS
  j1 = j1
  j2 = j2
  j3 = j3
  j4 = j4
  Jobs = {j1, j2, j3, j4}
  Kind <- MixedJobs
  Faults = {"kill", "term", "leftover"}
INVARIANTS WorkExclusive StaysStopped NothingLeft
PROPERTY JobsEnd
CHECK_DEADLOCK FALSE
