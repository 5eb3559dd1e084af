\* Two saves of two conversations, every single fault, crashes of the proxy, power losses.
SPECIFICATION FairSpec
CONSTANTS
  k1 = k1
  k2 = k2
  None = None
  Keys = {k1, k2}
  MaxGenerations = 2
  MaxOutages = 1
  Faults = {"write", "stock", "timeout", "meta", "dirsync", "unlink", "crash"}
INVARIANTS EntriesRestartable PublishedComplete AckedSurvives
PROPERTIES ImplementsSnapshots OrphansCollected
