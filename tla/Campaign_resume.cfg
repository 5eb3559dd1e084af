\* One model, every way to run, redo and re-encode it, commands that fail and processes killed.
SPECIFICATION Spec
CONSTANTS
  Requests <- SomeRequests
  Recurrent = TRUE
  MaxLaunches = 3
  Faults = {"kill", "fail", "timeout"}
INVARIANTS DoneIsCurrent InputsReady OutdatedHubsFlagged
PROPERTIES ImplementsPipeline
CHECK_DEADLOCK FALSE
