\* The backend restarts between requests, the proxy stays up, erasing works.
SPECIFICATION Spec
CONSTANTS
  k1 = k1
  k2 = k2
  s1 = s1
  s2 = s2
  m1 = m1
  None = None
  Keys = {k1, k2}
  Models = {1, 2}
  Settings = {s1, s2}
  Messages = {m1}
  Prompts <- PrefixPrompts
  AutoSave = FALSE
  MinTokens = 2
  Growth = 1
  Faults = {"runtime", "slot", "save", "publish", "load", "touch", "upstream"}
SYMMETRY KeySymmetry
INVARIANTS SnapshotsFaithful NoUnsafeInference NoForeignState ResumesOwnState
