\* A restore and the erase after it may both fail.
SPECIFICATION Spec
CONSTANTS
  k1 = k1
  k2 = k2
  s1 = s1
  s2 = s2
  m1 = m1
  None = None
  Keys = {k1, k2}
  Models = {1}
  Settings = {s1}
  Messages = {m1}
  Prompts <- EditedPrompts
  AutoSave = FALSE
  MinTokens = 3
  Growth = 2
  Faults = {"load", "erase"}
SYMMETRY KeySymmetry
INVARIANTS NoUnsafeInference
