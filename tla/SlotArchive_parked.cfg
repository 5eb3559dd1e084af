\* Everything but a failing manifest check.
SPECIFICATION Spec
CONSTANTS
  k1 = k1
  k2 = k2
  s1 = s1
  s2 = s2
  m1 = m1
  None = None
  Keys = {k1, k2}
  Models = {1}
  Settings = {s1}
  Messages = {m1}
  Prompts <- EditedPrompts
  AutoSave = FALSE
  MinTokens = 3
  Growth = 2
  Faults = {"slot", "save", "publish", "load", "erase", "touch", "upstream", "crash", "restart"}
SYMMETRY KeySymmetry
INVARIANTS TypeOK OwnerHoldsSlot BackgroundPreserves ParkedIsLatest DisplacedWithinGrowth
PROPERTIES SavesAreLatest
