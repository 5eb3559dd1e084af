\* Three switches, one after the other.
SPECIFICATION Spec
CONSTANTS
  s1 = s1
  s2 = s2
  s3 = s3
  Switches = {s1, s2, s3}
  Overlap = FALSE
  Patched = TRUE
  MaxLayout = 2
  Faults = {"server", "engine", "cut", "device", "crash", "restart", "clobber"}
SYMMETRY SwitchSymmetry
INVARIANTS FilesTidy SourceKept TemplateComplete RejectedOnce
CHECK_DEADLOCK FALSE
