\* A Hermes and a setup with different models; services and launchers that fail or die.
SPECIFICATION Spec
CONSTANTS
  h1 = h1
  h2 = h2
  b1 = b1
  b2 = b2
  b3 = b3
  p1 = p1
  p2 = p2
  p3 = p3
  q1 = q1
  q2 = q2
  Agents = {h1, h2}
  Wanted <- Different
  Kind <- HermesAndSetup
  Profile <- ProfileAndStandalone
  Backends = {b1, b2, b3}
  Proxies = {p1, p2, p3}
  Ports = {q1, q2}
  Attempts = 2
  Budget = 2
  Faults = {"die", "kill", "stuck", "port", "slow", "deaf", "save", "manifest", "stop", "uninstall"}
SYMMETRY ProcessSymmetry
INVARIANTS OneOfEach
PROPERTIES StopIsFinal ReadyIsRight NothingLeft
