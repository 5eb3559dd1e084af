\* A Hermes and the supervisor of its profile; processes that die, are slow or go away.
SPECIFICATION FairSpec
CONSTANTS
  h1 = h1
  h2 = h2
  b1 = b1
  b2 = b2
  b3 = b3
  p1 = p1
  p2 = p2
  p3 = p3
  q1 = q1
  q2 = q2
  Agents = {h1, h2}
  Wanted <- Same
  Kind <- HermesAndSupervisor
  Profile <- OneProfile
  Backends = {b1, b2, b3}
  Proxies = {p1, p2, p3}
  Ports = {q1, q2}
  Attempts = 2
  Budget = 1
  Faults = {"die", "kill", "slow", "exit", "stop", "uninstall"}
PROPERTIES StartsEnd ProxyReturns
