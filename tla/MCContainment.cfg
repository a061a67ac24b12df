SPECIFICATION Spec
CONSTANTS
  r1 = r1
  r2 = r2
  r3 = r3
  g1 = g1
  g2 = g2
  g3 = g3
  c1 = c1
  Agents = {a1}
  Sessions = {s1}
  Bindings = {b1}
  Capabilities = {cap1}
  TTL = 1
  MaxTime = 0
  MaxRestarts = 0
  MaxEpoch = 4
  Requests <- TwoRequests
  GrantIds <- TwoGrants
  Admins = {c1}
  Recoveries = {"reinstate", "repair"}
  EndableSessions = {s1}
INVARIANTS
  SuspendedMeansClosed
  OnlyAllowExecutes
PROPERTIES
  SuspendedExecutesNothing
  ImplementsAuthority
  ImplementsLifecycle
  ContainmentFollows
CHECK_DEADLOCK FALSE
