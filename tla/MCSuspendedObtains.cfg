SPECIFICATION Spec
CONSTANTS
  r1 = r1
  r2 = r2
  r3 = r3
  g1 = g1
  g2 = g2
  g3 = g3
  c1 = c1
  Agents = {a1}
  Sessions = {s1}
  Bindings = {b1}
  Capabilities = {cap1}
  TTL = 1
  MaxTime = 0
  MaxRestarts = 0
  MaxEpoch = 6
  Requests <- ThreeRequests
  GrantIds <- ThreeGrants
  Admins = {c1}
  Recoveries = {"reinstate"}
  EndableSessions = {}
SYMMETRY Symmetry
PROPERTIES
  SuspendedObtainsNothing
CHECK_DEADLOCK FALSE
