SPECIFICATION Spec
CONSTANTS
  r1 = r1
  v1 = v1
  v2 = v2
  i1 = i1
  p1 = p1
  p2 = p2
  w1 = w1
  w2 = w2
  notes = notes
  secrets = secrets
  Requests = {r1}
  Versions = {v1, v2}
  Impls = {i1}
  RiskOf <- MCRiskOf
  Profiles = {p1, p2}
  Workspaces = {w1, w2}
  RootOf <- MCRootOf
  Names = {notes, secrets}
  Protected = {secrets}
  MaxOps = 2
  None = None
  Malformed = Malformed
  Outside = Outside
  Missing = Missing
INVARIANT ExecutionIsPinned
INVARIANT PolicyAppliesToWhatIsRead
INVARIANT RanWithinTier
CHECK_DEADLOCK FALSE
