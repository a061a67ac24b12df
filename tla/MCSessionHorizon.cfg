SPECIFICATION Spec
CONSTANTS
  Agents = {a1, a2}
  SessionIds = {s1, s2}
  NoAgent = NoAgent
  NoSession = NoSession
  Workers = {w1, w2}
  Threshold = 2
  Window = 1
  Grace = 1
  MaxLag = 1
  MaxTime = 3
  MaxEvents = 3
  MaxDisturbances = 3
SYMMETRY Interchangeable
INVARIANTS
  OwnershipIsFinal
  PositionsAreUnique
  HorizonIsPreserved
  EvidenceIsAfterItsBaseline
PROPERTIES
  EndedSessionsAreSealed
  CrossingIsReported
CHECK_DEADLOCK FALSE
