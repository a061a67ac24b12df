SPECIFICATION Spec
CONSTANTS
  Agents = {a1}
  SessionIds = {s1, s2}
  NoAgent = NoAgent
  NoSession = NoSession
  Workers = {w1}
  Threshold = 3
  Window = 1
  Grace = 1
  MaxLag = 1
  MaxTime = 2
  MaxEvents = 5
  MaxDisturbances = 2
SYMMETRY Interchangeable
INVARIANT EpisodesShareNoEvidence
CHECK_DEADLOCK FALSE
