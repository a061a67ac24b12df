SPECIFICATION Spec
CONSTANTS
  f1 = f1
  f2 = f2
  f3 = f3
  Requests = {r1, r2}
  Ids <- MCIds
  SeverityOf <- MCSeverityOf
  SessionOf <- MCSessionOf
  MaxClock = 0
  MaxBatch = 2
  MaxRepairs = 0
  NoOne = NoOne
INVARIANTS
  DecisionCountsOwnFindings

  
