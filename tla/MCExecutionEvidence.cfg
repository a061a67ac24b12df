SPECIFICATION Spec
CONSTANTS
  x1 = x1
  x2 = x2
  Executions <- ExecutionSet
  Timeouts = {1, 2}
  Grace = 1
  MaxTerminalReceipts = 1
  MaxTime = 3
  Faults = TRUE
INVARIANTS
  TrailsAreLegal
  OutputNeedsEvidence
  NoInventedTimeout
  StoreIsBounded
PROPERTIES
  PassLeavesNothingOverdue
