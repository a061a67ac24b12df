SPECIFICATION Spec
CONSTANTS
  p1 = p1
  p2 = p2
  Processes = {p1, p2}
  MaxEpoch = 3
  None = None
SYMMETRY Perms
INVARIANT AdministrativeHistory
INVARIANT EnforcementHistory
INVARIANT AnswersAreTrue
INVARIANT ConsumedOnce
CHECK_DEADLOCK FALSE
