SPECIFICATION Spec
CONSTANTS
  a1 = a1
  a2 = a2
  Agents <- AgentSet
  MaxEpoch = 5
SYMMETRY Symmetry
INVARIANTS
  EpochAccounting
PROPERTIES
  DisabledIsTerminal
CHECK_DEADLOCK FALSE
