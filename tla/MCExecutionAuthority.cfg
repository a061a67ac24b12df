SPECIFICATION Spec
CONSTANTS
  a1 = a1
  a2 = a2
  b1 = b1
  b2 = b2
  g1 = g1
  g2 = g2
  Agents <- AgentSet
  Bindings <- BindingSet
  GrantIds <- GrantIdSet
  Sessions = {s1}
  Capabilities = {c1}
  TTL = 2
  MaxTime = 2
  MaxEpoch = 1
  MaxRestarts = 1
SYMMETRY Symmetry
INVARIANTS
  ClosedGateHoldsNoGrant
  SingleUse
  ClaimsAreAsIssued
  RevocationIsFinal
PROPERTIES
  RefusedAttemptsConsumeNothing
