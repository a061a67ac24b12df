SPECIFICATION Spec
CONSTANTS
  Capabilities <- MCCapabilities
  Hosts = {"h1", "h2"}
  Ports = {1, 2}
  MaxRuns = 2
  PipeCapacity = 1
  MaxOutput = 2
  MaxSize = 3
  Timeout = 2
INVARIANT NothingOutlivesExecution
INVARIANT ReportsWhatTheToolDid
INVARIANT RequiredControlsInForce
 
PROPERTY SandboxReturns
CHECK_DEADLOCK FALSE
