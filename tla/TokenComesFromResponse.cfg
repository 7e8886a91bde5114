CONSTANTS
  MaxAddrs = 1
  MaxRetries = 2
  MaxRuns = 1
  PeerValues = {"text", "nul", "Y"}
SPECIFICATION Spec
INVARIANT TokenComesFromResponse
CHECK_DEADLOCK FALSE
