CONSTANTS
  MaxAddrs = 2
  MaxRetries = 2
  MaxRuns = 1
  PeerValues = {"text", "Y"}
SPECIFICATION FairSpec
PROPERTIES
  RunReturns
  ImplementsContract
\* The caller may stop calling Run, and a killed process stops.
CHECK_DEADLOCK FALSE
