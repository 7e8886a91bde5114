SPECIFICATION FairSessionSpec
CONSTANTS
  MaxAddrs = 2
  MaxRetries = 3
  MaxRuns = 2
  PeerValues = {"text", "nul", "Y"}
INVARIANTS OutcomeAsAsserted ServerIsSafe LockStep NeverKilled
PROPERTY TestEnds
\* The test is over or left in join, or the process has been aborted.
CHECK_DEADLOCK FALSE
