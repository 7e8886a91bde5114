SPECIFICATION FairSpec
CONSTANTS
  Calls = 5
INVARIANTS NobodyRefused FrameOutlivesUse
PROPERTY AllTestsEnd
\* main returns, joins for ever, or the process is terminated.
CHECK_DEADLOCK FALSE
