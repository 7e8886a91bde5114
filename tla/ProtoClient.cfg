CONSTANTS
  MaxAddrs = 2
  MaxRetries = 2
  MaxRuns = 2
  PeerValues = {"text", "nul", "Y"}
SPECIFICATION Spec
INVARIANTS
  TypeOK
  OneScriptPerAddress
  VerdictSound
  TokenIsOfLatestAttempt
  NothingUninitialised
  LoggedInOnY
  FullResponseGivesItsToken
  FalseMeansBudgetOrGoodbye
\* The caller may stop calling Run, and a killed process stops.
CHECK_DEADLOCK FALSE
