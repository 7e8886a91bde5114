CONSTANTS
  Descriptors = {f1, f2, f3}
  NoFd = NoFd
  MaxCalls = 4
SPECIFICATION FairSpec
INVARIANTS
  TypeOK
  StreamIsReady
  OnlyThrowsLeave
PROPERTY ConnectReturns
\* The caller may stop calling Connect.
CHECK_DEADLOCK FALSE
