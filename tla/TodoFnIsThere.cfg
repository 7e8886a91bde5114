SPECIFICATION Spec
CONSTANTS
  Calls = 1
INVARIANT TodoFnIsThere
CHECK_DEADLOCK FALSE
