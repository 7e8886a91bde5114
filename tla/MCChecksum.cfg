CONSTANTS
  Messages <- PatternedMessages
  Behind <- FollowingBytes
  Noise = {0, 1, 15, 254, 255}
  MaxDamage = 2
SPECIFICATION Spec
INVARIANTS
  TypeOK
  ComputedVerifies
  OneByteCaught
  AcceptedIffTotalIsFull
  AcceptedIsRestored
\* A message's life ends.
CHECK_DEADLOCK FALSE
