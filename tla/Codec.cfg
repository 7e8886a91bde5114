SPECIFICATION Spec
CONSTANTS
  Sizes = {0, 32, 63, 64, 65}
  Texts <- MCTexts
  Ints <- MCInts
  Fills = {120}
  Limits = {12, 44, 108, 205}
  MemorySize = 210
INVARIANTS GivesBackLastSet SameOnEveryHost EndsInMessage
PROPERTY StaysInBuffer
