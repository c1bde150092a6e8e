SPECIFICATION Spec
CONSTANTS
  MaxTakes = 2
  MaxInput = 4
  MaxBlock = 2
  Up = 2
  Down = 3
  HalfLen = 1
  SilenceLimit = 2
  DurationLimit = 3
INVARIANTS
  TakeIsItsOwn
  StreamingIsBatch
  CutOffIsEarned
CHECK_DEADLOCK FALSE
