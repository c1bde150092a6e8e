SPECIFICATION FairSpec
CONSTANTS
  Windows = {w1, w2}
  NoWindow = NoWindow
  PreloadModel = TRUE
  MaxEpoch = 2
INVARIANT PillIsHonest
PROPERTY SessionsEnd
CHECK_DEADLOCK FALSE
