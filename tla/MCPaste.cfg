SPECIFICATION FairSpec
CONSTANTS
  Windows = {w1, w2}
  Retries = 2
  WaitCap = 1
  Delay = 2
  Lag = 1
  Chunks = 2
  MaxPastes = 2
  MaxCopies = 1
INVARIANTS
  QuietPasteLands
  RestoredUnlessExcused
  GoesToItsTarget
PROPERTY
  RestoresEnd
