SPECIFICATION FairSpec
CONSTANTS
  Win = Win
  Alt = Alt
  Mouse4 = Mouse4
  Letter = Letter
  Escape = Escape
  Setups <- BothCombos
  SideEffectKeys <- WinAlt
  TapThreshold = 2
  MaxTime = 4
  MaxQueue = 4
INVARIANTS MaskIsExact NoButtonStuck
PROPERTIES ArmsOnARealPress HeldPressBecomesPtt
CHECK_DEADLOCK FALSE
