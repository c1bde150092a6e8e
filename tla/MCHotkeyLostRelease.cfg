SPECIFICATION Spec
CONSTANTS
  Win = Win
  Alt = Alt
  Mouse4 = Mouse4
  Letter = Letter
  Escape = Escape
  Setups <- PlainCombo
  SideEffectKeys <- WinAlt
  TapThreshold = 2
  MaxTime = 4
  MaxQueue = 4
INVARIANT HoldRecordsOnlyWhileHeld
CHECK_DEADLOCK FALSE
