SPECIFICATION Spec
CONSTANTS
  Windows = {w1, w2, w3}
  NoWindow = NoWindow
  PreloadModel = FALSE
  MaxEpoch = 3
INVARIANTS
  AwaitsExactlyOneLeg
  LastPasteIsOnScreen
  MicAndTrayFollowTheMachine
  MostRecentIsTheNewest
  CancelledTextNeverLands
PROPERTIES
  ReplacesOnlyItsOwnPaste
  TouchesOnlyTheAnchoredWindow
  ImplementsDictation
SYMMETRY WindowSymmetry
CHECK_DEADLOCK FALSE
