SPECIFICATION Spec
CONSTANTS
  Microphones = {"usb"}
  MaxEdits = 2
  AwkwardNames = {"usb"}
  AwkwardEdits = {2}
  MaxPid = 3
  AlienParent = 2
  Unlockable = {1}
  Nobody = Nobody
CONSTRAINT
  FewEvents
INVARIANTS
  NeverTwoDaemons
  StopIsExact
  RestartHandsOver
PROPERTIES
  SavesWhatItRead
CHECK_DEADLOCK FALSE
