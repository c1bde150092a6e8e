SPECIFICATION Spec
CONSTANTS
  Codes = {"en", "zh", "de"}
  Machines <- MCMachines
  Settings <- MCSettings
  Detections <- MCDetections
  Clips = {w1, w2}
  Words <- MCWords
  Long <- MCLong
  LongKey <- MCLong
  Letters <- MCLetters
  Sounds <- MCSounds
  PromptFiles <- MCPromptFiles
  PasteAliases <- MCPasteAliases
  Heard <- MCHeard
INVARIANTS
  ChosenEngineRuns
  GpuComesBack
  LanguageIsKept
  CommandsAreMeant
