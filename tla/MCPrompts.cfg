SPECIFICATION Spec
CONSTANTS
  DialogCooldown = 4
  NotifyCooldown = 2
  MaxReports = 3
  Width = 3
  Radix = 10
  Installed <- SomeInstalled
  Latest <- SomeLatest
INVARIANTS
  NoReportIsSilent
  UpdateChecksEnd
  HintIsHonest
PROPERTY NeverNags
