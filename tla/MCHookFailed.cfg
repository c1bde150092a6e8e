SPECIFICATION Spec
CONSTANTS
  DialogCooldown = 2
  NotifyCooldown = 1
  MaxReports = 1
  Width = 3
  Radix = 10
  Installed <- SomeInstalled
  Latest <- SomeLatest
INVARIANT DictatesFromTheMenu
