SPECIFICATION MCSpec
CONSTANTS
  Service = {wifi, wired}
  Manual = {none, auth}
  Irreversible = {auth}
  Mish = Mish
  Bypass = {own}
  ProtectAuto = FALSE
  NoSnapshot = NoSnapshot
  Actions = {"LeaveAsIs", "preflight"}
  MaxEvents = 1
  MaxFaults = 1
  MaxCrashes = 1
CHECK_DEADLOCK FALSE
INVARIANTS
  WriteAhead
  PreflightHonoured
  NothingLost
  OffRestoresPrior
PROPERTIES
  RestartRecovers
