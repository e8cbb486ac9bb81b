SPECIFICATION Spec
CONSTANTS
  Service = {wifi, wired}
  Manual = {none, auth}
  Irreversible = {auth}
  Mish = Mish
  Bypass = {own}
  ProtectAuto = FALSE
  NoSnapshot = NoSnapshot
  Actions = {"Repair", "LeaveAsIs"}
  MaxEvents = 1
  MaxFaults = 0
  MaxCrashes = 0
CHECK_DEADLOCK FALSE
INVARIANTS
  OffReleasesEndpoint
