SPECIFICATION Spec
CHECK_DEADLOCK FALSE
CONSTANTS
  MaxChanges = 1
  MaxReplaced = 1
  MaxCut = 1
  MaxRestarts = 1
  Ops = {1, 2}
  Revisions = {1, 4}
  MaxProcesses = 3
  MaxPowerLoss = 1
  Ids = {"a"}
  Manifests <- MCManifests
  FirstStores <- MCStores
  MaxRestores = 1
  MaxWrites = 2
  MaxFaults = 2
  MaxCrashes = 2
INVARIANTS
  SnapshotsAgree RestoreIsWhole
PROPERTIES
  MaintenanceIsSafe UpdaterIsTrue ManagedIsRecoverable ActivationIsSafe
  PresentationIsExclusive
