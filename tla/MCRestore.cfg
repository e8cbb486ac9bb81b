SPECIFICATION RestoreSpec
CHECK_DEADLOCK FALSE
CONSTANTS
  Ids = {"a"}
  Manifests <- MCManifests
  FirstStores <- MCStores
  MaxRestores = 1
  MaxWrites = 1
  MaxFaults = 0
  MaxCrashes = 2
INVARIANT
  RecoverySucceeds
