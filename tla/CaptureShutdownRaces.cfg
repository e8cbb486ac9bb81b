SPECIFICATION Spec
CONSTANTS
  Actors = {"call", "shutdown"}
  Faults = {}
  MaxOperations = 1
  TaskId = {t1, t2, t3, t4}
INVARIANTS
  ShutdownReleases
