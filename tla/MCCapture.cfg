SPECIFICATION MCSpec
CHECK_DEADLOCK FALSE
CONSTANTS
  Actors = {"launch", "call", "audit", "recover"}
  Faults = {}
  MaxOperations = 2
  TaskId = {1, 2, 3, 4}
INVARIANTS
  OneWriter LaunchLearnsOutcome CaptureIsTrue
PROPERTIES
  BusyEnds
