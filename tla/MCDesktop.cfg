SPECIFICATION Spec
CHECK_DEADLOCK FALSE
CONSTANTS
  Browsers = {1, 2}
  SessionLimit = 1
  PairingAttempts = 2
  MaxTokens = 1
  MaxChallenges = 2
  MaxSessions = 2
  Clients = {1}
  Names = {"d", "n"}
  Hosts = {"h", "k"}
  Paths = {1}
  Defaults <- MCDefaults
  Stored <- MCStored
  MaxMonitors = 2
  MaxCommands = 2
  MaxFaults = 1
  MaxRestarts = 1
  MaxCycles = 1
  Profiles = {"p", "q"}
  Capacity = 1
  MaxEvents = 2
  MaxCaptures = 1
  MaxBytes = 1
  MaxTroubles = 1
INVARIANTS
  LifecycleIsTrue AccessIsOnce ResultMatchesTarget
PROPERTIES
   ControllerIsSafe
