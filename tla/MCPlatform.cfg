SPECIFICATION Spec
CHECK_DEADLOCK FALSE
CONSTANTS
  Conns = {1, 2}
  MaxOutstanding = 2
  ReplayWindow = 4
  Attempts = 2
  MaxRequests = 2
  MaxFaults = 2
  Callers = {1, 2}
  MaxRuns = 2
  MaxFacts = 4
  EventLimit = 3
  DiagnosticLimit = 2
  Versions = {0, 5, 6, 9, 10, 12}
  Options = {"language", "surface", "onboarding", "ports"}
  Refreshers = {1, 2}
  Clock = {1, 2}
  MaxUpdates = 2
  MaxFailures = 2
  MaxChanges = 1
  MaxRestarts = 1
  Ids = {1, 2}
  LifecycleKinds = {"install", "repair", "remove"}
  Found = {"healthy", "old", "foreign"}
  HistoryLimit = 2
  RecordLimit = 2
  MaxCommands = 2
  MaxMishaps = 1
  MaxCrashes = 1
INVARIANTS
  SettingsAreTrue
  OffStaysOff RemovalIsRecorded InstallationIsWhole
  StoppedHoldsNothing ObservationsAreWhole
PROPERTIES
  ProfilesAreKept MobileCommandsHold
