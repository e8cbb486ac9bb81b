SPECIFICATION Spec
CONSTANTS
  State <- MCState
  Input <- MCInput
  Effect <- MCEffect
  Correlation <- MCCorrelation
  InitialState <- MCInitialState
  Admissible <- MCAdmissible
  ShutdownInput <- MCShutdownInput
  Reduce <- MCReduce
  InputCorrelation <- MCInputCorrelation
  EffectIsCurrent <- MCEffectIsCurrent
  TaskFailed <- MCTaskFailed
  Completes <- MCCompletes
  Ops = {o1}
  NoOp = NoOp
  NoInput = NoInput
  NoCaller = NoCaller
  Callers = {c1, c2}
  Retirers = {r1}
  TaskId = {1, 2}
  InboxCapacity = 1
  Faults = {"panic", "abort"}
SYMMETRY Symmetry
CHECK_DEADLOCK FALSE
INVARIANTS
  NoLostWakeup
  RefusalIsSafeToRetry
  TerminalIsTruthful
  ForcedWindowOnlyFinalizes
