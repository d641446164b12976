SPECIFICATION HistorySpec
CONSTANTS
  research = research
  report = report
  w1 = w1
  w2 = w2
  Task = {research, report}
  Worker = {w1, w2}
  Deps <- PairDeps
  MaxAttempts = 1
  MaxFaults = 0
  MaxCrashes = 0
  DlqBound = FALSE
  ReadersPoll = TRUE
  ClockSkew = TRUE
  NoMsg = NoMsg
  NoTask = NoTask
INVARIANTS
  DependentRunsAlone
  DependenciesRan
  CompletedVerdict
  NoTaskStranded
  FailureHasCause
SYMMETRY WorkerSymmetry
\* A run ends when the workflow has ended and every worker is idle.
CHECK_DEADLOCK FALSE
