SPECIFICATION HistorySpec
CONSTANTS
  research = research
  report = report
  w1 = w1
  w2 = w2
  Task = {research, report}
  Worker = {w1}
  Deps <- PairDeps
  MaxAttempts = 2
  MaxFaults = 0
  MaxCrashes = 0
  DlqBound = TRUE
  ReadersPoll = FALSE
  ClockSkew = FALSE
  NoMsg = NoMsg
  NoTask = NoTask
PROPERTIES
  CompletedNotRerun
\* A run ends when the workflow has ended and every worker is idle.
CHECK_DEADLOCK FALSE
