SPECIFICATION FairSpec
CONSTANTS
  research = research
  analyze1 = analyze1
  analyze2 = analyze2
  report = report
  w1 = w1
  w2 = w2
  Task = {research, analyze1, analyze2, report}
  Worker = {w1, w2}
  Deps <- DiamondDeps
  MaxAttempts = 2
  MaxFaults = 0
  NoMsg = NoMsg
  NoTask = NoTask
  NoWorker = NoWorker
INVARIANTS
  NoTaskLost
  RecordsAgree
PROPERTIES
  CompletedIsFinal
  ReportTruthful
  RunsTheDag
  Terminates
\* A run ends when the workflow has ended and every worker is idle.
CHECK_DEADLOCK FALSE
