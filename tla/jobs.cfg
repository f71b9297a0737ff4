SPECIFICATION FairSpec
CONSTANTS
  Jobs = {j1, j2}
  Workers = {w1, w2}
  NoWorker = NoWorker
  MaxCrashes = 2
  MaxErrors = 1
INVARIANTS
  ReportedOutcomeIsTrue
PROPERTIES
  StatusMovesForward
  JobsFinishOrDie
CHECK_DEADLOCK FALSE
