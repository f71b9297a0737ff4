SPECIFICATION AgentSpec
CONSTANTS
  Threads = {t1, t2}
  MaxAttempts = 2
  Threshold = 2
  Recovery = 1
  MaxDelay = 1
  MaxFailures = 2
  MaxOutages = 1
  Remotes <- MCRemotes
  Nothing = Nothing
  ToolRuns = {"error"}
  Judging = {"local", "ollama"}
INVARIANTS
  BreakerConsistent
  SpansTellTheTruth
PROPERTIES
  AnswersEnd
  CircuitRecovers
  FailuresAreRetried
