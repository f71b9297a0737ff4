SPECIFICATION Spec
CONSTANTS
  w1 = w1
  w2 = w2
  a1 = a1
  b1 = b1
  c1 = c1
  Threads = {a1, b1, c1}
  Workers = {w1, w2}
  WorkerOf <- WorkersAndWriter
  Cli = Cli
  NoThread = NoThread
  Sources = {s1}
  CsvSources = {s1}
  MaxChunks = 2
  MaxWrites = 3
  MaxMarkers = 3
  MaxDamage = 1
  MaxCrashes = 1
INVARIANTS
  ValidCacheIsRemote
  SuccessReplacesSources
PROPERTIES
  PublishedAgentIsRemote
