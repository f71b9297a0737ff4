SPECIFICATION Spec
CONSTANTS
  w1 = w1
  w2 = w2
  a1 = a1
  a2 = a2
  b1 = b1
  c1 = c1
  Threads = {a1, a2, c1}
  Workers = {w1}
  WorkerOf <- WorkerAndCli
  Cli = Cli
  NoThread = NoThread
  Sources = {s1, s2}
  CsvSources = {s1}
  Missing = Missing
  Inodes = {i1, i2}
  NoInode = NoInode
  CoarseClock = FALSE
  MaxWrites = 3
  MaxCrashes = 1
INVARIANTS
  CachedVersionIsCurrent
PROPERTIES
  NoLostUpdate
  NoStalePublication
  ImplementsRegister
SYMMETRY IndexSymmetry
