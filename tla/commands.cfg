SPECIFICATION OfflineSpec
CONSTANTS
  Default <- MCDefault
  Area = Area
  Number = Number
  Placeholder = Placeholder
  None = None
  Words <- MCWords
  Missing = Missing
  Torn = Torn
  Streams <- MCStreams
  Limits = {1, 5}
  Files <- MCFiles
  Indexes <- MCIndexes
  Sizes <- MCSizes
  Layouts <- MCLayouts
  Dates <- MCDates
  Channels <- MCChannels
  Sentences <- MCSentences
  MaxRows = 1
  MaxCommands = 3
  CaseFiles <- MCCaseFiles
  TopKs = {1, 3}
  Repetitions = {2}
  Warmups = {0, 1}
  Durations = {1, 4}
  MaxMeasured = 1
CHECK_DEADLOCK FALSE
INVARIANTS
  WrittenCsvLoads
  IndexIsTheMergedText
  ExportIsReadable
  NothingPersistedRaw
  ReportsAreHonest
