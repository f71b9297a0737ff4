SPECIFICATION FairSpec
CONSTANTS
  Ids = {a, b}
  Invalid = Invalid
  Garbled = Garbled
  TopicSize = 4
  MaxMessages = 3
  MaxFailures = 2
  AssignedInPoll = FALSE
INVARIANTS
  NothingIsSkipped
  DeliveredOnce
PROPERTIES
  EverythingIsConsumed
