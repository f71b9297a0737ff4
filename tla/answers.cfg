CONSTANTS
  NumChunks = 3
  Sources = {"r1", "r2"}
  SourceOf <- const_SourceOf
  Metadata <- const_Metadata
  Profiles <- const_Profiles
  Filters <- const_Filters
  TopKs = {1, 2, 3}
  Deployments <- const_Deployments
  Snapshots <- const_Snapshots
  CandidateFactor = 2
  PoolFactor = 1
  MinPage = 1
  TicketLimit = 1
  MaxChanges = 1
SPECIFICATION Spec
INVARIANTS
  FiltersComeBeforeLimits
  BetterChunksComeFirst
  EvidenceIsPermitted
  AnswerMatchesEvidence
CHECK_DEADLOCK FALSE
