SPECIFICATION GateSpec
CONSTANTS
  Keys <- MCKeys
  MaxRequests = 2
  Window = 3
  Second = 2
  MaxTime = 6
  Settings <- MCSettings
  Calls <- MCCalls
  Followed <- MCFollowed
  Blank = Blank
  None = None
  k1 = k1
  k2 = k2
  k3 = k3
  t1 = t1
  t2 = t2
INVARIANTS
  AtMostTwiceTheBudget
  HandledWithinPolicy
PROPERTIES
  RetryAfterIsHonest
  RemainingIsHonest
