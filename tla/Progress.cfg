SPECIFICATION FairSpec
CONSTANTS
  j1 = j1
  j2 = j2
  w1 = w1
  w2 = w2
  Jobs = {j1}
  Items = {1, 2}
  JobOf <- OneBatch
  Limit <- LimitTwo
  Workers = {w1}
  MaxProviderRetries = 1
  DispatchLimit = 500
  Outcomes = {"valid", "safe", "never"}
  MaxRounds = 1
PROPERTY EveryPaperSettles
INVARIANT BatchAgreesWithPapers
PROPERTY ImplementsLifecycle
