SPECIFICATION Spec
CONSTANTS
  j1 = j1
  j2 = j2
  w1 = w1
  w2 = w2
  Jobs = {j1}
  Items = {1}
  JobOf <- OneBatch
  Limit <- LimitOne
  Workers = {w1}
  MaxProviderRetries = 2
  DispatchLimit = 500
  Outcomes = {"valid", "safe"}
  MaxRounds = 1
INVARIANT CancelledBatchDrains
