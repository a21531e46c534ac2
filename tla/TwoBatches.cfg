SPECIFICATION Spec
CONSTANTS
  j1 = j1
  j2 = j2
  w1 = w1
  w2 = w2
  Jobs = {j1, j2}
  Items = {1, 2}
  JobOf <- TwoBatches
  Limit <- LimitOne
  Workers = {w1, w2}
  MaxProviderRetries = 1
  DispatchLimit = 500
  Outcomes = {"valid", "safe"}
  MaxRounds = 1
SYMMETRY WorkerSymmetry
INVARIANT ConcurrencyLimit
PROPERTY CancelledBatchStaysQuiet
