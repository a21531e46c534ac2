SPECIFICATION Spec
CONSTANTS
  j1 = j1
  j2 = j2
  w1 = w1
  w2 = w2
  Jobs = {j1}
  Items = {1}
  JobOf <- OneBatch
  Limit <- LimitTwo
  Workers = {w1}
  MaxProviderRetries = 2
  DispatchLimit = 500
  Outcomes = {"valid", "invalid", "safe", "unknown", "unknown_answered", "never", "never_answered", "url_rejected"}
  MaxRounds = 2
INVARIANT OneCorrectionPerRound
INVARIANT KindMatchesHistory
INVARIANT AnswersAreAudited
INVARIANT CallBudget
