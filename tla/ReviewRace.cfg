SPECIFICATION ReviewSpec
CONSTANTS
  t1 = t1
  t2 = t2
  p1 = p1
  Items = {p1}
  Tabs = {t1, t2}
  Keys = {}
  Rubric <- MCRubric
  Blocks <- MCBlocks
  Suggestions = {"suggested"}
  Grades = {"suggested", "reordered", "padded", "rounded", "exponent", "changed",
            "silent", "too high", "unproved"}
  Entered = {"suggested", "changed"}
  Content <- MCContent
  MaxRounds = 1
  MaxRevision = 2
CHECK_DEADLOCK FALSE
INVARIANT ConfirmAnswersWhatWasSent
