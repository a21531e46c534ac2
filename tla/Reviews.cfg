SPECIFICATION ReviewSpec
CONSTANTS
  t1 = t1
  t2 = t2
  p1 = p1
  p2 = p2
  Items = {p1, p2}
  Tabs = {t1, t2}
  Keys = {"k"}
  Rubric <- MCRubric
  Blocks <- MCBlocks
  Suggestions = {"suggested"}
  Grades = {"suggested", "reordered", "padded", "rounded", "exponent", "changed",
            "silent", "too high", "unproved"}
  Entered = {"suggested", "changed"}
  Content <- MCContent
  MaxRounds = 2
  MaxRevision = 2
SYMMETRY ReviewSymmetry
CHECK_DEADLOCK FALSE
INVARIANT CompletedMeansConfirmed
INVARIANT ExportedGradesAreFinal
INVARIANT ScoresAreRight
INVARIANT ValidatorsAgree
PROPERTY TriggersAccept
PROPERTY ConfirmedIsFinal
PROPERTY ConfirmedAsRequested
