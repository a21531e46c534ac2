SPECIFICATION DeskSpec
CONSTANTS
  d1 = d1
  d2 = d2
  Desks = {d1, d2}
  Created <- MCCreated
  Patches <- MCPatches
  ModelLists <- MCModelLists
  Completions <- MCCompletions
  Rubrics = {"two", "one", "overlap", "too much", "other total", "twice"}
  Content <- MCContent
  Forms <- MCForms
  MaxConfig = 3
  MaxVersions = 3
SYMMETRY DeskSymmetry
INVARIANT OneRubricInForce
INVARIANT EnabledAsTested
INVARIANT StoredRubricsAreGradable
PROPERTY ConfirmedRubricIsFinal
PROPERTY StaleReadsAreNotWritten
PROPERTY DatabaseAcceptsChanges
