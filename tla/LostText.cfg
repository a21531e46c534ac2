SPECIFICATION Spec
CONSTANTS
  Users = {t1, t2}
  Requests = {r1}
  Owner = t1
  Papers = {p1}
  Files <- MCFiles
  Uploads = {u1, u2}
  MaxFileBytes = 4
  MaxPages = 2
  MaxCharacters = 6
  MaxBlocks = 4
  MaxEntries = 3
  MaxUncompressed = 6
  MaxRatio = 2
INVARIANT ReadyHasText
CHECK_DEADLOCK FALSE
