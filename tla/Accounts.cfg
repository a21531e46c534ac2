SPECIFICATION Spec
CONSTANTS
  Users = {t1, t2}
  Requests = {r1, r2, r3}
  Owner = t1
  Papers = {}
  Files <- MCFiles
  Uploads = {}
  MaxFileBytes = 4
  MaxPages = 2
  MaxCharacters = 6
  MaxBlocks = 4
  MaxEntries = 3
  MaxUncompressed = 6
  MaxRatio = 2
INVARIANT OpenAccountsCanSignIn
PROPERTY AdminForGood
CHECK_DEADLOCK FALSE
