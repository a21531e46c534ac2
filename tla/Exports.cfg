SPECIFICATION FairExportSpec
CONSTANTS
  e1 = e1
  p1 = p1
  p2 = p2
  p3 = p3
  Exports = {e1}
  Processes = {p1, p2, p3}
  MaxClaims = 3
  MaxSoftTimeouts = 2
  Faults = {"quota_refused", "message_lost", "lease_overrun"}
INVARIANT ExportTypeOK
INVARIANT CompletedHasWorkbook
PROPERTY SettledOnce
PROPERTY LateProcessDecidesNothing
PROPERTY ExportSettles
CHECK_DEADLOCK FALSE
