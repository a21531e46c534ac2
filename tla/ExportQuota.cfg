SPECIFICATION FairExportSpec
CONSTANTS
  e1 = e1
  p1 = p1
  p2 = p2
  p3 = p3
  Exports = {e1}
  Processes = {p1}
  MaxClaims = 3
  MaxSoftTimeouts = 2
  Faults = {"quota_refused"}
PROPERTY ExportAlwaysSettles
CHECK_DEADLOCK FALSE
