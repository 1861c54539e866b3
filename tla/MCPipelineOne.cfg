SPECIFICATION Spec
CONSTANTS
  u1 = u1
  Users = {u1}
  Uploads = {f1}
  Links = {}
  Workers = {w1, w2}
  Nobody = Nobody
  Budget = 1
  MaxBytes = 1
  MaxScanAttempts = 2
  MaxDeleteFailures = 2
  SuspendBeforeMark = TRUE
  Owner <- OneOwner
  Quota <- EqualQuota
SYMMETRY Runners
INVARIANTS
  UsageMatchesRows
  ObjectsAccountedFor
  RowsHaveTheirObject
  ServedIsClean
  PurgeListStaysValid
PROPERTIES
  ImplementsFileLife
CHECK_DEADLOCK FALSE
