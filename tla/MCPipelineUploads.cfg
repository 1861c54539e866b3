SPECIFICATION Spec
CONSTANTS
  u1 = u1
  Users = {u1}
  Uploads = {f1, f2, f3}
  Links = {l1}
  Workers = {}
  Nobody = Nobody
  Budget = 3
  MaxBytes = 2
  MaxScanAttempts = 1
  MaxDeleteFailures = 1
  SuspendBeforeMark = TRUE
  Owner <- OneOwner
  Quota <- EqualQuota
SYMMETRY Uploaders
INVARIANTS
  UsageMatchesRows
  QuotaRespected
CHECK_DEADLOCK FALSE
