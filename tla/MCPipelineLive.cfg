SPECIFICATION FairSpec
CONSTANTS
  u1 = u1
  Users = {u1}
  Uploads = {f1}
  Links = {}
  Workers = {w1}
  Nobody = Nobody
  Budget = 1
  MaxBytes = 1
  MaxScanAttempts = 2
  MaxDeleteFailures = 2
  SuspendBeforeMark = FALSE
  Owner <- OneOwner
  Quota <- EqualQuota
INVARIANTS
  ScanningHasPendingJob
PROPERTIES
  UploadsEnd
  ScansSettle
  TombstonesSettle
CHECK_DEADLOCK FALSE
