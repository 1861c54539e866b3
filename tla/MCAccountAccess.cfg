SPECIFICATION Spec
CONSTANTS
  SessionIds = {s1, s2, s3}
  DeviceIds = {d1, d2}
  NoDevice = NoDevice
  MaxEpoch = 1
  MaxEvents = 2
  Browsers = {b1, b2}
  SignIns = {f1}
  Nonces = {n1}
  Challenges = {c1}
  None = None
  MaxCounter = 1
  MaxStep = 1
  RecoveryCodes = 1
  FirstSession = s1
  FirstDevice = d1
  FirstBrowser = b1
SYMMETRY SpareSessions
INVARIANTS
  OneSessionPerProof
  CodeNeedsTrustedBrowser
PROPERTIES
  RemovedFactorsOpenNothing
  OnlyLiveSessionsAct
CHECK_DEADLOCK FALSE
