SPECIFICATION FairSpec
CONSTANTS
  r1 = r1
  r2 = r2
  Requests = {r1, r2}
  Keys = {"global", "account"}
  KeysOf <- OneAccount
  Max <- Limits
  Ttl = 8
  Renew = 3
  Late = 1
  MaxAnswer = 5
  Prompt = 0
  MaxRepeats = 1
  MaxLosses = 1
INVARIANTS
  WithinLimit
  StoppedForAReason
PROPERTIES
  SlotsComeBack
CHECK_DEADLOCK FALSE
