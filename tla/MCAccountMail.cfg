SPECIFICATION Spec
CONSTANTS
  SessionIds = {s1, s2}
  DeviceIds = {d1}
  NoDevice = NoDevice
  MaxEpoch = 1
  MaxEvents = 4
  Addresses = {a1, a2, a3}
  Nobody = Nobody
  GoogleAddress = a1
  MaxGuesses = 2
  MaxDeliveries = 2
  Tokens = {t1, t2, t3}
  OthersHave = {}
  FirstAddress = a1
  FirstSession = s1
SYMMETRY Alike
INVARIANTS
  GuessesBounded
  SessionsProveTheAddress
  DiscoveryEndsWithTheAddress
PROPERTIES
  LastRequestWins
CHECK_DEADLOCK FALSE
