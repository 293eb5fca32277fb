SPECIFICATION Spec
CONSTANTS
  j1 = j1  j2 = j2  j3 = j3
  Devices = {d1}  NoDevice = NoDevice
  Jars = {j1, j2}  NoJar = NoJar  Garbled = Garbled
  Size <- Entries123
  MaxChunks = 2
  Nothing = Nothing
  Faults = {}
  MaxRefused = 0
  Profiles = {p1}
  MaxRequests = 1
INVARIANTS
  DeletedForGood
\* The account is gone with its last profile.
CHECK_DEADLOCK FALSE
