SPECIFICATION Spec
CONSTANTS
  j1 = j1  j2 = j2  j3 = j3
  Devices = {d1, d2}  NoDevice = NoDevice
  Jars = {j1, j2, j3}  NoJar = NoJar  Garbled = Garbled
  Size <- Entries123
  MaxChunks = 2
  Nothing = Nothing
  Faults = {"write", "remove", "crash"}
  MaxRefused = 1
  Profiles = {p1, p2}
  MaxRequests = 1
INVARIANTS
  SavedCleanly
PROPERTIES
  
  SharedLoginKept
  SavesInOneStep
\* The account is gone with its last profile.
CHECK_DEADLOCK FALSE
