SPECIFICATION FairSpec
CONSTANTS
  s1 = s1  s2 = s2  s3 = s3  stream = stream  k1 = k1  k2 = k2
  Outputs = {Main, stream}
  Main = Main
  MainObjects = {m1, m2}
  NoObject = NoObject
  Sessions = {s1, s2, s3}
  NoSession = NoSession
  Name <- NameOf
  Key <- KeyOf
  Life = 4
  Due = 2
  Fresh = 3
  Tick = 1
  Timeout = 1
  Faults = {"refused", "worker", "sign", "refresh", "missing", "codec"}
INVARIANTS
  CallbackOwned
  RunningHooked
  InTime
  FailsClosed
PROPERTIES
  Completed
