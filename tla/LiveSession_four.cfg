SPECIFICATION Spec
CONSTANTS
  p1 = p1  p2 = p2  p3 = p3  p4 = p4  a1 = a1  a2 = a2
  Profiles = {p1, p2, p3, p4}
  Outputs = {o1, o2}
  Sessions = {s1, s2}
  NoOutput = NoOutput  NoSession = NoSession  NoAccount = NoAccount
  Unset = Unset  Nobody = Nobody
  Provider <- Mixed
  Account <- SharedAccount
  Signing = {p1, p2}
  Faults = {"find", "create", "update", "sign", "start", "stop", "resume", "partial", "denied", "unverified", "encoder"}
  MaxPending = 0
  MaxRestarts = 0
SYMMETRY SessionsAndOutputs
INVARIANTS
  OutputExclusive
  SessionTracked
  AccountExclusive
  LiveKnowsSession
  OneTransaction
PROPERTIES
  KeptOrEnding
  VerifiedLive
