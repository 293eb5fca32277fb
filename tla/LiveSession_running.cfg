SPECIFICATION Spec
CONSTANTS
  p1 = p1  p2 = p2  p3 = p3  p4 = p4  a1 = a1  a2 = a2
  Profiles = {p1}
  Outputs = {o1}
  Sessions = {s1}
  NoOutput = NoOutput  NoSession = NoSession  NoAccount = NoAccount
  Unset = Unset  Nobody = Nobody
  Provider <- StudioOnly
  Account <- OneAccount
  Signing = {p1}
  Faults = {}
  MaxPending = 1
  MaxRestarts = 0
PROPERTIES
  EncoderStopped
