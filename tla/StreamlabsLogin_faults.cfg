SPECIFICATION Spec
CONSTANTS
  Profiles = {p1, p2}  NoProfile = NoProfile
  Tokens = {t1, t2}  NoToken = NoToken
  Other = Other
  Logins = {l1, l2}  NoLogin = NoLogin
  MaxPending = 2
SYMMETRY Alike
INVARIANTS
  DeletedStaysDeleted
  AcceptedIsStored
PROPERTIES
  OwnCodeOnly
