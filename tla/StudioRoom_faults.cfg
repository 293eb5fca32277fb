SPECIFICATION Spec
CONSTANTS
  r1 = r1  r2 = r2
  NoRoom = NoRoom  Nothing = Nothing
  Rooms <- MCRooms
  N = 2
  Faults <- AllFaults
  MaxCalls = 2
INVARIANTS CreatedUnseen NoneUnseen FirstDecides
CHECK_DEADLOCK FALSE
