SPECIFICATION Spec
CONSTANTS
  r1 = r1  r2 = r2  r3 = r3  o1 = o1  o2 = o2
  Requests = {r1, r2}
  Outputs = {o1, o2}
  NoRequest = NoRequest
  Target <- Wanted
  MaxPolls = 3
  Grace = 1
  Faults = {"unavailable", "button", "tab", "output", "action", "fields", "typing", "save", "disabled", "retained", "user", "cancel", "nested"}
INVARIANTS
  Armed
  NothingLeftOpen
PROPERTIES
  UsersDialogKept
  UpdatesSpec
