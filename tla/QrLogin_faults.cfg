SPECIFICATION FairSpec
CONSTANTS
  N = 2
  Faults <- AllFaults
  MaxStarts = 2
  MaxDialogs = 2
INVARIANTS PollsWhatIsShown ConfirmedByUs
PROPERTIES DeviceKept ConfirmationSeen
\* The dialogs the bound allows are closed at the end.
CHECK_DEADLOCK FALSE
