SPECIFICATION Spec
CONSTANTS
  Offsets <- FiveOffsets
  Kinds <- FiveKinds
  Cycle = 3
  Gap = 4
  Interval = 5
  Second = 2
  Tolerance = 1
  Cap = 7
  Life = 5
  Slack = 1
  Ahead = 1
  Lag = 1
  Horizon = 20
  Faults = {"late", "packet"}
PROPERTIES
  FeedSpec
  RestartNoticed
  SignatureCurrent
  CutOnlyUnsigned
\* The clock stops at its horizon, and a session that was cut is not used again.
CHECK_DEADLOCK FALSE
