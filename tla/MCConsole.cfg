SPECIFICATION Spec
CONSTANTS
  k1 = k1
  k2 = k2
  Address = {k1, k2}
  Message <- MCMessage
  None = None
  Window = 2
  MediumInterval = 1
  PosStep = 1
  Bounds <- MCBounds
CHECK_DEADLOCK FALSE
INVARIANT
  BaselineIsShown
PROPERTIES
  ReportCountsLastMinute
  LinesFollowSignals
