SPECIFICATION Spec
CONSTANTS
  TRACK_STALE = 1
  TRACK_EXPIRE = 2
  TRACK_EXPIRE_JAERO = 4
  NoFrame = NoFrame
  NoPosition = NoPosition
  NoAircraft = NoAircraft
  Frame <- MCFrame
  Position <- MCPosition
  InRange <- MCInRange
  RelativeFix <- MCRelativeFix
  GlobalFix <- MCGlobalFix
  ReceiverKnown = TRUE
  k0 = k0
  k1 = k1
  k2 = k2
  Address = {k0, k1}
  BadAddress = {k0}
  Message <- ParserMessages
  Reader = {}
  MaxBatch = 1
  MaxLag = 1
  MaxClock = 2
  MaxMessages = 3
INVARIANT
  FreshPositionReported
