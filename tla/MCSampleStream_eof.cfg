SPECIFICATION SetupFairSpec
CONSTANTS
  Devices <- RtlTcpOnly
  Chunk = 8
  Capacity = 2
  ReadSizes <- MCReadSizes
  Pair = 2
  Overlap = 3
  Guard = 2
  StreamLength = 9
  MaxErrors = 2
  HeaderLen = 2
  Failed = Failed
  MaxRetries = 1
  Gains = {300}
  DefaultGain = 496
  NoGain = NoGain
CHECK_DEADLOCK FALSE
PROPERTY
  EofEndsProgram
