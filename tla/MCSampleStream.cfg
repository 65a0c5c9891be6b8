SPECIFICATION SetupFairSpec
CONSTANTS
  Devices <- AllDevices
  Chunk = 8
  Capacity = 1
  ReadSizes <- MCReadSizes
  Pair = 2
  Overlap = 3
  Guard = 2
  StreamLength = 20
  MaxErrors = 2
  HeaderLen = 2
  Failed = Failed
  MaxRetries = 3
  Gains = {300}
  DefaultGain = 496
  NoGain = NoGain
CHECK_DEADLOCK FALSE
INVARIANTS
  TypeOK
  EveryStartScanned
  PairsAligned
  SettingsComeFirst
PROPERTIES
  ImplementsFeed
  FileEndsProgram
  ChunksProcessed
