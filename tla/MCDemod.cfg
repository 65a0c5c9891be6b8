SPECIFICATION Spec
CONSTANTS
  Transmissions <- MCTransmissions
  Buffers <- MCBuffers
  BufferOf <- MCBufferOf
CHECK_DEADLOCK FALSE
INVARIANTS
  TypeOK
  RepairsAreRight
  GapsAreSingle
  CleanReadWins
  OncePerPass
  OnlySendersAreKnown
PROPERTY
  BufferProgresses
