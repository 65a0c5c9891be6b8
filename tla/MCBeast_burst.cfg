SPECIFICATION ClientsSpec
CONSTANTS
  ESC = 26
  PayloadLen <- MCPayloadLen
  HeaderLen = 4
  NoFrame = NoFrame
  Readers <- LoopOnly
  Sendable <- ShortSendable
  WholeFrames <- MCWholeFrames
  Cuts <- MCCuts
  BufSize = 17
  MaxFrames <- MCMaxFrames
  MaxSent <- ShortMaxSent
  Recording <- MCRecording
  Varying = {7}
  Positioned = {50}
  Windows = 2
  Count = 2
  MaxTurns = 3
CHECK_DEADLOCK FALSE
INVARIANT
  AllFramesArrive
