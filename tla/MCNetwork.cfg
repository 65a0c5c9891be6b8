SPECIFICATION Spec
CONSTANTS
  Client = {c1, c2}
  Port = {"hex", "sbs"}
  NoPort = NoPort
  OutCapacity = 2
  InCapacity = 1
  MaxOut = 3
  MaxIn = 2
  MaxPerRead = 1
SYMMETRY Clients
CHECK_DEADLOCK FALSE
INVARIANTS
  CompleteUnlessOverrun
  NothingTwice
  FramesAreFed
