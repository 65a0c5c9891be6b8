SPECIFICATION Spec
CONSTANTS
  Client = {c1}
  Port = {"hex"}
  NoPort = NoPort
  OutCapacity = 2
  InCapacity = 2
  MaxOut = 1
  MaxIn = 4
  MaxPerRead = 3
CHECK_DEADLOCK FALSE
INVARIANT
  InputStaysOn
