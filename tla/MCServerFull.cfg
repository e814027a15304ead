CONSTANTS
  Conn = {a, b}
  NoConn = none
  Pipelining = {}
  Depth = 1
  MaxClients = 1
  HeaderLen = 2
  PacketMax = 3
  ReadMax = 2
  Request <- MCRequest
SPECIFICATION ProgramSpec
PROPERTY ConnectionsAreAccepted
CHECK_DEADLOCK FALSE
