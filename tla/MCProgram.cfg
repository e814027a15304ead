CONSTANTS
  Conn = {a, b}
  NoConn = none
  Pipelining = {b}
  Depth = 2
  MaxClients = 1
  HeaderLen = 2
  PacketMax = 4
  ReadMax = 4
  Request <- MCRequest
SPECIFICATION ProgramSpec
INVARIANTS TypeOK TableIsExact BufferFits FramingInSync NothingOutlivesServer
PROPERTIES RequestsEnd SignalEndsProgram
CHECK_DEADLOCK FALSE
