CONSTANTS
  c1 = c1
  c2 = c2
  c3 = c3
  NoClient = NoClient
  Clients <- ThreeClients
  Stalling <- NoneStall
  Operations <- WriterReader
  MaxSessions = 2
  FramesPerPass = 1
  ReceiveCells = 2
  SocketCells = 2
  Window = 1
  MaxGeneration = 2
  IdleTimeout = 1
  DrainWindow = 1
SPECIFICATION Spec
INVARIANTS
  SlotsMatchConnections
  FreshReads
CHECK_DEADLOCK FALSE
