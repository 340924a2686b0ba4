CONSTANTS
  c1 = c1
  c2 = c2
  c3 = c3
  NoClient = NoClient
  Clients <- TwoClients
  Stalling <- OneStalls
  Operations <- Lookups
  MaxSessions = 2
  FramesPerPass = 1
  ReceiveCells = 2
  SocketCells = 1
  Window = 1
  MaxGeneration = 0
  IdleTimeout = 1
  DrainWindow = 1
SPECIFICATION LiveSpec
PROPERTIES
  Answered
  StalledEnds
  StopCompletes
CHECK_DEADLOCK FALSE
