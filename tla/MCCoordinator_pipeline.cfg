CONSTANTS
  c1 = c1
  c2 = c2
  c3 = c3
  NoClient = NoClient
  Clients <- TwoClients
  Stalling <- NoneStall
  Operations <- Framing
  MaxSessions = 1
  FramesPerPass = 1
  ReceiveCells = 3
  SocketCells = 2
  Window = 2
  MaxGeneration = 1
  IdleTimeout = 1
  DrainWindow = 1
SPECIFICATION Spec
INVARIANTS
  PipelineIntact
  BuffersBounded
CHECK_DEADLOCK FALSE
