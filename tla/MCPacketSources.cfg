SPECIFICATION MainSpec
CONSTANTS
  BatchSize = 2
  SocketRoom = 2
  Wrap = 3
  MaxArrivals <- Arrivals
  MaxTotal = 6
  MaxPackets = 3
  MaxDatagrams = 5
  MaxErrors = 1
  Mbufs = {m1, m2, m3}
  NoMbuf = NoMbuf
  RxDesc = 2
  BurstSize = 2
  Endpoints <- MCEndpoints
  Frames <- MCFrames
  OddFrames <- MCOddFrames
  MaxFrames = 4
SYMMETRY MbufSymmetry
CHECK_DEADLOCK FALSE
INVARIANTS
  SourceLosesNothing
  DropsExact
  NotBypassed
  ViewsIntact
  BuffersConserved
  ParsersAgree
  OrderlyStartAndStop
