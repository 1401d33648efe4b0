CONSTANTS
  r1 = r1
  r2 = r2
  noReq = noReq
  NoReq <- noReq
  Reqs <- TwoReqs
  BodyLen = 2
  RespLen = 2
  Depth = 1
  MaxStreams = 1
  WireCap = 2
  Limit = 1
  Slow <- NoSlow
  Beats <- NoSide
  Faults <- EveryFault
SPECIFICATION Spec
INVARIANT TypeOK
INVARIANT UploadIntact
INVARIANT PutHasReader
PROPERTY ExchangeSpec
CHECK_DEADLOCK FALSE
