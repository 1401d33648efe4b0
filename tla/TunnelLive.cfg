CONSTANTS
  r1 = r1
  r2 = r2
  noReq = noReq
  NoReq <- noReq
  Reqs <- OneReq
  BodyLen = 1
  RespLen = 1
  Depth = 1
  MaxStreams = 2
  WireCap = 2
  Limit = 2
  Slow <- NoSlow
  Beats <- RelayBeats
  Faults <- Breaks
SPECIFICATION FairSpec
INVARIANT SlotsReleased
 
PROPERTY LossNoticed
PROPERTY StuckLoopGivenUp
CHECK_DEADLOCK FALSE
