SPECIFICATION Spec
CONSTANTS
  p1 = p1
  big = big
  bad = bad
  none = none
  Payload = {p1, big, bad}
  Oversize = {big}
  Malformed = {bad}
  Empty = none
  Handshakes <- AnyHandshake
  PeerFrames <- AnyFrames
  KeepAlive = FALSE
  ReqCap = 2
  OutCap = 1
  MaxFrames = 3
  MaxStreams = 2
  MaxResp = 1
INVARIANTS
  TypeOK
  NoOrphanStream
  StatusNotLost
  RequestsInOrder
  EndOfRequestsIsLast
  ResponseGrammar
  CloseFollowsStatus
  OkMeansComplete
  JsonOpensOnce
