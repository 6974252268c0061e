SPECIFICATION Spec
CONSTANTS
  p1 = p1
  big = big
  bad = bad
  none = none
  Payload = {p1, big, bad}
  Oversize = {big}
  Malformed = {bad}
  Empty = none
  Handshakes <- BinHandshake
  PeerFrames <- BinFrames
  KeepAlive = FALSE
  ReqCap = 1
  OutCap = 1
  MaxFrames = 1
  MaxStreams = 1
  MaxResp = 1
INVARIANT
  OkMeansBackendOk
