SPECIFICATION FairSpec
CONSTANTS
  p1 = p1
  big = big
  bad = bad
  none = none
  Payload = {p1, big, bad}
  Oversize = {big}
  Malformed = {bad}
  Empty = none
  Handshakes <- BinHandshake
  PeerFrames <- BinFrames
  KeepAlive = TRUE
  ReqCap = 1
  OutCap = 1
  MaxFrames = 3
  MaxStreams = 1
  MaxResp = 0
PROPERTY
  ShutdownCompletes
