SPECIFICATION IdleBackendSpec
CONSTANTS
  p1 = p1
  big = big
  none = none
  Json = FALSE
  Deadline = FALSE
  AppPayload = {p1}
  Payload = {p1}
  Oversize = {}
  Malformed = {}
  NoPayload = none
  Empty = none
  Handshakes <- ProtoHandshake
  PeerFrames <- ClientFrames
  KeepAlive = TRUE
  ReqCap = 1
  OutCap = 1
  MaxSends = 2
  MaxFrames = 5
  MaxStreams = 1
  MaxResp = 0
PROPERTY
  CancelReachesServer
