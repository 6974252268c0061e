SPECIFICATION FairStreamSpec
CONSTANTS
  p1 = p1
  big = big
  none = none
  Json = FALSE
  Deadline = FALSE
  AppPayload = {p1, big}
  Payload = {p1, big}
  Oversize = {big}
  Malformed = {}
  NoPayload = none
  Empty = none
  Handshakes <- ProtoHandshake
  PeerFrames <- ClientFrames
  KeepAlive = FALSE
  ReqCap = 1
  OutCap = 1
  MaxSends = 1
  MaxFrames = 4
  MaxStreams = 1
  MaxResp = 0
PROPERTIES
  CancelReachesServer
  StatusDelivered
  SocketReleased
