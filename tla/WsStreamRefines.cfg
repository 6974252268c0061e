SPECIFICATION StreamSpec
CONSTANTS
  p1 = p1
  big = big
  none = none
  Json = TRUE
  Deadline = TRUE
  AppPayload = {p1}
  Payload = {p1}
  Oversize = {}
  Malformed = {}
  NoPayload = none
  Empty = none
  Handshakes <- JsonHandshake
  PeerFrames <- ClientFrames
  KeepAlive = FALSE
  ReqCap = 1
  OutCap = 1
  MaxSends = 1
  MaxFrames = 4
  MaxStreams = 1
  MaxResp = 1
PROPERTY
  ImplementsRpcStream
