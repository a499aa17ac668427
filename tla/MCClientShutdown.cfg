SPECIFICATION Spec
CONSTANTS
  r1 = r1
  r2 = r2
  MaxFd = 3
  MaxEvents = 2
  NoFile = NoFile
  Req = {r1, r2}
  App = App
  Host <- MCHost
  Reply <- MCReply
  ReplyField <- MCField
  MaxPool = 1
  ReqLen = 2
  SndCap = 1
  RecvCap = 5
  MayConnectNow = TRUE
INVARIANT ShutdownOwnsWhatItCloses
CHECK_DEADLOCK FALSE
