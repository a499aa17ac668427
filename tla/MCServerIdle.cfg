SPECIFICATION FairSpec
CONSTANTS
  c1 = c1
  c2 = c2
  MaxFd = 3
  MaxEvents = 3
  NoFile = NoFile
  Client = {c1, c2}
  Listener = Listener
  MaxConnections = 1
  MaxRequest = 1
  Requests <- MCEach
  ConnectionField <- MCField
  Outcome = {"respond"}
  RecvCap = 3
  AnswerLen <- MCLen
  SendRoom = 2
  SndCap = 1
  IdleTimeout = 0
PROPERTY IdleClosed
CHECK_DEADLOCK FALSE
