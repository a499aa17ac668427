SPECIFICATION Spec
CONSTANTS
  c1 = c1
  c2 = c2
  MaxFd = 3
  MaxEvents = 3
  NoFile = NoFile
  Client = {c1, c2}
  Listener = Listener
  MaxConnections = 1
  MaxRequest = 2
  Requests <- MCUneven
  ConnectionField <- MCField
  Outcome = {"respond"}
  RecvCap = 4
  AnswerLen <- MCLen
  SendRoom = 2
  SndCap = 1
  IdleTimeout = 0
INVARIANT AnswersComplete
CHECK_DEADLOCK FALSE
