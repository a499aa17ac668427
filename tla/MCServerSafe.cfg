SPECIFICATION Spec
CONSTANTS
  c1 = c1
  c2 = c2
  MaxFd = 3
  MaxEvents = 2
  NoFile = NoFile
  Client = {c1, c2}
  Listener = Listener
  MaxConnections = 2
  MaxRequest = 1
  Requests <- MCEach
  ConnectionField <- MCField
  Outcome = {"respond", "silent", "stop"}
  RecvCap = 3
  AnswerLen <- MCLen
  SendRoom = 2
  SndCap = 1
  IdleTimeout = 0
SYMMETRY Symmetry
INVARIANTS
  TypeOK
  CallbacksLive
  DescriptorsOwned
  CountsAgree
PROPERTY NoWrongfulClose
CHECK_DEADLOCK FALSE
