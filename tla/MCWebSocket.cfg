SPECIFICATION FairSpec
CONSTANTS
  Client = Client
  Server = Server
  Fragmenting = {Server}
  Messages <- MCMessages
  Lengths = {2, 3}
  Controls <- MCControls
  HeaderLen = 1
  RecvSize = 3
  MaxFragment = 3
INVARIANTS
  TypeOK
  MessagesInOrder
  ClosedOnce
PROPERTIES
  AbnormalForCause
  CloseAnswered
CHECK_DEADLOCK FALSE
