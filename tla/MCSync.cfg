SPECIFICATION FairSpec
CONSTANTS
  own = own
  other = other
  Host = {own, other}
  OwnHost = {own}
  Conn = {k1, k2}
  Rival = {r}
  NoConn = NoConn
  Plans <- MCPlans
  Location <- MCLocation
  NoLocation = NoLocation
  Tails = {"t"}
  Mangled = "mangled"
  MaxPool = 1
  MaxRedirects = 3
INVARIANTS
  TypeOK
  SocketsOwned
  NoRevisit
PROPERTIES
  OwnAnswer
  Returns
  Served
CHECK_DEADLOCK FALSE
