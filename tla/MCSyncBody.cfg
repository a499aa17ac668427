SPECIFICATION Spec
CONSTANTS
  own = own
  other = other
  Host = {own, other}
  OwnHost = {own}
  Conn = {k1, k2}
  Rival = {r}
  NoConn = NoConn
  Plans <- MCPlans
  Location <- MCLocation
  NoLocation = NoLocation
  Tails = {"t"}
  Mangled = "mangled"
  MaxPool = 1
  MaxRedirects = 3
PROPERTY
  BodyHandled
CHECK_DEADLOCK FALSE
