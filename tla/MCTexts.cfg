SPECIFICATION Spec
CONSTANTS
  Hex <- MCHex
  ChunkSize = 3
  MaxHeaders = 4
  HeadRoom = 31
  DecodedRoom = 4
  CookieRoom = 11
  MaxPort = 12
  PortDigits = 2
  MaxFile = 11
  Subjects <- MCSubjects
  Pieces <- MCPieces
  Longest <- MCLongest
  Routes <- MCRoutes
INVARIANTS
  RequestReread
  ResponseReread
  UrlDivided
  RangeServed
  
  HeaderReread
CHECK_DEADLOCK FALSE
