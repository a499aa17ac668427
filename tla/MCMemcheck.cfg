SPECIFICATION Spec
CONSTANTS
  Ptr = {p1, p2, p3}
  Size = {0, 1, 2}
  MaxAllocs = 2
  MaxTotal = 5
INVARIANTS
  CountersAgree
  LeaksExact
