SPECIFICATION MCSpec
CONSTANTS
  Completions = {p1, p2}
  Nobody = Nobody
  MaxKeys = 2
  MaxOps = 3
  Commands = {p1, p2}
  Hosts = {s, d, e}
  Origin = s
  NoHost = NoHost
  MaxMoves = 2
SYMMETRY Symmetry
CONSTRAINT Followed
INVARIANTS TypesOK DocumentKeyHeld CommitsVerify SomeHostServes CutoverInOrder
CHECK_DEADLOCK FALSE
