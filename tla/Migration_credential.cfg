SPECIFICATION MCSpec
CONSTANTS
  Completions = {p1, p2}
  Nobody = Nobody
  MaxKeys = 2
  MaxOps = 3
  Commands = {p1, p2}
  Hosts = {s, d}
  Origin = s
  NoHost = NoHost
  MaxMoves = 2
SYMMETRY Symmetry
PROPERTY CredentialBeforeCutover
CHECK_DEADLOCK FALSE
