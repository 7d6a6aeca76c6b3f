SPECIFICATION MCSpec
CONSTANTS
  Requests = {p1, p2}
  TokenCalls = {p1, p2}
  Wallets = {p1, p2}
  Names = {n1}
  Main = Main
  MaxTokens = 3
  Keys = {k1, k2}
  NoKey = NoKey
  MaxCodes = 1
  MaxGrants = 3
  Asks = {q1, q2}
  MaxTransfers = 3
SYMMETRY Symmetry
INVARIANT RevokedStaysRevoked
CHECK_DEADLOCK FALSE
