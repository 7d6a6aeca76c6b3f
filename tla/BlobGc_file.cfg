SPECIFICATION Spec
CONSTANTS
  Accounts = {a1}
  NoAccount = NoAccount
  Pages = 1
  MaxFaults = 0
INVARIANT RowHasFile
CHECK_DEADLOCK FALSE
