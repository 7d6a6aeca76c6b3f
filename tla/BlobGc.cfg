SPECIFICATION FairSpec
CONSTANTS
  Accounts = {a1, a2}
  NoAccount = NoAccount
  Pages = 1
  MaxFaults = 1
INVARIANTS TypeOK ReferencedSurvives
PROPERTIES GraceKept Collected
