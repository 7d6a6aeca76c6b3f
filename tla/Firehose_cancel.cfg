SPECIFICATION Spec
CONSTANTS
  Subs = {s1}
  NoCursor = NoCursor
  Capacity = 2
  Batch = 2
  RetainCount = 0
  RetainByAge = TRUE
  MaxSeq = 4
  MaxCancels = 2
  MaxRestarts = 1
INVARIANT DurableFrontier
INVARIANT ResumeAccepted
INVARIANT NoDuplicate
INVARIANT SentInOrder
PROPERTY NoBroadcastSkipped
PROPERTY ImplementsFeed
