SPECIFICATION FairSpec
CONSTANTS
  Subs = {s1}
  NoCursor = NoCursor
  Capacity = 2
  Batch = 2
  RetainCount = 1
  RetainByAge = TRUE
  MaxSeq = 4
  MaxCancels = 0
  MaxRestarts = 1
INVARIANT TypeOK
INVARIANT RetainedDense
INVARIANT ReplayNeverFails
PROPERTY NoGap
PROPERTY NoReuse
PROPERTY EventuallyDelivered
