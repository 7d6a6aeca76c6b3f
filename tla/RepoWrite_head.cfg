CONSTANTS
  Writers = {w1}
  Importers = {i1}
  Activators = {}
  Keys = {k1}
  NoOne = NoOne
  NoCount = NoCount
  Moderation = FALSE
  MaxRev = 4
  MaxLosses = 0
SPECIFICATION Spec
INVARIANTS HeadReadable
