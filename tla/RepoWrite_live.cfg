CONSTANTS
  Writers = {w1, w2}
  Importers = {}
  Activators = {a1}
  Keys = {k1}
  NoOne = NoOne
  NoCount = NoCount
  Moderation = FALSE
  MaxRev = 3
  MaxLosses = 0
SPECIFICATION FairSpec
PROPERTIES WriteServed
