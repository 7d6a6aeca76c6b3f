CONSTANTS
  Writers = {w1, w2}
  Importers = {}
  Activators = {a1}
  Keys = {k1, k2}
  NoOne = NoOne
  NoCount = NoCount
  Moderation = TRUE
  MaxRev = 3
  MaxLosses = 1
SPECIFICATION Spec
SYMMETRY Symmetry
INVARIANTS TypeOK HeadReadable GcExact ActiveIsAnnounced
PROPERTIES NoSilentLoss CommitsWhileAnnounced
