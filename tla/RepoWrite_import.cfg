CONSTANTS
  Writers = {w1}
  Importers = {i1}
  Activators = {a1}
  Keys = {k1}
  NoOne = NoOne
  NoCount = NoCount
  Moderation = FALSE
  MaxRev = 3
  MaxLosses = 0
SPECIFICATION Spec
SYMMETRY Symmetry
INVARIANTS CountWitness
PROPERTIES NoLostUpdate
