CONSTANTS
  Changers = {w1, w2}
  Binders = {b1, b2}
  NoCaller = NoCaller
  NoSnapshot = NoSnapshot
  MaxGeneration = 2
  MaxRevision = 2
  MaxBrand = 2
  EditsOnDisk = FALSE
SPECIFICATION SceneSpec
INVARIANT ChangesAreReported
CHECK_DEADLOCK FALSE
