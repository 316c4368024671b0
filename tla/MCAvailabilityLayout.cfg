\* Two articles compete for a one-entry block; restarts reorder the providers.
CONSTANTS
  p1 = p1  p2 = p2
  Keys = {k1, k2}
  Providers = {p1, p2}
  Layouts <- Reordered
  BlockSlots = 1
  TTL = 2
  Skew = 0
  MaxTime = 3
SPECIFICATION Spec
INVARIANTS NoInventedFacts
PROPERTIES StoreSpec
SYMMETRY Symmetry
