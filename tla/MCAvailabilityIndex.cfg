\* Two articles compete for one entry; long enough for several rotations and restarts.
CONSTANTS
  p1 = p1  p2 = p2
  Keys = {k1, k2}
  Providers = {p1}
  Layouts <- OneProvider
  BlockSlots = 1
  TTL = 4
  Skew = 1
  MaxTime = 7
SPECIFICATION Spec
INVARIANTS TypeOK RetentionBound AgesNeverShrink FactsReachable
SYMMETRY Symmetry
