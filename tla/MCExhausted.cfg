\* As MCSharedSlot: what a request that found the article nowhere is told.

CONSTANTS
  b1 = b1  b2 = b2  b3 = b3  b4 = b4
  p1 = p1  p2 = p2  p3 = p3
  Backends = {b1, b2, b3, b4}
  slot <- SharedSlot
  tier <- TwoTiers
  StatMissing = {b1, b2, b4}
  Sessions = {s1}
  NoBackend = NoBackend
  SteadyLoad = TRUE
  MaxBackground = 2
SPECIFICATION Spec

PROPERTIES ExhaustedMeans430
