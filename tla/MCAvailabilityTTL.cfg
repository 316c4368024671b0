\* Is a fact forgotten within the configured TTL?
CONSTANTS
  p1 = p1  p2 = p2
  Keys = {k1, k2}
  Providers = {p1}
  Layouts <- OneProvider
  BlockSlots = 2
  TTL = 4
  Skew = 0
  MaxTime = 8
SPECIFICATION Spec
INVARIANTS RetentionTTL
