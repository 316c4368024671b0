\* Two sessions, three providers in two tiers, two of them probed with STAT.
CONSTANTS
  b1 = b1  b2 = b2  b3 = b3  b4 = b4
  p1 = p1  p2 = p2  p3 = p3
  Backends = {b1, b2, b3}
  slot <- ThreeSlots
  tier <- ThreeTiers
  StatMissing = {b2, b3}
  Sessions = {s1, s2}
  NoBackend = NoBackend
  SteadyLoad = FALSE
  MaxBackground = 4
SPECIFICATION Spec
INVARIANTS TypeOK NegativeFactsSound NoFalse430 TierDiscipline OneResponse
PROPERTIES AttemptsUseUpBackends
SYMMETRY Symmetry
