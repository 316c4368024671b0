\* One session, two accounts of one provider beside another provider and a
\* fallback; pool loads hold still while a backend is selected.
CONSTANTS
  b1 = b1  b2 = b2  b3 = b3  b4 = b4
  p1 = p1  p2 = p2  p3 = p3
  Backends = {b1, b2, b3, b4}
  slot <- SharedSlot
  tier <- TwoTiers
  StatMissing = {b1, b2, b4}
  Sessions = {s1}
  NoBackend = NoBackend
  SteadyLoad = TRUE
  MaxBackground = 2
SPECIFICATION Spec
INVARIANTS NoFalse430 TierDiscipline
PROPERTIES BackendErrorMeansFailure LookupSpec
