\* One worker thread: calls run through.
CONSTANTS
  Conns = {c1, c2, c3, c4, c5, c6, c7}
  Original = 4
  SingleThread = TRUE
SPECIFICATION Spec
INVARIANTS TypeOK CooldownsCounted HalfKept RestoredWhenQuiet CooledPlacesKept
SYMMETRY Symmetry
