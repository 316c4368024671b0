\* Several worker threads: is the pool whole again after its cooldowns?
CONSTANTS
  Conns = {c1, c2, c3, c4}
  Original = 4
  SingleThread = FALSE
SPECIFICATION Spec
INVARIANTS RestoredWhenQuiet
SYMMETRY Symmetry
