\* Is a connection clean when a client leaves in the middle of a window?
SPECIFICATION Spec
CONSTANTS
    Backends = {b1}
    Conns = {c1, c2}
    None = None
    Window = 2
    MaxBatch = 2
    MaxBatches = 1
SYMMETRY Symmetry
INVARIANT PooledCleanAlways
