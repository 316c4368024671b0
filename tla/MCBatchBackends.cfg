\* Two backends: sequential execution, with a lease that changes hands.
SPECIFICATION Spec
CONSTANTS
    Backends = {b1, b2}
    Conns = {c1, c2, c3}
    None = None
    Window = 2
    MaxBatch = 2
    MaxBatches = 2
INVARIANT PooledClean
INVARIANT LeaseReusable
PROPERTY BatchTerminates
