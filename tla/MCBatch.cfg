\* One backend: windows, their fallbacks, and clients that leave.
SPECIFICATION Spec
CONSTANTS
    Backends = {b1}
    Conns = {c1, c2, c3}
    None = None
    Window = 2
    MaxBatch = 4
    MaxBatches = 2
SYMMETRY Symmetry
INVARIANT TypeOK
INVARIANT AnswersInOrder
INVARIANT LeaseReusable
INVARIANT BytesRecordedOnce
INVARIANT AnswersMatch
INVARIANT PooledClean
INVARIANT WindowExact
