CONSTANTS
    d1 = d1
    d2 = d2
    p1 = p1
    p2 = p2
    w1 = w1
    w2 = w2
    Workers = {w1, w2}
    Crews <- Teams
    Procs = {p1, p2}
    Docs = {d1}
    MaxAttempts = 2
    MaxVersion = 2
    MaxRequests = 2
    BulkReprocess = TRUE
    DbFaults = FALSE
    NoOwner = NoOwner
    NoDoc = NoDoc
SPECIFICATION Spec
SYMMETRY Sym
INVARIANT ClaimsSound
INVARIANT ReadyIsFresh
PROPERTIES StaleJobKeepsChunks ImplementsLife
CHECK_DEADLOCK FALSE
