CONSTANTS
    d1 = d1
    d2 = d2
    p1 = p1
    p2 = p2
    w1 = w1
    w2 = w2
    Workers = {w1}
    Crews <- Teams
    Procs = {p1}
    Docs = {d1}
    MaxAttempts = 2
    MaxVersion = 1
    MaxRequests = 3
    BulkReprocess = TRUE
    DbFaults = FALSE
    NoOwner = NoOwner
    NoDoc = NoDoc
SPECIFICATION Spec
SYMMETRY Sym
INVARIANT PendingIsClaimable
CHECK_DEADLOCK FALSE
