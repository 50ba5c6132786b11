CONSTANTS
    c1 = c1
    c2 = c2
    c3 = c3
    Docs = {d1, d2}
    Conns = {c1, c2, c3}
    Width <- Widths
    Langs = {"simple", "en"}
    Pieces = {1, 2}
    MaxChunk = 3
    Limit = 1
    Replicas = {p1}
    Searches = {s1}
    NoDoc = NoDoc
    NoConn = NoConn
SPECIFICATION Spec
SYMMETRY Sym
CHECK_DEADLOCK FALSE
INVARIANTS
    StoreSound
    AppliedExplained
PROPERTY SearchSound
