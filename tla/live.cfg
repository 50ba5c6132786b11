CONSTANTS
    Docs = {d1, d2}
    Conns = {c1}
    Width <- OneWidth
    Langs = {"simple", "en", "tr"}
    Pieces = {1}
    MaxChunk = 2
    Limit = 1
    Replicas = {r1, r2}
    Searches = {}
    NoDoc = NoDoc
    NoConn = NoConn
SPECIFICATION LiveSpec
CHECK_DEADLOCK FALSE
INVARIANTS
    PendingIsClaimable
    CursorCovers
PROPERTIES
    Settles
    RebuildFinishes
