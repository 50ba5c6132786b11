CONSTANTS
    c1 = c1  c2 = c2
    Conns = {c1, c2}
    Requests = {r1}
    Routes <- Fallback
    Threshold = 2
    OpenFor = 1
    MaxRetries = 1
    Tokens = {t1, t2}
    NoToken = NoToken
    Faults = {"panic", "leave", "budget"}
    Healing = {c1}
SPECIFICATION TrafficSpec
PROPERTIES Recovers RequestEnds
