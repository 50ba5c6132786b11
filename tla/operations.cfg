CONSTANTS
    Users = {"a", "b"}
    Web = {one, two}
    SessionIds = {1, 2, 3}
    KeyIds = {1, 2}
    RolesUsed = {"viewer", "admin"}
    MaxPw = 1
    MaxOff = 1
    MaxWeb = 2
    Typists = {one, two}
    Names = {"a"}
    Addresses = {"x", "y"}
    PerIP = 2
    PerUser = 2
    LockoutFailures = 3
    MaxFailures = 4
    Editors = {"a", "b"}
    Conns = {c1, c2}
    Handlers = {one, two}
    MaxDocuments = 1
    MaxFiles = 2
    MaxEdits = 2
    Nodes = {one, two}
    Newest = 3
    Outside = {2}
    MaxStarts = 2
    Procs = {"p1", "p2"}
    Keys = {"k1", "k2"}
    Databases <- Usual
    Replicas = {"r1", "r2"}
    Stores = {one, two, three}
    Janitors = {one, two}
    ApiKeys = {"a"}
    Sessions = {"s"}
    LogDays = 1
    KeyDays = 1
    BatchSize = 1
    Pooled = TRUE
    MaxDay = 3
    MaxLogs = 2
SPECIFICATION OperationsSpec
SYMMETRY OperationsSymmetry
CHECK_DEADLOCK FALSE
INVARIANTS
    AccountsInv
    FoundedOnce
    StaleCredentialsExplained
    LoginInv
    CatalogInv
    QuotaOvershootBounded
    StartsTogether
    KeysAgree
    IndexesSound
PROPERTIES
    RevokedStaysRevoked
    OnlyIdleRowsGo
