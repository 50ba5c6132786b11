CONSTANTS
    Procs = {"p1", "p2"}
    Keys = {"k1", "k2"}
    Databases <- AnyDatabase
SPECIFICATION SecretsSpec
CHECK_DEADLOCK FALSE
PROPERTY MismatchIsReported
