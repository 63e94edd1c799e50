SPECIFICATION FairSpec
CONSTANTS
    Calls = {c1, c2}
    Kinds = {"read", "write", "reply", "wait"}
    MaxIdle = 1
    MaxCrashes = 2
INVARIANTS AtMostOnce UnreachableMeansUnsent
PROPERTY Returns
CHECK_DEADLOCK FALSE
