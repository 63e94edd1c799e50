SPECIFICATION Spec
CONSTANTS
    Calls = {c1}
    Kinds = {"request"}
    MaxIdle = 1
    MaxCrashes = 0
INVARIANT RequestWaits
CHECK_DEADLOCK FALSE
