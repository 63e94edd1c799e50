SPECIFICATION Spec
CONSTANTS
    MaxPublished = 4
    MaxFaults = 3
    Cap = 1
    Oversize = {4}
INVARIANTS InOrder NoSilentLoss
PROPERTIES CancelReleases
CHECK_DEADLOCK FALSE
