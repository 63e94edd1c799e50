SPECIFICATION Spec
CONSTANTS
    MaxPublished = 4
    MaxFaults = 2
    Cap = 1
    Oversize = {}
INVARIANTS LiveAndContiguous ClosesOnlyOnCancelOrEnd
PROPERTIES SendObserved CancelReleases
CHECK_DEADLOCK FALSE
