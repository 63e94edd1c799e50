SPECIFICATION Spec
CONSTANTS
    MaxPublished = 2
    MaxFaults = 0
    Cap = 1
    Oversize = {2}
INVARIANT ClosesOnlyOnCancelOrEnd
CHECK_DEADLOCK FALSE
