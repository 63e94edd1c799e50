SPECIFICATION Spec
CONSTANTS
    MaxPublished = 4
    MaxFaults = 3
    Oversize = {3}
INVARIANTS WholeExceptLast OneHonestResult
PROPERTIES NoSkip Terminates
CHECK_DEADLOCK FALSE
