SPECIFICATION Spec
CONSTANTS
    w1 = w1
    w2 = w2
    w3 = w3
    Workers = {w1, w2, w3}
    NoKey = NoKey
    Jobs <- MCJobs
    MaxFaults = 2
INVARIANTS OneSessionPerKey SuccessMeansStarted ReplayedTellsApart
PROPERTY Converges
CHECK_DEADLOCK FALSE
