SPECIFICATION Spec
CONSTANTS
    o = o
    m = m
    d1 = d1
    d2 = d2
    Agents = {o, m}
    Kind <- MCKind
    Name <- MCName
    Owner = o
    Posters = {o, m}
    Devices = {d1, d2}
    Reader <- MCReader
    Limit = 1
    MaxFaults = 1
    MaxLate = 1
INVARIANTS RegisteredOnce UpdatesKept ReadMeansFetched SendsHonest
PROPERTY CatchesUp
CHECK_DEADLOCK FALSE
