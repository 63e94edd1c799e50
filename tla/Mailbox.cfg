SPECIFICATION Spec
CONSTANTS
    h1 = h1
    h2 = h2
    asker = asker
    None = None
    Hosts = {h1, h2}
    Asker = asker
    SelfURN = {h1, asker}
    LeaseSeconds = {0, 2}
    DefaultLease = 1
    MaxLease = 1
    Ids = {1, 2, 3, 4, 5, 6}
    MaxFaults = 2
    MaxLate = 1
INVARIANT LeaseCoversWork
PROPERTIES CustodySpec Settles
CHECK_DEADLOCK FALSE
