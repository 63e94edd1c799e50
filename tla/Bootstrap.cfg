SPECIFICATION Spec
CONSTANTS
    Hooks = {h1}
    MaxSessions = 3
    MaxFaults = 2
    MaxLate = 1
INVARIANTS OneIdentity OneWorkstream
PROPERTY Rejoins
