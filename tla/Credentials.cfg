SPECIFICATION Spec
CONSTANTS
    c1 = c1
    c2 = c2
    i1 = i1
    i2 = i2
    i3 = i3
    Clients = {c1, c2}
    Setups <- MCSetups
    Environments <- MCEnvironments
    Names = {"explicit", "default"}
    DefaultPath = "default"
    Inodes = {i1, i2, i3}
    InitialFiles <- MCInitialFiles
    Bodies <- MCBodies
    Origins <- MCOrigins
    MaxChanges = 2
    MaxRedirects = 2
    Missing = Missing
    Link = Link
    Shared = Shared
    NoFile = NoFile
INVARIANTS NeverFallsBack ReadsOnlyPrivate OwnToken StaysHome
PROPERTY NewReturns
CHECK_DEADLOCK FALSE
