SPECIFICATION FairSpec
CONSTANTS
    MaxPublished = 5
    MaxFaults = 3
    Cap = 2
    Live = TRUE
    Oversize = {5}
INVARIANTS IndInv NoGap NoSilentFailure ErrsReadyWhenEventsClose
PROPERTIES CancelReleases LogSpec
CHECK_DEADLOCK FALSE
