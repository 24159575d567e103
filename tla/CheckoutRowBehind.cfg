\* No failure, no cancel: only the order of deliveries.
CONSTANTS
    LineCount = 1
    External = {}
    Declines = {FALSE}
    Matches = {"same"}
    Cancels = {}
    DeskOps = {}
    MaxFailures = 0
SPECIFICATION FairSpec
PROPERTIES
    ConfirmedReachesReadModel
CHECK_DEADLOCK FALSE
