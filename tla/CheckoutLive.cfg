\* Nothing fails: what must eventually happen.
CONSTANTS
    LineCount = 2
    External <- Timeouts
    Declines = {FALSE}
    Matches = {"same"}
    Cancels = {"first"}
    DeskOps = {}
    MaxFailures = 0
SPECIFICATION FairSpec
PROPERTIES
    LateCaptureIsRefunded
    EveryOrderLeavesCheckout
    StockIsSoldOrReleased
CHECK_DEADLOCK FALSE
