\* A customer cancels a paid order, nothing fails.
CONSTANTS
    LineCount = 1
    External = {}
    Declines = {FALSE}
    Matches = {"same"}
    Cancels = {"first"}
    DeskOps = {}
    MaxFailures = 0
SPECIFICATION FairSpec
PROPERTIES
    CancelledAfterPaymentIsRefunded
CHECK_DEADLOCK FALSE
