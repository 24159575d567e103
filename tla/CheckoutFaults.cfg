\* A cancel at any time, a payment that may be declined, the steps up to delivery, and one failure
\* or any number of desk requests.
CONSTANTS
    LineCount = 2
    External <- Fulfilment
    Declines = {TRUE, FALSE}
    Matches = {"same", "no"}
    Cancels = {"first"}
    DeskOps = {"ship", "deliver", "recount"}
    MaxFailures = 1
SPECIFICATION Spec
INVARIANTS
    TypeOK
    ConfirmedIsPaidAndHeld
    RefundOnlyLate
    RowAheadOnlyByDesk
ACTION_CONSTRAINT DeskAlone
CHECK_DEADLOCK FALSE
