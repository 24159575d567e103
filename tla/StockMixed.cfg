\* Three overlapping calls of any kind on one row, int.MaxValue = 3, run by a fair scheduler.
CONSTANTS
    Sku = {s1}
    Call = {c1, c2, c3}
    MaxInt = 3
    MaxRetries = 1
    Opening = {0, 2}
    Units = {1, 2}
    Deltas <- MixedDeltas
    OnHand = {0, 3}
SPECIFICATION FairSpec
INVARIANTS
    TypeOK
    CasNeverTripsCheck
    WrittenOnceIffOk
    ConflictMeansContention
PROPERTIES
    EveryCallAnswered
    DriftOnlyFromClampOrStaleSet
    EventsDescribeTheRow
    RefinesCounter
CHECK_DEADLOCK FALSE
