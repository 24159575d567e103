\* Two replicas with batches of one row; the broker refuses one of the events
\* and the relay has no contract for another; three failures.
CONSTANTS
    Event = {placed, cancelled, failed}
    Stable = {placed}
    Silent = {cancelled}
    Poison = {failed}
    Replica = {r1, r2}
    BatchSize = 1
    MaxRetries = 2
    MaxRows = 2
    MaxFailures = 3
SPECIFICATION FairSpec
INVARIANTS
    TypeOK
    NothingLost
    HandledOncePerRow
    GivenUpAtMostOncePerReplica
PROPERTIES
    EveryRowIsSettled
CHECK_DEADLOCK FALSE
