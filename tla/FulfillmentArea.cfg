SPECIFICATION Spec
CONSTANTS
    Groupings = {g1, g2}
    Slots = {s1, s2}
    Grouping0 = g1
    Slot0 = s1
    Items = {x1}
    None = none
    MaxCalls = 2
    MaxEdits = 1
    MaxOther = 1
INVARIANTS
    SettledMeansStored
    FailedLoadNeverWrites
    CopiesSettle
PROPERTIES
    ChangesAreStored
CHECK_DEADLOCK FALSE
