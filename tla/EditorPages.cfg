SPECIFICATION Spec
CONSTANTS
    MaxEdits = 2
    MaxSaves = 2
    MaxFails = 1
    MaxOther = 1
INVARIANTS
    RestSurvives
    TypedIsKept
    SavedIsStored
CHECK_DEADLOCK FALSE
