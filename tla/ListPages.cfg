SPECIFICATION ListSpec
CONSTANTS
    RowCount = 2
    MaxActs = 2
    MaxOthers = 1
    MaxFailed = 2
INVARIANTS
    ReadsMissNothing
    
PROPERTIES
    BusyEnds
CHECK_DEADLOCK FALSE
