SPECIFICATION Spec
CONSTANTS
    Nodes = {n1, n2, n3}
    Fresh = {n3}
    Top = top
    New = new
    Demo = demo
    MaxCalls = 2
    MaxOther = 1
    MaxEdits = 1
INVARIANTS
    CycleNeedsCrossedMoves
    DepthFollowsParent
    CopyHasTheShape
SYMMETRY Symmetry
CHECK_DEADLOCK FALSE
