SPECIFICATION Spec
CONSTANTS
    Branches = {b1, b2}
    Default = b1
    Retired = old
    None = none
    MaxUnits = 2
    MaxSubmits = 1
    MaxPolls = 1
    MaxSelects = 1
INVARIANTS
    CartSellsOwnBranch
    AnsweredUnitsStayOut
