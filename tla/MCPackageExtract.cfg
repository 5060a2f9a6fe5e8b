SPECIFICATION Spec
CONSTANTS
    Names <- MCNames
    Sizes = {1, 2}
    MaxExtracted = 3
    MaxEntries = 3
INVARIANTS
    Confined
    WithinBudget
    Faithful
    OnlyTheExpectedShape
CHECK_DEADLOCK FALSE
