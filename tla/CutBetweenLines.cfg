SPECIFICATION Spec
CONSTANTS
    MaxRows = 10
    RowCounts = {0, 1, 10}
    Powers = {10}
    Lookback = 3
    MaxFiles = 4
CHECK_DEADLOCK FALSE
PROPERTIES
    AppliedAsAWhole
