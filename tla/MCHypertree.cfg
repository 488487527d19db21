SPECIFICATION Spec
CONSTANTS
    Cap = 10
    Ids = {1, 2, 3, 4, 5, 6, 7, 8, 9, 10, 11}
    Histories <- MCHistories
    MaxOps = 3
INVARIANTS TreesSound OwnBookLands
PROPERTIES ImplementsIndex
CHECK_DEADLOCK FALSE
