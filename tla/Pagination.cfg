SPECIFICATION FairSpec
CONSTANTS
    Rows = {1, 2, 3}
    Keys = {1, 2, 3}
    Lists <- ListsInstance
    PageSize = 1
    MaxChanges = 1
CHECK_DEADLOCK FALSE
INVARIANTS EachRowOnce
PROPERTIES WalkEnds
