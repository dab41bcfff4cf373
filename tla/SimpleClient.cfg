CONSTANTS
    Names <- NameSet
    Args <- MCArgs
    Contents <- MCContents
    Tree0 <- MCTree
    MaxNode = 7
    MaxFid = 4
    MaxCalls = 3
    MaxOther = 1
    MessageData = 2
    None = None
SPECIFICATION Spec
CHECK_DEADLOCK FALSE
INVARIANTS FidsReturned Whole
