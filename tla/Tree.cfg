CONSTANTS
    Threads <- Two
    UserOf <- Users
    Names <- NameSet
    MaxNode = 5
    Scenes <- MCScenes
    None = None
SPECIFICATION Spec
CHECK_DEADLOCK FALSE
INVARIANTS NamesAgree PathShape OpensCounted WstatUndone RemovesItsOwn PanicsKnown
PROPERTY IsDirectory
