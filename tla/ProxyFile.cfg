CONSTANTS
    t1 = t1
    t2 = t2
    a = a
    b = b
    Threads <- Two
    Names <- NameSet
    MaxObject = 2
    MaxCalls = 5
    MaxOutside = 1
    None = None
SPECIFICATION Spec
SYMMETRY Symmetry
CHECK_DEADLOCK FALSE
INVARIANTS Fresh Recent
