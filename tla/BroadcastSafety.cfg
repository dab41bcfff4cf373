CONSTANTS
    t1 = t1
    t2 = t2
    t3 = t3
    h1 = h1
    h2 = h2
    Threads = {t1, t2, t3}
    Handles = {h1, h2}
    None = None
    MaxWrites = 3
    SmallReads = FALSE
    Overlap = TRUE
SPECIFICATION Spec
SYMMETRY Symmetry
CHECK_DEADLOCK FALSE
INVARIANTS Delivered Deregistered NoLostWakeup
