CONSTANTS
    t1 = t1
    t2 = t2
    t3 = t3
    h1 = h1
    h2 = h2
    Threads = {t1, t2, t3}
    Handles = {h1}
    None = None
    MaxWrites = 1
    SmallReads = FALSE
    Overlap = TRUE
SPECIFICATION FairSpec
CHECK_DEADLOCK FALSE
PROPERTIES CloseWakes
