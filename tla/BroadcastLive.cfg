CONSTANTS
    t1 = t1
    t2 = t2
    t3 = t3
    h1 = h1
    h2 = h2
    Threads = {t1, t2, t3}
    Handles = {h1}
    None = None
    MaxWrites = 2
    SmallReads = TRUE
    Overlap = FALSE
SPECIFICATION FairSpec
CHECK_DEADLOCK FALSE
PROPERTIES CloseWakes WriteReturns
