CONSTANTS
    Conns <- Two
    Fids <- Three
    ConnOf <- Owners
    Frail <- One
    Asked <- Asks
    None = None
SPECIFICATION Spec
CHECK_DEADLOCK FALSE
INVARIANT NothingLeft
PROPERTIES IsOpenLock OpenReturns
