CONSTANTS
    Conns <- Two
    Fids <- Three
    ConnOf <- Owners
    Frail = {}
    Asked <- Asks
    None = None
SPECIFICATION Spec
CHECK_DEADLOCK FALSE
PROPERTY TableFreed
