CONSTANTS
    Calls <- Calls4
    NOTAG = 1
    None = None
    App = {"attach", "version"}
    Env = {"racing"}
    Parallel = 3
SPECIFICATION Spec
CHECK_DEADLOCK FALSE
PROPERTY TagPoolUsed
