CONSTANTS
    Calls <- Calls2
    NOTAG = 3
    None = None
    App = {"attach"}
    Env = {"flushall", "racing"}
    Parallel = 2
SPECIFICATION Spec
CHECK_DEADLOCK FALSE
INVARIANTS StaysUp
