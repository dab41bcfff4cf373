CONSTANTS
    Calls <- Calls4
    NOTAG = 3
    None = None
    App = {"attach"}
    Env = {"flushall", "stop", "breaks"}
    Parallel = 2
SPECIFICATION FairSpec
CHECK_DEADLOCK FALSE
PROPERTIES Answered FlushUnblocks FlushAllReturns StopReturns
