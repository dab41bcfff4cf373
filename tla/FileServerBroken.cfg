CONSTANTS
    NReqs = 2
    t1 = t1
    t2 = t2
    Tags = {t1, t2}
    NOTAG = NOTAG
    f1 = f1
    f2 = f2
    f3 = f3
    Fids = {f1, f2}
    NOFID = NOFID
    None = None
    HasAuthFile = FALSE
    Client = {"tags", "fids", "version"}
    Env = {"hangup"}
    Script <- BrokenScript
SPECIFICATION FairSpec
PROPERTIES ServeReturns
CHECK_DEADLOCK FALSE
