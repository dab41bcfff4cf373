CONSTANTS
    NReqs = 7
    t1 = t1
    t2 = t2
    Tags = {t1, t2}
    NOTAG = NOTAG
    f1 = f1
    f2 = f2
    f3 = f3
    Fids = {f1, f2, f3}
    NOFID = NOFID
    None = None
    HasAuthFile = TRUE
    Client = {"tags", "fids", "version"}
    Env = {"quiethangup", "treeerrors", "partial", "reset"}
    Script <- SessionScript
SPECIFICATION FairSpec
INVARIANTS NoLeak
PROPERTIES VersionClears Answered ServeReturns
