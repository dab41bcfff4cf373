CONSTANTS
    NReqs = 6
    t1 = t1
    t2 = t2
    Tags = {t1, t2}
    NOTAG = NOTAG
    f1 = f1
    f2 = f2
    f3 = f3
    Fids = {f1, f2}
    NOFID = NOFID
    None = None
    HasAuthFile = FALSE
    Client = {"version"}
    Env = {"blocking", "blockingopen", "oversize"}
    Script <- PipelinedScript
SPECIFICATION FairSpec
CHECK_DEADLOCK FALSE
INVARIANTS TypeOK TagOwned ReplyQueued HandleOwned
PROPERTIES ReplyExpected ClunkHandled
