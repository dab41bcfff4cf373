CONSTANTS
    Calls <- Calls4
    NOTAG = 2
    None = None
    App = {"attach", "version", "walk", "clunk", "remove", "io"}
    Env = {}
    Parallel = 3
SPECIFICATION Spec
CHECK_DEADLOCK FALSE
INVARIANTS RightAnswer TagsHeld FidsAgree NoFidLeak StaysUp
