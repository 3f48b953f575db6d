\* Liveness: a parent and its child on two threads.
CONSTANTS
    None = None
    r = r
    a1 = a1
    a2 = a2
    Actor = {r, a1}
    Root = {r}
    Thread = {t1, t2}
    Calls = {"spawn_link", "send_kill", "trap"}
    MaxOps <- OneEach

SPECIFICATION FairSpec
PROPERTIES FailurePropagates AllReleased
CHECK_DEADLOCK FALSE
