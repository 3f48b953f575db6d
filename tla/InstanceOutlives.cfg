\* A parent that exits normally.
CONSTANTS
    None = None
    r = r
    a1 = a1
    a2 = a2
    Actor = {r, a1}
    Root = {r}
    Thread = {t1, t2}
    Calls = {"spawn_link"}
    MaxOps <- OneEach

SPECIFICATION Spec
INVARIANT LifetimeTied
CHECK_DEADLOCK FALSE
