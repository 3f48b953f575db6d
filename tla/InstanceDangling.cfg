\* Two threads: a send races with the exit of its target.
CONSTANTS
    None = None
    r = r
    a1 = a1
    a2 = a2
    Actor = {r, a1}
    Root = {r}
    Thread = {t1, t2}
    Calls = {"spawn", "send"}
    MaxOps <- OneEach

SPECIFICATION Spec
INVARIANT NoDangling
CHECK_DEADLOCK FALSE
