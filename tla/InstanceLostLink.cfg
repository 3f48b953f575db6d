\* link() to an actor that is about to fail.
CONSTANTS
    None = None
    r = r
    a1 = a1
    a2 = a2
    Actor = {r, a1}
    Root = {r}
    Thread = {t1}
    Calls = {"spawn", "link", "send"}
    MaxOps <- TwoEach

SPECIFICATION Spec
INVARIANT LinkSupervises
CHECK_DEADLOCK FALSE
