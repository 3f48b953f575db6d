\* link between unrelated actors, on two threads.
CONSTANTS
    None = None
    r = r
    a1 = a1
    a2 = a2
    Actor = {r, a1, a2}
    Root = {r}
    Thread = {t1, t2}
    Calls = {"spawn", "link", "send"}
    MaxOps <- RootTwo
SYMMETRY Symmetry
SPECIFICATION Spec
INVARIANTS LinkIsMutual  
CHECK_DEADLOCK FALSE
