\* spawn_link, exits and trapping on two threads: three generations.
CONSTANTS
    None = None
    r = r
    a1 = a1
    a2 = a2
    Actor = {r, a1, a2}
    Root = {r}
    Thread = {t1, t2}
    Calls = {"spawn_link", "send_kill", "trap"}
    MaxOps <- OneEach
SYMMETRY Symmetry
SPECIFICATION Spec
INVARIANTS TypeOK  FailureIsTold SpawnLinkSupervises
CHECK_DEADLOCK FALSE
