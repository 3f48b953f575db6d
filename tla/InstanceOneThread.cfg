\* One executor thread, every API call.
CONSTANTS
    None = None
    r = r
    a1 = a1
    a2 = a2
    Actor = {r, a1, a2}
    Root = {r}
    Thread = {t1}
    Calls = {"spawn_link", "spawn", "link", "send", "send_normal", "send_kill", "trap", "observe_links"}
    MaxOps <- OneEach
SYMMETRY Symmetry
SPECIFICATION Spec
INVARIANT NoDangling
CHECK_DEADLOCK FALSE
