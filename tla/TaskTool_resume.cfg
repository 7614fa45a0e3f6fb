CONSTANTS
    Jobs = {j1}
    Calls = {c1, c2}
    CallModes = {"foreground", "background"}
    Promoters = {p1}
    None = None
SPECIFICATION TaskSpec
INVARIANT ResultIsOwn
CHECK_DEADLOCK FALSE
