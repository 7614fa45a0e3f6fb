CONSTANTS
    Jobs = {j1}
    Calls = {c1, c2}
    CallModes = {"foreground", "background"}
    Promoters = {p1}
    None = None
SPECIFICATION TaskSpec
SYMMETRY Symmetry
INVARIANTS WorkInOrder CompletedIsComplete OwnResult DeliveredOnce
CHECK_DEADLOCK FALSE
