CONSTANTS
    Sessions = {s1}
    Loops = {l1, l2, l3}
    Shells = {}
    Cancels = {x1}
    Impatient = {}
    None = None
SPECIFICATION RunSpec
SYMMETRY RunSymmetry
INVARIANT RunningIsBusy
CHECK_DEADLOCK FALSE
