CONSTANTS
    Sessions = {s1}
    Loops = {l1, l2}
    Shells = {h1}
    Cancels = {x1, x2}
    Impatient = {l1, h1, x1}
    None = None
SPECIFICATION RunFairSpec
INVARIANTS RunTypeOK WorkIsExclusive NobodyStranded WorkIsReachable QuietShowsIdle
PROPERTY CallsReturn
CHECK_DEADLOCK FALSE
