CONSTANTS
    Keys = {k1}
    Entries = {e1, e2}
    Clients = {c1, c2}
    Wakers = {w1}
    None = None
    Fallible = {e1, w1, c1}
SPECIFICATION ExecFairSpec
INVARIANTS QuiescentIdle BusyUnlessHushed OneOwner NobodyOrphaned NoLostWake
PROPERTIES BusyEnds StoppedStaysStopped ServiceProvided WaitersAnswered
