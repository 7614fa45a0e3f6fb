CONSTANTS
    patch = patch
    elsewhere = elsewhere
    here = here
    there = there
    f1 = f1
    s1 = s1
    s2 = s2
    None = None
    NoRequest = NoRequest
    Requests = {c1, c2, patch}
    Fibers = {c1, c2, patch, elsewhere}
    Locations = {here, there}
    LocationOf <- MCLocationOf
    Keys <- MCKeys
    Files = {f1}
    Replies = {r1, r2}
    Sessions = {s1, s2}
    Actions = {"edit"}
    Initially <- MCFiles
    Plan <- MCPlan
    SessionOf <- MCSessionOf
    Configured <- MCConfigured
    ActionOf <- MCActionOf
SPECIFICATION ToolSpec
INVARIANTS PendingIsWaiting RejectSweeps AlwaysIsRemembered UpdatesLoseNothing
CONSTRAINT ThreeCalls
CHECK_DEADLOCK FALSE
SYMMETRY Symmetry
