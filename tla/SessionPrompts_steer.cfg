CONSTANTS
    Keys = {k1}
    k1 = k1
    Entries = {e1, e2}
    Clients = {}
    None = None
    Prompts = {p1}
    SessionOf <- OneSession
    Senders = {s1}
    Resumes = {TRUE, FALSE}
    MaxSteps = 1
    MaxCrashes = 0
SPECIFICATION PromptsSpec
SYMMETRY Symmetry
INVARIANTS SteerNeverStrands
