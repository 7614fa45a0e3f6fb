CONSTANTS
    Keys = {k1}
    k1 = k1
    Entries = {e1, e2}
    Clients = {}
    None = None
    Prompts = {p1,p2,p3}
    SessionOf <- OneSession
    Senders = {s1}
    Resumes = {TRUE}
    MaxSteps = 2
    MaxCrashes = 1
SPECIFICATION PromptsSpec
SYMMETRY Symmetry
INVARIANTS PromptsTypeOK NoStrandedPrompt QueueIsFifo SteerOvertakenOnce
