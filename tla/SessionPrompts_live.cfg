CONSTANTS
    Keys = {k1}
    k1 = k1
    Entries = {e1, e2}
    Clients = {c1}
    None = None
    Prompts = {p1}
    SessionOf <- OneSession
    Senders = {s1, s2}
    Resumes = {TRUE, FALSE}
    MaxSteps = 1
    MaxCrashes = 1
SPECIFICATION PromptsFairSpec
INVARIANTS PromotedOnce PromotedIsAnswered
PROPERTY WokenIsPromoted
