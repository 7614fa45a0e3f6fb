CONSTANTS
    p4 = p4
    Processes = {p1, p2, p3, p4}
    Users <- MCUsers
    MaxDeaths = 2
    Nobody = Nobody
SPECIFICATION FairSpec
INVARIANT HeldByOne
PROPERTY NotWedged
