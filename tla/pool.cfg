SPECIFICATION FairSpec
CONSTANTS
    c1 = c1
    c2 = c2
    c3 = c3
    c4 = c4
    u1 = u1
    u2 = u2
    Callers <- FourCallers
    Users <- TwoUsers
    UserOf <- Household
    None = None
    Error = Error
    MaxFailures = 2
INVARIANTS OneAgent FailuresAreOwn
PROPERTIES BuildOnceSpec EveryMessageAnswered
