SPECIFICATION FairSpec
CONSTANTS
    q1 = q1
    q2 = q2
    q3 = q3
    a = a
    b = b
    Requests <- TwoRequests
    Symbols <- TwoSymbols
    Portfolios <- Sold
    Jobs = {"equity"}
    TTL = 1
    MaxTime = 1
    MaxFaults = 1
    FirstUse = TRUE
    TokenExpires = FALSE
INVARIANTS EquityFresh SyncsWhole
PROPERTIES EveryRequestEnds
