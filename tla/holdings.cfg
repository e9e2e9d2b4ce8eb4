SPECIFICATION Spec
CONSTANTS
    q1 = q1
    q2 = q2
    q3 = q3
    a = a
    b = b
    Requests <- ThreeRequests
    Symbols <- TwoSymbols
    Portfolios <- Traded
    Jobs = {"force"}
    TTL = 1
    MaxTime = 0
    MaxFaults = 0
    FirstUse = FALSE
    TokenExpires = TRUE
SYMMETRY Symmetry
INVARIANTS MixOnlyInRaces BalanceOfHoldings
