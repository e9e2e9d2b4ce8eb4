SPECIFICATION Spec
CONSTANTS
    c1 = c1
    c2 = c2
    c3 = c3
    d1 = d1
    d2 = d2
    n1 = n1
    n2 = n2
    None = None
    Calls <- ThreeCalls
    Existing <- TwoHeld
    Numbers <- TwoNumbers
    Amounts = {2}
    Tenures = {39997}
    Dates <- FirstOnly
    Ops = {"create", "mark", "renew"}
    MaxFaults = 1
SYMMETRY Symmetry
INVARIANTS RenewedHasSuccessor NumberOnce TermFollows MaturesOnTime
