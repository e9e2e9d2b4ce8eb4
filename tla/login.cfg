SPECIFICATION FairSpec
CONSTANTS
    c1 = c1
    c2 = c2
    c3 = c3
    Callbacks = {c1, c2, c3}
    asha = asha
    ravi = ravi
    Users = {asha, ravi}
    Owner = asha
    Configured = {asha}
    None = None
    Issued = {0}
    NonceTTL = 0
    Day = 1
    MaxTime = 1
    MaxFaults = 1
INVARIANTS TokenOfItsUser LoginLostOnlyInRaces
PROPERTY TokenTakenEnds
