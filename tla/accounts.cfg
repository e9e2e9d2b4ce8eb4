SPECIFICATION Spec
CONSTANTS
    a0 = a0
    a1 = a1
    a2 = a2
    a3 = a3
    Calls = {a0, a1, a2, a3}
    asha = asha
    ravi = ravi
    Users = {asha, ravi}
    NameOf <- MCNameOf
    k1 = k1
    k2 = k2
    k3 = k3
    Keys = {k1, k2, k3}
    Prefix <- MCPrefix
    ConfiguredKeys <- MCConfigured
    Institutions = {"hdfc", "HDFC", "idfc"}
    Fold <- MCFold
    Numbers = {1, 2}
    NoNumber = 0
    None = None
    Dates = {1, 2}
    Earlier <- MCEarlier
    MaxFaults = 1
    Jobs <- MCJobs
SYMMETRY Symmetric
INVARIANTS KeyOpensItsUser OrphansOnlyByFailure ImportsAgree
PROPERTY BalanceByMember
