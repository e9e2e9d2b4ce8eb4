SPECIFICATION Spec
CONSTANTS
    r1 = r1
    r2 = r2
    r3 = r3
    Requests = {r1, r2, r3}
    asha = asha
    ravi = ravi
    Users = {asha, ravi}
    t1 = t1
    t2 = t2
    t3 = t3
    Txns = {t1, t2, t3}
    Categories = {"insurance", "groceries"}
    Names = {"business", "Business"}
    None = None
    OwnerOf <- MCOwnerOf
    Counterparty <- MCCounterparty
    Fields <- MCFields
    LongWords <- MCLongWords
    FirstWord <- MCFirstWord
    Near <- MCNear
    SlugOf <- MCSlugOf
    HintLimit = 1
    Jobs <- MCJobs
    MaxFaults = 1
SYMMETRY Symmetric
INVARIANTS CorrectionRemembered NewestCorrectionHeard LabelRefusedOnlyInRaces
PROPERTY NothingErased
