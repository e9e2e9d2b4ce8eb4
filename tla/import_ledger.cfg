SPECIFICATION Spec
CONSTANTS
    r1 = r1
    r2 = r2
    Runs <- TwoRuns
    Statements <- Overlapping
    Modes = {"api", "cli"}
    NoBalance = NoBalance
    Cancellable = FALSE
    MaxFaults = 1
    MaxCrashes = 1
    MaxPatches = 0
SYMMETRY Symmetry
INVARIANTS RecordedOnce RowsAccounted VerdictSound OrphansExplained BalanceCovers
PROPERTIES LedgerSpec
