SPECIFICATION FairSpec
CONSTANTS
    r1 = r1
    r2 = r2
    Runs <- TwoRuns
    Statements <- Repeating
    Modes = {"api", "cli"}
    NoBalance = NoBalance
    Cancellable = TRUE
    MaxFaults = 0
    MaxCrashes = 1
    MaxPatches = 1
INVARIANTS OpenRunAlive
PROPERTIES EveryRunClosed
