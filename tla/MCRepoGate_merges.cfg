SPECIFICATION Spec
CONSTANTS
    Paths <- MCPaths
    Policy <- MCPolicy
    Nobody = Nobody
    Branches = {b1, b2}
    Actors = {"devin"}
    InitTrees <- MCInitTrees
    Edits <- MCEdits
    Faults = {"none"}
    MaxPushed = 4
    MaxCommits = 5
    MaxReceipts = 2
SYMMETRY MCSymmetry
INVARIANT
    LinksVerify
PROPERTIES
    MergedWithinScope
    GuardKept
    PoisonNotExecuted
    CleanReceiptStays
CHECK_DEADLOCK FALSE
