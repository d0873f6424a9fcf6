CONSTANTS
    MaxSize = 17
    MaxForged = 5
    MaxLog = 4
    MaxPath = 3
SPECIFICATION ProofSpec
INVARIANTS ProofsComplete ProofsSound
PROPERTY Terminates
CHECK_DEADLOCK FALSE
