CONSTANTS
    a = a
    b = b
    w1 = w1
    w2 = w2
    w3 = w3
    Witnesses = {w1, w2, w3}
    Faulty = {w3}
    Required = 3
    MaxRestarts = 1
    Entries = {a, b}
    None = None
    Checkpoints <- ForkingLog
SPECIFICATION WitnessSpec
INVARIANTS QuorumNoFork SteadyIsLinear
SYMMETRY CorrectAlike
CHECK_DEADLOCK FALSE
