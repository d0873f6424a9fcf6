CONSTANTS
    r1 = r1
    r2 = r2
    t1 = t1
    t2 = t2
    t3 = t3
    b1 = b1
    b2 = b2
    Replicas = {r1, r2}
    Threads = {t1, t2, t3}
    Host <- HostThree
    NoThread = NoThread
    Bodies = {b1, b2}
    MaxRows = 3
    MaxPublished = 0
    MaxCrashes = 1
    MaxBadCommits = 1
SPECIFICATION FairSpec
INVARIANTS NoForkInAnyView AckedIsDurable
PROPERTIES ImplementsLog StoresOwnRow WriteLockReleased
CHECK_DEADLOCK FALSE
