CONSTANTS
    r1 = r1
    r2 = r2
    t1 = t1
    t2 = t2
    t3 = t3
    b1 = b1
    b2 = b2
    Replicas = {r1, r2}
    Threads = {t1, t2, t3}
    Host <- HostThree
    NoThread = NoThread
    Bodies = {b1}
    MaxRows = 2
    MaxPublished = 1
    MaxCrashes = 1
    MaxBadCommits = 0
SPECIFICATION Spec
INVARIANT PublishedFromHistory
CHECK_DEADLOCK FALSE
