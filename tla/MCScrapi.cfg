CONSTANTS
    s1 = s1
    s2 = s2
    c1 = c1
    c2 = c2
    Servers = {s1, s2}
    Clients = {c1, c2}
    ApiKey <- Callers
    Requests <- Posted
    Configs <- Deployments
    Window = 2
    Limit = 2
    MaxWait = 1
    Delays = {0, 1}
    MaxTime = 3
    MaxPosts = 3
    MaxRestarts = 1
SPECIFICATION FairSpec
INVARIANTS LogAndIndexAgree ReceiptBindsStatement ReceiptsVerify SingleHistory RateBound
PROPERTY PublishEnds
CHECK_DEADLOCK FALSE
