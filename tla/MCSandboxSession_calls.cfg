CONSTANTS
    Missing = Missing
    None = None
    Actions <- AllActions
    Of <- MCOf
    Watch <- MCWatch
    Guard <- MCGuard
    Grant <- MCGrant
    Tools <- AllTools
    Queries = {}
    Rules <- MCRules
    Zone <- MCZone
    Advisors = {"composite", "loop", "sidecar"}
    Tightenings <- MCTightenings
    Opened <- MCOpened
    Approvable <- MCApprovable
    Announcements <- MCAnnouncements
    Crossable <- MCCrossable
    SidecarAnswers = {Missing, "deny"}
    Pinning <- MCPinning
    LeaseTime = 1
    MaxInFlight = 2
    MaxAttempts = 3
    MaxEvents = 2
    MaxSteps = 4
SPECIFICATION Spec
INVARIANTS StoppedInTime ProtectedWriteApproved PinnedToolUsable
PROPERTY AuthorityMovesForward
CHECK_DEADLOCK FALSE
