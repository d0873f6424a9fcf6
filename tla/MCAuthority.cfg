SPECIFICATION Spec
CONSTANTS
    None = None
    Operations <- MCOperations
    CapabilityOffers <- MCCapabilityOffers
    Ttls = {1}
    Keys = {"owner", "agent"}
    MandateTerms <- MCMandateTerms
    Spends = {1, 2}
    MaxTokens = 3
    MaxGrants = 3
    MaxReceipts = 1
    MaxTime = 1
INVARIANTS
    DelegationsUsable
    Attenuation
    ChildWithinParent
CHECK_DEADLOCK FALSE
