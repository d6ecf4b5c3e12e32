SPECIFICATION FairSpec
CONSTANTS
    c1 = c1
    c2 = c2
    Client = {c1, c2}
    Host = host
    NoSocket = NoSocket
    Plans <- AllPlans
INVARIANTS
    IInvSync
    SyncedMeansComplete
    HostWillKnow
    ConnectedHoldsSocket
PROPERTIES
    PresenceSurvivesOthers
    Converges
CHECK_DEADLOCK FALSE
