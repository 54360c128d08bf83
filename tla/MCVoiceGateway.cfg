SPECIFICATION FairSpec
CONSTANTS
    MaxAttempts = 1
    MaxRetries = 1
    PersistEvery = 2
    RtpMod = 1
INVARIANTS
    GatewayInv
    IdentifyIsFresh
    ReadyOnlyLive
PROPERTIES
    AnswerKeepsAlive
    SilentPeerDropped
    DaveWaitEnds
    RetriesBounded
CHECK_DEADLOCK FALSE
