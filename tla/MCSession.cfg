SPECIFICATION FairSpec
CONSTANTS
    Conns = {c1, c2, c3}
    NoSession = NoSession
INVARIANTS
    SessionInv
    HeldSessionIsUp
    NoSessionLost
PROPERTIES
    ShutdownIsFinal
    WindowRunsItsTime
    ImplementsLife
    WindowCloses
    CloseSettles
CHECK_DEADLOCK FALSE
