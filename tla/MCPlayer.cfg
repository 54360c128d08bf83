SPECIFICATION Spec
CONSTANTS
    Workers = {w1, w2}
    Ops <- ApiOps
    MaxOps = 3
    MaxPlayers = 2
INVARIANTS
    PlayerInv
    ShownTrackIsMonitored
    OnlyUndecodedGhosts
    TakenOutOnce
    EndAnnounced
    ShutdownReachesAll
SYMMETRY WorkerSymmetry
CHECK_DEADLOCK FALSE
