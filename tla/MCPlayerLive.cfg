SPECIFICATION FairSpec
CONSTANTS
    Workers = {w1, w2}
    Ops <- EndingOps
    MaxOps = 2
    MaxPlayers = 2
PROPERTIES
    EndedTrackLeaves
    AbandonedMonitorEnds
    RequestsEnd
CHECK_DEADLOCK FALSE
