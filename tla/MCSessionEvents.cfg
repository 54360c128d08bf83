SPECIFICATION EventsSpec
CONSTANTS
    Conns = {c1, c2}
    NoSession = NoSession
    Producers = {p1, p2}
    MaxEvents = 4
    EventSize <- MCEventSize
    MaxQueue = 2
    MaxBytes = 4
    ChannelCap = 1
INVARIANTS
    EventsInv
    QueuedEventAccounted
    DeliveredOnce
CONSTRAINT OneSession
SYMMETRY EventsSymmetry
CHECK_DEADLOCK FALSE
