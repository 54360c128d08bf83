SPECIFICATION Spec
CONSTANTS
    TickMs = 500
    MixerTickMs = 20
    UpdateMs = 5000
    StuckMs = 10000
    MaxMs = 20000
INVARIANT UpdatesOnTime
CHECK_DEADLOCK FALSE
