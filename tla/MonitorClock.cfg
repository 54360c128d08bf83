SPECIFICATION Spec
CONSTANTS
    TickMs = 500
    MixerTickMs = 20
    UpdateMs = 60
    StuckMs = 1500
    MaxMs = 6500
INVARIANTS
    ClockInv
    StuckIsDeserved
    StuckIsCaught
CHECK_DEADLOCK FALSE
