SPECIFICATION Spec
CONSTANTS
    MaxAttempts = 2
    MaxRetries = 1
    PersistEvery = 2
    RtpMod = 4
PROPERTY
    SequenceContinues
CHECK_DEADLOCK FALSE
