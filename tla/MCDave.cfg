SPECIFICATION Spec
CONSTANTS
    Tids = {0, 1}
    NoTid = 99
    Senders = {x, y}
    NoSender = none
    Users = {u}
    MaxPending = 1
    MaxKeys = 2
INVARIANTS
    DaveInv
PROPERTY
    ImplementsGate
CHECK_DEADLOCK FALSE
