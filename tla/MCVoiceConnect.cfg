SPECIFICATION FairSpec
CONSTANTS
    Socket = socket
    Rest = {r1, r2}
    Creds = {c1, c2, cx}
    BadCreds = {cx}
    NoVoice = none
    MaxOps = 3
    MaxPlayers = 2
INVARIANTS
    VoiceInv
    NewestCredentials
    ShutdownEndsGateways
PROPERTY
    VoiceRequestsEnd
CHECK_DEADLOCK FALSE
