SPECIFICATION Spec
CONSTANTS
    SourceLen = 6
    FrameLen = 2
    ChunkLens = {1, 2}
    Capacity = 1
    RampLen = 2
    ReadLens = {1}
    Targets = {3}
    Coarse = 1
    MaxFlips = 2
    MaxSeeks = 1
INVARIANT PlayingIsAudible
CHECK_DEADLOCK FALSE
