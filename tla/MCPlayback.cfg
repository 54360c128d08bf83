SPECIFICATION FairSpec
CONSTANTS
    SourceLen = 6
    FrameLen = 2
    ChunkLens = {1, 2}
    Capacity = 1
    RampLen = 2
    ReadLens = {1}
    Targets = {3}
    Coarse = 1
    MaxFlips = 2
    MaxSeeks = 1

    
PROPERTIES
    CutInOrder
    StoppedTrackLeaves
    RampSettles
CHECK_DEADLOCK FALSE
