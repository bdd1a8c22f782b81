SPECIFICATION Spec
CONSTANTS
    Setups <- AllSetups
    Samples <- SamplesOf
    MaxSamples = 4
    MaxRefusals = 1
    SegmentSize = 2
    MaxSegments = 3
    ShortBlock = 4
    RiffMax = 130
    PacketFrames = 2
INVARIANTS
    PagesHold
    OggReadsBack
    WAVReadsBack
    FramesReadBack
