SPECIFICATION Spec
CONSTANTS
    Setups <- Refusing
    Samples <- FewFrames
    CueSamples <- Texts
    Foreign <- NoLaces
    Second = 12
    Tick = 3
    ClusterDuration = 6
    MaxBlockTimecode = 2
    MaxTicks = 6
    InfoLen = 2
    TracksLen = 3
    Others <- Attachments
    HeaderLen = 1
    TimecodeLen = 1
    BlockLen = 1
    CuePointLen = 2
    SeekFlaps = FALSE
    MaxTime = 3
    HeaderFaults = 1
    MediaFaults = 1
INVARIANTS
    PositionsHold
    SizesHold
    CutFileReads
    FramesNeverRepeat
