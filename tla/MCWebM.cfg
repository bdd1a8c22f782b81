SPECIFICATION Spec
CONSTANTS
    Setups <- EveryMode
    Samples <- Frames
    CueSamples <- Texts
    Foreign <- Laces
    Second = 12
    Tick = 3
    ClusterDuration = 6
    MaxBlockTimecode = 2
    MaxTicks = 9
    InfoLen = 2
    TracksLen = 3
    Others <- Attachments
    HeaderLen = 1
    TimecodeLen = 1
    BlockLen = 1
    CuePointLen = 2
    SeekFlaps = FALSE
    MaxTime = 3
    HeaderFaults = 1
    MediaFaults = 0
INVARIANTS
    SamplesReadBack
    CuesAreWhole
    PresentedAsEdited
PROPERTIES
    ImplementsMovieFile
