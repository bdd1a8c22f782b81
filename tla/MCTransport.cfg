SPECIFICATION Spec
CONSTANTS
    Setups <- AllSetups
    Samples <- SamplesOf
    Second = 6
    TSTimescale = 4
    MuxDelay = 2
    ClockWrap = 16
    ADTSPayloadMax = 3
    MaxUnits = 4
    MaxRefusals = 1
    MaxInt32 = 4
    FrameHeader = 2
    FrameHeaderMax = 3
    FrameDuration = 2
    DefaultVideo = 1
    Foreign <- Streams
INVARIANTS
    StreamReadsBack
    PresentedTogether
    ArrivesInTime
    JoinDescribesItself
    FramesSurviveCutting
