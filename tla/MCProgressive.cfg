SPECIFICATION Spec
CONSTANTS
    MaxUint32 = 1000
    MaxInt32 = 1000
    MaxUint64 = 1000000
    Second = 4
    MovieTimescale = 4
    FtypLen = 2
    MdatHeaderLen = 2
    MdatLargeHeaderLen = 4
    Configs <- VideoAndAudio
    Setups <- FileOrSocket
    ChunkDuration = 4
    Samples <- Frames
    MaxChunkOffset32 = 10
    MaxSamples = 2
    BeginFaults = 1
    MediaFaults = 0
    Refusals = 1
    Partial <- WholeWrites
INVARIANTS
    MediaWithinLimit
    OffsetsNeverWrap
    EditReachesLastFrame
PROPERTIES
    ImplementsMovieFile
