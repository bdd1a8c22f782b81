SPECIFICATION OrderedFairSpec
CONSTANTS
    MaxUint32 = 1000
    MaxInt32 = 1000
    MaxUint64 = 1000000
    Second = 4
    MovieTimescale = 4
    FtypLen = 2
    MdatHeaderLen = 2
    MdatLargeHeaderLen = 4
    Configs <- VideoAndAudio
    Setups <- FileOnly
    ChunkDuration = 4
    Samples <- PlainFrames
    MaxChunkOffset32 = 9
    MaxSamples = 3
    BeginFaults = 0
    MediaFaults = 1
    Refusals = 1
    Partial <- ShortWrites
INVARIANTS
    TypeOK
    MediaInDecodeOrder
PROPERTIES
    EveryCallReturns
