SPECIFICATION Spec
CONSTANTS
    MaxUint32 = 1000
    MaxInt32 = 1000
    MaxUint64 = 1000000
    Second = 4
    MovieTimescale = 4
    FtypLen = 2
    MdatHeaderLen = 2
    MdatLargeHeaderLen = 4
    Configs <- VideoAndAudio
    Setups <- FileOnly
    ChunkDuration = 4
    Samples <- PlainFrames
    MaxChunkOffset32 = 100
    MaxSamples = 2
    BeginFaults = 0
    MediaFaults = 1
    Refusals = 0
    Partial <- WholeWrites
INVARIANTS
    TablesAddressSamples
