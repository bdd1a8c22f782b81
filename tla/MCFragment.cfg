SPECIFICATION Spec
CONSTANTS
    MaxUint32 = 1000
    MaxInt32 = 1000
    MaxUint64 = 1000000
    Second = 4
    Configs <- VideoAndAudio
    Samples <- Frames
    Setups <- EveryWriter
    FragmentDuration = 4
    IndexMemoryLimit = 99
    InitLen = 2
    FragmentLen = 2
    SidxLen = 2
    SidxRefLen = 1
    Tightening <- Tightened
    MaxReferences = 9
    MaxReferencedSize = 99
    MaxTime = 4
    Undescribable = 1
    ExplicitFlush = FALSE
    HeaderFaults = 0
    SeekFaults = 0
    MediaFaults = 0
INVARIANTS
    DecodeTimesRunOn
    HeaderStatesFirstSample
    ReferencesFindFragments
    IndexDescribesFragments
PROPERTIES
    ImplementsMovieFile
