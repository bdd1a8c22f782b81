SPECIFICATION Spec
CONSTANTS
    MaxUint32 = 2
    MaxInt32 = 1000
    MaxUint64 = 1000000
    Second = 4
    Configs <- VideoAndAudio
    Samples <- KeyFrames
    Setups <- Indexers
    FragmentDuration = 4
    IndexMemoryLimit = 9
    InitLen = 2
    FragmentLen = 2
    SidxLen = 2
    SidxRefLen = 1
    Tightening <- AsStated
    MaxReferences = 3
    MaxReferencedSize = 9
    MaxTime = 3
    Undescribable = 0
    ExplicitFlush = TRUE
    HeaderFaults = 1
    SeekFaults = 1
    MediaFaults = 1
INVARIANTS
    HeldWithinLimit
    FragmentsNeverGoBack
PROPERTIES
    RetriesLoseNothing
