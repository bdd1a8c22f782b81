SPECIFICATION Spec
CONSTANTS
    Size = 7
    MaxRoom = 9
    MaxBlock = 8
    Calls <- EveryCall
    MayFail = TRUE
INVARIANTS
    IndexInserted
    NothingOverwrittenUnread
    FailureSparesOtherBlocks
CHECK_DEADLOCK FALSE
