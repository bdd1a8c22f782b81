SPECIFICATION Spec
CONSTANTS
    Jobs <- AllJobs
    Second = 12
INVARIANTS
    CopyHoldsItsRange
    MergedInOrder
    TextKeepsPlace
    PresentationKept
