CONSTANTS
    NoSegment = NoSegment
    Radix = 4
    FixedTypes <- MCFixedTypes
    Inputs <- MCInputs
    Interests <- MCInterests
    MaxRuns = 2
SPECIFICATION Spec
INVARIANTS
    TypeOK
    SegmentInWindows
    PrematureEndIsReal
PROPERTIES
    ImplementsSegmentation
    RunFinishes
CHECK_DEADLOCK FALSE
