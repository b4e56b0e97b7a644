CONSTANTS
    NoSegment = NoSegment
    Radix = 4
    FixedTypes <- MCFixedTypes
    Inputs <- MCFillInputs
    Interests <- MCInterests
    MaxRuns = 2
SPECIFICATION Spec
PROPERTY
    FillBytesAreIgnored
CHECK_DEADLOCK FALSE
