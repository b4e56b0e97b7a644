CONSTANTS
    Radix = 4
    FixedTypes <- MCFixedTypes
    Data <- MCData
    Texts <- MCTexts
    GuidSize = 2
    MaxData = 3
SPECIFICATION Spec
INVARIANTS
    SizeIsSet
CHECK_DEADLOCK FALSE
