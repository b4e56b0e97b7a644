CONSTANTS
    HeaderLength = 4
    Quote = Quote
    Families <- MCFamilies
    Captures <- MCCaptures
SPECIFICATION Spec
INVARIANTS
    TypeOK
    ImagesAreSpans
    AppleImagesHoldTheirXmp
    LimitEndsTheScan
    InfosLieInTheirImages
    AppleImagesAreFirst
    XmpRangesHoldTheValue
CHECK_DEADLOCK FALSE
