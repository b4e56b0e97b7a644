CONSTANTS
    NoSegment = NoSegment
    BestDataSize <- MCBestDataSize
    PrimaryFiles <- MCPrimaryFiles
    DepthFiles <- MCDepthFiles
    MaxCut = 1
    Rooms <- MCRooms
    MpfSegmentLength = 10
    AmpfLength = 2
    MaxExtractions = 2
SPECIFICATION ExtractionSpec
INVARIANTS
    ExtractionTypeOK
    ImagesAreComplete
    JfifIsReplaced
    PrimaryLengthIsRight
    FailureHasACause
PROPERTIES
    ExtractedIsTheDepthImage
    FailureLosesNothing
CHECK_DEADLOCK FALSE
