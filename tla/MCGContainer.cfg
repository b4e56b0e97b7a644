CONSTANTS
    NoSegment = NoSegment
    Absent = Absent
    BestDataSize = 20
    InputContents <- MCInputContents
    OtherContents <- MCOtherContents
    OtherFiles <- MCOtherFiles
    Rooms <- MCRooms
    MaxHeldBack = 1
    MaxChanges = 1
    SizeModulus = 16
    Offsets <- MCOffsets
    Lengths <- MCLengths
SPECIFICATION Spec
INVARIANTS
    TypeOK
    WrittenIsImageAndFiles
    WhatIsMissingIsReported
    AppendedFilesAreFound
    ParseIsExact
CHECK_DEADLOCK FALSE
