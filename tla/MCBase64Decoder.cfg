CONSTANTS
    Alphabet <- MCAlphabet
    Pad = "="
    OtherChars <- MCOtherChars
    Pieces <- MCPieces
    MaxLength = 9
SPECIFICATION Spec
INVARIANTS
    TypeOK
    GroupsAreDecoded
    ValidStreamIsAccepted
    AcceptedStreamIsComplete
CHECK_DEADLOCK FALSE
