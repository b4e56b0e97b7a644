CONSTANTS
    HeaderLength = 4
    Quote = "'"
    Alphabet <- MCAlphabet
    Pad = "="
    OtherChars <- MCOtherChars
    Pieces <- MCNoPieces
    MaxLength = 100
    Files <- MCFiles
    Type = "gdepth"
    BestDataSize <- MCBestDataSize
SPECIFICATION ExtractionSpec
INVARIANTS
    ExtractableIsExtracted
CHECK_DEADLOCK FALSE
