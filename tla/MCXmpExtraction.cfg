CONSTANTS
    HeaderLength = 4
    Quote = "'"
    Alphabet <- MCAlphabet
    Pad = "="
    OtherChars <- MCOtherChars
    Pieces <- MCNoPieces
    MaxLength = 100
    Files <- MCFiles
    Type = "gdepth"
    BestDataSize <- MCBestDataSize
SPECIFICATION ExtractionSpec
INVARIANTS
    ExtractionTypeOK
    OnlyTheValueIsDecoded
    TrueMeansAllReceived
    OrdinaryValueIsExtracted
CHECK_DEADLOCK FALSE
